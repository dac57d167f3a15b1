--------------------------- MODULE CandleFeedProofs ---------------------------
(***************************************************************************)
(* What the candle chart shows, for any limits and any number of minutes,  *)
(* trades and calls.  The argument: only the call that the panel's         *)
(* controller holds is heard, it was sent after the call heard before it   *)
(* was merged, so its range ends no earlier; and of a range that ends at   *)
(* minute e, every minute before e is closed, so that two answers cannot   *)
(* disagree about it.                                                      *)
(***************************************************************************)
EXTENDS CandleFeed, FiniteSetTheorems, TLAPS

Minutes == 0..MaxMinute

IsCandles(cs) == DOMAIN cs \subseteq Minutes /\ cs \in [DOMAIN cs -> Nat]

IsRequest(r) ==
  /\ r \in [id : 1..loads, limit : {CandleLimit, PollLimit}, replaceSeries : BOOLEAN,
            end : {None} \cup 1..minute, answer : {None} \cup {r.answer}]
  /\ r.answer # None => IsCandles(r.answer)

TypeOK ==
  /\ minute \in 1..MaxMinute
  /\ trades \in [Minutes -> Nat]
  /\ panel \in {"importing", "loading", "polling", "failed", "gone"}
  /\ loads \in 0..MaxLoads
  /\ \A r \in requests : IsRequest(r)
  /\ current \in {None} \cup 1..loads
  /\ IsCandles(candles) /\ IsCandles(series)
  /\ isLoading \in BOOLEAN /\ error \in BOOLEAN
  /\ upTo \in 0..minute
  /\ paused \in BOOLEAN

\* Calls are heard, and candles kept, only while the panel loads or polls.
PanelHolds ==
  /\ panel \notin {"loading", "polling"} => current = None
  /\ panel # "polling" => candles = Empty /\ series = Empty
  /\ panel = "polling" => candles # Empty

\* The call that is heard is the one the panel waits for; its range ends no
\* earlier than what was heard before, and its answer is no older than what is drawn.
IsHeardCall(r) ==
  /\ r.replaceSeries <=> panel = "loading"
  /\ r.limit = IF r.replaceSeries THEN CandleLimit ELSE PollLimit
  /\ r.end # None => upTo <= r.end
  /\ r.answer # None =>
       \A m \in DOMAIN series \cap DOMAIN r.answer : series[m] <= r.answer[m]

HeardCall == \A r \in requests : r.id = current => IsHeardCall(r)

\* An answer counts trades of its range, and all those of the minutes closed
\* when the range was formed.
IsTrue(r) ==
  /\ r.end # None
  /\ \A m \in DOMAIN r.answer :
       m \in CandleRange(r.limit, r.end) /\ 0 < r.answer[m] /\ r.answer[m] <= trades[m]
  /\ \A m \in CandleRange(r.limit, r.end) \cap Minutes :
       m < r.end /\ trades[m] > 0 => m \in DOMAIN r.answer /\ r.answer[m] = trades[m]

AnswersAreTrue == \A r \in requests : r.answer # None => IsTrue(r)

\* What is drawn was asked for, and counts trades that were made.
DrawnIsTrue ==
  \A m \in DOMAIN series : m <= upTo /\ 0 < series[m] /\ series[m] <= trades[m]

\* Of the closed minutes that the next poll may ask for again, the panel keeps
\* the candles as they will stay.
RecentAreKept ==
  panel = "polling" =>
    \A m \in Minutes : upTo - PollLimit < m /\ m < upTo /\ trades[m] > 0 =>
      m \in DOMAIN candles /\ candles[m] = trades[m]

FeedInv ==
  /\ TypeOK /\ PanelHolds /\ HeardCall /\ AnswersAreTrue
  /\ DrawnIsTrue /\ RecentAreKept /\ SeriesShowsCandles

\* While the polls did not pause, every minute before the last one asked for is final.
FinalBefore ==
  panel = "polling" /\ ~paused =>
    \A m \in DOMAIN series : m < upTo => series[m] = trades[m]

-----------------------------------------------------------------------------
(* Lists of candles. *)

LEMMA EmptyHasNone ==
  ASSUME NEW cs, IsCandles(cs)
  PROVE  cs = Empty <=> DOMAIN cs = {}
  BY DEF IsCandles, Empty

LEMMA EmptyIsCandles == IsCandles(Empty) /\ DOMAIN Empty = {}
  BY DEF IsCandles, Empty

LEMMA RestrictIsCandles ==
  ASSUME NEW cs, IsCandles(cs), NEW S \in SUBSET DOMAIN cs
  PROVE  /\ IsCandles(Restrict(cs, S)) /\ DOMAIN Restrict(cs, S) = S
         /\ \A m \in S : Restrict(cs, S)[m] = cs[m]
  BY DEF IsCandles, Restrict

\* A set of naturals that is not empty has a least element.
LEMMA LeastMinute ==
  ASSUME NEW T \in SUBSET Nat, T # {}
  PROVE  \E x \in T : \A y \in T : x <= y
<1> DEFINE R == OpToRel(<, Nat)
<1>1. R = {ss \in Nat \X Nat : ss[1] < ss[2]}
  BY DEF OpToRel
<1>2. IsWellFoundedOn(R, Nat)
  BY NatLessThanWellFounded
<1> HIDE DEF R
<1>3. PICK x \in T : \A y \in T : <<y, x>> \notin R
  BY <1>2, WFMin
<1>4. \A y \in T : ~(y < x)
  BY <1>1, <1>3
<1>5. QED
  BY <1>4

LEMMA MaxMinuteType == MaxMinute \in Nat \ {0}
  BY FeedBoundsAssumption

\* The newest candle of a list is one of them, and none is later.
LEMMA NewestIsLast ==
  ASSUME NEW cs, IsCandles(cs), cs # Empty
  PROVE  Newest(cs) \in DOMAIN cs /\ \A m \in DOMAIN cs : m <= Newest(cs)
<1> DEFINE T == {n \in Nat : MaxMinute - n \in DOMAIN cs}
<1>1. DOMAIN cs \subseteq 0..MaxMinute /\ MaxMinute \in Nat
  BY MaxMinuteType DEF IsCandles, Minutes
<1>2. PICK k \in DOMAIN cs : TRUE
  BY EmptyHasNone
<1>3. MaxMinute - k \in T
  BY <1>1, <1>2
<1> HIDE DEF T
<1>4. PICK x \in T : \A y \in T : x <= y
  <2>1. T \in SUBSET Nat /\ T # {}
    BY <1>3 DEF T
  <2>2. QED
    BY <2>1, LeastMinute
<1> DEFINE last == MaxMinute - x
<1>5. last \in DOMAIN cs
  BY <1>4 DEF T
<1>6. ASSUME NEW m \in DOMAIN cs
      PROVE  last >= m
  <2>1. MaxMinute - m \in T
    BY <1>1 DEF T
  <2>2. x <= MaxMinute - m /\ x \in Nat
    BY <2>1, <1>4 DEF T
  <2>3. QED
    BY <2>2, <1>1
<1> HIDE DEF last
<1>7. \E y \in DOMAIN cs : \A m \in DOMAIN cs : y >= m
  BY <1>5, <1>6
<1>8. Newest(cs) \in DOMAIN cs /\ \A m \in DOMAIN cs : Newest(cs) >= m
  BY <1>7 DEF Newest, Max
<1>9. QED
  BY <1>8, <1>1

\* slice(-n) keeps the latest candles: those less than n minutes before the
\* last one, and no candle that is older than one it drops.
LEMMA LastOfKeeps ==
  ASSUME NEW cs, IsCandles(cs), NEW n \in Nat \ {0}
  PROVE  /\ IsCandles(LastOf(cs, n)) /\ DOMAIN LastOf(cs, n) \subseteq DOMAIN cs
         /\ \A m \in DOMAIN LastOf(cs, n) : LastOf(cs, n)[m] = cs[m]
         /\ \A m \in DOMAIN cs \ DOMAIN LastOf(cs, n) : \A k \in DOMAIN LastOf(cs, n) : m < k
         /\ \A u \in Nat : (\A k \in DOMAIN cs : k <= u) =>
              \A m \in DOMAIN cs : u - n < m => m \in DOMAIN LastOf(cs, n)
         /\ cs # Empty => LastOf(cs, n) # Empty
<1> DEFINE D == DOMAIN cs
           Above(m) == {k \in D : k > m}
           K == {m \in D : Cardinality(Above(m)) < n}
<1>1. D \subseteq 0..MaxMinute /\ MaxMinute \in Nat /\ IsFiniteSet(D)
  <2>1. D \subseteq 0..MaxMinute /\ MaxMinute \in Nat
    BY MaxMinuteType DEF IsCandles, Minutes
  <2>2. IsFiniteSet(0..MaxMinute)
    BY <2>1, FS_Interval
  <2>3. QED
    BY <2>1, <2>2, FS_Subset
<1>2. \A m \in Int : IsFiniteSet(Above(m)) /\ Cardinality(Above(m)) \in Nat
  BY <1>1, FS_Subset, FS_CardinalityType
<1>3. LastOf(cs, n) = Restrict(cs, K)
  BY DEF LastOf
<1>4. /\ IsCandles(Restrict(cs, K)) /\ DOMAIN Restrict(cs, K) = K
      /\ \A m \in K : Restrict(cs, K)[m] = cs[m]
  <2>1. K \in SUBSET DOMAIN cs
    OBVIOUS
  <2> HIDE DEF K
  <2>2. QED
    BY <2>1, RestrictIsCandles
<1>5. ASSUME NEW m \in D \ K, NEW k \in K
      PROVE  m < k
  <2>1. m \in Int /\ k \in Int
    BY <1>1
  <2>2. Cardinality(Above(m)) >= n /\ Cardinality(Above(k)) < n
    BY <2>1, <1>2
  <2>3. ASSUME k <= m PROVE FALSE
    <3>1. Above(m) \in SUBSET Above(k)
      BY <2>1, <2>3, <1>1
    <3>2. Cardinality(Above(m)) <= Cardinality(Above(k))
      BY <3>1, <2>1, <1>2, FS_Subset
    <3>3. QED
      BY <3>2, <2>2, <2>1, <1>2
  <2>4. QED
    BY <2>3, <2>1
<1>6. ASSUME NEW u \in Nat, \A k \in D : k <= u, NEW m \in D, u - n < m
      PROVE  m \in K
  <2>1. m \in Int /\ Above(m) \in SUBSET ((m + 1) .. u)
    BY <1>1, <1>6
  <2>2. /\ IsFiniteSet((m + 1) .. u)
        /\ Cardinality((m + 1) .. u) = IF m + 1 > u THEN 0 ELSE u - (m + 1) + 1
    BY <2>1, FS_Interval
  <2>3. Cardinality(Above(m)) <= Cardinality((m + 1) .. u)
    BY <2>1, <2>2, FS_Subset
  <2> DEFINE above == Cardinality(Above(m))
             within == Cardinality((m + 1) .. u)
  <2>4. above \in Nat /\ above <= within
    BY <2>1, <2>3, <1>2
  <2>5. within < n
    <3> HIDE DEF Above
    <3>1. u \in Int /\ m \in Int /\ u < m + n /\ n \in Nat /\ n > 0
      BY <2>1, <1>6
    <3>2. within = IF m + 1 > u THEN 0 ELSE u - (m + 1) + 1
      BY <2>2
    <3> HIDE DEF within
    <3>3. QED
      BY <3>1, <3>2
  <2>6. within \in Int
    BY <2>2, FS_CardinalityType
  <2> HIDE DEF above, within
  <2>7. above < n
    BY <2>4, <2>5, <2>6
  <2>8. QED
    BY <2>7 DEF above
<1>7. cs # Empty => K # {}
  <2>1. SUFFICES ASSUME cs # Empty PROVE K # {}
    OBVIOUS
  <2>2. Newest(cs) \in D /\ \A m \in D : m <= Newest(cs)
    BY <2>1, NewestIsLast
  <2>3. Newest(cs) \in Nat /\ Newest(cs) - n < Newest(cs)
    BY <2>2, <1>1
  <2>4. QED
    BY <2>2, <2>3, <1>6
<1> HIDE DEF K
<1>8. cs # Empty => Restrict(cs, K) # Empty
  BY <1>7, <1>4, EmptyHasNone
<1>9. QED
  BY <1>3, <1>4, <1>5, <1>6, <1>8 DEF K

-----------------------------------------------------------------------------
(* Steps that leave the chart alone. *)

LEMMA FeedInit == Init => FeedInv
<1> SUFFICES ASSUME Init PROVE FeedInv
  OBVIOUS
<1>1. minute \in 1..MaxMinute /\ MaxMinute \in Nat
  BY MaxMinuteType DEF Init
<1>2. trades \in [Minutes -> Nat]
  <2>1. PICK n \in [0..1 -> 0..MaxTrades] :
          trades = [m \in 0..MaxMinute |-> IF m < 2 THEN n[m] ELSE 0]
    BY DEF Init
  <2>2. \A m \in Minutes : m < 2 => n[m] \in Nat
    BY FeedBoundsAssumption DEF Minutes
  <2>3. QED
    BY <2>1, <2>2 DEF Minutes
<1>3. TypeOK
  <2>1. IsCandles(candles) /\ IsCandles(series)
    BY EmptyIsCandles DEF Init
  <2>2. loads \in 0..MaxLoads /\ upTo \in 0..minute
    BY <1>1, FeedBoundsAssumption DEF Init
  <2>3. QED
    BY <1>1, <1>2, <2>1, <2>2 DEF Init, TypeOK
<1>4. PanelHolds /\ HeardCall /\ AnswersAreTrue /\ RecentAreKept
  BY DEF Init, PanelHolds, HeardCall, AnswersAreTrue, RecentAreKept
<1>5. DrawnIsTrue /\ SeriesShowsCandles
  BY EmptyIsCandles DEF Init, DrawnIsTrue, SeriesShowsCandles
<1>6. QED
  BY <1>3, <1>4, <1>5 DEF FeedInv

\* The fields of a call.
LEMMA RequestFields ==
  ASSUME NEW r, IsRequest(r)
  PROVE  /\ r.id \in 1..loads /\ r.limit \in {CandleLimit, PollLimit}
         /\ r.replaceSeries \in BOOLEAN /\ r.end \in {None} \cup 1..minute
  BY DEF IsRequest

\* A call stays well-formed as the venue's clock and the calls go on.
LEMMA RequestStays ==
  ASSUME NEW r, IsRequest(r), loads \in Nat, minute \in Nat, loads' \in Nat, minute' \in Nat,
         loads <= loads', minute <= minute'
  PROVE  IsRequest(r)'
<1>1. 1..loads \subseteq 1..loads' /\ 1..minute \subseteq 1..minute'
  OBVIOUS
<1>2. QED
  BY <1>1 DEF IsRequest

\* An answer stays true: only the current minute is still traded.
LEMMA AnswerStaysTrue ==
  ASSUME TypeOK, TypeOK', NEW r, IsRequest(r), IsTrue(r), r.answer # None,
         \A m \in Minutes : trades[m] <= trades'[m] /\ (m < minute => trades'[m] = trades[m])
  PROVE  IsTrue(r)'
<1>1. r.end \in 1..minute /\ minute \in Nat /\ MaxMinute \in Nat
  BY RequestFields, MaxMinuteType DEF TypeOK, IsTrue
<1>2. r.limit \in Nat
  BY RequestFields, LimitsAssumption
<1>3. CandleRange(r.limit, r.end) \subseteq Int /\ Minutes \subseteq Nat
  BY <1>1, <1>2 DEF CandleRange, Minutes
<1>4. \A m \in Minutes : trades[m] \in Nat /\ trades'[m] \in Nat
  BY DEF TypeOK
<1>5. \A m \in DOMAIN r.answer : m \in Minutes /\ r.answer[m] \in Nat
  BY DEF IsRequest, IsCandles
<1> DEFINE answer == r.answer
           end == r.end
           range == CandleRange(r.limit, r.end)
<1>6. end # None /\ end \in Int /\ end <= minute
  BY <1>1 DEF IsTrue
<1>7. /\ \A m \in DOMAIN answer : m \in range /\ 0 < answer[m] /\ answer[m] <= trades[m]
      /\ \A m \in range \cap Minutes :
           m < end /\ trades[m] > 0 => m \in DOMAIN answer /\ answer[m] = trades[m]
  BY DEF IsTrue
<1>8. ASSUME NEW m \in DOMAIN answer
      PROVE  answer[m] <= trades'[m]
  BY <1>4, <1>5, <1>7
<1>9. ASSUME NEW m \in range \cap Minutes, m < end, trades'[m] > 0
      PROVE  m \in DOMAIN answer /\ answer[m] = trades'[m]
  <2>1. m < minute
    BY <1>1, <1>3, <1>6, <1>9
  <2>2. trades'[m] = trades[m]
    BY <2>1, <1>9
  <2>3. QED
    BY <2>2, <1>7, <1>9
<1>10. QED
  BY <1>6, <1>7, <1>8, <1>9 DEF IsTrue

LEMMA VenueSteps ==
  ASSUME FeedInv, MinutePasses \/ Trade
  PROVE  FeedInv'
<1> USE DEF FeedInv
<1>1. UNCHANGED <<panel, loads, requests, current, candles, series, isLoading, error, upTo, paused>>
  BY DEF MinutePasses, Trade, chart
<1>2. /\ minute \in 1..MaxMinute /\ minute' \in 1..MaxMinute /\ minute <= minute'
      /\ MaxMinute \in Nat
  BY MaxMinuteType DEF TypeOK, MinutePasses, Trade
<1>3. /\ trades' \in [Minutes -> Nat]
      /\ \A m \in Minutes : trades[m] <= trades'[m] /\ (m < minute => trades'[m] = trades[m])
  <2>1. minute \in Minutes /\ \A m \in Minutes : m \in Int /\ trades[m] \in Nat
    BY <1>2 DEF Minutes, TypeOK
  <2>2. CASE MinutePasses
    BY <2>1, <2>2 DEF MinutePasses, TypeOK
  <2>3. CASE Trade
    BY <2>1, <2>3, <1>2 DEF Trade, TypeOK
  <2>4. QED
    BY <2>2, <2>3
<1>4. \A r \in requests : IsRequest(r)'
  BY <1>1, <1>2, RequestStays DEF TypeOK
<1>5. TypeOK'
  <2>1. upTo' \in 0..minute'
    BY <1>1, <1>2 DEF TypeOK
  <2>2. IsCandles(candles)' /\ IsCandles(series)'
    BY <1>1 DEF TypeOK, IsCandles
  <2>3. current' \in {None} \cup 1..loads'
    BY <1>1 DEF TypeOK
  <2>4. QED
    BY <1>1, <1>2, <1>3, <1>4, <2>1, <2>2, <2>3 DEF TypeOK
<1>6. PanelHolds' /\ SeriesShowsCandles'
  BY <1>1 DEF PanelHolds, SeriesShowsCandles
<1>7. HeardCall'
  <2>1. ASSUME NEW r \in requests, r.id = current
        PROVE  IsHeardCall(r)'
    <3>1. IsHeardCall(r)
      BY <2>1 DEF HeardCall
    <3>2. QED
      BY <3>1, <1>1 DEF IsHeardCall
  <2>2. QED
    BY <2>1, <1>1 DEF HeardCall
<1>8. AnswersAreTrue'
  <2>1. ASSUME NEW r \in requests, r.answer # None
        PROVE  IsTrue(r)'
    BY <2>1, <1>3, <1>5, AnswerStaysTrue DEF AnswersAreTrue, TypeOK
  <2>2. QED
    BY <2>1, <1>1 DEF AnswersAreTrue
<1>9. DrawnIsTrue'
  <2>1. ASSUME NEW m \in DOMAIN series
        PROVE  m <= upTo /\ 0 < series[m] /\ series[m] <= trades'[m]
    <3>1. m \in Minutes /\ series[m] \in Nat /\ trades[m] \in Nat /\ trades'[m] \in Nat
      BY <1>3 DEF TypeOK, IsCandles
    <3>2. QED
      BY <3>1, <1>3 DEF DrawnIsTrue
  <2>2. QED
    BY <2>1, <1>1 DEF DrawnIsTrue
<1>10. RecentAreKept'
  <2>1. ASSUME NEW m \in Minutes, m < upTo
        PROVE  trades'[m] = trades[m]
    <3>1. m \in Int /\ upTo \in 0..minute
      BY <1>2 DEF Minutes, TypeOK
    <3>2. m < minute
      BY <3>1, <2>1, <1>2
    <3>3. QED
      BY <3>2, <1>3
  <2>2. QED
    BY <2>1, <1>1 DEF RecentAreKept
<1>11. QED
  BY <1>5, <1>6, <1>7, <1>8, <1>9, <1>10

\* No call has the number None.
LEMMA IdsAreNumbers ==
  ASSUME TypeOK, NEW r \in requests
  PROVE  r.id \in 1..loads /\ r.id # None /\ loads \in Nat
<1>1. r.id \in 1..loads
  BY RequestFields DEF TypeOK
<1>2. 1..loads \subseteq 0..MaxLoads /\ loads \in Nat
  BY FeedBoundsAssumption DEF TypeOK
<1>3. QED
  BY <1>1, <1>2, FeedBoundsAssumption

\* loadCandles sends a call that is heard from now on, and no other is.
LEMMA LoadStarts ==
  ASSUME FeedInv, NEW limit, NEW replace \in BOOLEAN,
         limit = IF replace THEN CandleLimit ELSE PollLimit,
         LoadCandles(limit, replace), replace <=> panel' = "loading",
         UNCHANGED <<minute, trades, series, upTo>>
  PROVE  /\ loads' \in 0..MaxLoads /\ current' \in 1..loads'
         /\ \A r \in requests' : IsRequest(r)'
         /\ HeardCall' /\ AnswersAreTrue'
<1> USE DEF FeedInv
<1>0. PICK q : q = [id |-> loads', limit |-> limit, replaceSeries |-> replace,
                    end |-> None, answer |-> None]
  OBVIOUS
<1>1. /\ loads \in Nat /\ loads' = loads + 1 /\ loads' \in 0..MaxLoads
      /\ current' = loads' /\ requests' = requests \cup {q}
  BY <1>0, FeedBoundsAssumption DEF LoadCandles, TypeOK
<1>2. IsRequest(q)'
  <2>1. loads' \in 1..loads'
    BY <1>1
  <2>2. QED
    BY <1>0, <2>1 DEF IsRequest
<1>3. \A r \in requests : IsRequest(r) /\ IsRequest(r)'
  <2>1. minute \in Nat /\ minute' = minute
    BY MaxMinuteType DEF TypeOK
  <2>2. QED
    BY <1>1, <2>1, RequestStays DEF TypeOK
<1>4. HeardCall'
  <2>1. \A r \in requests : r.id # current'
    BY <1>1, IdsAreNumbers
  <2>2. IsHeardCall(q)'
    BY <1>0 DEF IsHeardCall
  <2>3. QED
    BY <1>1, <2>1, <2>2 DEF HeardCall
<1>5. AnswersAreTrue'
  <2>1. \A r \in requests : r.answer # None => IsTrue(r)'
    BY DEF AnswersAreTrue, IsTrue
  <2>2. q.answer = None
    BY <1>0
  <2>3. QED
    BY <1>1, <2>1, <2>2 DEF AnswersAreTrue
<1>6. current' \in 1..loads'
  BY <1>1
<1>7. QED
  BY <1>1, <1>2, <1>3, <1>4, <1>5, <1>6

LEMMA LoadSteps ==
  ASSUME FeedInv, SetupChart \/ PollTick
  PROVE  FeedInv'
<1> USE DEF FeedInv
<1>1. UNCHANGED <<minute, trades, candles, series, isLoading, error, upTo, paused>>
  BY DEF SetupChart, PollTick, venue, chart
<1>2. /\ \/ panel = "importing" /\ panel' = "loading" /\ LoadCandles(CandleLimit, TRUE)
         \/ panel = "polling" /\ panel' = "polling" /\ LoadCandles(PollLimit, FALSE)
  BY DEF SetupChart, PollTick
<1>3. /\ loads' \in 0..MaxLoads /\ current' \in 1..loads'
      /\ \A r \in requests' : IsRequest(r)'
      /\ HeardCall' /\ AnswersAreTrue'
  <2>1. CASE panel' = "loading" /\ LoadCandles(CandleLimit, TRUE)
    BY <2>1, <1>1, LoadStarts
  <2>2. CASE panel' = "polling" /\ LoadCandles(PollLimit, FALSE)
    BY <2>2, <1>1, LoadStarts
  <2>3. QED
    BY <2>1, <2>2, <1>2
<1>4. TypeOK'
  <2>1. IsCandles(candles)' /\ IsCandles(series)'
    BY <1>1 DEF TypeOK, IsCandles
  <2>2. QED
    BY <1>1, <1>2, <1>3, <2>1 DEF TypeOK
<1>5. PanelHolds' /\ DrawnIsTrue' /\ RecentAreKept' /\ SeriesShowsCandles'
  BY <1>1, <1>2 DEF PanelHolds, DrawnIsTrue, RecentAreKept, SeriesShowsCandles
<1>6. QED
  BY <1>3, <1>4, <1>5

\* While no call is heard, the calls on their way concern only the venue.
LEMMA NothingHeard ==
  ASSUME FeedInv, UNCHANGED <<minute, trades, loads>>, requests' \subseteq requests,
         current' = None \/ UNCHANGED <<panel, current, series, upTo>>
  PROVE  /\ \A r \in requests' : IsRequest(r)'
         /\ HeardCall' /\ AnswersAreTrue'
<1> USE DEF FeedInv
<1>1. \A r \in requests : IsRequest(r)'
  BY DEF TypeOK, IsRequest
<1>2. ASSUME NEW r \in requests', r.id = current'
      PROVE  IsHeardCall(r)'
  <2>1. r \in requests /\ r.id # None
    BY IdsAreNumbers
  <2>2. IsHeardCall(r) /\ UNCHANGED <<panel, current, series, upTo>>
    BY <2>1, <1>2 DEF HeardCall
  <2>3. QED
    BY <2>2 DEF IsHeardCall
<1>3. ASSUME NEW r \in requests', r.answer # None
      PROVE  IsTrue(r)'
  BY <1>3 DEF AnswersAreTrue, IsTrue
<1>4. QED
  BY <1>1, <1>2, <1>3 DEF HeardCall, AnswersAreTrue

LEMMA PanelSteps ==
  ASSUME FeedInv, SetupFails \/ Unmount \/ Mount
  PROVE  FeedInv'
<1> USE DEF FeedInv
<1>1. /\ UNCHANGED <<minute, trades, loads, requests>>
      /\ current' = None
      /\ panel' \in {"failed", "gone", "importing"}
  BY DEF SetupFails, Unmount, Mount, venue, PanelHolds
<1>2. candles' = Empty /\ series' = Empty
  BY DEF SetupFails, Unmount, Mount, PanelHolds
<1>3. /\ \A r \in requests' : IsRequest(r)'
      /\ HeardCall' /\ AnswersAreTrue'
  BY <1>1, NothingHeard
<1>4. TypeOK'
  <2>1. IsCandles(candles)' /\ IsCandles(series)'
    BY <1>2, EmptyIsCandles DEF IsCandles
  <2>2. upTo' \in 0..minute'
    <3>1. upTo' = upTo \/ upTo' = 0
      BY DEF SetupFails, Unmount, Mount
    <3>2. QED
      BY <1>1, <3>1, MaxMinuteType DEF TypeOK
  <2>3. paused' \in BOOLEAN /\ isLoading' \in BOOLEAN /\ error' \in BOOLEAN
    BY DEF TypeOK, SetupFails, Unmount, Mount
  <2>4. QED
    BY <1>1, <1>3, <2>1, <2>2, <2>3 DEF TypeOK
<1>5. DOMAIN series' = {} /\ DOMAIN candles' = {}
  BY <1>2, EmptyIsCandles
<1>6. PanelHolds' /\ RecentAreKept'
  BY <1>1, <1>2 DEF PanelHolds, RecentAreKept
<1>7. DrawnIsTrue' /\ SeriesShowsCandles'
  BY <1>5 DEF DrawnIsTrue, SeriesShowsCandles
<1>8. QED
  BY <1>3, <1>4, <1>6, <1>7

-----------------------------------------------------------------------------
(* A request on its way. *)

\* One call moves on; what it means for the calls is all there is to show.
LEMMA CallMovesOn ==
  ASSUME FeedInv, NEW r \in requests, NEW q, requests' = (requests \ {r}) \cup {q},
         UNCHANGED <<minute, trades, panel, loads, current, chart>>,
         q.id = r.id, IsRequest(q)', q.answer # None => IsTrue(q)',
         q.id = current => IsHeardCall(q)'
  PROVE  FeedInv'
<1> USE DEF FeedInv
<1>1. UNCHANGED <<candles, series, isLoading, error, upTo, paused>>
  BY DEF chart
<1>2. \A s \in requests : IsRequest(s)' /\ (s.answer # None => IsTrue(s)')
  BY DEF TypeOK, AnswersAreTrue, IsRequest, IsTrue
<1>3. ASSUME NEW s \in requests, s.id = current
      PROVE  IsHeardCall(s)'
  <2>1. IsHeardCall(s)
    BY <1>3 DEF HeardCall
  <2>2. QED
    BY <2>1, <1>1 DEF IsHeardCall
<1>4. HeardCall' /\ AnswersAreTrue'
  BY <1>2, <1>3 DEF HeardCall, AnswersAreTrue
<1>5. TypeOK'
  <2>1. IsCandles(candles)' /\ IsCandles(series)'
    BY <1>1 DEF TypeOK, IsCandles
  <2>2. \A s \in requests' : IsRequest(s)'
    BY <1>2
  <2>3. QED
    BY <1>1, <2>1, <2>2 DEF TypeOK
<1>6. PanelHolds' /\ DrawnIsTrue' /\ RecentAreKept' /\ SeriesShowsCandles'
  BY <1>1 DEF PanelHolds, DrawnIsTrue, RecentAreKept, SeriesShowsCandles
<1>7. QED
  BY <1>4, <1>5, <1>6

LEMMA RouteStep ==
  ASSUME FeedInv, NEW r \in requests, RouteHandles(r)
  PROVE  FeedInv'
<1> USE DEF FeedInv
<1>1. PICK q : q = [r EXCEPT !.end = minute]
  OBVIOUS
<1>2. /\ r.end = None /\ requests' = (requests \ {r}) \cup {q}
      /\ UNCHANGED <<minute, trades, panel, loads, current, chart>>
  BY <1>1 DEF RouteHandles, venue
<1>3. IsRequest(r) /\ minute \in 1..minute /\ minute \in Nat
  BY MaxMinuteType DEF TypeOK
<1>4. r.answer = None
  BY <1>2 DEF AnswersAreTrue, IsTrue
<1>5. /\ q.id = r.id /\ q.limit = r.limit /\ q.replaceSeries = r.replaceSeries
      /\ q.end = minute /\ q.answer = None
      /\ q \in [id : 1..loads, limit : {CandleLimit, PollLimit}, replaceSeries : BOOLEAN,
                end : {None} \cup 1..minute, answer : {None}]
  <2>1. r \in [id : 1..loads, limit : {CandleLimit, PollLimit}, replaceSeries : BOOLEAN,
               end : {None} \cup 1..minute, answer : {None}]
    BY <1>3, <1>4 DEF IsRequest
  <2>2. QED
    BY <2>1, <1>1, <1>3
<1>6. IsRequest(q)'
  BY <1>2, <1>5 DEF IsRequest
<1>7. q.id = current => IsHeardCall(q)'
  <2>1. SUFFICES ASSUME q.id = current PROVE IsHeardCall(q)'
    OBVIOUS
  <2>2. IsHeardCall(r) /\ upTo \in 0..minute
    BY <2>1, <1>5 DEF HeardCall, TypeOK
  <2>3. upTo <= minute
    BY <2>2, <1>3
  <2>4. UNCHANGED <<panel, series, upTo>>
    BY <1>2 DEF chart
  <2>5. QED
    BY <2>2, <2>3, <2>4, <1>5 DEF IsHeardCall
<1>8. QED
  BY <1>2, <1>5, <1>6, <1>7, CallMovesOn

LEMMA AnswerStep ==
  ASSUME FeedInv, NEW r \in requests, VenueAnswers(r)
  PROVE  FeedInv'
<1> USE DEF FeedInv
<1>1. PICK held : held = {m \in CandleRange(r.limit, r.end) \cap DOMAIN trades : trades[m] > 0}
  OBVIOUS
<1>2. PICK answer : answer = Restrict(trades, held)
  OBVIOUS
<1>3. PICK q : q = [r EXCEPT !.answer = answer]
  OBVIOUS
<1>4. /\ r.end # None /\ r.answer = None /\ requests' = (requests \ {r}) \cup {q}
      /\ UNCHANGED <<minute, trades, panel, loads, current, chart>>
  BY <1>1, <1>2, <1>3 DEF VenueAnswers, venue
<1>5. IsRequest(r) /\ trades \in [Minutes -> Nat]
  BY DEF TypeOK
<1>6. /\ IsCandles(answer) /\ DOMAIN answer = held
      /\ \A m \in held : answer[m] = trades[m]
  <2>1. IsCandles(trades) /\ held \in SUBSET DOMAIN trades
    BY <1>1, <1>5 DEF IsCandles
  <2>2. QED
    BY <2>1, <1>2, RestrictIsCandles
<1>7. /\ q.id = r.id /\ q.limit = r.limit /\ q.replaceSeries = r.replaceSeries
      /\ q.end = r.end /\ q.answer = answer
      /\ q \in [id : 1..loads, limit : {CandleLimit, PollLimit}, replaceSeries : BOOLEAN,
                end : {None} \cup 1..minute, answer : {answer}]
  <2>1. r \in [id : 1..loads, limit : {CandleLimit, PollLimit}, replaceSeries : BOOLEAN,
               end : {None} \cup 1..minute, answer : {None}]
    BY <1>4, <1>5 DEF IsRequest
  <2>2. QED
    BY <2>1, <1>3
<1>8. IsRequest(q)'
  <2>1. IsCandles(q.answer)'
    BY <1>6, <1>7 DEF IsCandles
  <2>2. QED
    BY <2>1, <1>4, <1>7 DEF IsRequest
<1>9. IsTrue(q)'
  <2>1. \A m \in held : m \in CandleRange(q.limit, q.end) /\ trades[m] > 0 /\ trades[m] \in Nat
    BY <1>1, <1>5, <1>7
  <2>2. \A m \in CandleRange(q.limit, q.end) \cap Minutes : trades[m] > 0 => m \in held
    BY <1>1, <1>5, <1>7
  <2>3. \A m \in held : 0 < answer[m] /\ answer[m] <= trades[m]
    BY <2>1, <1>6
  <2>4. QED
    BY <2>1, <2>2, <2>3, <1>4, <1>6, <1>7 DEF IsTrue
<1>10. q.id = current => IsHeardCall(q)'
  <2>1. SUFFICES ASSUME q.id = current PROVE IsHeardCall(q)'
    OBVIOUS
  <2>2. IsHeardCall(r)
    BY <2>1, <1>7 DEF HeardCall
  <2>3. UNCHANGED <<panel, series, upTo>>
    BY <1>4 DEF chart
  <2>4. \A m \in DOMAIN series \cap DOMAIN answer : series[m] <= answer[m]
    BY <1>6 DEF DrawnIsTrue
  <2>5. QED
    BY <2>2, <2>3, <2>4, <1>7 DEF IsHeardCall
<1>11. QED
  BY <1>4, <1>7, <1>8, <1>9, <1>10, CallMovesOn

-----------------------------------------------------------------------------
(* The answer of the call that is heard. *)

LEMMA HeardAnswer ==
  ASSUME FeedInv, NEW r \in requests, r.id = current
  PROVE  /\ panel = IF r.replaceSeries THEN "loading" ELSE "polling"
         /\ r.limit = IF r.replaceSeries THEN CandleLimit ELSE PollLimit
         /\ r.limit \in Nat /\ PollLimit \in Nat \ {0} /\ PollLimit <= r.limit
         /\ r.answer # None =>
              /\ r.end \in 1..minute /\ upTo <= r.end
              /\ IsCandles(r.answer)
              /\ \A m \in DOMAIN r.answer :
                   /\ m \in Minutes /\ r.end - r.limit < m /\ m <= r.end
                   /\ r.answer[m] \in Nat \ {0} /\ r.answer[m] <= trades[m]
              /\ \A m \in Minutes : r.end - r.limit < m /\ m < r.end /\ trades[m] > 0 =>
                   m \in DOMAIN r.answer /\ r.answer[m] = trades[m]
<1> USE DEF FeedInv
<1>1. IsRequest(r) /\ r.id # None
  BY IdsAreNumbers DEF TypeOK
<1>2. IsHeardCall(r) /\ panel \in {"loading", "polling"} /\ r.replaceSeries \in BOOLEAN
  BY <1>1, RequestFields DEF HeardCall, PanelHolds
<1>3. r.limit \in Nat /\ PollLimit \in Nat \ {0} /\ PollLimit <= r.limit
  BY <1>2, LimitsAssumption DEF IsHeardCall
<1>4. ASSUME r.answer # None
      PROVE  /\ r.end \in 1..minute /\ upTo <= r.end
             /\ IsCandles(r.answer)
             /\ \A m \in DOMAIN r.answer :
                  /\ m \in Minutes /\ r.end - r.limit < m /\ m <= r.end
                  /\ r.answer[m] \in Nat \ {0} /\ r.answer[m] <= trades[m]
             /\ \A m \in Minutes : r.end - r.limit < m /\ m < r.end /\ trades[m] > 0 =>
                  m \in DOMAIN r.answer /\ r.answer[m] = trades[m]
  <2>1. IsTrue(r) /\ IsCandles(r.answer)
    BY <1>1, <1>4 DEF AnswersAreTrue, IsRequest
  <2>2. r.end \in 1..minute /\ r.end # None
    BY <2>1, <1>1, RequestFields DEF IsTrue
  <2>3. upTo <= r.end
    BY <2>2, <1>2 DEF IsHeardCall
  <2>4. \A m \in Int : m \in CandleRange(r.limit, r.end) <=> r.end - r.limit < m /\ m <= r.end
    <3>1. r.end \in Int /\ r.limit \in Int
      BY <2>2, <1>3
    <3> DEFINE end == r.end
               limit == r.limit
    <3> HIDE DEF end, limit
    <3>2. \A m \in Int : m \in CandleRange(limit, end) <=> end - limit < m /\ m <= end
      BY <3>1 DEF CandleRange, end, limit
    <3>3. QED
      BY <3>2 DEF end, limit
  <2>5. \A m \in DOMAIN r.answer : m \in Minutes /\ m \in Int /\ r.answer[m] \in Nat
    BY <2>1, MaxMinuteType DEF IsCandles, Minutes
  <2>6. \A m \in DOMAIN r.answer :
          m \in CandleRange(r.limit, r.end) /\ 0 < r.answer[m] /\ r.answer[m] <= trades[m]
    BY <2>1 DEF IsTrue
  <2>7. \A m \in Minutes : m \in Int
    BY MaxMinuteType DEF Minutes
  <2>8. \A m \in Minutes :
          m \in CandleRange(r.limit, r.end) /\ m < r.end /\ trades[m] > 0 =>
            m \in DOMAIN r.answer /\ r.answer[m] = trades[m]
    BY <2>1 DEF IsTrue
  <2>9. ASSUME NEW m \in DOMAIN r.answer
        PROVE  /\ m \in Minutes /\ r.end - r.limit < m /\ m <= r.end
               /\ r.answer[m] \in Nat \ {0} /\ r.answer[m] <= trades[m]
    BY <2>4, <2>5, <2>6
  <2>10. ASSUME NEW m \in Minutes, r.end - r.limit < m, m < r.end, trades[m] > 0
         PROVE  m \in DOMAIN r.answer /\ r.answer[m] = trades[m]
    <3>1. m <= r.end
      BY <2>10, <2>7, <2>2
    <3>2. m \in CandleRange(r.limit, r.end)
      BY <3>1, <2>10, <2>4, <2>7
    <3>3. QED
      BY <3>2, <2>10, <2>8
  <2>11. QED
    BY <2>1, <2>2, <2>3, <2>9, <2>10
<1>5. QED
  BY <1>2, <1>3, <1>4 DEF IsHeardCall

\* What a drawn candle is.
LEMMA DrawnCandles ==
  ASSUME FeedInv
  PROVE  /\ \A m \in DOMAIN series :
              /\ m \in Minutes /\ m <= upTo
              /\ series[m] \in Nat \ {0} /\ series[m] <= trades[m]
         /\ \A m \in DOMAIN candles : m \in DOMAIN series /\ series[m] = candles[m]
         /\ upTo \in Nat /\ upTo <= minute
         /\ \A m \in Minutes : m \in Nat /\ trades[m] \in Nat
<1> USE DEF FeedInv
<1>1. upTo \in Nat /\ upTo <= minute
  BY MaxMinuteType DEF TypeOK
<1>2. \A m \in DOMAIN series : m \in Minutes /\ series[m] \in Nat
  BY DEF TypeOK, IsCandles
<1>3. \A m \in Minutes : m \in Nat /\ trades[m] \in Nat
  BY MaxMinuteType DEF TypeOK, Minutes
<1>4. QED
  BY <1>1, <1>2, <1>3 DEF DrawnIsTrue, SeriesShowsCandles

\* The newest candle drawn is the newest one kept.
LEMMA SameNewest ==
  ASSUME FeedInv, candles # Empty
  PROVE  /\ series # Empty /\ Newest(series) = Newest(candles)
         /\ Newest(candles) \in DOMAIN candles
         /\ Newest(candles) \in Nat /\ Newest(candles) <= upTo
         /\ \A m \in DOMAIN candles : m <= Newest(candles)
         /\ \A m \in DOMAIN series : m <= Newest(candles)
<1> USE DEF FeedInv
<1> DEFINE last == Newest(candles)
<1>1. IsCandles(candles) /\ IsCandles(series)
  BY DEF TypeOK
<1>2. last \in DOMAIN candles /\ \A m \in DOMAIN candles : m <= last
  BY <1>1, NewestIsLast
<1>3. last \in DOMAIN series /\ last \in Nat /\ last <= upTo
  BY <1>2, DrawnCandles
<1>4. \A m \in DOMAIN series : m \in Nat
  BY DrawnCandles
<1>5. ASSUME NEW m \in DOMAIN series
      PROVE  m <= last
  <2>1. CASE m \in DOMAIN candles
    BY <2>1, <1>2
  <2>2. CASE m \notin DOMAIN candles
    <3>1. m < last
      BY <2>2, <1>2 DEF SeriesShowsCandles
    <3>2. QED
      BY <3>1, <1>3, <1>4
  <2>3. QED
    BY <2>1, <2>2
<1>6. series # Empty
  BY <1>1, <1>3, EmptyHasNone
<1>7. Newest(series) \in DOMAIN series /\ \A m \in DOMAIN series : m <= Newest(series)
  BY <1>1, <1>6, NewestIsLast
<1>8. Newest(series) = last
  <2>1. Newest(series) <= last /\ last <= Newest(series)
    BY <1>3, <1>5, <1>7
  <2>2. QED
    BY <2>1, <1>3, <1>4, <1>7
<1>9. QED
  BY <1>2, <1>3, <1>5, <1>6, <1>8

\* A poll answers for the minutes before the newest kept candle as the panel
\* keeps them.
LEMMA PollAgrees ==
  ASSUME FeedInv, NEW r \in requests, r.id = current, r.answer # None, ~r.replaceSeries
  PROVE  \A m \in DOMAIN r.answer : m < Newest(candles) =>
           m \in DOMAIN candles /\ candles[m] = r.answer[m]
<1> DEFINE next == r.answer
           end == r.end
<1>1. /\ panel = "polling" /\ r.limit = PollLimit /\ PollLimit \in Nat
      /\ end \in Nat /\ upTo <= end
      /\ \A m \in DOMAIN next :
           /\ m \in Minutes /\ end - PollLimit < m /\ m <= end
           /\ next[m] \in Nat \ {0} /\ next[m] <= trades[m]
      /\ \A m \in Minutes : end - PollLimit < m /\ m < end /\ trades[m] > 0 =>
           m \in DOMAIN next /\ next[m] = trades[m]
  BY HeardAnswer
<1>2. Newest(candles) \in Nat /\ Newest(candles) <= upTo
  BY <1>1, SameNewest DEF FeedInv, PanelHolds
<1>3. upTo \in Nat /\ \A m \in Minutes : m \in Nat /\ trades[m] \in Nat
  BY DrawnCandles
<1> HIDE DEF next, end
<1>4. ASSUME NEW m \in DOMAIN next, m < Newest(candles)
      PROVE  m \in DOMAIN candles /\ candles[m] = next[m]
  <2>1. /\ m \in Minutes /\ m \in Nat /\ end - PollLimit < m
        /\ next[m] \in Nat \ {0} /\ next[m] <= trades[m] /\ trades[m] \in Nat
    BY <1>1, <1>3, <1>4
  <2>2. m < upTo /\ m < end /\ upTo - PollLimit < m /\ trades[m] > 0
    BY <2>1, <1>1, <1>2, <1>3, <1>4
  <2>3. m \in DOMAIN candles /\ candles[m] = trades[m]
    BY <2>1, <2>2, <1>1 DEF FeedInv, RecentAreKept
  <2>4. next[m] = trades[m]
    BY <2>1, <2>2, <1>1
  <2>5. QED
    BY <2>3, <2>4
<1>5. QED
  BY <1>4 DEF next

\* What a poll that is heard, and brings candles, makes of the lists: no update
\* is refused, the newest candle and what follows it are replaced in the series,
\* and the panel keeps what the series shows.
LEMMA PollMerges ==
  ASSUME FeedInv, NEW r \in requests, r.id = current, r.answer # None, r.answer # Empty,
         ~r.replaceSeries,
         NEW updates, updates = SeriesUpdateCandles(candles, r.answer)
  PROVE  /\ ~Rejects(updates)
         /\ IsCandles(updates)
         /\ DOMAIN updates = {m \in DOMAIN r.answer : m >= Newest(candles)}
         /\ \A m \in DOMAIN updates : updates[m] = r.answer[m]
         /\ IsCandles(Updated(updates))
         /\ DOMAIN Updated(updates) = DOMAIN series \cup DOMAIN updates
         /\ \A m \in DOMAIN Updated(updates) :
              Updated(updates)[m] = IF m \in DOMAIN updates THEN updates[m] ELSE series[m]
<1> USE DEF FeedInv
<1>1. IsCandles(r.answer) /\ candles # Empty
  BY HeardAnswer DEF PanelHolds
<1>2. /\ series # Empty /\ Newest(series) = Newest(candles)
      /\ Newest(candles) \in Nat
  BY <1>1, SameNewest
<1>3. updates = Restrict(r.answer, {m \in DOMAIN r.answer : m >= Newest(candles)})
  BY <1>1 DEF SeriesUpdateCandles
<1>4. /\ IsCandles(updates)
      /\ DOMAIN updates = {m \in DOMAIN r.answer : m >= Newest(candles)}
      /\ \A m \in DOMAIN updates : updates[m] = r.answer[m]
  BY <1>1, <1>3, RestrictIsCandles
<1>5. ~Rejects(updates)
  <2>1. \A m \in DOMAIN r.answer : m \in Nat
    BY <1>1, MaxMinuteType DEF IsCandles, Minutes
  <2>2. \A m \in DOMAIN updates : ~(m < Newest(series))
    BY <2>1, <1>2, <1>4
  <2>3. QED
    BY <2>2 DEF Rejects
<1>6. /\ DOMAIN Updated(updates) = DOMAIN series \cup DOMAIN updates
      /\ \A m \in DOMAIN Updated(updates) :
           Updated(updates)[m] = IF m \in DOMAIN updates THEN updates[m] ELSE series[m]
  BY DEF Updated
<1>7. IsCandles(Updated(updates))
  <2>1. IsCandles(series) /\ IsCandles(updates)
    BY <1>4 DEF TypeOK
  <2>2. \A m \in DOMAIN series \cup DOMAIN updates :
          (IF m \in DOMAIN updates THEN updates[m] ELSE series[m]) \in Nat
    BY <2>1 DEF IsCandles
  <2>3. QED
    BY <2>1, <2>2 DEF IsCandles, Updated
<1>8. QED
  BY <1>4, <1>5, <1>6, <1>7

\* mergePriceCandles.
LEMMA MergedCandles ==
  ASSUME NEW cs, NEW next, IsCandles(cs), IsCandles(next), next # Empty,
         NEW merged, merged = MergePriceCandles(cs, next)
  PROVE  /\ IsCandles(merged) /\ merged # Empty
         /\ DOMAIN merged \subseteq DOMAIN cs \cup DOMAIN next
         /\ \A m \in DOMAIN merged :
              merged[m] = IF m \in DOMAIN next THEN next[m] ELSE cs[m]
         /\ \A m \in (DOMAIN cs \cup DOMAIN next) \ DOMAIN merged :
              \A k \in DOMAIN merged : m < k
         /\ \A u \in Nat : (\A k \in DOMAIN cs \cup DOMAIN next : k <= u) =>
              \A m \in DOMAIN cs \cup DOMAIN next :
                u - CandleLimit < m => m \in DOMAIN merged
<1>1. PICK all : all = [m \in DOMAIN cs \cup DOMAIN next |->
                          IF m \in DOMAIN next THEN next[m] ELSE cs[m]]
  OBVIOUS
<1>2. /\ IsCandles(all) /\ DOMAIN all = DOMAIN cs \cup DOMAIN next
      /\ \A m \in DOMAIN all : all[m] = IF m \in DOMAIN next THEN next[m] ELSE cs[m]
  <2>1. \A m \in DOMAIN cs \cup DOMAIN next :
          (IF m \in DOMAIN next THEN next[m] ELSE cs[m]) \in Nat
    BY DEF IsCandles
  <2>2. QED
    BY <2>1, <1>1 DEF IsCandles
<1>3. all # Empty
  <2>1. DOMAIN next # {}
    BY EmptyHasNone
  <2>2. DOMAIN all # {}
    BY <2>1, <1>2
  <2>3. QED
    BY <2>2, <1>2, EmptyHasNone
<1>4. merged = LastOf(all, CandleLimit) /\ CandleLimit \in Nat \ {0}
  BY <1>1, LimitsAssumption DEF MergePriceCandles
<1>5. QED
  BY <1>2, <1>3, <1>4, LastOfKeeps

\* The first call's candles are kept and drawn.
LEMMA FirstLoad ==
  ASSUME FeedInv, NEW r \in requests, r.id = current, r.answer # None, r.answer # Empty,
         r.replaceSeries,
         requests' = requests \ {r}, UNCHANGED <<minute, trades, loads>>,
         candles' = LastOf(r.answer, CandleLimit), series' = candles',
         isLoading' = FALSE, error' = FALSE, current' = None, panel' = "polling", Heard(r)
  PROVE  FeedInv'
<1> USE DEF FeedInv
<1> DEFINE next == r.answer
           end == r.end
           kept == LastOf(next, CandleLimit)
<1>1. /\ r.limit = CandleLimit /\ CandleLimit \in Nat \ {0} /\ PollLimit \in Nat
      /\ PollLimit <= CandleLimit
      /\ end \in 1..minute /\ upTo <= end /\ IsCandles(next)
      /\ \A m \in DOMAIN next :
           /\ m \in Minutes /\ end - CandleLimit < m /\ m <= end
           /\ next[m] \in Nat \ {0} /\ next[m] <= trades[m]
      /\ \A m \in Minutes : end - CandleLimit < m /\ m < end /\ trades[m] > 0 =>
           m \in DOMAIN next /\ next[m] = trades[m]
  BY HeardAnswer, LimitsAssumption
<1>2. minute \in Nat /\ end \in Nat /\ \A m \in Minutes : m \in Nat /\ trades[m] \in Nat
  BY <1>1, DrawnCandles, MaxMinuteType DEF TypeOK
<1>3. /\ IsCandles(kept) /\ kept # Empty /\ DOMAIN kept \subseteq DOMAIN next
      /\ \A m \in DOMAIN kept : kept[m] = next[m]
      /\ \A m \in DOMAIN next : end - CandleLimit < m => m \in DOMAIN kept
  <2> HIDE DEF next, end
  <2>1. /\ IsCandles(kept) /\ DOMAIN kept \subseteq DOMAIN next
        /\ \A m \in DOMAIN kept : kept[m] = next[m]
        /\ \A u \in Nat : (\A k \in DOMAIN next : k <= u) =>
             \A m \in DOMAIN next : u - CandleLimit < m => m \in DOMAIN kept
        /\ next # Empty => kept # Empty
    BY <1>1, LastOfKeeps
  <2>2. QED
    BY <2>1, <1>1, <1>2 DEF next
<1>4. candles' = kept /\ series' = kept /\ upTo' = end /\ paused' = paused
  BY DEF Heard, TypeOK
<1>5. /\ \A s \in requests' : IsRequest(s)'
      /\ HeardCall' /\ AnswersAreTrue'
  BY NothingHeard
<1>6. TypeOK'
  <2>1. IsCandles(candles)' /\ IsCandles(series)'
    BY <1>3, <1>4 DEF IsCandles
  <2>2. upTo' \in 0..minute'
    BY <1>1, <1>2, <1>4
  <2>3. QED
    BY <1>4, <1>5, <2>1, <2>2 DEF TypeOK
<1> HIDE DEF next, end, kept
<1>7. PanelHolds' /\ SeriesShowsCandles'
  BY <1>3, <1>4 DEF PanelHolds, SeriesShowsCandles
<1>8. DrawnIsTrue'
  BY <1>1, <1>3, <1>4 DEF DrawnIsTrue
<1>9. RecentAreKept'
  <2>1. ASSUME NEW m \in Minutes, end - PollLimit < m, m < end, trades[m] > 0
        PROVE  m \in DOMAIN kept /\ kept[m] = trades[m]
    <3>1. end - CandleLimit < m
      BY <2>1, <1>1, <1>2
    <3>2. QED
      BY <3>1, <2>1, <1>1, <1>3
  <2>2. QED
    BY <2>1, <1>4 DEF RecentAreKept
<1>10. QED
  BY <1>5, <1>6, <1>7, <1>8, <1>9

\* A poll's candles are merged.
LEMMA PollStep ==
  ASSUME FeedInv, NEW r \in requests, r.id = current, r.answer # None, r.answer # Empty,
         ~r.replaceSeries,
         requests' = requests \ {r}, UNCHANGED <<minute, trades, loads, panel>>,
         candles' = MergePriceCandles(candles, r.answer),
         series' = Updated(SeriesUpdateCandles(candles, r.answer)),
         isLoading' = FALSE, error' = FALSE, current' = None, Heard(r)
  PROVE  FeedInv'
<1> USE DEF FeedInv
<1> DEFINE next == r.answer
           end == r.end
           last == Newest(candles)
<1>1. PICK updates : updates = SeriesUpdateCandles(candles, next)
  OBVIOUS
<1>2. /\ panel = "polling" /\ PollLimit \in Nat
      /\ end \in 1..minute /\ upTo <= end /\ IsCandles(next)
      /\ \A m \in DOMAIN next :
           /\ m \in Minutes /\ end - PollLimit < m /\ m <= end
           /\ next[m] \in Nat \ {0} /\ next[m] <= trades[m]
      /\ \A m \in Minutes : end - PollLimit < m /\ m < end /\ trades[m] > 0 =>
           m \in DOMAIN next /\ next[m] = trades[m]
  BY HeardAnswer
<1>3. /\ minute \in Nat /\ end \in Nat /\ upTo \in Nat
      /\ \A m \in Minutes : m \in Nat /\ trades[m] \in Nat
      /\ CandleLimit \in Nat /\ PollLimit <= CandleLimit
  BY <1>2, DrawnCandles, MaxMinuteType, LimitsAssumption DEF TypeOK
<1>4. /\ last \in DOMAIN candles /\ last \in Nat /\ last <= upTo
      /\ \A m \in DOMAIN candles : m <= last
  BY <1>2, SameNewest DEF PanelHolds
<1>5. /\ IsCandles(series') /\ DOMAIN updates = {m \in DOMAIN next : m >= last}
      /\ DOMAIN series' = DOMAIN series \cup DOMAIN updates
      /\ \A m \in DOMAIN series' :
           series'[m] = IF m \in DOMAIN updates THEN next[m] ELSE series[m]
  BY <1>1, PollMerges
<1>6. /\ IsCandles(candles') /\ candles' # Empty
      /\ DOMAIN candles' \subseteq DOMAIN candles \cup DOMAIN next
      /\ \A m \in DOMAIN candles' :
           candles'[m] = IF m \in DOMAIN next THEN next[m] ELSE candles[m]
      /\ \A m \in (DOMAIN candles \cup DOMAIN next) \ DOMAIN candles' :
           \A k \in DOMAIN candles' : m < k
      /\ \A u \in Nat : (\A k \in DOMAIN candles \cup DOMAIN next : k <= u) =>
           \A m \in DOMAIN candles \cup DOMAIN next :
             u - CandleLimit < m => m \in DOMAIN candles'
  BY <1>2, MergedCandles DEF TypeOK
<1>7. \A m \in DOMAIN next : m < last => m \in DOMAIN candles /\ candles[m] = next[m]
  BY PollAgrees
<1>8. upTo' = end
  BY DEF Heard
<1>9. /\ \A s \in requests' : IsRequest(s)'
      /\ HeardCall' /\ AnswersAreTrue'
  BY NothingHeard
<1>10. TypeOK'
  <2>1. IsCandles(candles)' /\ IsCandles(series)'
    BY <1>5, <1>6 DEF IsCandles
  <2>2. upTo' \in 0..minute' /\ paused' \in BOOLEAN
    BY <1>2, <1>3, <1>8 DEF Heard, TypeOK
  <2>3. QED
    BY <1>9, <2>1, <2>2 DEF TypeOK
<1>11. /\ \A m \in DOMAIN series :
            /\ m \in Minutes /\ m \in Nat /\ m <= upTo
            /\ series[m] \in Nat \ {0} /\ series[m] <= trades[m]
       /\ \A m \in DOMAIN candles : m \in DOMAIN series /\ series[m] = candles[m]
  BY <1>3, DrawnCandles
<1> HIDE DEF next, end, last
<1>12. DrawnIsTrue'
  <2>1. ASSUME NEW m \in DOMAIN series'
        PROVE  m <= end /\ 0 < series'[m] /\ series'[m] <= trades[m]
    <3>1. CASE m \in DOMAIN updates
      BY <3>1, <1>2, <1>5
    <3>2. CASE m \notin DOMAIN updates
      BY <3>2, <1>2, <1>3, <1>5, <1>11
    <3>3. QED
      BY <3>1, <3>2
  <2>2. QED
    BY <2>1, <1>8 DEF DrawnIsTrue
<1>13. ASSUME NEW m \in DOMAIN candles'
       PROVE  m \in DOMAIN series' /\ series'[m] = candles'[m]
  <2>1. CASE m \in DOMAIN updates
    BY <2>1, <1>5, <1>6
  <2>2. CASE m \notin DOMAIN updates
    <3>1. m \in DOMAIN candles /\ candles'[m] = candles[m]
      <4>1. CASE m \in DOMAIN next
        <5>1. m \in Nat /\ m < last
          BY <4>1, <2>2, <1>2, <1>3, <1>4, <1>5
        <5>2. QED
          BY <4>1, <5>1, <1>6, <1>7
      <4>2. CASE m \notin DOMAIN next
        BY <4>2, <1>6
      <4>3. QED
        BY <4>1, <4>2
    <3>2. QED
      BY <3>1, <2>2, <1>5, <1>11
  <2>3. QED
    BY <2>1, <2>2
<1>14. ASSUME NEW m \in DOMAIN series' \ DOMAIN candles', NEW k \in DOMAIN candles'
       PROVE  m < k
  <2>1. CASE m \in DOMAIN candles \cup DOMAIN next
    BY <2>1, <1>6
  <2>2. CASE m \notin DOMAIN candles \cup DOMAIN next
    <3>1. m \in DOMAIN series \ DOMAIN candles
      BY <2>2, <1>5
    <3>2. m \in Nat /\ k \in Nat /\ \A j \in DOMAIN candles : m < j
      BY <3>1, <1>2, <1>3, <1>6, <1>11 DEF SeriesShowsCandles
    <3>3. CASE k \in DOMAIN candles
      BY <3>2, <3>3
    <3>4. CASE k \notin DOMAIN candles
      <4>1. k \in DOMAIN next /\ ~(k < last)
        BY <3>4, <1>6, <1>7
      <4>2. QED
        BY <4>1, <3>2, <1>4
    <3>5. QED
      BY <3>3, <3>4
  <2>3. QED
    BY <2>1, <2>2
<1>15. SeriesShowsCandles'
  BY <1>13, <1>14 DEF SeriesShowsCandles
<1>16. RecentAreKept'
  <2>1. ASSUME NEW m \in Minutes, end - PollLimit < m, m < end, trades[m] > 0
        PROVE  m \in DOMAIN candles' /\ candles'[m] = trades[m]
    <3>1. m \in DOMAIN next /\ next[m] = trades[m]
      BY <2>1, <1>2
    <3>2. \A k \in DOMAIN candles \cup DOMAIN next : k <= end
      BY <1>2, <1>3, <1>11
    <3>3. end - CandleLimit < m
      BY <2>1, <1>2, <1>3
    <3>4. m \in DOMAIN candles'
      BY <3>1, <3>2, <3>3, <1>3, <1>6
    <3>5. QED
      BY <3>1, <3>4, <1>6
  <2>2. QED
    BY <2>1, <1>8 DEF RecentAreKept
<1>17. PanelHolds'
  BY <1>2, <1>6 DEF PanelHolds
<1>18. QED
  BY <1>9, <1>10, <1>12, <1>15, <1>16, <1>17

\* The heard call brings no candle: what is kept and drawn stays, and of the
\* range it asked for nothing is missing.
LEMMA EmptyAnswer ==
  ASSUME FeedInv, NEW r \in requests, r.id = current, r.answer # None, r.answer = Empty,
         requests' = requests \ {r}, UNCHANGED <<minute, trades, loads, candles, series>>,
         EndsWithError(r), Heard(r)
  PROVE  FeedInv'
<1> USE DEF FeedInv
<1> DEFINE end == r.end
<1>1. /\ panel = (IF r.replaceSeries THEN "loading" ELSE "polling")
      /\ r.limit \in Nat /\ PollLimit \in Nat /\ PollLimit <= r.limit
      /\ end \in 1..minute /\ upTo <= end
      /\ \A m \in Minutes : end - r.limit < m /\ m < end /\ trades[m] > 0 =>
           m \in DOMAIN r.answer
  BY HeardAnswer
<1>2. DOMAIN r.answer = {}
  BY EmptyIsCandles
<1>3. /\ upTo' = end /\ current' = None /\ panel' = (IF r.replaceSeries THEN "failed" ELSE panel)
      /\ isLoading' = FALSE /\ error' = TRUE
  BY DEF EndsWithError, Heard
<1>4. /\ \A s \in requests' : IsRequest(s)'
      /\ HeardCall' /\ AnswersAreTrue'
  BY <1>3, NothingHeard
<1>5. minute \in Nat /\ end \in Nat /\ upTo \in Nat
  BY <1>1, MaxMinuteType DEF TypeOK
<1>6. TypeOK'
  <2>1. IsCandles(candles)' /\ IsCandles(series)'
    BY DEF TypeOK, IsCandles
  <2>2. upTo' \in 0..minute' /\ paused' \in BOOLEAN
    BY <1>1, <1>3, <1>5 DEF Heard, TypeOK
  <2>3. QED
    BY <1>3, <1>4, <2>1, <2>2 DEF TypeOK
<1>7. PanelHolds' /\ SeriesShowsCandles'
  BY <1>1, <1>3 DEF PanelHolds, SeriesShowsCandles
<1>8. DrawnIsTrue'
  <2>1. \A m \in DOMAIN series : m <= end
    <3>1. \A m \in DOMAIN series : m \in Nat /\ m <= upTo
      BY DrawnCandles
    <3>2. QED
      BY <3>1, <1>1, <1>5
  <2>2. QED
    BY <2>1, <1>3 DEF DrawnIsTrue
<1>9. RecentAreKept'
  <2>1. ASSUME NEW m \in Minutes, end - PollLimit < m, m < end, trades[m] > 0
        PROVE  FALSE
    <3>1. m \in Nat
      BY MaxMinuteType DEF Minutes
    <3>2. end - r.limit < m
      <4> DEFINE limit == r.limit
      <4>1. limit \in Nat /\ PollLimit \in Nat /\ PollLimit <= limit
        BY <1>1
      <4> HIDE DEF limit, end
      <4>2. end - limit < m
        BY <4>1, <3>1, <2>1, <1>5
      <4>3. QED
        BY <4>2 DEF limit
    <3>3. QED
      BY <3>2, <2>1, <1>1, <1>2
  <2>2. QED
    BY <2>1, <1>3 DEF RecentAreKept
<1>10. QED
  BY <1>4, <1>6, <1>7, <1>8, <1>9

\* The call ends, and nothing of it is shown.
LEMMA CallEnds ==
  ASSUME FeedInv, NEW r \in requests, requests' = requests \ {r},
         UNCHANGED <<minute, trades, loads, candles, series, upTo, paused>>,
         \/ UNCHANGED <<panel, current, isLoading, error>>
         \/ r.id = current /\ EndsWithError(r)
  PROVE  FeedInv'
<1> USE DEF FeedInv
<1>1. /\ \/ UNCHANGED <<panel, current>>
         \/ current' = None /\ panel = "loading" /\ panel' = "failed"
         \/ current' = None /\ panel = "polling" /\ panel' = panel
      /\ isLoading' \in BOOLEAN /\ error' \in BOOLEAN
  BY HeardAnswer DEF EndsWithError, TypeOK
<1>2. /\ \A s \in requests' : IsRequest(s)'
      /\ HeardCall' /\ AnswersAreTrue'
  BY <1>1, NothingHeard
<1>3. TypeOK'
  <2>1. IsCandles(candles)' /\ IsCandles(series)'
    BY DEF TypeOK, IsCandles
  <2>2. QED
    BY <1>1, <1>2, <2>1 DEF TypeOK
<1>4. PanelHolds' /\ DrawnIsTrue' /\ RecentAreKept' /\ SeriesShowsCandles'
  BY <1>1 DEF PanelHolds, DrawnIsTrue, RecentAreKept, SeriesShowsCandles
<1>5. QED
  BY <1>2, <1>3, <1>4

LEMMA ArriveStep ==
  ASSUME FeedInv, NEW r \in requests, Arrives(r)
  PROVE  FeedInv'
<1>1. /\ r.answer # None /\ requests' = requests \ {r}
      /\ UNCHANGED <<minute, trades, loads>>
  BY DEF Arrives, venue
<1>2. CASE IsAborted(r) /\ UNCHANGED <<panel, current, chart>>
  BY <1>1, <1>2, CallEnds DEF chart
<1>3. CASE ~IsAborted(r) /\ r.answer = Empty /\ EndsWithError(r) /\ Heard(r)
             /\ UNCHANGED <<candles, series>>
  BY <1>1, <1>3, EmptyAnswer DEF IsAborted
<1>4. CASE /\ ~IsAborted(r) /\ r.answer # Empty /\ r.replaceSeries
           /\ candles' = LastOf(r.answer, CandleLimit) /\ series' = candles'
           /\ isLoading' = FALSE /\ error' = FALSE /\ current' = None
           /\ panel' = "polling" /\ Heard(r)
  BY <1>1, <1>4, FirstLoad DEF IsAborted
<1>5. ASSUME NEW updates, updates = SeriesUpdateCandles(candles, r.answer),
             ~IsAborted(r), r.answer # Empty, ~r.replaceSeries,
             candles' = MergePriceCandles(candles, r.answer), Heard(r),
             IF Rejects(updates)
             THEN EndsWithError(r) /\ UNCHANGED series
             ELSE /\ series' = Updated(updates)
                  /\ isLoading' = FALSE
                  /\ error' = FALSE
                  /\ current' = None
                  /\ UNCHANGED panel
      PROVE  FeedInv'
  <2>1. ~Rejects(updates)
    BY <1>1, <1>5, PollMerges DEF IsAborted
  <2>2. QED
    BY <2>1, <1>1, <1>5, PollStep DEF IsAborted
<1>6. QED
  BY <1>2, <1>3, <1>4, <1>5 DEF Arrives

LEMMA FailStep ==
  ASSUME FeedInv, NEW r \in requests, Fails(r)
  PROVE  FeedInv'
  BY CallEnds DEF Fails, IsAborted, venue

LEMMA FeedStep ==
  ASSUME FeedInv, [Next]_vars
  PROVE  FeedInv'
<1>1. CASE MinutePasses \/ Trade
  BY <1>1, VenueSteps
<1>2. CASE SetupChart \/ PollTick
  BY <1>2, LoadSteps
<1>3. CASE SetupFails \/ Unmount \/ Mount
  BY <1>3, PanelSteps
<1>4. ASSUME NEW r \in requests,
             RouteHandles(r) \/ VenueAnswers(r) \/ Arrives(r) \/ Fails(r)
      PROVE  FeedInv'
  BY <1>4, RouteStep, AnswerStep, ArriveStep, FailStep
<1>5. CASE UNCHANGED vars
  <2>1. UNCHANGED <<minute, trades, panel, loads, requests, current, candles, series,
                    isLoading, error, upTo, paused>>
    BY <1>5 DEF vars
  <2>2. QED
    BY <2>1 DEF FeedInv, TypeOK, PanelHolds, HeardCall, AnswersAreTrue, DrawnIsTrue,
                RecentAreKept, SeriesShowsCandles, IsCandles, IsRequest, IsHeardCall, IsTrue
<1>6. QED
  BY <1>1, <1>2, <1>3, <1>4, <1>5 DEF Next

-----------------------------------------------------------------------------
(* Final candles. *)

\* The steps that show no answer keep the drawn candles, and the trades of the
\* minutes before the current one.
LEMMA OtherSteps ==
  ASSUME FeedInv, [Next]_vars, ~\E r \in requests : Arrives(r)
  PROVE  /\ panel' = "polling" =>
              panel = "polling" /\ UNCHANGED <<candles, series, upTo, paused>>
         /\ \A m \in Minutes : m < upTo => trades'[m] = trades[m]
<1> USE DEF FeedInv
<1>1. upTo \in 0..minute /\ minute \in Nat /\ \A m \in Minutes : m \in Nat
  BY MaxMinuteType DEF TypeOK, Minutes
<1>2. CASE MinutePasses
  BY <1>2 DEF MinutePasses, chart
<1>3. CASE Trade
  <2>1. \A m \in Minutes : m < minute => trades'[m] = trades[m]
    BY <1>1, <1>3 DEF Trade, TypeOK
  <2>2. \A m \in Minutes : m < upTo => m < minute
    BY <1>1
  <2>3. QED
    BY <1>3, <2>1, <2>2 DEF Trade, chart
<1>4. CASE SetupChart \/ SetupFails \/ PollTick \/ Unmount \/ Mount
  BY <1>4 DEF SetupChart, SetupFails, PollTick, Unmount, Mount, venue, chart
<1>5. ASSUME NEW r \in requests, RouteHandles(r) \/ VenueAnswers(r) \/ Fails(r)
      PROVE  /\ UNCHANGED <<trades, candles, series, upTo, paused>>
             /\ panel' = "polling" => panel = "polling"
  BY <1>5 DEF RouteHandles, VenueAnswers, Fails, EndsWithError, venue, chart
<1>6. CASE UNCHANGED vars
  BY <1>6 DEF vars
<1>7. QED
  BY <1>2, <1>3, <1>4, <1>5, <1>6 DEF Next

\* What an answer that arrives does to a chart that polls then.
LEMMA ShownAnswer ==
  ASSUME FeedInv, NEW r \in requests, Arrives(r), panel' = "polling"
  PROVE  /\ UNCHANGED trades
         /\ \/ panel = "polling" /\ UNCHANGED <<series, upTo, paused>>
            \/ /\ r.id = current /\ r.answer # None
               /\ upTo' = r.end /\ paused' = (paused \/ (~r.replaceSeries /\ r.end > upTo + 1))
               /\ \/ r.replaceSeries /\ series' = LastOf(r.answer, CandleLimit)
                  \/ ~r.replaceSeries /\ r.answer = Empty /\ series' = series
                  \/ /\ ~r.replaceSeries /\ r.answer # Empty
                     /\ series' = Updated(SeriesUpdateCandles(candles, r.answer))
<1> USE DEF FeedInv
<1>1. r.answer # None /\ UNCHANGED trades
  BY DEF Arrives, venue
<1>2. CASE IsAborted(r) /\ UNCHANGED <<panel, current, chart>>
  BY <1>1, <1>2 DEF chart
<1>3. CASE ~IsAborted(r) /\ r.answer = Empty /\ EndsWithError(r) /\ Heard(r)
             /\ UNCHANGED <<candles, series>>
  BY <1>1, <1>3 DEF IsAborted, EndsWithError, Heard
<1>4. CASE /\ ~IsAborted(r) /\ r.answer # Empty /\ r.replaceSeries
           /\ candles' = LastOf(r.answer, CandleLimit) /\ series' = candles'
           /\ Heard(r)
  BY <1>1, <1>4 DEF IsAborted, Heard
<1>5. ASSUME NEW updates, updates = SeriesUpdateCandles(candles, r.answer),
             ~IsAborted(r), r.answer # Empty, ~r.replaceSeries, Heard(r),
             IF Rejects(updates)
             THEN EndsWithError(r) /\ UNCHANGED series
             ELSE series' = Updated(updates)
      PROVE  /\ r.id = current /\ upTo' = r.end
             /\ paused' = (paused \/ (~r.replaceSeries /\ r.end > upTo + 1))
             /\ series' = Updated(SeriesUpdateCandles(candles, r.answer))
  <2>1. ~Rejects(updates)
    BY <1>1, <1>5, PollMerges DEF IsAborted
  <2>2. QED
    BY <2>1, <1>5 DEF IsAborted, Heard
<1>6. QED
  BY <1>1, <1>2, <1>3, <1>4, <1>5 DEF Arrives

LEMMA FinalStep ==
  ASSUME PollLimit >= 2, FeedInv, FinalBefore, [Next]_vars
  PROVE  FinalBefore'
<1> USE DEF FeedInv
<1> SUFFICES ASSUME panel' = "polling", ~paused', NEW m \in DOMAIN series', m < upTo'
             PROVE  series'[m] = trades'[m]
  BY DEF FinalBefore
<1>1. CASE ~\E r \in requests : Arrives(r)
  <2>1. /\ panel = "polling" /\ UNCHANGED <<candles, series, upTo, paused>>
        /\ \A k \in Minutes : k < upTo => trades'[k] = trades[k]
    BY <1>1, OtherSteps
  <2>2. m \in Minutes
    BY <2>1 DEF TypeOK, IsCandles
  <2>3. QED
    BY <2>1, <2>2 DEF FinalBefore
<1>2. ASSUME NEW r \in requests, Arrives(r)
      PROVE  series'[m] = trades'[m]
  <2> DEFINE next == r.answer
             end == r.end
  <2>1. UNCHANGED trades
    BY <1>2, ShownAnswer
  <2>2. CASE panel = "polling" /\ UNCHANGED <<series, upTo, paused>>
    BY <2>1, <2>2 DEF FinalBefore
  <2>3. ASSUME r.id = current, next # None
        PROVE  /\ panel = IF r.replaceSeries THEN "loading" ELSE "polling"
               /\ IsCandles(next) /\ end \in Nat /\ upTo \in Nat /\ upTo <= end
               /\ \A k \in DOMAIN next : k \in Minutes /\ end - r.limit < k /\ 0 < next[k]
                                         /\ next[k] <= trades[k] /\ next[k] \in Nat
               /\ \A k \in Minutes : end - r.limit < k /\ k < end /\ trades[k] > 0 =>
                    k \in DOMAIN next /\ next[k] = trades[k]
               /\ \A k \in Minutes : k \in Nat /\ trades[k] \in Nat
    <3>1. end \in Nat /\ upTo \in Nat
      BY <2>3, HeardAnswer, MaxMinuteType DEF TypeOK
    <3>2. QED
      BY <2>3, <3>1, HeardAnswer, DrawnCandles
  <2>4. CASE /\ r.id = current /\ next # None /\ upTo' = end /\ r.replaceSeries
             /\ series' = LastOf(next, CandleLimit)
    <3>1. m \in DOMAIN next /\ series'[m] = next[m]
      BY <2>3, <2>4, LastOfKeeps, LimitsAssumption
    <3>2. next[m] = trades[m]
      <4> HIDE DEF next, end
      <4>1. m \in Minutes /\ end - r.limit < m /\ trades[m] > 0 /\ m < end
        BY <2>3, <2>4, <3>1 DEF next
      <4>2. QED
        BY <4>1, <2>3, <2>4
    <3>3. QED
      BY <2>1, <3>1, <3>2
  <2>5. CASE /\ r.id = current /\ next # None /\ upTo' = end /\ ~r.replaceSeries
             /\ ~paused /\ end <= upTo + 1
             /\ \/ next = Empty /\ series' = series
                \/ next # Empty /\ series' = Updated(SeriesUpdateCandles(candles, next))
    <3>1. r.limit = PollLimit /\ panel = "polling" /\ PollLimit \in Nat
      BY <2>5, HeardAnswer
    <3>2. PICK later : later \subseteq DOMAIN next
                       /\ (\A k \in DOMAIN next : k >= upTo => k \in later)
                       /\ DOMAIN series' = DOMAIN series \cup later
                       /\ \A k \in DOMAIN series' :
                            series'[k] = IF k \in later THEN next[k] ELSE series[k]
      <4>1. CASE next = Empty /\ series' = series
        <5>1. DOMAIN next = {}
          BY <4>1, EmptyIsCandles
        <5>2. QED
          BY <4>1, <5>1
      <4>2. CASE next # Empty /\ series' = Updated(SeriesUpdateCandles(candles, next))
        <5>1. PICK updates : updates = SeriesUpdateCandles(candles, next)
          OBVIOUS
        <5>2. /\ DOMAIN updates = {k \in DOMAIN next : k >= Newest(candles)}
              /\ DOMAIN series' = DOMAIN series \cup DOMAIN updates
              /\ \A k \in DOMAIN series' :
                   series'[k] = IF k \in DOMAIN updates THEN next[k] ELSE series[k]
          BY <2>5, <4>2, <5>1, PollMerges
        <5>3. Newest(candles) \in Nat /\ Newest(candles) <= upTo
          BY <3>1, SameNewest DEF PanelHolds
        <5>4. \A k \in DOMAIN next : k \in Nat /\ (k >= upTo => k \in DOMAIN updates)
          BY <2>3, <2>5, <5>2, <5>3
        <5>5. QED
          BY <5>2, <5>4
      <4>3. QED
        BY <2>5, <4>1, <4>2
    <3>3. m < end
      BY <2>5
    <3>4. \A k \in DOMAIN series : k \in Minutes /\ 0 < series[k] /\ series[k] <= trades[k]
                                   /\ series[k] \in Nat
      BY DrawnCandles
    <3> HIDE DEF next, end
    <3>5. CASE m \in later
      <4>1. m \in DOMAIN next /\ series'[m] = next[m]
        BY <3>2, <3>5
      <4>2. m \in Minutes /\ end - r.limit < m /\ trades[m] > 0
        BY <4>1, <2>3, <2>5
      <4>3. QED
        BY <4>1, <4>2, <3>3, <2>1, <2>3, <2>5
    <3>6. CASE m \notin later
      <4>1. m \in DOMAIN series /\ series'[m] = series[m] /\ m \in Minutes /\ m \in Nat
            /\ trades[m] > 0
        BY <3>2, <3>4, <3>6, <2>3, <2>5
      <4>2. CASE m < upTo
        BY <4>1, <4>2, <2>1, <2>5, <3>1 DEF FinalBefore
      <4>3. CASE ~(m < upTo)
        <5>1. end - PollLimit < m /\ m >= upTo
          BY <4>1, <4>3, <3>1, <3>3, <2>3, <2>5
        <5>2. m \in DOMAIN next
          BY <4>1, <5>1, <3>1, <3>3, <2>3, <2>5
        <5>3. QED
          BY <5>1, <5>2, <3>2, <3>6
      <4>4. QED
        BY <4>2, <4>3
    <3>7. QED
      BY <3>5, <3>6
  <2>6. QED
    <3>1. \/ panel = "polling" /\ UNCHANGED <<series, upTo, paused>>
          \/ /\ r.id = current /\ next # None /\ upTo' = end
             /\ paused' = (paused \/ (~r.replaceSeries /\ end > upTo + 1))
             /\ \/ r.replaceSeries /\ series' = LastOf(next, CandleLimit)
                \/ ~r.replaceSeries /\ next = Empty /\ series' = series
                \/ /\ ~r.replaceSeries /\ next # Empty
                   /\ series' = Updated(SeriesUpdateCandles(candles, next))
      BY <1>2, ShownAnswer
    <3>2. r.id = current /\ next # None /\ ~(end > upTo + 1) => end <= upTo + 1
      BY <2>3
    <3> HIDE DEF next, end
    <3>3. QED
      BY <2>2, <2>4, <2>5, <3>1, <3>2
<1>3. QED
  BY <1>1, <1>2

\* A poll's answer to a chart that polls replaces the newest candle by one with
\* at least its trades.
LEMMA BackStep ==
  ASSUME FeedInv, [Next]_vars, panel = "polling", panel' = "polling"
  PROVE  \A m \in DOMAIN series : m \in DOMAIN series' /\ series'[m] >= series[m]
<1> USE DEF FeedInv
<1>1. \A m \in DOMAIN series : series[m] \in Nat
  BY DrawnCandles
<1>2. CASE ~\E r \in requests : Arrives(r)
  BY <1>1, <1>2, OtherSteps
<1>3. ASSUME NEW r \in requests, Arrives(r), NEW m \in DOMAIN series
      PROVE  m \in DOMAIN series' /\ series'[m] >= series[m]
  <2>1. CASE series' = series
    BY <2>1, <1>1
  <2>2. CASE /\ r.id = current /\ r.answer # None /\ ~r.replaceSeries /\ r.answer # Empty
             /\ series' = Updated(SeriesUpdateCandles(candles, r.answer))
    <3>1. PICK updates : updates = SeriesUpdateCandles(candles, r.answer)
      OBVIOUS
    <3>2. /\ DOMAIN updates \subseteq DOMAIN r.answer
          /\ DOMAIN series' = DOMAIN series \cup DOMAIN updates
          /\ \A k \in DOMAIN series' :
               series'[k] = IF k \in DOMAIN updates THEN r.answer[k] ELSE series[k]
      BY <2>2, <3>1, PollMerges
    <3>3. CASE m \in DOMAIN updates
      <4>1. series[m] <= r.answer[m] /\ m \in DOMAIN r.answer
        BY <2>2, <3>2, <3>3 DEF HeardCall, IsHeardCall
      <4>2. r.answer[m] \in Nat
        BY <2>2, <4>1, HeardAnswer
      <4>3. QED
        BY <4>1, <4>2, <3>2, <3>3, <1>1
    <3>4. CASE m \notin DOMAIN updates
      BY <3>2, <3>4, <1>1
    <3>5. QED
      BY <3>3, <3>4
  <2>3. r.id = current => ~r.replaceSeries
    BY HeardAnswer
  <2>4. QED
    BY <2>1, <2>2, <2>3, <1>3, ShownAnswer
<1>4. QED
  BY <1>2, <1>3

\* Polling, the panel has not asked beyond what is drawn and final.
LEMMA FinalMeansClosed == FeedInv /\ FinalBefore => ClosedCandlesAreFinal
<1> SUFFICES ASSUME FeedInv, FinalBefore, panel = "polling", ~paused,
                    NEW m \in DOMAIN series, m < Newest(series)
             PROVE  series[m] = trades[m]
  BY DEF ClosedCandlesAreFinal
<1>1. Newest(series) = Newest(candles) /\ Newest(candles) \in Nat /\ Newest(candles) <= upTo
  BY SameNewest DEF FeedInv, PanelHolds
<1>2. m \in Nat /\ upTo \in Nat
  BY DrawnCandles
<1>3. m < upTo
  BY <1>1, <1>2
<1>4. QED
  BY <1>3 DEF FinalBefore

-----------------------------------------------------------------------------
\* The variables of the chart keep their types, and the calls on their way are
\* about the chart, the venue and each other what FeedInv says, whatever the
\* order in which the route, the venue and the network serve them.
THEOREM FeedInvariant == Spec => []FeedInv
<1>1. Init => FeedInv
  BY FeedInit
<1>2. FeedInv /\ [Next]_vars => FeedInv'
  BY FeedStep
<1>3. QED
  BY <1>1, <1>2, PTL DEF Spec

\* What is drawn is what the panel keeps (candlesRef), although the one is
\* merged by time and cut to the limit and the other updated candle by candle.
THEOREM ChartShowsCandles == Spec => []SeriesShowsCandles
<1>1. FeedInv => SeriesShowsCandles
  BY DEF FeedInv
<1>2. QED
  BY <1>1, FeedInvariant, PTL

\* series.update is never given a candle older than the one the series ends
\* with, so the exception that ends a poll with an error cannot come from it.
NoUpdateRefused ==
  \A r \in requests :
    r.id = current /\ r.answer # None /\ r.answer # Empty /\ ~r.replaceSeries =>
      ~Rejects(SeriesUpdateCandles(candles, r.answer))

\* No poll whose answer is heard is refused by the chart library, whatever was
\* answered before it and in whatever order.
THEOREM SeriesTakesEveryUpdate == Spec => []NoUpdateRefused
<1>1. FeedInv => NoUpdateRefused
  <2> SUFFICES ASSUME FeedInv, NEW r \in requests, r.id = current, r.answer # None,
                      r.answer # Empty, ~r.replaceSeries
               PROVE  ~Rejects(SeriesUpdateCandles(candles, r.answer))
    BY DEF NoUpdateRefused
  <2>1. PICK updates : updates = SeriesUpdateCandles(candles, r.answer)
    OBVIOUS
  <2>2. QED
    BY <2>1, PollMerges
<1>2. QED
  BY <1>1, FeedInvariant, PTL

\* A poll that asks for two minutes or more (POLL_LIMIT is 2) catches the last
\* trades of a minute that closed since the poll before, as long as the polls
\* were answered once a minute: no candle but the newest is ever short of one.
THEOREM ClosedCandlesStay ==
  ASSUME PollLimit >= 2
  PROVE  Spec => []ClosedCandlesAreFinal
<1>1. Init => FinalBefore
  BY DEF Init, FinalBefore
<1>2. FeedInv /\ FinalBefore /\ [Next]_vars => FinalBefore'
  BY FinalStep
<1>3. FeedInv /\ FinalBefore => ClosedCandlesAreFinal
  BY FinalMeansClosed
<1>4. QED
  BY <1>1, <1>2, <1>3, FeedInvariant, PTL DEF Spec

\* While it polls the chart never loses a candle and no candle loses a trade,
\* although answers may arrive long after they were formed.
THEOREM ChartNeverGoesBack == Spec => NeverGoesBack
<1>1. FeedInv /\ [Next]_vars =>
        [panel = "polling" /\ panel' = "polling" =>
           \A m \in DOMAIN series : m \in DOMAIN series' /\ series'[m] >= series[m]]_vars
  BY BackStep
<1>2. QED
  BY <1>1, FeedInvariant, PTL DEF Spec, NeverGoesBack
=============================================================================
