------------------------------ MODULE CandleFeed ------------------------------
(***************************************************************************)
(* The candle chart (CandlestickChartPanel) and what feeds it: the panel   *)
(* loads the last candles once and then polls for the newest ones, the     *)
(* route /api/market/candles asks the venue for a range that ends at its   *)
(* own clock, and the answers are merged into the candles the panel keeps  *)
(* and, one by one, into the series that is drawn.                         *)
(*                                                                         *)
(* A candle is told apart by the minute it opens at and the number of      *)
(* trades it holds; a list of candles is a function from minutes, sorted   *)
(* by nature as the merge and the provider sort it.  The server's clock    *)
(* and the venue's are one.                                                *)
(***************************************************************************)
EXTENDS Integers, FiniteSets, FiniteSetsExt, Functions

CONSTANTS
  None,
  CandleLimit, \* DEFAULT_CANDLE_LIMIT
  PollLimit,   \* POLL_LIMIT
  MaxMinute,   \* bound: the venue's last minute
  MaxTrades,   \* bound: trades of one minute
  MaxLoads     \* bound: calls of loadCandles

ASSUME LimitsAssumption ==
  /\ PollLimit \in Nat \ {0} /\ CandleLimit \in Nat \ {0}
  /\ PollLimit <= CandleLimit
ASSUME FeedBoundsAssumption ==
  /\ MaxMinute \in Nat \ {0} /\ MaxTrades \in Nat /\ MaxLoads \in Nat
  /\ None \notin 0..MaxLoads

VARIABLES
  minute,     \* of the venue
  trades,     \* the trades of each minute so far
  panel,      \* setupChart: importing, loading, polling, failed; or gone
  loads,      \* calls of loadCandles so far
  requests,   \* the calls whose fetch has not settled
  current,    \* the call whose controller abortControllerRef holds, or None
  candles,    \* candlesRef
  series,     \* what the chart library draws
  isLoading,
  error,
  upTo,       \* history: the last minute asked for by an answer that was taken
  paused      \* history: two such minutes were further apart than one

venue == <<minute, trades>>
chart == <<candles, series, isLoading, error, upTo, paused>>
vars == <<minute, trades, panel, loads, requests, current, candles, series, isLoading,
          error, upTo, paused>>

Empty == [m \in {} |-> 0]
Newest(cs) == Max(DOMAIN cs)

\* Fault: a range that leaves out the minute before the current one.
CurrentMinuteOnly(limit, end) == end - (limit - 1) + 1 .. end

\* createCandleRange: the minutes from startTimeMs to endTimeMs.
CandleRange(limit, end) == end - (limit - 1) .. end

\* slice: the last n candles.
LastOf(cs, n) ==
  Restrict(cs, {m \in DOMAIN cs : Cardinality({k \in DOMAIN cs : k > m}) < n})

\* mergePriceCandles.
MergePriceCandles(cs, next) ==
  LastOf([m \in DOMAIN cs \cup DOMAIN next |-> IF m \in DOMAIN next THEN next[m] ELSE cs[m]],
         CandleLimit)

\* Fault: the candle the series ends with is left out.
LaterCandles(cs, next) ==
  IF cs = Empty THEN next ELSE Restrict(next, {m \in DOMAIN next : m > Newest(cs)})

\* getSeriesUpdateCandles.
SeriesUpdateCandles(cs, next) ==
  IF cs = Empty THEN next ELSE Restrict(next, {m \in DOMAIN next : m >= Newest(cs)})

\* series.update throws for a candle older than the one the series ends with.
Rejects(updates) ==
  series # Empty /\ \E m \in DOMAIN updates : m < Newest(series)

Updated(updates) ==
  [m \in DOMAIN series \cup DOMAIN updates |->
     IF m \in DOMAIN updates THEN updates[m] ELSE series[m]]

Init ==
  /\ minute = 1
  /\ trades \in {[m \in 0..MaxMinute |-> IF m < 2 THEN n[m] ELSE 0] :
                   n \in [0..1 -> 0..MaxTrades]}
  /\ panel = "importing"
  /\ loads = 0
  /\ requests = {}
  /\ current = None
  /\ candles = Empty
  /\ series = Empty
  /\ isLoading = TRUE
  /\ error = FALSE
  /\ upTo = 0
  /\ paused = FALSE

-----------------------------------------------------------------------------
(* The venue. *)

MinutePasses ==
  /\ minute < MaxMinute
  /\ minute' = minute + 1
  /\ UNCHANGED <<trades, panel, loads, requests, current, chart>>

Trade ==
  /\ trades[minute] < MaxTrades
  /\ trades' = [trades EXCEPT ![minute] = @ + 1]
  /\ UNCHANGED <<minute, panel, loads, requests, current, chart>>

-----------------------------------------------------------------------------
(* The panel. *)

\* loadCandles up to its first await: the call before it is aborted.
LoadCandles(limit, replaceSeries) ==
  /\ loads < MaxLoads
  /\ loads' = loads + 1
  /\ current' = loads'
  /\ requests' = requests \cup
       {[id |-> loads', limit |-> limit, replaceSeries |-> replaceSeries,
         end |-> None, answer |-> None]}

\* setupChart once the chart library is there.
SetupChart ==
  /\ panel = "importing"
  /\ panel' = "loading"
  /\ LoadCandles(CandleLimit, TRUE)
  /\ UNCHANGED <<venue, chart>>

\* The import or the creation of the chart throws.
SetupFails ==
  /\ panel = "importing"
  /\ panel' = "failed"
  /\ isLoading' = FALSE
  /\ error' = TRUE
  /\ UNCHANGED <<venue, loads, requests, current, candles, series, upTo, paused>>

\* The interval ticks, whether or not the call of the last tick has ended.
PollTick ==
  /\ panel = "polling"
  /\ LoadCandles(PollLimit, FALSE)
  /\ UNCHANGED <<venue, panel, chart>>

\* The module is taken off the workspace: the effect's cleanup.
Unmount ==
  /\ panel # "gone"
  /\ panel' = "gone"
  /\ current' = None
  /\ candles' = Empty
  /\ series' = Empty
  /\ UNCHANGED <<venue, loads, requests, isLoading, error, upTo, paused>>

\* It is added again, as a new panel.
Mount ==
  /\ panel = "gone"
  /\ panel' = "importing"
  /\ isLoading' = TRUE
  /\ error' = FALSE
  /\ upTo' = 0
  /\ paused' = FALSE
  /\ UNCHANGED <<venue, loads, requests, current, candles, series>>

-----------------------------------------------------------------------------
(* A request on its way. *)

\* The route reads the clock and forms the range.
RouteHandles(r) ==
  /\ r \in requests
  /\ r.end = None
  /\ requests' = (requests \ {r}) \cup {[r EXCEPT !.end = minute]}
  /\ UNCHANGED <<venue, panel, loads, current, chart>>

\* The venue answers with the candles of the range; a minute without trades
\* has none.
VenueAnswers(r) ==
  /\ r \in requests
  /\ r.end # None
  /\ r.answer = None
  /\ LET held == {m \in CandleRange(r.limit, r.end) \cap DOMAIN trades : trades[m] > 0}
     IN requests' = (requests \ {r}) \cup {[r EXCEPT !.answer = Restrict(trades, held)]}
  /\ UNCHANGED <<venue, panel, loads, current, chart>>

\* Fault: the answer to an earlier call is taken.
NeverAborted(r) == FALSE

\* Whichever call abortControllerRef holds is aborted by the next one and by
\* the cleanup; only a call that has settled leaves it otherwise.
IsAborted(r) == r.id # current

\* The call ends without a candle to show: it failed, timed out, brought
\* nothing, or the series refused it.
EndsWithError(r) ==
  /\ error' = TRUE
  /\ isLoading' = FALSE
  /\ current' = None
  /\ panel' = IF r.replaceSeries THEN "failed" ELSE panel

\* A heard answer that covers r.end: the polls pause when it comes more than a
\* minute after the one before.
Heard(r) ==
  /\ upTo' = r.end
  /\ paused' = (paused \/ (~r.replaceSeries /\ r.end > upTo + 1))

\* The rest of loadCandles, and of setupChart when it was the first call.
Arrives(r) ==
  /\ r \in requests
  /\ r.answer # None
  /\ requests' = requests \ {r}
  /\ LET updates == SeriesUpdateCandles(candles, r.answer) IN
       \/ /\ IsAborted(r)
          /\ UNCHANGED <<panel, current, chart>>
       \/ /\ ~IsAborted(r)
          /\ r.answer = Empty
          /\ EndsWithError(r)
          /\ Heard(r)
          /\ UNCHANGED <<candles, series>>
       \/ /\ ~IsAborted(r)
          /\ r.answer # Empty
          /\ r.replaceSeries
          /\ candles' = LastOf(r.answer, CandleLimit)
          /\ series' = candles'
          /\ isLoading' = FALSE
          /\ error' = FALSE
          /\ current' = None
          /\ panel' = "polling"
          /\ Heard(r)
       \/ /\ ~IsAborted(r)
          /\ r.answer # Empty
          /\ ~r.replaceSeries
          /\ candles' = MergePriceCandles(candles, r.answer)
          /\ Heard(r)
          /\ IF Rejects(updates)
             THEN EndsWithError(r) /\ UNCHANGED series
             ELSE /\ series' = Updated(updates)
                  /\ isLoading' = FALSE
                  /\ error' = FALSE
                  /\ current' = None
                  /\ UNCHANGED panel
  /\ UNCHANGED <<venue, loads>>

\* The fetch is refused, times out, or its candles do not parse.
Fails(r) ==
  /\ r \in requests
  /\ requests' = requests \ {r}
  /\ IF IsAborted(r) THEN UNCHANGED <<panel, current, isLoading, error>>
     ELSE EndsWithError(r)
  /\ UNCHANGED <<venue, loads, candles, series, upTo, paused>>

-----------------------------------------------------------------------------
Next ==
  \/ MinutePasses \/ Trade
  \/ SetupChart \/ SetupFails \/ PollTick \/ Unmount \/ Mount
  \/ \E r \in requests :
       RouteHandles(r) \/ VenueAnswers(r) \/ Arrives(r) \/ Fails(r)

Spec == Init /\ [][Next]_vars

-----------------------------------------------------------------------------
\* What is drawn is what the panel keeps: every kept candle is drawn with the
\* same trades, and what is drawn besides is older than all of them, although
\* the one is merged by time and the other updated candle by candle.
SeriesShowsCandles ==
  /\ \A m \in DOMAIN candles : m \in DOMAIN series /\ series[m] = candles[m]
  /\ \A m \in DOMAIN series \ DOMAIN candles : \A k \in DOMAIN candles : m < k

\* While the polls were answered at least once a minute, a candle that is not
\* the newest one drawn has all its trades: the last trades before the minute
\* changed are not lost between two polls.
ClosedCandlesAreFinal ==
  panel = "polling" /\ ~paused =>
    \A m \in DOMAIN series : m < Newest(series) => series[m] = trades[m]

\* A drawn candle never loses a trade and the chart never loses its newest
\* candle to an answer that is older than the one it has shown.
NeverGoesBack ==
  [][panel = "polling" /\ panel' = "polling" =>
       \A m \in DOMAIN series : m \in DOMAIN series' /\ series'[m] >= series[m]]_vars
=============================================================================
