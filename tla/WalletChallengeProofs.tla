------------------------ MODULE WalletChallengeProofs ------------------------
(***************************************************************************)
(* Theorems about WalletChallenge, for any sets of ids, addresses and      *)
(* requests, any lifetime and any number of restarts.                      *)
(***************************************************************************)
EXTENDS WalletChallenge, TLAPS

-----------------------------------------------------------------------------
(* The inductive invariant *)

\* An id names one challenge, stored at most once and no later than now.
OneChallengePerId ==
  /\ records \subseteq issued
  /\ issuing \cap issued = {}
  /\ \A c, d \in issuing \cup issued : c.id = d.id => c = d
  /\ \A c \in issuing \cup issued : c.issuedAt <= now

\* A request that found a challenge took it out of the store for good.
FoundIsGone ==
  \A r \in Requests :
    /\ requests[r].found => \E c \in issued \ records : c.id = requests[r].id
    /\ requests[r].stage \in {"unsent", "received"} => ~requests[r].found
    /\ requests[r].stage \in Holding => requests[r].found

IInv == TypeOK /\ OneChallengePerId /\ FoundIsGone /\ AttemptSpends /\ GrantedAsIssued

-----------------------------------------------------------------------------
(* What one step does to the requests and the challenges. *)

\* A step other than consume keeps what a request met in the store, and does
\* not make it hold a challenge.
Kept(r) ==
  /\ requests'[r].id = requests[r].id
  /\ requests'[r].address = requests[r].address
  /\ requests'[r].at = requests[r].at
  /\ requests'[r].found = requests[r].found
  /\ requests'[r].stage \in Stages
  /\ requests'[r].stage \in Holding <=> requests[r].stage \in Holding
  /\ requests'[r].stage \in {"unsent", "received"} =>
       requests[r].stage \in {"unsent", "received"}

LEMMA RequestSteps ==
  ASSUME TypeOK, [Next]_vars, \A r \in Requests : ~Consume(r)
  PROVE  /\ requests' \in [Requests -> Request]
         /\ \A r \in Requests : Kept(r)
<1> DEFINE Goal == requests' \in [Requests -> Request] /\ \A r \in Requests : Kept(r)
<1>1. CASE UNCHANGED requests
  BY <1>1 DEF TypeOK, Kept, Request
<1>2. ASSUME NEW r \in Requests, VerifyArrives(r)
      PROVE  Goal
  BY <1>2 DEF VerifyArrives, TypeOK, Kept, Request, Stages, Holding
<1>3. ASSUME NEW r \in Requests, VerifyAnswers(r)
      PROVE  Goal
  BY <1>3 DEF VerifyAnswers, TypeOK, Kept, Request, Stages, Holding
<1>4. CASE Restart
  <2>1. ASSUME NEW r \in Requests
        PROVE  requests'[r] \in Request /\ Kept(r)
    BY <1>4 DEF Restart, TypeOK, Kept, Request, Stages, Holding
  <2>2. requests' \in [Requests -> Request]
    BY <1>4, <2>1 DEF Restart
  <2>3. QED
    BY <2>1, <2>2
<1>5. QED
  BY <1>1, <1>2, <1>3, <1>4 DEF Next, vars, IssueReadsClock, IssueStores, Tick

\* Consume changes its own request, which finds the record it names or none.
LEMMA ConsumeStep ==
  ASSUME TypeOK, NEW r \in Requests, Consume(r)
  PROVE  /\ requests' \in [Requests -> Request]
         /\ \A q \in Requests : q # r => requests'[q] = requests[q]
         /\ requests'[r].id = requests[r].id
         /\ requests'[r].address = requests[r].address
         /\ requests'[r].at = now
         /\ requests'[r].found = (\E c \in records : c.id = requests[r].id)
         /\ requests'[r].stage = IF Grants(requests[r].id, requests[r].address)
                                 THEN "granted" ELSE "refused"
         /\ records' = {c \in records : c.id # requests[r].id}
         /\ UNCHANGED <<now, issuing, issued, restarts>>
<1>1. Grants(requests[r].id, requests[r].address) \in BOOLEAN
  BY DEF Grants
<1>2. QED
  BY <1>1 DEF Consume, TypeOK, Request, Stages, Remaining

-----------------------------------------------------------------------------
LEMMA IInvInit == Init => IInv
<1> SUFFICES ASSUME Init
             PROVE  IInv
  OBVIOUS
<1>1. requests \in [Requests -> Request]
  BY DEF Init, Request, Stages
<1>2. \A r \in Requests : requests[r].stage = "unsent" /\ ~requests[r].found
  BY DEF Init
<1>3. TypeOK
  BY <1>1 DEF Init, TypeOK
<1>4. OneChallengePerId
  BY DEF Init, OneChallengePerId
<1>5. FoundIsGone /\ AttemptSpends /\ GrantedAsIssued
  BY <1>2 DEF FoundIsGone, AttemptSpends, GrantedAsIssued, Holding
<1>6. QED
  BY <1>3, <1>4, <1>5 DEF IInv

LEMMA OneChallengeStep ==
  ASSUME TypeOK, OneChallengePerId, [Next]_vars
  PROVE  OneChallengePerId'
<1> USE DEF OneChallengePerId
<1>1. ASSUME NEW id \in ChallengeIds, NEW address \in Addresses, IssueReadsClock(id, address)
      PROVE  OneChallengePerId'
  <2> DEFINE new == [id |-> id, address |-> address, issuedAt |-> now]
  <2>1. new.id = id /\ new.issuedAt = now
    OBVIOUS
  <2>2. /\ issuing' = issuing \cup {new}
        /\ \A c \in issuing \cup issued : c.id # id
        /\ UNCHANGED <<now, records, issued>>
    BY <1>1 DEF IssueReadsClock, Fresh
  <2> HIDE DEF new
  <2>3. now <= now
    BY DEF TypeOK
  <2>4. QED
    BY <2>1, <2>2, <2>3
<1>2. ASSUME NEW c \in issuing, IssueStores(c)
      PROVE  OneChallengePerId'
  BY <1>2 DEF IssueStores
<1>3. ASSUME NEW r \in Requests, Consume(r)
      PROVE  OneChallengePerId'
  BY <1>3 DEF Consume, Remaining
<1>4. ASSUME NEW r \in Requests, VerifyArrives(r) \/ VerifyAnswers(r)
      PROVE  OneChallengePerId'
  BY <1>4 DEF VerifyArrives, VerifyAnswers
<1>5. CASE Tick
  <2>1. \A c \in issuing \cup issued : c.issuedAt \in Nat
    BY DEF TypeOK, Challenge
  <2>2. QED
    BY <1>5, <2>1 DEF Tick, TypeOK
<1>6. CASE Restart \/ UNCHANGED vars
  BY <1>6 DEF Restart, vars
<1>7. QED
  BY <1>1, <1>2, <1>3, <1>4, <1>5, <1>6 DEF Next

LEMMA TypeStep ==
  ASSUME TypeOK, OneChallengePerId, [Next]_vars
  PROVE  TypeOK'
<1>1. requests' \in [Requests -> Request]
  BY RequestSteps, ConsumeStep
<1> DEFINE Rest == /\ now' \in Nat /\ restarts' \in Nat
                   /\ records' \subseteq Challenge /\ issuing' \subseteq Challenge
                   /\ issued' \subseteq Challenge
<1>2. ASSUME NEW id \in ChallengeIds, NEW address \in Addresses, IssueReadsClock(id, address)
      PROVE  Rest
  <2>1. [id |-> id, address |-> address, issuedAt |-> now] \in Challenge
    BY DEF TypeOK, Challenge
  <2>2. QED
    BY <1>2, <2>1 DEF IssueReadsClock, TypeOK
<1>3. ASSUME NEW c \in issuing, IssueStores(c)
      PROVE  Rest
  BY <1>3 DEF IssueStores, TypeOK
<1>4. ASSUME NEW r \in Requests, Consume(r)
      PROVE  Rest
  BY <1>4 DEF Consume, Remaining, TypeOK
<1>5. ASSUME NEW r \in Requests, VerifyArrives(r) \/ VerifyAnswers(r)
      PROVE  Rest
  <2>1. UNCHANGED <<now, records, issuing, issued, restarts>>
    BY <1>5, Zenon DEF VerifyArrives, VerifyAnswers
  <2>2. QED
    BY <2>1 DEF TypeOK
<1>6. ASSUME Tick
      PROVE  Rest
  BY <1>6 DEF Tick, TypeOK
<1>7. ASSUME Restart
      PROVE  Rest
  <2>1. restarts' = restarts + 1 /\ records' = {} /\ issuing' = {} /\ UNCHANGED <<now, issued>>
    BY <1>7, SMT DEF Restart
  <2>2. QED
    BY <2>1 DEF TypeOK
<1>8. ASSUME UNCHANGED vars
      PROVE  Rest
  BY <1>8 DEF vars, TypeOK
<1>9. Rest
  BY <1>2, <1>3, <1>4, <1>5, <1>6, <1>7, <1>8, Zenon DEF Next
<1>10. \A c, d \in records' : c.id = d.id => c = d
  BY OneChallengeStep DEF OneChallengePerId
<1>11. QED
  BY <1>1, <1>9, <1>10 DEF TypeOK

-----------------------------------------------------------------------------
(* What one step does to the challenges that have left the store. *)

\* A challenge that was stored and is gone stays gone; the ones issued stay issued.
LEMMA GoneStaysGone ==
  ASSUME OneChallengePerId, [Next]_vars
  PROVE  issued \ records \subseteq issued' \ records' /\ issued \subseteq issued'
<1>1. ASSUME NEW c \in issuing, IssueStores(c)
      PROVE  issued \ records \subseteq issued' \ records' /\ issued \subseteq issued'
  BY <1>1 DEF IssueStores, OneChallengePerId
<1>2. ASSUME NEW r \in Requests, Consume(r)
      PROVE  issued \ records \subseteq issued' \ records' /\ issued \subseteq issued'
  BY <1>2 DEF Consume, Remaining
<1>3. QED
  BY <1>1, <1>2 DEF Next, vars, IssueReadsClock, VerifyArrives, VerifyAnswers, Tick, Restart

\* A challenge a request has found stays out of the store.
LEMMA FoundIsGoneStep ==
  ASSUME TypeOK, OneChallengePerId, FoundIsGone, [Next]_vars
  PROVE  FoundIsGone'
<1> DEFINE Spent(r) == \E c \in issued \ records : c.id = requests[r].id
           Fine(r) == /\ requests[r].found => Spent(r)
                      /\ requests[r].stage \in {"unsent", "received"} => ~requests[r].found
                      /\ requests[r].stage \in Holding => requests[r].found
<1>1. \A r \in Requests : Fine(r)
  BY DEF FoundIsGone
<1>2. ASSUME NEW r \in Requests, requests'[r].id = requests[r].id, Spent(r)
      PROVE  Spent(r)'
  BY <1>2, GoneStaysGone
<1>3. CASE \A r \in Requests : ~Consume(r)
  <2>1. \A r \in Requests : Kept(r)
    BY <1>3, RequestSteps
  <2>2. ASSUME NEW r \in Requests
        PROVE  Fine(r)'
    BY <1>1, <1>2, <2>1 DEF Kept
  <2>3. QED
    BY <2>2 DEF FoundIsGone
<1>4. ASSUME NEW r \in Requests, Consume(r)
      PROVE  FoundIsGone'
  <2>1. ASSUME NEW q \in Requests, q # r
        PROVE  Fine(q)'
    <3>1. requests'[q] = requests[q]
      BY <1>4, <2>1, ConsumeStep
    <3>2. QED
      BY <1>1, <1>2, <3>1
  <2>2. requests'[r].found => Spent(r)'
    BY <1>4, ConsumeStep DEF OneChallengePerId
  <2>3. requests'[r].stage \in {"granted", "refused"}
    BY <1>4, ConsumeStep
  <2>4. requests'[r].stage \in Holding => requests'[r].found
    BY <1>4, ConsumeStep DEF Holding, Grants
  <2>5. Fine(r)'
    BY <2>2, <2>3, <2>4
  <2>6. QED
    BY <2>1, <2>5 DEF FoundIsGone
<1>5. QED
  BY <1>3, <1>4

LEMMA AttemptSpendsStep ==
  ASSUME TypeOK, OneChallengePerId, FoundIsGone, AttemptSpends, [Next]_vars
  PROVE  AttemptSpends'
<1>1. CASE \A r \in Requests : ~Consume(r)
  <2>1. \A r \in Requests : Kept(r)
    BY <1>1, RequestSteps
  <2>2. QED
    BY <2>1 DEF AttemptSpends, Kept
<1>2. ASSUME NEW r \in Requests, Consume(r)
      PROVE  AttemptSpends'
  \* Had an earlier request found the challenge, r would find none.
  <2>1. ASSUME NEW q \in Requests, q # r, requests[q].found, requests[q].id = requests[r].id
        PROVE  ~requests'[r].found
    <3>1. PICK c \in issued \ records : c.id = requests[r].id
      BY <2>1 DEF FoundIsGone
    <3>2. \A d \in records : d.id # requests[r].id
      BY <3>1 DEF OneChallengePerId
    <3>3. QED
      BY <1>2, <3>2, ConsumeStep
  <2>2. \A q \in Requests : q # r => requests'[q] = requests[q]
    BY <1>2, ConsumeStep
  <2>3. requests'[r].id = requests[r].id
    BY <1>2, ConsumeStep
  <2>4. QED
    BY <2>1, <2>2, <2>3 DEF AttemptSpends
<1>3. QED
  BY <1>1, <1>2

LEMMA GrantedStep ==
  ASSUME TypeOK, OneChallengePerId, GrantedAsIssued, [Next]_vars
  PROVE  GrantedAsIssued'
<1> DEFINE Meant(r) == \E c \in issued : /\ c.id = requests[r].id
                                         /\ c.address = requests[r].address
                                         /\ c.issuedAt <= requests[r].at
                                         /\ requests[r].at <= ExpiresAt(c)
<1>1. issued \subseteq issued'
  BY GoneStaysGone
<1>2. \A r \in Requests : requests[r].stage \in Holding => Meant(r)
  BY DEF GrantedAsIssued
<1>3. CASE \A r \in Requests : ~Consume(r)
  <2>1. \A r \in Requests : Kept(r)
    BY <1>3, RequestSteps
  <2>2. ASSUME NEW r \in Requests, requests'[r].stage \in Holding
        PROVE  Meant(r)'
    <3>1. Kept(r) /\ Meant(r)
      BY <1>2, <2>1, <2>2 DEF Kept
    <3>2. PICK c \in issued : /\ c.id = requests[r].id
                              /\ c.address = requests[r].address
                              /\ c.issuedAt <= requests[r].at
                              /\ requests[r].at <= ExpiresAt(c)
      BY <3>1
    <3>3. ExpiresAt(c)' = ExpiresAt(c)
      BY DEF ExpiresAt
    <3>4. QED
      BY <1>1, <3>1, <3>2, <3>3 DEF Kept, ExpiresAt
  <2>3. QED
    BY <2>2 DEF GrantedAsIssued, ExpiresAt
<1>4. ASSUME NEW r \in Requests, Consume(r)
      PROVE  GrantedAsIssued'
  <2>1. ASSUME NEW q \in Requests, q # r, requests'[q].stage \in Holding
        PROVE  Meant(q)'
    <3>1. requests'[q] = requests[q]
      BY <1>4, <2>1, ConsumeStep
    <3>2. QED
      BY <1>1, <1>2, <2>1, <3>1 DEF ExpiresAt
  <2>2. ASSUME requests'[r].stage \in Holding
        PROVE  Meant(r)'
    <3>1. Grants(requests[r].id, requests[r].address)
      BY <1>4, <2>2, ConsumeStep DEF Holding
    <3>2. PICK c \in records : /\ c.id = requests[r].id
                               /\ ~(now > ExpiresAt(c))
                               /\ c.address = requests[r].address
      BY <3>1 DEF Grants
    <3>3. c \in issued /\ c.issuedAt <= now /\ c.issuedAt \in Nat /\ now \in Nat
      BY <3>2 DEF OneChallengePerId, TypeOK, Challenge
    <3>4. now <= ExpiresAt(c)
      BY <3>2, <3>3, TtlAssumption DEF ExpiresAt
    <3>5. /\ requests'[r].id = requests[r].id
          /\ requests'[r].address = requests[r].address
          /\ requests'[r].at = now
      BY <1>4, ConsumeStep
    <3>6. QED
      BY <1>1, <3>2, <3>3, <3>4, <3>5 DEF ExpiresAt
  <2>3. QED
    BY <2>1, <2>2 DEF GrantedAsIssued, ExpiresAt
<1>5. QED
  BY <1>3, <1>4

\* Everything a step needs to know holds in every state.
LEMMA Invariance == Spec => []IInv
<1>1. IInv /\ [Next]_vars => IInv'
  <2> SUFFICES ASSUME IInv, [Next]_vars
               PROVE  IInv'
    OBVIOUS
  <2>1. TypeOK' /\ OneChallengePerId'
    BY TypeStep, OneChallengeStep DEF IInv
  <2>2. FoundIsGone' /\ AttemptSpends' /\ GrantedAsIssued'
    BY FoundIsGoneStep, AttemptSpendsStep, GrantedStep DEF IInv
  <2>3. QED
    BY <2>1, <2>2 DEF IInv
<1>2. QED
  BY IInvInit, <1>1, PTL DEF Spec

\* Every variable holds a value of its type (records and handlers of server.go).
THEOREM TypeCorrectness == Spec => []TypeOK
  BY Invariance, PTL DEF IInv

\* However verify requests race, at most one of them ever finds a challenge.
THEOREM AttemptSpendsOnce == Spec => []AttemptSpends
  BY Invariance, PTL DEF IInv

\* A challenge is granted to the address it was issued to and in its lifetime.
THEOREM GrantedCorrect == Spec => []GrantedAsIssued
  BY Invariance, PTL DEF IInv

\* No purge takes a challenge that has not expired: the clock reading of the
\* issue call that purges is never later than now.
THEOREM LiveKept == Spec => LiveUntilUsed
<1> DEFINE Used(c) == \/ restarts' # restarts
                      \/ \E r \in Requests : /\ requests[r].stage = "received"
                                             /\ requests[r].id = c.id
                                             /\ requests'[r].stage # "received"
<1>1. ASSUME IInv, [Next]_vars, NEW c \in records, now <= ExpiresAt(c), c \notin records'
      PROVE  Used(c)
  <2>1. c.issuedAt \in Nat /\ now \in Nat
    BY <1>1 DEF IInv, TypeOK, Challenge
  <2>2. ASSUME NEW d \in issuing, IssueStores(d)
        PROVE  FALSE
    <3>1. d.issuedAt <= now /\ d.issuedAt \in Nat
      BY <1>1 DEF IInv, OneChallengePerId, TypeOK, Challenge
    <3>2. SurvivesPurge(c, d.issuedAt)
      BY <1>1, <2>1, <3>1, TtlAssumption DEF SurvivesPurge, ExpiresAt
    <3>3. QED
      BY <1>1, <2>2, <3>2 DEF IssueStores
  <2>3. ASSUME NEW r \in Requests, Consume(r)
        PROVE  Used(c)
    <3>1. requests[r].stage = "received"
      BY <2>3 DEF Consume
    <3>2. requests'[r].stage \in {"granted", "refused"}
      BY <1>1, <2>3, ConsumeStep DEF IInv
    <3>3. requests[r].id = c.id
      BY <1>1, <2>3 DEF Consume, Remaining
    <3>4. QED
      BY <3>1, <3>2, <3>3
  <2>4. CASE Restart
    <3>1. restarts' = restarts + 1 /\ restarts \in Nat
      BY <1>1, <2>4, Zenon DEF Restart, IInv, TypeOK
    <3>2. QED
      BY <3>1
  <2>5. ASSUME records' = records
        PROVE  FALSE
    BY <1>1, <2>5
  <2>6. QED
    BY <1>1, <2>2, <2>3, <2>4, <2>5, Zenon
    DEF Next, vars, IssueReadsClock, VerifyArrives, VerifyAnswers, Tick
<1>2. IInv /\ [Next]_vars =>
        [\A c \in records : now <= ExpiresAt(c) /\ c \notin records' => Used(c)]_vars
  BY <1>1
<1>3. QED
  BY Invariance, <1>2, PTL DEF Spec, LiveUntilUsed

-----------------------------------------------------------------------------
(* The store implements OneShotChallenge. *)

\* The values the refinement gives to the variables of OneShotChallenge, for
\* any challenges ever stored (all) and still in the store (in).
TokenMap(all, in) ==
  [id \in ChallengeIds |-> CASE id \in IdsOf(in) -> "open"
                             [] id \in IdsOf(all \ in) -> "closed"
                             [] OTHER -> "fresh"]

Token == TokenMap(issued, records)

Holders == [id \in ChallengeIds |->
              {r \in Requests : requests[r].id = id /\ requests[r].stage \in Holding}]

States == {"fresh", "open", "closed"}

\* An id is fresh until its challenge is stored, open while it is stored.
LEMMA TokenValues ==
  ASSUME NEW all, NEW in, in \subseteq all, \A c, d \in all : c.id = d.id => c = d,
         NEW id \in ChallengeIds
  PROVE  /\ TokenMap(all, in)[id] = "open" <=> \E c \in in : c.id = id
         /\ TokenMap(all, in)[id] = "closed" <=> \E c \in all \ in : c.id = id
         /\ TokenMap(all, in)[id] \in States
<1>1. (\E c \in in : c.id = id) => ~\E c \in all \ in : c.id = id
  OBVIOUS
<1>2. QED
  BY <1>1 DEF TokenMap, IdsOf, States

LEMMA TokensAreMap ==
  ASSUME NEW all, NEW in
  PROVE  TokenMap(all, in) = [id \in ChallengeIds |-> TokenMap(all, in)[id]]
<1> DEFINE value(id) == CASE id \in IdsOf(in) -> "open"
                          [] id \in IdsOf(all \ in) -> "closed"
                          [] OTHER -> "fresh"
<1>1. TokenMap(all, in) = [id \in ChallengeIds |-> value(id)]
  BY DEF TokenMap
<1> HIDE DEF value
<1>2. QED
  BY <1>1

LEMMA TokensNow ==
  ASSUME IInv, IInv'
  PROVE  /\ \A id \in ChallengeIds :
              /\ Token[id] = "open" <=> \E c \in records : c.id = id
              /\ Token[id] = "closed" <=> \E c \in issued \ records : c.id = id
              /\ Token[id] \in States
         /\ \A id \in ChallengeIds :
              /\ Token'[id] = "open" <=> \E c \in records' : c.id = id
              /\ Token'[id] = "closed" <=> \E c \in issued' \ records' : c.id = id
              /\ Token'[id] \in States
         /\ Token = [id \in ChallengeIds |-> Token[id]]
         /\ Token' = [id \in ChallengeIds |-> Token'[id]]
<1>1. /\ records \subseteq issued /\ \A c, d \in issued : c.id = d.id => c = d
      /\ records' \subseteq issued' /\ \A c, d \in issued' : c.id = d.id => c = d
  BY DEF IInv, OneChallengePerId
<1>2. /\ Token = [id \in ChallengeIds |-> Token[id]]
      /\ Token' = [id \in ChallengeIds |-> Token'[id]]
  BY TokensAreMap, Zenon DEF Token
<1>3. QED
  BY <1>1, <1>2, TokenValues DEF Token

\* A step in which no token becomes open closes those that cease to be.
LEMMA TokensLapse ==
  ASSUME IInv, IInv', issued' = issued, records' \subseteq records
  PROVE  LET lapsed == {id \in ChallengeIds : Token[id] = "open" /\ Token'[id] # "open"}
         IN  Token' = [id \in ChallengeIds |-> IF id \in lapsed THEN "closed" ELSE Token[id]]
<1> DEFINE lapsed == {id \in ChallengeIds : Token[id] = "open" /\ Token'[id] # "open"}
<1>1. ASSUME NEW id \in ChallengeIds
      PROVE  Token'[id] = IF id \in lapsed THEN "closed" ELSE Token[id]
  <2>1. Token[id] = "closed" => Token'[id] = "closed"
    BY TokensNow
  <2>2. Token[id] = "fresh" => Token'[id] = "fresh"
    BY TokensNow DEF States, IInv, OneChallengePerId
  <2>3. Token[id] = "open" => Token'[id] # "fresh"
    BY TokensNow DEF IInv, OneChallengePerId
  <2>4. Token[id] \in States /\ Token'[id] \in States
    BY TokensNow
  <2>5. QED
    BY <2>1, <2>2, <2>3, <2>4 DEF States
<1>2. QED
  BY <1>1, TokensNow

LEMMA StoresOpens ==
  ASSUME IInv, IInv', NEW c \in issuing, IssueStores(c)
  PROVE  Promise!Next
<1> DEFINE lapsed == {id \in ChallengeIds : Token[id] = "open" /\ Token'[id] # "open"}
<1>1. c.id \in ChallengeIds
  BY DEF IInv, TypeOK, Challenge
<1>2. /\ issued' = issued \cup {c} /\ c \in records' /\ UNCHANGED requests
      /\ records' \subseteq records \cup {c}
  BY DEF IssueStores
<1>3. records \subseteq issued /\ \A d \in issued : d.id # c.id
  BY DEF IInv, OneChallengePerId
<1>5. Token[c.id] = "fresh" /\ Token'[c.id] = "open"
  BY <1>1, <1>2, <1>3, TokensNow DEF States
<1>6. ASSUME NEW id \in ChallengeIds, id # c.id
      PROVE  Token'[id] = IF id \in lapsed THEN "closed" ELSE Token[id]
  <2>1. Token[id] = "closed" => Token'[id] = "closed"
    BY <1>2, <1>6, TokensNow
  <2>2. Token[id] = "fresh" => Token'[id] = "fresh"
    BY <1>2, <1>3, <1>6, TokensNow DEF States
  <2>3. Token[id] = "open" => Token'[id] # "fresh"
    BY <1>2, <1>3, <1>6, TokensNow
  <2>4. Token[id] \in States /\ Token'[id] \in States
    BY TokensNow
  <2>5. QED
    BY <2>1, <2>2, <2>3, <2>4 DEF States
<1>7. lapsed \in SUBSET {id \in ChallengeIds : Token[id] = "open"}
  OBVIOUS
<1>8. Holders' = Holders
  BY <1>2 DEF Holders
<1> HIDE DEF lapsed
<1>9. Token' = [[id \in ChallengeIds |-> IF id \in lapsed THEN "closed" ELSE Token[id]]
                   EXCEPT ![c.id] = "open"]
  BY <1>1, <1>5, <1>6, TokensNow
<1>10. QED
  BY <1>1, <1>5, <1>7, <1>8, <1>9
  DEF Promise!Next, Promise!Open, Promise!OpenTokens, Promise!Closed, Token, TokenMap, Holders

LEMMA ConsumeGrantsOrLapses ==
  ASSUME IInv, IInv', NEW r \in Requests, Consume(r)
  PROVE  Promise!Next
<1> DEFINE lapsed == {id \in ChallengeIds : Token[id] = "open" /\ Token'[id] # "open"}
           own == requests[r].id
<1>1. own \in ChallengeIds
  BY DEF IInv, TypeOK, Request
<1>2. /\ issued' = issued /\ records' = {c \in records : c.id # own}
      /\ \A q \in Requests : q # r => requests'[q] = requests[q]
      /\ requests'[r].id = own
      /\ requests'[r].stage = IF Grants(own, requests[r].address) THEN "granted" ELSE "refused"
  BY ConsumeStep DEF IInv
<1>3. Token' = [id \in ChallengeIds |-> IF id \in lapsed THEN "closed" ELSE Token[id]]
  BY <1>2, TokensLapse
<1>4. requests[r].stage = "received"
  BY DEF Consume
<1>5. CASE Grants(own, requests[r].address)
  <2>1. PICK c \in records : c.id = own
    BY <1>5 DEF Grants
  <2>2. Token[own] = "open"
    BY <1>1, <2>1, TokensNow
  <2>3. lapsed = {own}
    <3>1. Token'[own] # "open"
      BY <1>1, <1>2, TokensNow
    <3>2. ASSUME NEW id \in ChallengeIds, id # own, Token[id] = "open"
          PROVE  Token'[id] = "open"
      BY <1>2, <3>2, TokensNow
    <3>3. QED
      BY <1>1, <2>2, <3>1, <3>2
  \* No other request holds this challenge: it would be gone.
  <2>4. ASSUME NEW q \in Requests, q # r, requests[q].id = own, requests[q].stage \in Holding
        PROVE  FALSE
    <3>1. PICK d \in issued \ records : d.id = own
      BY <2>4 DEF IInv, FoundIsGone
    <3>2. QED
      BY <2>1, <3>1 DEF IInv, OneChallengePerId
  <2>5. requests'[r].stage \in Holding
    BY <1>2, <1>5 DEF Holding
  <2>6. {q \in Requests : requests'[q].id = own /\ requests'[q].stage \in Holding} = {r}
    BY <1>2, <2>4, <2>5
  <2>7. ASSUME NEW id \in ChallengeIds, id # own
        PROVE  {q \in Requests : requests'[q].id = id /\ requests'[q].stage \in Holding} =
               {q \in Requests : requests[q].id = id /\ requests[q].stage \in Holding}
    BY <1>2, <2>7
  <2>8. Holders' = [Holders EXCEPT ![own] = {r}]
    BY <1>1, <2>6, <2>7 DEF Holders
  <2> HIDE DEF lapsed, own
  <2>9. QED
    <3>1. Token' = Promise!Closed({own})
      BY <1>3, <2>3 DEF Promise!Closed, Token, TokenMap
    <3>2. PICK id \in ChallengeIds : id = own
      BY <1>1
    <3>3. Promise!Grant(id, r)
      BY <2>2, <2>8, <3>1, <3>2 DEF Promise!Grant, Token, TokenMap, Holders
    <3>4. QED
      BY <3>3 DEF Promise!Next
<1>6. CASE ~Grants(own, requests[r].address)
  <2>1. requests'[r].stage \notin Holding /\ requests[r].stage \notin Holding
    BY <1>2, <1>4, <1>6 DEF Holding
  <2>2. Holders' = Holders
    BY <1>2, <2>1 DEF Holders
  <2>3. lapsed \in SUBSET {id \in ChallengeIds : Token[id] = "open"}
    OBVIOUS
  <2> HIDE DEF lapsed
  <2>4. QED
    BY <1>3, <2>2, <2>3
    DEF Promise!Next, Promise!Lapse, Promise!OpenTokens, Promise!Closed, Token, TokenMap,
        Holders
<1>7. QED
  BY <1>5, <1>6

LEMMA OtherStepsKeepHolders ==
  ASSUME IInv, [Next]_vars, \A r \in Requests : ~Consume(r)
  PROVE  Holders' = Holders
<1>1. \A r \in Requests : Kept(r)
  BY RequestSteps DEF IInv
<1>2. \A id \in ChallengeIds :
        {r \in Requests : requests'[r].id = id /\ requests'[r].stage \in Holding} =
        {r \in Requests : requests[r].id = id /\ requests[r].stage \in Holding}
  BY <1>1 DEF Kept
<1>3. QED
  BY <1>2 DEF Holders

LEMMA RestartLapses ==
  ASSUME IInv, IInv', Restart
  PROVE  Promise!Next
<1> DEFINE lapsed == {id \in ChallengeIds : Token[id] = "open" /\ Token'[id] # "open"}
<1>1. issued' = issued /\ records' = {}
  BY DEF Restart
<1>2. Token' = [id \in ChallengeIds |-> IF id \in lapsed THEN "closed" ELSE Token[id]]
  BY <1>1, TokensLapse
<1>4. Holders' = Holders
  <2>1. ASSUME NEW r \in Requests, Consume(r)
        PROVE  FALSE
    <3>1. restarts' = restarts
      BY <2>1, ConsumeStep DEF IInv
    <3>2. restarts' = restarts + 1 /\ restarts \in Nat
      BY DEF Restart, IInv, TypeOK
    <3>3. QED
      BY <3>1, <3>2
  <2>2. QED
    BY <2>1, OtherStepsKeepHolders DEF Next
<1>5. lapsed \in SUBSET {id \in ChallengeIds : Token[id] = "open"}
  OBVIOUS
<1> HIDE DEF lapsed
<1>6. QED
  BY <1>2, <1>4, <1>5
  DEF Promise!Next, Promise!Lapse, Promise!OpenTokens, Promise!Closed, Token, TokenMap, Holders

\* The store and its handlers keep the promise of OneShotChallenge: a challenge
\* opens once, is granted to at most one request while it is open, and never
\* opens again.
THEOREM Implements == Spec => KeepsPromise
<1>1. Init => Promise!Init
  BY DEF Init, Promise!Init, IdsOf, Holding
<1>2. IInv /\ IInv' /\ [Next]_vars => [Promise!Next]_(Promise!vars)
  <2> SUFFICES ASSUME IInv, IInv', [Next]_vars
               PROVE  [Promise!Next]_(Promise!vars)
    OBVIOUS
  <2>1. CASE \E c \in issuing : IssueStores(c)
    BY <2>1, StoresOpens
  <2>2. CASE \E r \in Requests : Consume(r)
    BY <2>2, ConsumeGrantsOrLapses
  <2>3. CASE Restart
    BY <2>3, RestartLapses
  <2>4. ASSUME records' = records, issued' = issued, \A r \in Requests : ~Consume(r)
        PROVE  [Promise!Next]_(Promise!vars)
    <3>1. Holders' = Holders /\ Token' = Token
      BY <2>4, OtherStepsKeepHolders DEF Token
    <3>2. QED
      BY <3>1 DEF Promise!vars, Token, TokenMap, Holders
  <2>5. \/ \E c \in issuing : IssueStores(c)
        \/ \E r \in Requests : Consume(r)
        \/ Restart
        \/ records' = records /\ issued' = issued
    BY DEF Next, vars, IssueReadsClock, VerifyArrives, VerifyAnswers, Tick
  <2>6. QED
    BY <2>1, <2>2, <2>3, <2>4, <2>5
<1>3. QED
  BY Invariance, <1>1, <1>2, PTL DEF Spec, KeepsPromise, Promise!Spec
=============================================================================
