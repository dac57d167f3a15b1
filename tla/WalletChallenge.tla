--------------------------- MODULE WalletChallenge ---------------------------
(***************************************************************************)
(* The wallet-challenge store of the BFF (server.go: walletChallengeStore, *)
(* walletChallengeHandler, walletVerifyHandler).  Every request runs in a  *)
(* goroutine of its own.  issue reads the clock and draws its random id    *)
(* before it takes the lock, so between the two the clock moves on and     *)
(* other requests pass; consume does all its work under the lock.  The     *)
(* store lives in memory only and a restart of the BFF loses it.           *)
(*                                                                         *)
(* Time is a counter of ticks that never goes back, issuedAt and expiresAt *)
(* are compared on it as After compares them.  parseWalletAddress has      *)
(* lower-cased every address, so strings.EqualFold is equality.  Requests  *)
(* rejected before they reach the store change nothing and are left out.   *)
(***************************************************************************)
EXTENDS Naturals

CONSTANTS
  ChallengeIds,  \* the values randomHexToken may return
  Addresses,
  Requests,      \* the verify requests clients send, repeated ones included
  Ttl,           \* walletChallengeTTL
  MaxTime,       \* bound: ticks of the clock
  MaxRestarts    \* bound: restarts of the BFF

ASSUME TtlAssumption == Ttl \in Nat
ASSUME BoundsAssumption == MaxTime \in Nat /\ MaxRestarts \in Nat

VARIABLES
  now,        \* nowFn()
  records,    \* walletChallengeStore.records
  issuing,    \* issue calls between their clock reading and the lock
  requests,   \* the state of each verify request, when it met the store and
              \* whether it found a record there
  issued,     \* history: every challenge that was ever stored
  restarts    \* restarts so far

vars == <<now, records, issuing, requests, issued, restarts>>

Challenge == [id: ChallengeIds, address: Addresses, issuedAt: Nat]
Stages == {"unsent", "received", "refused", "granted", "verified", "failed"}
Request == [stage: Stages, id: ChallengeIds, address: Addresses, at: Nat,
            found: BOOLEAN]

ExpiresAt(c) == c.issuedAt + Ttl

\* Stages of a request that consumed its challenge successfully.
Holding == {"granted", "verified", "failed"}

Init ==
  /\ now = 0
  /\ records = {}
  /\ issuing = {}
  /\ \E id \in [Requests -> ChallengeIds], address \in [Requests -> Addresses] :
       requests = [r \in Requests |-> [stage |-> "unsent", id |-> id[r],
                                      address |-> address[r], at |-> 0, found |-> FALSE]]
  /\ issued = {}
  /\ restarts = 0

-----------------------------------------------------------------------------
\* The random ids never repeat.
Fresh(id) == \A c \in issuing \cup issued : c.id # id

\* issue up to s.mu.Lock().
IssueReadsClock(id, address) ==
  /\ Fresh(id)
  /\ issuing' = issuing \cup {[id |-> id, address |-> address, issuedAt |-> now]}
  /\ UNCHANGED <<now, records, requests, issued, restarts>>

\* Fault: a challenge is purged in the instant it expires.
SurvivesPurgeShorter(c, issuedAt) == issuedAt < ExpiresAt(c)

\* The purge deletes a record when issuedAt.After(existing.ExpiresAt).
SurvivesPurge(c, issuedAt) == ~(issuedAt > ExpiresAt(c))

\* issue under the lock: purge, then insert.
IssueStores(c) ==
  /\ c \in issuing
  /\ issuing' = issuing \ {c}
  /\ records' = {d \in records : SurvivesPurge(d, c.issuedAt)} \cup {c}
  /\ issued' = issued \cup {c}
  /\ UNCHANGED <<now, requests, restarts>>

\* A verify request passes the checks of its body.
VerifyArrives(r) ==
  /\ requests[r].stage = "unsent"
  /\ requests' = [requests EXCEPT ![r].stage = "received"]
  /\ UNCHANGED <<now, records, issuing, issued, restarts>>

\* Fault: the record is deleted only when the request is granted.
RemainingUnlessGranted(id, address) ==
  {c \in records : ~(c.id = id /\ c.address = address /\ now <= ExpiresAt(c))}

\* Fault: the record stays.
RemainingAll(id, address) == records

\* The record found is deleted before anything else is looked at.
Remaining(id, address) == {c \in records : c.id # id}

\* Fault: the expiry is not checked.
GrantsLate(id, address) == \E c \in records : c.id = id /\ c.address = address

\* Found, not now.After(ExpiresAt), and for the same address.
Grants(id, address) ==
  \E c \in records : c.id = id /\ ~(now > ExpiresAt(c)) /\ c.address = address

\* consume.
Consume(r) ==
  /\ requests[r].stage = "received"
  /\ records' = Remaining(requests[r].id, requests[r].address)
  /\ requests' = [requests EXCEPT
       ![r].stage = IF Grants(requests[r].id, requests[r].address)
                    THEN "granted" ELSE "refused",
       ![r].at = now,
       ![r].found = \E c \in records : c.id = requests[r].id]
  /\ UNCHANGED <<now, issuing, issued, restarts>>

\* The rest of the handler: the signature's form, the venue's adapter and its
\* eligibility call, each of which may fail; the challenge stays consumed.
VerifyAnswers(r) ==
  /\ requests[r].stage = "granted"
  /\ \E stage \in {"verified", "failed"} :
       requests' = [requests EXCEPT ![r].stage = stage]
  /\ UNCHANGED <<now, records, issuing, issued, restarts>>

Tick ==
  /\ now < MaxTime
  /\ now' = now + 1
  /\ UNCHANGED <<records, issuing, requests, issued, restarts>>

\* The process restarts: the store is gone and the running requests break off.
Restart ==
  /\ restarts < MaxRestarts
  /\ restarts' = restarts + 1
  /\ records' = {}
  /\ issuing' = {}
  /\ requests' = [r \in Requests |->
       CASE requests[r].stage = "received" -> [requests[r] EXCEPT !.stage = "refused"]
         [] requests[r].stage = "granted" -> [requests[r] EXCEPT !.stage = "failed"]
         [] OTHER -> requests[r]]
  /\ UNCHANGED <<now, issued>>

Next ==
  \/ \E id \in ChallengeIds, address \in Addresses : IssueReadsClock(id, address)
  \/ \E c \in issuing : IssueStores(c)
  \/ \E r \in Requests : VerifyArrives(r) \/ Consume(r) \/ VerifyAnswers(r)
  \/ Tick
  \/ Restart

Spec == Init /\ [][Next]_vars

-----------------------------------------------------------------------------
(* Properties *)

\* Every variable holds a value of its type; records is a map from ids.
TypeOK ==
  /\ now \in Nat
  /\ records \subseteq Challenge
  /\ \A c, d \in records : c.id = d.id => c = d
  /\ issuing \subseteq Challenge
  /\ requests \in [Requests -> Request]
  /\ issued \subseteq Challenge
  /\ restarts \in Nat

\* However verify requests for one challenge race, at most one of them ever
\* finds it: granted or not, that attempt spends it (the BFF's tests rule out
\* the reuse for two calls in sequence).
AttemptSpends ==
  \A r, q \in Requests :
    requests[r].found /\ requests[q].found /\ requests[r].id = requests[q].id => r = q

\* A request is granted only a challenge that was issued to its address, and
\* within the challenge's lifetime, however long issue waited for the lock.
GrantedAsIssued ==
  \A r \in Requests :
    requests[r].stage \in Holding =>
      \E c \in issued : /\ c.id = requests[r].id
                        /\ c.address = requests[r].address
                        /\ c.issuedAt <= requests[r].at
                        /\ requests[r].at <= ExpiresAt(c)

\* A stored challenge that has not expired leaves the store only with a verify
\* request that names it, or with a restart: no purge by another client's
\* challenge, delayed as it may be, takes it away.
LiveUntilUsed ==
  [][\A c \in records :
       now <= ExpiresAt(c) /\ c \notin records' =>
         \/ restarts' # restarts
         \/ \E r \in Requests : /\ requests[r].stage = "received"
                                /\ requests[r].id = c.id
                                /\ requests'[r].stage # "received"]_vars

-----------------------------------------------------------------------------
(* The one-shot specification it implements *)

IdsOf(challenges) == {c.id : c \in challenges}

Promise == INSTANCE OneShotChallenge WITH
  token <- [id \in ChallengeIds |-> CASE id \in IdsOf(records) -> "open"
                                      [] id \in IdsOf(issued \ records) -> "closed"
                                      [] OTHER -> "fresh"],
  holders <- [id \in ChallengeIds |->
                {r \in Requests : requests[r].id = id /\ requests[r].stage \in Holding}]

\* The store and its handlers keep the promise of OneShotChallenge.
KeepsPromise == Promise!Spec
=============================================================================
