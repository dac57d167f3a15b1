---------------------------- MODULE OrderTracker ----------------------------
(***************************************************************************)
(* The submitted-order tracker of the web client                           *)
(* (lib/wallet/use-submitted-perp-actions.ts) together with the flows that *)
(* feed it: the order ticket's submission (order-entry-panel.tsx), the     *)
(* orders panel's cancellation (perp-orders-fills-panel.tsx), the status   *)
(* polls, the effects that lag one commit behind the React state, a page   *)
(* reload, and the venue behind the BFF.                                   *)
(*                                                                         *)
(* React state is modelled as the value all enqueued updates produce, in   *)
(* the order they were enqueued; the ref the poll loop reads and the       *)
(* localStorage copy are written by effects after the commit, so they may  *)
(* be older.  A click is a discrete event: React flushes the state it sets *)
(* and the effects of that commit before the next event is handled.        *)
(*                                                                         *)
(* The list a wallet key maps to is always newest first (the only insert   *)
(* is a prepend), so the model keeps one record per action and the rank of *)
(* its submission.  The orderId of an action is set from the preview and   *)
(* is never empty; display-only fields (price, size, timestamps, error     *)
(* texts) are left out.                                                    *)
(***************************************************************************)
EXTENDS Naturals, FiniteSets

CONSTANTS
  Orders,                     \* the orders a user may submit (one action id each)
  Wallets,                    \* wallet keys, toWalletKey(accountId, venue)
  WalletOf,                   \* the wallet key each order is submitted under
  MaxReconciliationAttempts,  \* MAX_RECONCILIATION_ATTEMPTS (90 in the code)
  MaxTracked,                 \* actions kept for a wallet (24 in the code)
  EndStatuses,                \* raw statuses the venue ends a live order with
  MaxReloads                  \* bound: page reloads in a behaviour

RawTerminal == {"filled", "canceled", "marginCanceled", "tickRejected"}

ASSUME OrdersAssumption == IsFiniteSet(Orders)
ASSUME WalletOfAssumption == WalletOf \in [Orders -> Wallets]
ASSUME AttemptsAssumption == MaxReconciliationAttempts \in Nat \ {0}
ASSUME TrackedAssumption == MaxTracked \in Nat \ {0}
ASSUME EndStatusesAssumption == EndStatuses \subseteq RawTerminal
ASSUME ReloadsAssumption == MaxReloads \in Nat

VARIABLES
  actionsByWallet,      \* React state: order -> tracked action or Untracked
  actionsByWalletRef,   \* the ref the poll loop reads
  storage,              \* localStorage 'dexera.perp-actions.v1'
  inFlightActionIds,    \* inFlightActionIdsRef
  polls,                \* status requests between fetch and their continuation
  flows,                \* submissions and cancellations between click and end
  wire,                 \* signed actions posted and not yet handled by the venue
  venueOrders,          \* external: raw status of each order at the venue
  submittedAt,          \* rank of the submission, 0 while not submitted
  reloads,              \* page reloads so far
  orphans               \* history: orders a reload, or an answer that states
                        \* nothing, left cancel-pending

vars == <<actionsByWallet, actionsByWalletRef, storage, inFlightActionIds, polls,
          flows, wire, venueOrders, submittedAt, reloads, orphans>>

pageVars == <<actionsByWallet, actionsByWalletRef, storage, inFlightActionIds, polls>>

-----------------------------------------------------------------------------
(* Statuses *)

TerminalStatuses == {"filled", "cancelled", "rejected", "failed"}
TrackedStatuses ==
  {"optimistic_submitting", "submitted", "reconciling", "open"} \cup TerminalStatuses
BffStatuses == {"open", "filled", "cancelled", "rejected", "submitted"}
RawStatuses == {"none", "open", "unknownOid"} \cup RawTerminal

Action == [status: TrackedStatuses \cup {"untracked"}, hasVenueOrderId: BOOLEAN,
           isTerminal: BOOLEAN, reconciliationAttempts: 0 .. MaxReconciliationAttempts,
           isCancelPending: BOOLEAN]

Untracked == [status |-> "untracked", hasVenueOrderId |-> FALSE, isTerminal |-> FALSE,
              reconciliationAttempts |-> 0, isCancelPending |-> FALSE]

OptimisticAction == [Untracked EXCEPT !.status = "optimistic_submitting"]

IsTracked(state, o) == state[o].status # "untracked"

\* Fault: an order the venue does not know is taken for a cancelled one.
NormalizeUnknownAsCancelled(raw) ==
  IF raw \in {"open", "filled"} THEN raw ELSE "cancelled"

\* The BFF's reading of a raw venue status (perp_adapters.go).
NormalizeOrderStatus(raw) ==
  CASE raw = "filled" -> "filled"
    [] raw = "open" -> "open"
    [] raw = "tickRejected" -> "rejected"
    [] raw \in {"canceled", "marginCanceled"} -> "cancelled"
    [] OTHER -> "submitted"

IsOrderStatusTerminal(status) == status \in {"filled", "cancelled", "rejected"}

\* Fault: a rejection keeps the tracker asking.
ResolveWithoutRejected(status, isTerminal) ==
  IF status \in {"filled", "cancelled", "open"} THEN status ELSE "reconciling"

\* The tracker's reading of the BFF's answer.
ResolveTrackedStatus(status, isTerminal) ==
  CASE status \in {"filled", "cancelled", "rejected", "open"} -> status
    [] status = "submitted" -> "reconciling"
    [] OTHER -> IF isTerminal THEN "failed" ELSE "reconciling"

-----------------------------------------------------------------------------
(* Updates of the React state.  Each maps over the wallet's list, so it    *)
(* changes nothing when the action is no longer tracked.                   *)

Replace(state, o, action) ==
  IF IsTracked(state, o) THEN [state EXCEPT ![o] = action] ELSE state

\* The tracked actions ahead of p in its wallet's list.
Ahead(state, p) ==
  {q \in Orders : /\ WalletOf[q] = WalletOf[p]
                  /\ IsTracked(state, q)
                  /\ submittedAt[q] > submittedAt[p]}

\* Fault: the slice keeps one action too many.
SlicedOffLate(state, o, p) ==
  WalletOf[p] = WalletOf[o] /\ Cardinality(Ahead(state, p)) >= MaxTracked

\* Prepending o pushes p beyond slice(0, 24).
SlicedOff(state, o, p) ==
  WalletOf[p] = WalletOf[o] /\ Cardinality(Ahead(state, p)) + 1 >= MaxTracked

AddOptimisticAction(state, o) ==
  [p \in Orders |-> IF p = o THEN OptimisticAction
                    ELSE IF SlicedOff(state, o, p) THEN Untracked ELSE state[p]]

MarkActionSubmitted(state, o, hasOid) ==
  Replace(state, o,
    [state[o] EXCEPT !.hasVenueOrderId = hasOid,
                     !.status = IF hasOid THEN "reconciling" ELSE "submitted",
                     !.isTerminal = FALSE,
                     !.isCancelPending = FALSE])

MarkActionFailed(state, o) ==
  Replace(state, o, [state[o] EXCEPT !.status = "failed", !.isTerminal = TRUE])

MarkActionCancelStarted(state, o) ==
  Replace(state, o, [state[o] EXCEPT !.isCancelPending = TRUE])

MarkActionCancelSubmitted(state, o) ==
  Replace(state, o, [state[o] EXCEPT !.isCancelPending = TRUE])

\* Fault: the pending flag is not reset.
CancelFailedKeepsPending(state, o) == state

MarkActionCancelFailed(state, o) ==
  Replace(state, o, [state[o] EXCEPT !.isCancelPending = FALSE])

\* Fault: an answer does not count as an attempt.
NextAttemptsForgotten(action) == action.reconciliationAttempts

\* The code only compares the attempts with the maximum, so the model lets
\* them saturate there.
NextAttempts(action) ==
  IF action.reconciliationAttempts < MaxReconciliationAttempts
  THEN action.reconciliationAttempts + 1
  ELSE MaxReconciliationAttempts

ApplyOrderStatus(state, o, status) ==
  LET terminal == IsOrderStatusTerminal(status)
      next == ResolveTrackedStatus(status, terminal)
  IN Replace(state, o,
       [state[o] EXCEPT !.status = next,
                        !.isTerminal = terminal,
                        !.reconciliationAttempts = NextAttempts(state[o]),
                        !.isCancelPending =
                           @ /\ ~(next \in {"cancelled", "filled"} \/ terminal)])

\* Fault: the first error is final.
ApplyPollErrorAtOnce(state, o) ==
  Replace(state, o,
    [state[o] EXCEPT !.status = "failed",
                     !.isTerminal = TRUE,
                     !.reconciliationAttempts = NextAttempts(state[o])])

ApplyPollError(state, o) ==
  LET shouldFail == NextAttempts(state[o]) >= MaxReconciliationAttempts
  IN Replace(state, o,
       [state[o] EXCEPT !.status = IF shouldFail THEN "failed" ELSE "reconciling",
                        !.isTerminal = shouldFail,
                        !.reconciliationAttempts = NextAttempts(state[o])])

\* Fault: a pending cancellation does not disable the button.
CancelStateWithoutPending(action) ==
  IF action.status = "open" /\ action.hasVenueOrderId THEN "available" ELSE "unsupported"

CancelState(action) ==
  IF action.isTerminal \/ ~action.hasVenueOrderId THEN "unsupported"
  ELSE IF action.isCancelPending THEN "pending"
  ELSE IF action.status = "open" THEN "available" ELSE "unsupported"

-----------------------------------------------------------------------------
Init ==
  /\ actionsByWallet = [o \in Orders |-> Untracked]
  /\ actionsByWalletRef = actionsByWallet
  /\ storage = actionsByWallet
  /\ inFlightActionIds = {}
  /\ polls = {}
  /\ flows = {}
  /\ wire = {}
  /\ venueOrders = [o \in Orders |-> "none"]
  /\ submittedAt = [o \in Orders |-> 0]
  /\ reloads = 0
  /\ orphans = {}

\* The passive effects of the latest commit: the ref and localStorage catch up.
EffectsFlush ==
  /\ \/ actionsByWalletRef # actionsByWallet
     \/ storage # actionsByWallet
  /\ actionsByWalletRef' = actionsByWallet
  /\ storage' = actionsByWallet
  /\ UNCHANGED <<actionsByWallet, inFlightActionIds, polls, flows, wire, venueOrders,
                 submittedAt, reloads, orphans>>

\* A click's own update, and the commit and effects React flushes with it.
ClickUpdates(state) ==
  /\ actionsByWallet' = state
  /\ actionsByWalletRef' = state
  /\ storage' = state

-----------------------------------------------------------------------------
(* Submission and cancellation flows *)

\* handleSubmitInWallet up to its first await.
SubmitInWallet(o) ==
  /\ submittedAt[o] = 0
  /\ ClickUpdates(AddOptimisticAction(actionsByWallet, o))
  /\ submittedAt' = [submittedAt EXCEPT
                       ![o] = Cardinality({p \in Orders : submittedAt[p] # 0}) + 1]
  /\ flows' = flows \cup {[kind |-> "submit", id |-> o, stage |-> "signing"]}
  /\ UNCHANGED <<inFlightActionIds, polls, wire, venueOrders, reloads, orphans>>

\* handleCancelAction up to its first await.  The row it was clicked on shows
\* the last committed state, which may be older than the updates enqueued since.
CancelInWallet(o) ==
  /\ \/ CancelState(actionsByWallet[o]) = "available"
     \/ CancelState(actionsByWalletRef[o]) = "available"
  /\ ClickUpdates(MarkActionCancelStarted(actionsByWallet, o))
  /\ flows' = flows \cup {[kind |-> "cancel", id |-> o, stage |-> "signing"]}
  /\ UNCHANGED <<inFlightActionIds, polls, wire, venueOrders, submittedAt, reloads,
                 orphans>>

\* The payload is built and signed, and submitSignedAction posts it.
PostSignedAction(f) ==
  /\ f \in flows
  /\ f.stage = "signing"
  /\ flows' = (flows \ {f}) \cup {[f EXCEPT !.stage = "posted"]}
  /\ wire' = wire \cup {[kind |-> f.kind, id |-> f.id]}
  /\ UNCHANGED <<pageVars, venueOrders, submittedAt, reloads, orphans>>

\* The catch branch: a step before the post failed, the request failed, or the
\* venue's answer was not 'submitted'.
FlowFails(f) ==
  /\ f \in flows
  /\ f.stage \in {"signing", "refused"}
  /\ flows' = flows \ {f}
  /\ actionsByWallet' = IF f.kind = "submit"
                        THEN MarkActionFailed(actionsByWallet, f.id)
                        ELSE MarkActionCancelFailed(actionsByWallet, f.id)
  /\ UNCHANGED <<actionsByWalletRef, storage, inFlightActionIds, polls, wire,
                 venueOrders, submittedAt, reloads, orphans>>

SubmissionSucceeds(f) ==
  /\ f \in flows
  /\ f.kind = "submit"
  /\ f.stage \in {"accepted", "acceptedWithoutOid"}
  /\ flows' = flows \ {f}
  /\ actionsByWallet' =
       MarkActionSubmitted(actionsByWallet, f.id, f.stage = "accepted")
  /\ UNCHANGED <<actionsByWalletRef, storage, inFlightActionIds, polls, wire,
                 venueOrders, submittedAt, reloads, orphans>>

CancellationSucceeds(f) ==
  /\ f \in flows
  /\ f.kind = "cancel"
  /\ f.stage = "accepted"
  /\ flows' = flows \ {f}
  /\ actionsByWallet' = MarkActionCancelSubmitted(actionsByWallet, f.id)
  /\ UNCHANGED <<actionsByWalletRef, storage, inFlightActionIds, polls, wire,
                 venueOrders, submittedAt, reloads, orphans>>

-----------------------------------------------------------------------------
(* The venue and the network *)

\* The flow waiting for the answer to request m, if the page still has it,
\* moves to the given stage.
Answered(m, stage) ==
  {IF f.kind = m.kind /\ f.id = m.id /\ f.stage = "posted"
   THEN [f EXCEPT !.stage = stage] ELSE f : f \in flows}

Venue(m, stage, raw) ==
  /\ m \in wire
  /\ wire' = wire \ {m}
  /\ flows' = Answered(m, stage)
  /\ venueOrders' = [venueOrders EXCEPT ![m.id] = raw]
  /\ UNCHANGED <<pageVars, submittedAt, reloads, orphans>>

\* The exchange takes the order: it rests or fills with an oid, is accepted
\* without one (no resting or filled entry in the answer), or is refused.
VenueHandlesOrder(m) ==
  /\ m.kind = "submit"
  /\ \/ \E raw \in {"open"} \cup (EndStatuses \cap {"filled"}) : Venue(m, "accepted", raw)
     \/ Venue(m, "acceptedWithoutOid", "open")
     \/ Venue(m, "refused", "none")

VenueHandlesCancel(m) ==
  /\ m.kind = "cancel"
  /\ \/ venueOrders[m.id] = "open" /\ Venue(m, "accepted", "canceled")
     \/ venueOrders[m.id] # "open" /\ Venue(m, "refused", venueOrders[m.id])

\* The request never reaches the venue; the page sees an error.
RequestLost(m) == Venue(m, "refused", venueOrders[m.id])

\* A 2xx answer without a status counts as a success, also when the venue has
\* done nothing (normalizeHyperliquidSubmissionStatus): an order without an oid,
\* or a cancellation of which no poll resets the flag while the order lives.
VenueAnswersBlank(m) ==
  /\ m \in wire
  /\ wire' = wire \ {m}
  /\ flows' = Answered(m, IF m.kind = "submit" THEN "acceptedWithoutOid" ELSE "accepted")
  /\ orphans' = IF m.kind = "cancel" THEN orphans \cup {m.id} ELSE orphans
  /\ UNCHANGED <<pageVars, venueOrders, submittedAt, reloads>>

\* The venue acted but its answer does not reach the page.
AnswerLost(f) ==
  /\ f \in flows
  /\ f.stage \in {"accepted", "acceptedWithoutOid"}
  /\ flows' = (flows \ {f}) \cup {[f EXCEPT !.stage = "refused"]}
  /\ UNCHANGED <<pageVars, wire, venueOrders, submittedAt, reloads, orphans>>

\* A live order ends on its own: filled, or cancelled or rejected by the venue.
VenueEndsOrder(o) ==
  /\ venueOrders[o] = "open"
  /\ \E raw \in EndStatuses : venueOrders' = [venueOrders EXCEPT ![o] = raw]
  /\ UNCHANGED <<pageVars, flows, wire, submittedAt, reloads, orphans>>

-----------------------------------------------------------------------------
(* Status polls *)

\* Fault: a final status is polled again.
PollableWhenTerminal(o) ==
  /\ actionsByWalletRef[o].hasVenueOrderId
  /\ actionsByWalletRef[o].reconciliationAttempts < MaxReconciliationAttempts
  /\ o \notin inFlightActionIds

\* Fault: the in-flight ids are not consulted.
PollableInFlight(o) ==
  /\ actionsByWalletRef[o].hasVenueOrderId
  /\ ~actionsByWalletRef[o].isTerminal
  /\ actionsByWalletRef[o].reconciliationAttempts < MaxReconciliationAttempts

Pollable(o) ==
  /\ actionsByWalletRef[o].hasVenueOrderId
  /\ ~actionsByWalletRef[o].isTerminal
  /\ actionsByWalletRef[o].reconciliationAttempts < MaxReconciliationAttempts
  /\ o \notin inFlightActionIds

\* pollOrderStatuses up to its awaits: run on mount and on every interval tick.
PollOrderStatuses ==
  LET pendingActions == {o \in Orders : Pollable(o)}
  IN /\ pendingActions # {}
     /\ inFlightActionIds' = inFlightActionIds \cup pendingActions
     /\ polls' = polls \cup {[id |-> o, answer |-> "waiting"] : o \in pendingActions}
     /\ UNCHANGED <<actionsByWallet, actionsByWalletRef, storage, flows, wire,
                    venueOrders, submittedAt, reloads, orphans>>

\* The BFF reads the order at the venue, which may not know it yet.
BffAnswersPoll(p) ==
  /\ p \in polls
  /\ p.answer = "waiting"
  /\ \E raw \in {venueOrders[p.id], "unknownOid"} :
       polls' = (polls \ {p}) \cup {[p EXCEPT !.answer = NormalizeOrderStatus(raw)]}
  /\ UNCHANGED <<actionsByWallet, actionsByWalletRef, storage, inFlightActionIds, flows,
                 wire, venueOrders, submittedAt, reloads, orphans>>

\* The request fails, or its answer is lost or malformed.
PollFails(p) ==
  /\ p \in polls
  /\ p.answer # "error"
  /\ polls' = (polls \ {p}) \cup {[p EXCEPT !.answer = "error"]}
  /\ UNCHANGED <<actionsByWallet, actionsByWalletRef, storage, inFlightActionIds, flows,
                 wire, venueOrders, submittedAt, reloads, orphans>>

\* The continuation: the update is enqueued and the finally block releases
\* the id, both before the ref catches up.
PollContinues(p) ==
  /\ p \in polls
  /\ p.answer # "waiting"
  /\ polls' = polls \ {p}
  /\ inFlightActionIds' = inFlightActionIds \ {p.id}
  /\ actionsByWallet' = IF p.answer = "error"
                        THEN ApplyPollError(actionsByWallet, p.id)
                        ELSE ApplyOrderStatus(actionsByWallet, p.id, p.answer)
  /\ UNCHANGED <<actionsByWalletRef, storage, flows, wire, venueOrders, submittedAt,
                 reloads, orphans>>

\* The page is reloaded: its requests lose their continuations, and the state
\* is read back from localStorage.
Reload ==
  /\ reloads < MaxReloads
  /\ reloads' = reloads + 1
  /\ actionsByWallet' = storage
  /\ actionsByWalletRef' = storage
  /\ inFlightActionIds' = {}
  /\ polls' = {}
  /\ flows' = {}
  /\ orphans' = orphans \cup {o \in Orders : storage[o].isCancelPending}
  /\ UNCHANGED <<storage, wire, venueOrders, submittedAt>>

-----------------------------------------------------------------------------
UserStep == \E o \in Orders : SubmitInWallet(o) \/ CancelInWallet(o)
FlowStep == \E f \in flows : \/ PostSignedAction(f)
                             \/ FlowFails(f)
                             \/ SubmissionSucceeds(f)
                             \/ CancellationSucceeds(f)
                             \/ AnswerLost(f)
VenueStep == \/ \E m \in wire : \/ VenueHandlesOrder(m)
                                \/ VenueHandlesCancel(m)
                                \/ RequestLost(m)
                                \/ VenueAnswersBlank(m)
             \/ \E o \in Orders : VenueEndsOrder(o)
PollStep == \E p \in polls : BffAnswersPoll(p) \/ PollFails(p) \/ PollContinues(p)

Next == UserStep \/ FlowStep \/ VenueStep \/ PollStep \/ PollOrderStatuses
        \/ EffectsFlush \/ Reload

Spec == Init /\ [][Next]_vars

\* The interval keeps firing, a request is eventually answered or fails, its
\* continuation runs, and React runs the effects of a commit.  Nothing is
\* assumed of the user, of the venue's orders or of reloads.
Fairness ==
  /\ WF_vars(EffectsFlush)
  /\ WF_vars(PollOrderStatuses)
  /\ \A o \in Orders :
       /\ WF_vars(\E p \in polls : p.id = o /\ (BffAnswersPoll(p) \/ PollFails(p)))
       /\ WF_vars(\E p \in polls : p.id = o /\ PollContinues(p))

FairSpec == Spec /\ Fairness

-----------------------------------------------------------------------------
(* Properties *)

Poll == [id: Orders, answer: {"waiting", "error"} \cup BffStatuses]
Flow == [kind: {"submit", "cancel"}, id: Orders,
         stage: {"signing", "posted", "accepted", "acceptedWithoutOid", "refused"}]

\* Every variable holds a value of its type; in particular a poll's answer is
\* one of the statuses the BFF is specified to return (normalizeHyperliquid-
\* OrderStatus), never a raw venue status.
TypeOK ==
  /\ actionsByWallet \in [Orders -> Action]
  /\ actionsByWalletRef \in [Orders -> Action]
  /\ storage \in [Orders -> Action]
  /\ inFlightActionIds \subseteq Orders
  /\ polls \subseteq Poll
  /\ flows \subseteq Flow
  /\ wire \subseteq [kind: {"submit", "cancel"}, id: Orders]
  /\ venueOrders \in [Orders -> RawStatuses \ {"unknownOid"}]
  /\ submittedAt \in [Orders -> Nat]
  /\ reloads \in 0 .. MaxReloads
  /\ orphans \subseteq Orders

\* What a final status says happened at the venue is what happened there,
\* whatever polls, cancellations, lost answers and reloads came between: the
\* statuses filled, cancelled and rejected are only ever the venue's own.
TerminalStatusIsVenues ==
  \A o \in Orders :
    actionsByWallet[o].status \in {"filled", "cancelled", "rejected"} =>
      NormalizeOrderStatus(venueOrders[o]) = actionsByWallet[o].status

\* The in-flight ids are exactly the ids of the polls of this page, one poll
\* each: a slow BFF never makes ticks pile up requests for the same order,
\* which would spend its reconciliation attempts several at a time.
OnePollPerAction ==
  /\ inFlightActionIds = {p.id : p \in polls}
  /\ \A p, q \in polls : p.id = q.id => p = q

\* A page never runs two cancellations of one order at a time, although the
\* row the user clicks may show an older state and a status poll may clear
\* the pending flag while the first cancellation is still being signed.
OneCancellationPerOrder ==
  \A f, g \in flows : f.kind = "cancel" /\ g.kind = "cancel" /\ f.id = g.id => f = g

\* A row shown as 'cancel pending' without a cancellation running has a reason:
\* the order is over at the venue (the cancellation was accepted, or came too
\* late), a reload read the flag back while its cancellation was lost, or the
\* cancellation was answered with nothing stated and taken for accepted.
PendingCancelIsBacked ==
  \A o \in Orders :
    /\ actionsByWallet[o].isCancelPending
    /\ ~actionsByWallet[o].isTerminal
    /\ ~\E f \in flows : f.kind = "cancel" /\ f.id = o
    => venueOrders[o] \in RawTerminal \/ o \in orphans

\* An order the venue confirmed with an order id is reported failed only when
\* all its reconciliation attempts are spent.
FailedOnlyWhenSpent ==
  \A o \in Orders :
    actionsByWallet[o].status = "failed" /\ actionsByWallet[o].hasVenueOrderId =>
      actionsByWallet[o].reconciliationAttempts = MaxReconciliationAttempts

\* A wallet tracks exactly its MaxTracked latest submissions: the slice drops
\* the oldest and no update, poll or reload brings one back or loses another.
TracksLatestSubmissions ==
  \A o \in Orders :
    IsTracked(actionsByWallet, o) <=>
      /\ submittedAt[o] # 0
      /\ Cardinality({p \in Orders : /\ WalletOf[p] = WalletOf[o]
                                     /\ submittedAt[p] > submittedAt[o]}) < MaxTracked

Settled(o) == /\ actionsByWallet[o].isTerminal
              /\ actionsByWalletRef[o].isTerminal
              /\ actionsByWalletRef[o].status = actionsByWallet[o].status
              /\ o \notin inFlightActionIds

\* Once a final status has reached the ref and no poll for it is in flight it
\* is final: no later tick asks for it again, and no answer, cancellation or
\* reload changes it, until the list drops the action.  (Before that, a poll
\* started from the older ref can still overwrite it.)
SettledStatusStays ==
  [][\A o \in Orders :
       Settled(o) /\ IsTracked(actionsByWallet', o) =>
         Settled(o)' /\ actionsByWallet'[o].status = actionsByWallet[o].status]_vars

\* Every action whose venue order id has reached localStorage is eventually
\* final, or has spent its attempts, or was dropped from the list, whatever
\* polls fail and even if the page is reloaded on the way.
ReconciliationEnds ==
  \A o \in Orders :
    storage[o].hasVenueOrderId ~>
      \/ actionsByWallet[o].isTerminal
      \/ actionsByWallet[o].reconciliationAttempts = MaxReconciliationAttempts
      \/ ~IsTracked(actionsByWallet, o)

\* While the BFF answers and the venue knows its orders, an order that has
\* ended at the venue, is not being polled and has one attempt left is
\* eventually shown with the venue's own verdict (or was dropped).
VerdictReached ==
  [](\A p \in polls : p.answer \notin {"error", "submitted"}) =>
    \A o \in Orders :
      /\ venueOrders[o] \in RawTerminal
      /\ Pollable(o)
      /\ actionsByWallet[o] = actionsByWalletRef[o]
      ~> \/ actionsByWallet[o].status = NormalizeOrderStatus(venueOrders[o])
         \/ ~IsTracked(actionsByWallet, o)
=============================================================================
