------------------------- MODULE OrderTrackerProofs -------------------------
(***************************************************************************)
(* Theorems about OrderTracker, for any finite set of orders, any          *)
(* assignment of wallets, any attempt and list limits and any number of    *)
(* reloads.                                                                *)
(***************************************************************************)
EXTENDS OrderTracker, FiniteSetTheorems, TLAPS

States == [Orders -> Action]

-----------------------------------------------------------------------------
(* What the updates of the React state return. *)

LEMMA UntrackedType == Untracked \in Action /\ OptimisticAction \in Action
<1>1. 0 \in 0 .. MaxReconciliationAttempts
  BY AttemptsAssumption
<1>2. Untracked \in Action
  BY <1>1 DEF Untracked, Action
<1>3. OptimisticAction \in Action
  <2>1. "optimistic_submitting" \in TrackedStatuses
    BY DEF TrackedStatuses
  <2>2. QED
    BY <1>2, <2>1 DEF OptimisticAction, Action
<1>4. QED
  BY <1>2, <1>3

LEMMA NextAttemptsType ==
  ASSUME NEW a \in Action
  PROVE  NextAttempts(a) \in 0 .. MaxReconciliationAttempts
  BY AttemptsAssumption DEF NextAttempts, Action

LEMMA ReplaceType ==
  ASSUME NEW s \in States, NEW o \in Orders, NEW a \in Action
  PROVE  Replace(s, o, a) \in States
  BY DEF Replace, States

LEMMA NormalizeType ==
  ASSUME NEW raw \in RawStatuses
  PROVE  NormalizeOrderStatus(raw) \in BffStatuses
  BY DEF NormalizeOrderStatus, RawStatuses, RawTerminal, BffStatuses

LEMMA ResolveType ==
  ASSUME NEW status \in BffStatuses, NEW t \in BOOLEAN
  PROVE  ResolveTrackedStatus(status, t) \in TrackedStatuses
  BY DEF ResolveTrackedStatus, BffStatuses, TrackedStatuses, TerminalStatuses

LEMMA AddType ==
  ASSUME NEW s \in States, NEW o \in Orders
  PROVE  AddOptimisticAction(s, o) \in States
  BY UntrackedType DEF AddOptimisticAction, States

LEMMA MarkTypes ==
  ASSUME NEW s \in States, NEW o \in Orders, NEW b \in BOOLEAN
  PROVE  /\ MarkActionSubmitted(s, o, b) \in States
         /\ MarkActionFailed(s, o) \in States
         /\ MarkActionCancelStarted(s, o) \in States
         /\ MarkActionCancelSubmitted(s, o) \in States
         /\ MarkActionCancelFailed(s, o) \in States
<1>1. s[o] \in Action
  BY DEF States
<1>2. /\ [s[o] EXCEPT !.hasVenueOrderId = b,
                     !.status = IF b THEN "reconciling" ELSE "submitted",
                     !.isTerminal = FALSE,
                     !.isCancelPending = FALSE] \in Action
      /\ [s[o] EXCEPT !.status = "failed", !.isTerminal = TRUE] \in Action
      /\ [s[o] EXCEPT !.isCancelPending = TRUE] \in Action
      /\ [s[o] EXCEPT !.isCancelPending = FALSE] \in Action
  BY <1>1 DEF Action, TrackedStatuses, TerminalStatuses
<1>3. QED
  BY <1>2, ReplaceType DEF MarkActionSubmitted, MarkActionFailed,
     MarkActionCancelStarted, MarkActionCancelSubmitted, MarkActionCancelFailed

LEMMA ApplyTypes ==
  ASSUME NEW s \in States, NEW o \in Orders, NEW status \in BffStatuses
  PROVE  /\ ApplyOrderStatus(s, o, status) \in States
         /\ ApplyPollError(s, o) \in States
<1>1. s[o] \in Action
  BY DEF States
<1>2. NextAttempts(s[o]) \in 0 .. MaxReconciliationAttempts
  BY <1>1, NextAttemptsType
<1>3. ApplyOrderStatus(s, o, status) \in States
  <2> DEFINE terminal == IsOrderStatusTerminal(status)
             next == ResolveTrackedStatus(status, terminal)
             a == [s[o] EXCEPT !.status = next,
                     !.isTerminal = terminal,
                     !.reconciliationAttempts = NextAttempts(s[o]),
                     !.isCancelPending =
                        @ /\ ~(next \in {"cancelled", "filled"} \/ terminal)]
  <2>1. terminal \in BOOLEAN
    BY DEF IsOrderStatusTerminal
  <2>2. next \in TrackedStatuses
    BY <2>1, ResolveType
  <2>3. a \in Action
    <3> HIDE DEF terminal, next
    <3> QED BY <1>1, <1>2, <2>1, <2>2 DEF Action
  <2>4. Replace(s, o, a) \in States
    BY <2>3, ReplaceType
  <2>5. QED
    BY <2>4 DEF ApplyOrderStatus
<1>4. ApplyPollError(s, o) \in States
  <2> DEFINE shouldFail == NextAttempts(s[o]) >= MaxReconciliationAttempts
             a == [s[o] EXCEPT !.status = IF shouldFail THEN "failed" ELSE "reconciling",
                     !.isTerminal = shouldFail,
                     !.reconciliationAttempts = NextAttempts(s[o])]
  <2>1. shouldFail \in BOOLEAN
    OBVIOUS
  <2>2. a \in Action
    <3> HIDE DEF shouldFail
    <3> QED BY <1>1, <1>2, <2>1 DEF Action, TrackedStatuses, TerminalStatuses
  <2>3. Replace(s, o, a) \in States
    BY <2>2, ReplaceType
  <2>4. QED
    BY <2>3 DEF ApplyPollError
<1>5. QED
  BY <1>3, <1>4

-----------------------------------------------------------------------------
(* Type correctness *)

LEMMA InitType == Init => TypeOK
<1> SUFFICES ASSUME Init PROVE TypeOK
  OBVIOUS
<1>1. [o \in Orders |-> Untracked] \in [Orders -> Action]
  BY UntrackedType
<1>2. QED
  BY <1>1, ReloadsAssumption DEF Init, TypeOK, RawStatuses

LEMMA StepType ==
  ASSUME TypeOK, [Next]_vars
  PROVE  TypeOK'
<1> USE DEF TypeOK, States
<1>1. ASSUME NEW o \in Orders, SubmitInWallet(o)
      PROVE  TypeOK'
  <2>1. AddOptimisticAction(actionsByWallet, o) \in States
    BY AddType
  <2>2. Cardinality({p \in Orders : submittedAt[p] # 0}) \in Nat
    BY OrdersAssumption, FS_Subset, FS_CardinalityType
  <2>3. submittedAt' \in [Orders -> Nat]
    BY <1>1, <2>2 DEF SubmitInWallet
  <2>4. flows' \subseteq Flow
    BY <1>1 DEF SubmitInWallet, Flow
  <2>5. QED
    BY <1>1, <2>1, <2>3, <2>4 DEF SubmitInWallet, ClickUpdates
<1>2. ASSUME NEW o \in Orders, CancelInWallet(o)
      PROVE  TypeOK'
  <2>1. MarkActionCancelStarted(actionsByWallet, o) \in States
    BY MarkTypes
  <2>2. flows' \subseteq Flow
    BY <1>2 DEF CancelInWallet, Flow
  <2>3. QED
    BY <1>2, <2>1, <2>2 DEF CancelInWallet, ClickUpdates
<1>3. ASSUME NEW f \in flows, PostSignedAction(f)
      PROVE  TypeOK'
  <2>1. f \in Flow
    BY <1>3
  <2>2. flows' \subseteq Flow
    BY <1>3, <2>1 DEF PostSignedAction, Flow
  <2>3. wire' \subseteq [kind: {"submit", "cancel"}, id: Orders]
    BY <1>3, <2>1 DEF PostSignedAction, Flow
  <2>4. QED
    BY <1>3, <2>2, <2>3 DEF PostSignedAction, pageVars
<1>4. ASSUME NEW f \in flows, FlowFails(f)
      PROVE  TypeOK'
  <2>1. f.id \in Orders
    BY DEF Flow
  <2>2. actionsByWallet' \in States
    BY <1>4, <2>1, MarkTypes DEF FlowFails
  <2>3. QED
    BY <1>4, <2>2 DEF FlowFails
<1>5. ASSUME NEW f \in flows, SubmissionSucceeds(f)
      PROVE  TypeOK'
  <2>1. f.id \in Orders
    BY DEF Flow
  <2>2. actionsByWallet' \in States
    BY <1>5, <2>1, MarkTypes DEF SubmissionSucceeds
  <2>3. QED
    BY <1>5, <2>2 DEF SubmissionSucceeds
<1>6. ASSUME NEW f \in flows, CancellationSucceeds(f)
      PROVE  TypeOK'
  <2>1. f.id \in Orders
    BY DEF Flow
  <2>2. actionsByWallet' \in States
    BY <1>6, <2>1, MarkTypes DEF CancellationSucceeds
  <2>3. QED
    BY <1>6, <2>2 DEF CancellationSucceeds
<1>7. ASSUME NEW f \in flows, AnswerLost(f)
      PROVE  TypeOK'
  <2>1. flows' \subseteq Flow
    BY <1>7 DEF AnswerLost, Flow
  <2>2. QED
    BY <1>7, <2>1 DEF AnswerLost, pageVars
<1>8. ASSUME NEW m \in wire, NEW raw \in RawStatuses \ {"unknownOid"},
             NEW stage \in {"accepted", "acceptedWithoutOid", "refused"},
             Venue(m, stage, raw)
      PROVE  TypeOK'
  <2>1. flows' \subseteq Flow
    BY <1>8 DEF Venue, Answered, Flow
  <2>2. venueOrders' \in [Orders -> RawStatuses \ {"unknownOid"}]
    BY <1>8 DEF Venue
  <2>3. QED
    BY <1>8, <2>1, <2>2 DEF Venue, pageVars
<1>9. ASSUME NEW m \in wire,
             VenueHandlesOrder(m) \/ VenueHandlesCancel(m) \/ RequestLost(m)
      PROVE  TypeOK'
  <2>1. venueOrders[m.id] \in RawStatuses \ {"unknownOid"}
    OBVIOUS
  <2>2. PICK raw \in RawStatuses \ {"unknownOid"},
             stage \in {"accepted", "acceptedWithoutOid", "refused"} : Venue(m, stage, raw)
    BY <1>9, <2>1, EndStatusesAssumption DEF VenueHandlesOrder, VenueHandlesCancel,
       RequestLost, RawStatuses, RawTerminal
  <2>3. QED
    BY <2>2, <1>8
<1>10. ASSUME NEW o \in Orders, VenueEndsOrder(o)
       PROVE  TypeOK'
  <2>1. venueOrders' \in [Orders -> RawStatuses \ {"unknownOid"}]
    BY <1>10, EndStatusesAssumption DEF VenueEndsOrder, RawStatuses, RawTerminal
  <2>2. QED
    BY <1>10, <2>1 DEF VenueEndsOrder, pageVars
<1>11. ASSUME NEW p \in polls, BffAnswersPoll(p)
       PROVE  TypeOK'
  <2>1. p \in Poll /\ venueOrders[p.id] \in RawStatuses /\ "unknownOid" \in RawStatuses
    BY DEF Poll, RawStatuses
  <2>2. polls' \subseteq Poll
    BY <1>11, <2>1, NormalizeType DEF BffAnswersPoll, Poll
  <2>3. QED
    BY <1>11, <2>2 DEF BffAnswersPoll
<1>12. ASSUME NEW p \in polls, PollFails(p)
       PROVE  TypeOK'
  <2>1. polls' \subseteq Poll
    BY <1>12 DEF PollFails, Poll
  <2>2. QED
    BY <1>12, <2>1 DEF PollFails
<1>13. ASSUME NEW p \in polls, PollContinues(p)
       PROVE  TypeOK'
  <2>1. p.id \in Orders /\ (p.answer = "error" \/ p.answer \in BffStatuses)
    BY <1>13 DEF PollContinues, Poll
  <2>2. actionsByWallet' \in States
    BY <1>13, <2>1, ApplyTypes DEF PollContinues, BffStatuses
  <2>3. QED
    BY <1>13, <2>2 DEF PollContinues
<1>14. ASSUME PollOrderStatuses
       PROVE  TypeOK'
  <2>1. polls' \subseteq Poll
    BY <1>14 DEF PollOrderStatuses, Poll
  <2>2. QED
    BY <1>14, <2>1 DEF PollOrderStatuses
<1>15. ASSUME EffectsFlush
       PROVE  TypeOK'
  BY <1>15 DEF EffectsFlush
<1>16. ASSUME Reload
       PROVE  TypeOK'
  <2>1. reloads' \in 0 .. MaxReloads
    BY <1>16, ReloadsAssumption DEF Reload
  <2>2. QED
    BY <1>16, <2>1 DEF Reload
<1>17. ASSUME UNCHANGED vars
       PROVE  TypeOK'
  BY <1>17 DEF vars
<1>18. ASSUME NEW m \in wire, VenueAnswersBlank(m)
       PROVE  TypeOK'
  <2>1. flows' \subseteq Flow
    BY <1>18 DEF VenueAnswersBlank, Answered, Flow
  <2>2. m.id \in Orders
    OBVIOUS
  <2>3. QED
    BY <1>18, <2>1, <2>2 DEF VenueAnswersBlank, pageVars
<1>19. QED
  BY <1>1, <1>2, <1>3, <1>4, <1>5, <1>6, <1>7, <1>9, <1>10, <1>11, <1>12, <1>13,
     <1>14, <1>15, <1>16, <1>17, <1>18
     DEF Next, UserStep, FlowStep, VenueStep, PollStep

\* Every variable of the tracker keeps its type, whatever the number of orders.
THEOREM TypeCorrectness == Spec => []TypeOK
  BY InitType, StepType, PTL DEF Spec

-----------------------------------------------------------------------------
(* The inductive invariant.  Its parts speak of the three copies of the    *)
(* tracked actions alike, because a poll or a reload can bring an older    *)
(* copy back.                                                              *)

Verdicts == {"filled", "cancelled", "rejected"}
Copies == {actionsByWallet, actionsByWalletRef, storage}

SubmitRunning(o) == \E f \in flows : f.kind = "submit" /\ f.id = o
CancelRunning(o) == \E f \in flows : f.kind = "cancel" /\ f.id = o

\* A submission not yet handled by the venue belongs to an order the venue has
\* not seen.
FreshOrders ==
  /\ \A m \in wire : m.kind = "submit" => venueOrders[m.id] = "none"
  /\ \A f \in flows :
       f.kind = "submit" /\ f.stage = "signing" =>
         /\ venueOrders[f.id] = "none"
         /\ [kind |-> "submit", id |-> f.id] \notin wire
  /\ \A o \in Orders :
       submittedAt[o] = 0 =>
         /\ venueOrders[o] = "none"
         /\ [kind |-> "submit", id |-> o] \notin wire
         /\ ~SubmitRunning(o)

\* A verdict in any copy, or on its way in a poll's answer, is the venue's.
VerdictsAreVenues ==
  /\ \A s \in Copies : \A o \in Orders :
       s[o].status \in Verdicts => NormalizeOrderStatus(venueOrders[o]) = s[o].status
  /\ \A p \in polls :
       p.answer \in Verdicts => NormalizeOrderStatus(venueOrders[p.id]) = p.answer

\* An order has one submission, which alone gives its action an order id.
OneSubmission ==
  /\ \A f, g \in flows : f.kind = "submit" /\ g.kind = "submit" /\ f.id = g.id => f = g
  /\ \A o \in Orders : SubmitRunning(o) =>
       /\ ~CancelRunning(o)
       /\ \A s \in Copies : s[o] \in {OptimisticAction, Untracked}
  /\ \A o \in Orders : submittedAt[o] = 0 =>
       ~CancelRunning(o) /\ \A s \in Copies : s[o] = Untracked
  /\ \A p \in polls : ~SubmitRunning(p.id) /\ submittedAt[p.id] # 0

\* While a cancellation runs its button is disabled in the rendered state and
\* in the newest one: the flag is set, or the venue ended the order and no
\* later answer can make the action open again.
CancelDisabled ==
  /\ \A o \in Orders : CancelRunning(o) =>
       \A s \in {actionsByWallet, actionsByWalletRef} :
         \/ s[o].status = "untracked"
         \/ s[o].isCancelPending
         \/ s[o].status # "open" /\ venueOrders[o] \in RawTerminal
  /\ \A p \in polls : p.answer = "open" /\ CancelRunning(p.id) =>
       \/ actionsByWallet[p.id].status = "untracked"
       \/ actionsByWallet[p.id].isCancelPending

\* An action with an order id fails only with its attempts spent.
FailuresSpent ==
  \A s \in Copies : \A o \in Orders :
    s[o].status = "failed" /\ s[o].hasVenueOrderId =>
      s[o].reconciliationAttempts = MaxReconciliationAttempts

SavedWithRef == storage = actionsByWalletRef

IInv ==
  /\ TypeOK
  /\ FreshOrders
  /\ VerdictsAreVenues
  /\ OnePollPerAction
  /\ OneSubmission
  /\ OneCancellationPerOrder
  /\ CancelDisabled
  /\ FailuresSpent
  /\ SavedWithRef

-----------------------------------------------------------------------------
(* What the updates do to the fields the invariant speaks of. *)

LEMMA ReplaceAt ==
  ASSUME NEW s \in States, NEW o \in Orders, NEW a, NEW q \in Orders
  PROVE  Replace(s, o, a)[q] = IF q = o /\ s[o].status # "untracked" THEN a ELSE s[q]
  BY DEF Replace, States, IsTracked

\* An answered or failed poll keeps the order id, counts as an attempt, and
\* clears the pending flag only with a verdict.
LEMMA ApplyStatusAt ==
  ASSUME NEW s \in States, NEW o \in Orders, NEW status \in BffStatuses,
         NEW q \in Orders, s[q].status # "untracked", q = o
  PROVE  LET a == ApplyOrderStatus(s, o, status)[q]
         IN /\ a.status = IF status = "submitted" THEN "reconciling" ELSE status
            /\ a.hasVenueOrderId = s[q].hasVenueOrderId
            /\ a.isCancelPending = (s[q].isCancelPending /\ status \notin Verdicts)
<1>1. s[o] \in Action
  BY DEF States
<1>2. ResolveTrackedStatus(status, IsOrderStatusTerminal(status))
        = IF status = "submitted" THEN "reconciling" ELSE status
  BY DEF ResolveTrackedStatus, BffStatuses
<1>3. IsOrderStatusTerminal(status) <=> status \in Verdicts
  BY DEF IsOrderStatusTerminal, Verdicts
<1> DEFINE terminal == IsOrderStatusTerminal(status)
           next == ResolveTrackedStatus(status, terminal)
           a == [s[o] EXCEPT !.status = next,
                   !.isTerminal = terminal,
                   !.reconciliationAttempts = NextAttempts(s[o]),
                   !.isCancelPending =
                      @ /\ ~(next \in {"cancelled", "filled"} \/ terminal)]
<1>4. ApplyOrderStatus(s, o, status)[q] = a
  <2>1. ApplyOrderStatus(s, o, status) = Replace(s, o, a)
    BY DEF ApplyOrderStatus
  <2>2. QED
    BY <2>1, ReplaceAt
<1>5. /\ a.status = next
      /\ a.hasVenueOrderId = s[o].hasVenueOrderId
      /\ a.isCancelPending
           = (s[o].isCancelPending /\ ~(next \in {"cancelled", "filled"} \/ terminal))
  <2> HIDE DEF terminal, next
  <2> QED BY <1>1 DEF Action
<1>6. next \in {"cancelled", "filled"} \/ terminal <=> status \in Verdicts
  BY <1>2, <1>3 DEF Verdicts, BffStatuses
<1>7. QED
  BY <1>2, <1>4, <1>5, <1>6

LEMMA ApplyErrorAt ==
  ASSUME NEW s \in States, NEW o \in Orders,
         NEW q \in Orders, s[q].status # "untracked", q = o
  PROVE  LET a == ApplyPollError(s, o)[q]
         IN /\ a.status \in {"failed", "reconciling"}
            /\ a.hasVenueOrderId = s[q].hasVenueOrderId
            /\ a.isCancelPending = s[q].isCancelPending
            /\ a.status = "failed" => a.reconciliationAttempts = MaxReconciliationAttempts
<1>1. s[o] \in Action
  BY DEF States
<1>2. NextAttempts(s[o]) \in 0 .. MaxReconciliationAttempts
  BY <1>1, NextAttemptsType
<1>3. NextAttempts(s[o]) >= MaxReconciliationAttempts
        => NextAttempts(s[o]) = MaxReconciliationAttempts
  BY <1>2, AttemptsAssumption
<1> DEFINE shouldFail == NextAttempts(s[o]) >= MaxReconciliationAttempts
           a == [s[o] EXCEPT !.status = IF shouldFail THEN "failed" ELSE "reconciling",
                   !.isTerminal = shouldFail,
                   !.reconciliationAttempts = NextAttempts(s[o])]
<1>4. ApplyPollError(s, o)[q] = a
  <2>1. ApplyPollError(s, o) = Replace(s, o, a)
    BY DEF ApplyPollError
  <2>2. QED
    BY <2>1, ReplaceAt
<1>5. /\ a.status = IF shouldFail THEN "failed" ELSE "reconciling"
      /\ a.hasVenueOrderId = s[o].hasVenueOrderId
      /\ a.isCancelPending = s[o].isCancelPending
      /\ a.reconciliationAttempts = NextAttempts(s[o])
  <2> HIDE DEF shouldFail
  <2> QED BY <1>1 DEF Action
<1>6. QED
  BY <1>3, <1>4, <1>5

\* An update of one action leaves every other action, and an action no longer
\* tracked, as it was.
LEMMA UpdateElsewhere ==
  ASSUME NEW s \in States, NEW o \in Orders, NEW q \in Orders,
         q # o \/ s[q].status = "untracked"
  PROVE  /\ \A b \in BOOLEAN : MarkActionSubmitted(s, o, b)[q] = s[q]
         /\ MarkActionFailed(s, o)[q] = s[q]
         /\ MarkActionCancelStarted(s, o)[q] = s[q]
         /\ MarkActionCancelSubmitted(s, o)[q] = s[q]
         /\ MarkActionCancelFailed(s, o)[q] = s[q]
         /\ ApplyPollError(s, o)[q] = s[q]
         /\ \A status \in BffStatuses : ApplyOrderStatus(s, o, status)[q] = s[q]
<1>1. \A a : Replace(s, o, a)[q] = s[q]
  BY ReplaceAt
<1>2. \A b \in BOOLEAN : MarkActionSubmitted(s, o, b)[q] = s[q]
  BY <1>1, Zenon DEF MarkActionSubmitted
<1>3. /\ MarkActionFailed(s, o)[q] = s[q]
      /\ MarkActionCancelStarted(s, o)[q] = s[q]
      /\ MarkActionCancelSubmitted(s, o)[q] = s[q]
      /\ MarkActionCancelFailed(s, o)[q] = s[q]
  BY <1>1, Zenon DEF MarkActionFailed, MarkActionCancelStarted, MarkActionCancelSubmitted,
     MarkActionCancelFailed
<1>4. ApplyPollError(s, o)[q] = s[q]
  BY <1>1, Zenon DEF ApplyPollError
<1>5. \A status \in BffStatuses : ApplyOrderStatus(s, o, status)[q] = s[q]
  BY <1>1, Zenon DEF ApplyOrderStatus
<1>6. QED
  BY <1>2, <1>3, <1>4, <1>5

LEMMA MarkAt ==
  ASSUME NEW s \in States, NEW o \in Orders, s[o].status # "untracked"
  PROVE  /\ \A b \in BOOLEAN :
              /\ MarkActionSubmitted(s, o, b)[o].status \in {"reconciling", "submitted"}
              /\ MarkActionSubmitted(s, o, b)[o].hasVenueOrderId = b
         /\ MarkActionFailed(s, o)[o].status = "failed"
         /\ MarkActionFailed(s, o)[o].hasVenueOrderId = s[o].hasVenueOrderId
         /\ MarkActionFailed(s, o)[o].isCancelPending = s[o].isCancelPending
         /\ \A t \in {MarkActionCancelStarted(s, o), MarkActionCancelSubmitted(s, o),
                     MarkActionCancelFailed(s, o)} :
              /\ t[o].status = s[o].status
              /\ t[o].hasVenueOrderId = s[o].hasVenueOrderId
              /\ t[o].reconciliationAttempts = s[o].reconciliationAttempts
              /\ t[o].isTerminal = s[o].isTerminal
         /\ MarkActionCancelStarted(s, o)[o].isCancelPending
         /\ MarkActionCancelSubmitted(s, o)[o].isCancelPending
<1>1. s[o] \in Action
  BY DEF States
<1>2. \A a : Replace(s, o, a)[o] = a
  BY ReplaceAt
<1>3. ASSUME NEW b \in BOOLEAN
      PROVE  /\ MarkActionSubmitted(s, o, b)[o].status \in {"reconciling", "submitted"}
             /\ MarkActionSubmitted(s, o, b)[o].hasVenueOrderId = b
  <2> DEFINE a == [s[o] EXCEPT !.hasVenueOrderId = b,
                     !.status = IF b THEN "reconciling" ELSE "submitted",
                     !.isTerminal = FALSE,
                     !.isCancelPending = FALSE]
  <2>1. MarkActionSubmitted(s, o, b)[o] = a
    BY <1>2, Zenon DEF MarkActionSubmitted
  <2>2. a.status \in {"reconciling", "submitted"} /\ a.hasVenueOrderId = b
    BY <1>1 DEF Action
  <2>3. QED
    BY <2>1, <2>2
<1>4. /\ MarkActionFailed(s, o)[o].status = "failed"
      /\ MarkActionFailed(s, o)[o].hasVenueOrderId = s[o].hasVenueOrderId
      /\ MarkActionFailed(s, o)[o].isCancelPending = s[o].isCancelPending
  <2> DEFINE a == [s[o] EXCEPT !.status = "failed", !.isTerminal = TRUE]
  <2>1. MarkActionFailed(s, o)[o] = a
    BY <1>2, Zenon DEF MarkActionFailed
  <2>2. /\ a.status = "failed"
        /\ a.hasVenueOrderId = s[o].hasVenueOrderId
        /\ a.isCancelPending = s[o].isCancelPending
    BY <1>1 DEF Action
  <2>3. QED
    BY <2>1, <2>2
<1>5. ASSUME NEW b \in BOOLEAN
      PROVE  LET a == [s[o] EXCEPT !.isCancelPending = b]
             IN /\ a.status = s[o].status
                /\ a.hasVenueOrderId = s[o].hasVenueOrderId
                /\ a.reconciliationAttempts = s[o].reconciliationAttempts
                /\ a.isTerminal = s[o].isTerminal
                /\ a.isCancelPending = b
  BY <1>1 DEF Action
<1> DEFINE set == [s[o] EXCEPT !.isCancelPending = TRUE]
           clear == [s[o] EXCEPT !.isCancelPending = FALSE]
<1>6. /\ MarkActionCancelStarted(s, o)[o] = set
      /\ MarkActionCancelSubmitted(s, o)[o] = set
      /\ MarkActionCancelFailed(s, o)[o] = clear
  BY <1>2, Zenon DEF MarkActionCancelStarted, MarkActionCancelSubmitted,
     MarkActionCancelFailed
<1>7. \A a \in {set, clear} :
        /\ a.status = s[o].status
        /\ a.hasVenueOrderId = s[o].hasVenueOrderId
        /\ a.reconciliationAttempts = s[o].reconciliationAttempts
        /\ a.isTerminal = s[o].isTerminal
  BY <1>5
<1>8. set.isCancelPending
  BY <1>5
<1> HIDE DEF set, clear
<1>9. QED
  BY <1>3, <1>4, <1>6, <1>7, <1>8

LEMMA AddAt ==
  ASSUME NEW s \in States, NEW o \in Orders, NEW q \in Orders
  PROVE  AddOptimisticAction(s, o)[q] \in
           IF q = o THEN {OptimisticAction} ELSE {s[q], Untracked}
  BY DEF AddOptimisticAction

-----------------------------------------------------------------------------
(* The parts of the invariant, one lemma each. *)

\* The steps that touch neither the flows, the wire, the venue nor the
\* submission ranks.
PageStep == PollStep \/ PollOrderStatuses \/ EffectsFlush

LEMMA PageStepFrame ==
  PageStep => UNCHANGED <<flows, wire, venueOrders, submittedAt>>
  BY DEF PageStep, PollStep, BffAnswersPoll, PollFails, PollContinues, PollOrderStatuses,
     EffectsFlush

\* A request the venue handles or the network loses, as one step.
VenueAnswer(m) ==
  VenueHandlesOrder(m) \/ VenueHandlesCancel(m) \/ RequestLost(m) \/ VenueAnswersBlank(m)

LEMMA VenueAnswerFacts ==
  ASSUME TypeOK, FreshOrders, NEW m \in wire, VenueAnswer(m)
  PROVE  /\ wire' = wire \ {m}
         /\ UNCHANGED <<pageVars, submittedAt>>
         /\ \A o \in Orders \ {m.id} : venueOrders'[o] = venueOrders[o]
         /\ \/ venueOrders'[m.id] = venueOrders[m.id]
            \/ m.kind = "submit" /\ venueOrders[m.id] = "none"
            \/ venueOrders[m.id] = "open" /\ venueOrders'[m.id] = "canceled"
         /\ \E stage \in {"accepted", "acceptedWithoutOid", "refused"} :
              flows' = Answered(m, stage)
<1>1. ASSUME NEW raw, NEW stage, Venue(m, stage, raw)
      PROVE  /\ wire' = wire \ {m}
             /\ UNCHANGED <<pageVars, submittedAt>>
             /\ \A o \in Orders \ {m.id} : venueOrders'[o] = venueOrders[o]
             /\ venueOrders'[m.id] = raw
             /\ flows' = Answered(m, stage)
  BY <1>1 DEF Venue, TypeOK
<1>2. CASE VenueHandlesOrder(m)
  BY <1>1, <1>2 DEF VenueHandlesOrder, FreshOrders
<1>3. CASE VenueHandlesCancel(m)
  BY <1>1, <1>3 DEF VenueHandlesCancel
<1>4. CASE RequestLost(m)
  BY <1>1, <1>4 DEF RequestLost
<1>5. CASE VenueAnswersBlank(m)
  BY <1>5 DEF VenueAnswersBlank
<1>6. QED
  BY <1>2, <1>3, <1>4, <1>5, VenueAnswer(m) DEF VenueAnswer

\* An answered request changes no flow's kind or order and starts no signing.
LEMMA AnsweredFlows ==
  ASSUME TypeOK, NEW m \in wire,
         NEW stage \in {"accepted", "acceptedWithoutOid", "refused"}
  PROVE  \A f \in Answered(m, stage) :
           \E g \in flows : f.kind = g.kind /\ f.id = g.id /\ (f.stage = "signing" => f = g)
<1>1. SUFFICES ASSUME NEW g \in flows
               PROVE  LET f == IF g.kind = m.kind /\ g.id = m.id /\ g.stage = "posted"
                               THEN [g EXCEPT !.stage = stage] ELSE g
                      IN f.kind = g.kind /\ f.id = g.id /\ (f.stage = "signing" => f = g)
  BY DEF Answered
<1>2. g \in Flow
  BY DEF TypeOK
<1>3. QED
  BY <1>2 DEF Flow

LEMMA FreshInit == Init => FreshOrders
  BY DEF Init, FreshOrders, SubmitRunning

LEMMA FreshStep ==
  ASSUME TypeOK, FreshOrders, OneSubmission, [Next]_vars
  PROVE  FreshOrders'
<1> USE DEF FreshOrders, SubmitRunning
<1>1. ASSUME NEW o \in Orders, SubmitInWallet(o)
      PROVE  FreshOrders'
  <2>1. Cardinality({p \in Orders : submittedAt[p] # 0}) \in Nat
    BY OrdersAssumption, FS_Subset, FS_CardinalityType
  <2>2. submittedAt'[o] # 0 /\ \A p \in Orders \ {o} : submittedAt'[p] = submittedAt[p]
    BY <1>1, <2>1 DEF SubmitInWallet, TypeOK
  <2> DEFINE new == [kind |-> "submit", id |-> o, stage |-> "signing"]
  <2>3. new.kind = "submit" /\ new.id = o
    OBVIOUS
  <2>4. /\ flows' = flows \cup {new} /\ UNCHANGED <<wire, venueOrders>>
        /\ submittedAt[o] = 0
    BY <1>1 DEF SubmitInWallet
  <2> HIDE DEF new
  <2>5. QED
    BY <2>2, <2>3, <2>4
<1>2. ASSUME NEW o \in Orders, CancelInWallet(o)
      PROVE  FreshOrders'
  BY <1>2 DEF CancelInWallet
<1>3. ASSUME NEW f \in flows, PostSignedAction(f)
      PROVE  FreshOrders'
  <2> DEFINE posted == [f EXCEPT !.stage = "posted"]
  <2>1. posted.kind = f.kind /\ posted.id = f.id /\ posted.stage = "posted" /\ f \in Flow
    BY DEF TypeOK, Flow
  <2>2. flows' = (flows \ {f}) \cup {posted} /\ f.stage = "signing"
    BY <1>3 DEF PostSignedAction
  <2> HIDE DEF posted
  <2>3. \A g \in flows : g.kind = "submit" /\ f.kind = "submit" /\ g.id = f.id => g = f
    BY DEF OneSubmission
  <2>4. /\ wire' = wire \cup {[kind |-> f.kind, id |-> f.id]}
        /\ UNCHANGED <<venueOrders, submittedAt>>
    BY <1>3 DEF PostSignedAction
  <2>5. \A m \in wire' : m.kind = "submit" => venueOrders'[m.id] = "none"
    BY <2>2, <2>4
  <2>6. ASSUME NEW g \in flows', g.kind = "submit", g.stage = "signing"
        PROVE  venueOrders'[g.id] = "none" /\ [kind |-> "submit", id |-> g.id] \notin wire'
    <3>1. g \in flows /\ g # f
      BY <2>1, <2>2, <2>6
    <3>2. [kind |-> "submit", id |-> g.id] # [kind |-> f.kind, id |-> f.id]
      BY <2>3, <2>6, <3>1
    <3>3. QED
      BY <2>4, <2>6, <3>1, <3>2
  <2>7. ASSUME NEW o \in Orders, submittedAt'[o] = 0
        PROVE  /\ venueOrders'[o] = "none"
               /\ [kind |-> "submit", id |-> o] \notin wire'
               /\ ~\E g \in flows' : g.kind = "submit" /\ g.id = o
    <3>1. ~(f.kind = "submit" /\ f.id = o)
      BY <2>4, <2>7
    <3>2. QED
      BY <2>1, <2>2, <2>4, <2>7, <3>1
  <2>8. QED
    BY <2>5, <2>6, <2>7
<1>4. ASSUME NEW f \in flows,
             FlowFails(f) \/ SubmissionSucceeds(f) \/ CancellationSucceeds(f)
      PROVE  FreshOrders'
  BY <1>4 DEF FlowFails, SubmissionSucceeds, CancellationSucceeds
<1>5. ASSUME NEW f \in flows, AnswerLost(f)
      PROVE  FreshOrders'
  <2> DEFINE refused == [f EXCEPT !.stage = "refused"]
  <2>1. refused.kind = f.kind /\ refused.id = f.id /\ refused.stage = "refused"
    BY DEF TypeOK, Flow
  <2>2. flows' = (flows \ {f}) \cup {refused}
    BY <1>5 DEF AnswerLost
  <2> HIDE DEF refused
  <2>3. QED
    BY <1>5, <2>1, <2>2 DEF AnswerLost
<1>6. ASSUME NEW m \in wire, VenueAnswer(m)
      PROVE  FreshOrders'
  <2>1. PICK stage \in {"accepted", "acceptedWithoutOid", "refused"} :
               flows' = Answered(m, stage)
    BY <1>6, VenueAnswerFacts
  <2>2. \A f \in flows' : \E g \in flows :
           f.kind = g.kind /\ f.id = g.id /\ (f.stage = "signing" => f = g)
    BY <2>1, AnsweredFlows
  <2>3. m.id \in Orders /\ m = [kind |-> m.kind, id |-> m.id]
    BY DEF TypeOK
  <2>4. \A n \in wire : n = [kind |-> n.kind, id |-> n.id] /\ n.id \in Orders
    BY DEF TypeOK
  <2>5. /\ wire' = wire \ {m} /\ submittedAt' = submittedAt
        /\ \A o \in Orders \ {m.id} : venueOrders'[o] = venueOrders[o]
        /\ \/ venueOrders'[m.id] = venueOrders[m.id]
           \/ m.kind = "submit" /\ venueOrders[m.id] = "none"
           \/ venueOrders[m.id] = "open" /\ venueOrders'[m.id] = "canceled"
    BY <1>6, VenueAnswerFacts
  <2>6. \A f \in flows : f.id \in Orders
    BY DEF TypeOK, Flow
  <2>7. \A n \in wire' : n.kind = "submit" => venueOrders'[n.id] = "none"
    BY <2>3, <2>4, <2>5
  <2>8. ASSUME NEW f \in flows', f.kind = "submit", f.stage = "signing"
        PROVE  venueOrders'[f.id] = "none" /\ [kind |-> "submit", id |-> f.id] \notin wire'
    <3>1. f \in flows
      BY <2>2, <2>8
    <3>2. venueOrders[f.id] = "none" /\ [kind |-> "submit", id |-> f.id] \notin wire
      BY <2>8, <3>1
    <3>3. m.kind = "submit" => m.id # f.id
      BY <2>3, <3>2
    <3>4. QED
      BY <2>5, <2>6, <3>1, <3>2, <3>3
  <2>9. ASSUME NEW o \in Orders, submittedAt'[o] = 0
        PROVE  /\ venueOrders'[o] = "none"
               /\ [kind |-> "submit", id |-> o] \notin wire'
               /\ ~\E g \in flows' : g.kind = "submit" /\ g.id = o
    <3>1. /\ venueOrders[o] = "none"
          /\ [kind |-> "submit", id |-> o] \notin wire
          /\ ~\E g \in flows : g.kind = "submit" /\ g.id = o
      BY <2>5, <2>9
    <3>2. m.kind = "submit" => m.id # o
      BY <2>3, <3>1
    <3>3. ~\E g \in flows' : g.kind = "submit" /\ g.id = o
      BY <2>2, <3>1
    <3>4. QED
      BY <2>5, <3>1, <3>2, <3>3
  <2>10. QED
    BY <2>7, <2>8, <2>9
<1>7. ASSUME NEW o \in Orders, VenueEndsOrder(o)
      PROVE  FreshOrders'
  BY <1>7 DEF VenueEndsOrder, TypeOK, pageVars, Flow
<1>8. ASSUME PageStep
      PROVE  FreshOrders'
  BY <1>8, PageStepFrame
<1>9. ASSUME Reload
      PROVE  FreshOrders'
  BY <1>9 DEF Reload
<1>10. ASSUME UNCHANGED vars
       PROVE  FreshOrders'
  BY <1>10 DEF vars
<1>11. QED
  BY <1>1, <1>2, <1>3, <1>4, <1>5, <1>6, <1>7, <1>8, <1>9, <1>10
     DEF Next, UserStep, FlowStep, VenueStep, VenueAnswer, PageStep

-----------------------------------------------------------------------------
\* The steps that touch neither the polls nor the in-flight ids.
LEMMA PollFrame ==
  \/ \E o \in Orders : SubmitInWallet(o) \/ CancelInWallet(o) \/ VenueEndsOrder(o)
  \/ FlowStep
  \/ \E m \in wire : VenueAnswer(m)
  \/ EffectsFlush
  => UNCHANGED <<polls, inFlightActionIds>>
  BY DEF SubmitInWallet, CancelInWallet, VenueEndsOrder, FlowStep, PostSignedAction,
     FlowFails, SubmissionSucceeds, CancellationSucceeds, AnswerLost, VenueAnswer,
     VenueHandlesOrder, VenueHandlesCancel, RequestLost, VenueAnswersBlank, Venue,
     EffectsFlush, pageVars

LEMMA OnePollInit == Init => OnePollPerAction
  BY DEF Init, OnePollPerAction

LEMMA OnePollStep ==
  ASSUME TypeOK, OnePollPerAction, [Next]_vars
  PROVE  OnePollPerAction'
<1> USE DEF OnePollPerAction
<1>1. ASSUME UNCHANGED <<polls, inFlightActionIds>>
      PROVE  OnePollPerAction'
  BY <1>1
<1>2. ASSUME NEW p \in polls, NEW q, q.id = p.id, polls' = (polls \ {p}) \cup {q},
             inFlightActionIds' = inFlightActionIds
      PROVE  OnePollPerAction'
  BY <1>2
<1>3. ASSUME NEW p \in polls, BffAnswersPoll(p) \/ PollFails(p)
      PROVE  OnePollPerAction'
  <2>1. PICK answer : polls' = (polls \ {p}) \cup {[p EXCEPT !.answer = answer]}
    BY <1>3 DEF BffAnswersPoll, PollFails
  <2>2. [p EXCEPT !.answer = answer].id = p.id
    BY DEF TypeOK, Poll
  <2>3. inFlightActionIds' = inFlightActionIds
    BY <1>3 DEF BffAnswersPoll, PollFails
  <2>4. QED
    BY <2>1, <2>2, <2>3, <1>2
<1>4. ASSUME NEW p \in polls, PollContinues(p)
      PROVE  OnePollPerAction'
  BY <1>4 DEF PollContinues
<1>5. ASSUME PollOrderStatuses
      PROVE  OnePollPerAction'
  <2> DEFINE pending == {o \in Orders : Pollable(o)}
             new == {[id |-> o, answer |-> "waiting"] : o \in pending}
  <2>1. pending \cap inFlightActionIds = {}
    BY DEF Pollable
  <2>2. /\ polls' = polls \cup new
        /\ inFlightActionIds' = inFlightActionIds \cup pending
    BY <1>5 DEF PollOrderStatuses
  <2> HIDE DEF pending
  <2>3. \A p \in new : p.id \in pending
    OBVIOUS
  <2>4. ASSUME NEW o \in pending
        PROVE  \E p \in new : p.id = o
    <3>1. [id |-> o, answer |-> "waiting"] \in new
      OBVIOUS
    <3>2. [id |-> o, answer |-> "waiting"].id = o
      OBVIOUS
    <3>3. QED
      BY <3>1, <3>2, Zenon
  <2>5. \A p, q \in new : p.id = q.id => p = q
    OBVIOUS
  <2> HIDE DEF new
  <2>6. QED
    BY <2>1, <2>2, <2>3, <2>4, <2>5
<1>6. ASSUME Reload
      PROVE  OnePollPerAction'
  BY <1>6 DEF Reload
<1>7. ASSUME UNCHANGED vars
      PROVE  OnePollPerAction'
  BY <1>7 DEF vars
<1>8. QED
  BY <1>1, <1>3, <1>4, <1>5, <1>6, <1>7, PollFrame
     DEF Next, UserStep, FlowStep, VenueStep, VenueAnswer, PollStep

\* A page never has two status requests for one order in flight, however many
\* orders it tracks.
THEOREM OnePoll == Spec => []OnePollPerAction
  BY TypeCorrectness, OnePollInit, OnePollStep, PTL DEF Spec

-----------------------------------------------------------------------------
LEMMA VerdictsInit == Init => VerdictsAreVenues
  BY DEF Init, VerdictsAreVenues, Copies, Verdicts, Untracked

\* A verdict the venue has reached, the venue keeps.
LEMMA VerdictStable ==
  ASSUME TypeOK, FreshOrders, [Next]_vars, NEW o \in Orders,
         NormalizeOrderStatus(venueOrders[o]) \in Verdicts
  PROVE  venueOrders'[o] = venueOrders[o]
<1>1. venueOrders[o] \in RawTerminal
  BY DEF NormalizeOrderStatus, Verdicts, TypeOK, RawStatuses, RawTerminal
<1>2. ASSUME NEW m \in wire, VenueAnswer(m)
      PROVE  venueOrders'[o] = venueOrders[o]
  BY <1>1, <1>2, VenueAnswerFacts DEF RawTerminal
<1>3. ASSUME NEW p \in Orders, VenueEndsOrder(p)
      PROVE  venueOrders'[o] = venueOrders[o]
  BY <1>1, <1>3 DEF VenueEndsOrder, RawTerminal, TypeOK
<1>4. QED
  BY <1>2, <1>3, PageStepFrame
     DEF Next, UserStep, FlowStep, VenueStep, VenueAnswer, PageStep, SubmitInWallet,
         CancelInWallet, PostSignedAction, FlowFails, SubmissionSucceeds,
         CancellationSucceeds, AnswerLost, Reload, vars

\* A copy agrees with the venue when each of its verdicts was one of the old
\* state's, or is the answer just applied.
Truthful(s) ==
  \A o \in Orders :
    s[o].status \in Verdicts => NormalizeOrderStatus(venueOrders[o]) = s[o].status

LEMMA OneUpdateTruthful ==
  ASSUME NEW s, NEW t, NEW o \in Orders, Truthful(s),
         \A q \in Orders : q # o => t[q] = s[q],
         t[o].status \in Verdicts =>
           t[o].status = s[o].status \/ NormalizeOrderStatus(venueOrders[o]) = t[o].status
  PROVE  Truthful(t)
  BY DEF Truthful

LEMMA UpdatesTruthful ==
  ASSUME NEW s \in States, Truthful(s), NEW o \in Orders
  PROVE  /\ Truthful(AddOptimisticAction(s, o))
         /\ \A b \in BOOLEAN : Truthful(MarkActionSubmitted(s, o, b))
         /\ Truthful(MarkActionFailed(s, o))
         /\ Truthful(MarkActionCancelStarted(s, o))
         /\ Truthful(MarkActionCancelSubmitted(s, o))
         /\ Truthful(MarkActionCancelFailed(s, o))
         /\ Truthful(ApplyPollError(s, o))
         /\ \A status \in BffStatuses :
              (status \in Verdicts => NormalizeOrderStatus(venueOrders[o]) = status)
                => Truthful(ApplyOrderStatus(s, o, status))
<1>1. s[o] \in Action
  BY DEF States
<1>2. "failed" \notin Verdicts /\ "reconciling" \notin Verdicts /\ "submitted" \notin Verdicts
      /\ "optimistic_submitting" \notin Verdicts /\ "untracked" \notin Verdicts
  BY DEF Verdicts
<1>3. Truthful(AddOptimisticAction(s, o))
  <2>1. Untracked.status = "untracked" /\ OptimisticAction.status = "optimistic_submitting"
    BY DEF Untracked, OptimisticAction
  <2>2. QED
    BY <1>2, <2>1, AddAt DEF Truthful
<1>4. ASSUME NEW b \in BOOLEAN
      PROVE  Truthful(MarkActionSubmitted(s, o, b))
  <2>1. \A q \in Orders : q # o => MarkActionSubmitted(s, o, b)[q] = s[q]
    BY UpdateElsewhere
  <2>2. \/ MarkActionSubmitted(s, o, b)[o] = s[o]
        \/ MarkActionSubmitted(s, o, b)[o].status \in {"reconciling", "submitted"}
    BY UpdateElsewhere, MarkAt
  <2>3. QED
    BY <1>2, <2>1, <2>2, OneUpdateTruthful
<1>5. Truthful(MarkActionFailed(s, o))
  <2>1. \A q \in Orders : q # o => MarkActionFailed(s, o)[q] = s[q]
    BY UpdateElsewhere
  <2>2. MarkActionFailed(s, o)[o] = s[o] \/ MarkActionFailed(s, o)[o].status = "failed"
    BY UpdateElsewhere, MarkAt
  <2>3. QED
    BY <1>2, <2>1, <2>2, OneUpdateTruthful
<1>6. ASSUME NEW t \in {MarkActionCancelStarted(s, o), MarkActionCancelSubmitted(s, o),
                       MarkActionCancelFailed(s, o)}
      PROVE  Truthful(t)
  <2>1. \A q \in Orders : q # o => t[q] = s[q]
    BY UpdateElsewhere
  <2>2. t[o].status = s[o].status
    BY UpdateElsewhere, MarkAt
  <2>3. QED
    BY <2>1, <2>2, OneUpdateTruthful
<1>7. Truthful(ApplyPollError(s, o))
  <2>1. \A q \in Orders : q # o => ApplyPollError(s, o)[q] = s[q]
    BY UpdateElsewhere
  <2>2. \/ ApplyPollError(s, o)[o] = s[o]
        \/ ApplyPollError(s, o)[o].status \in {"failed", "reconciling"}
    BY UpdateElsewhere, ApplyErrorAt
  <2>3. QED
    BY <1>2, <2>1, <2>2, OneUpdateTruthful
<1>8. ASSUME NEW status \in BffStatuses,
             status \in Verdicts => NormalizeOrderStatus(venueOrders[o]) = status
      PROVE  Truthful(ApplyOrderStatus(s, o, status))
  <2>1. \A q \in Orders : q # o => ApplyOrderStatus(s, o, status)[q] = s[q]
    BY UpdateElsewhere
  <2>2. \/ ApplyOrderStatus(s, o, status)[o] = s[o]
        \/ ApplyOrderStatus(s, o, status)[o].status
             = IF status = "submitted" THEN "reconciling" ELSE status
    BY UpdateElsewhere, ApplyStatusAt
  <2>3. QED
    BY <1>2, <1>8, <2>1, <2>2, OneUpdateTruthful
<1>9. QED
  BY <1>3, <1>4, <1>5, <1>6, <1>7, <1>8

\* Every copy a step leaves agrees with the venue before the step.
LEMMA StepTruthful ==
  ASSUME TypeOK, VerdictsAreVenues, [Next]_vars
  PROVE  \A t \in {actionsByWallet', actionsByWalletRef', storage'} : Truthful(t)
<1> DEFINE s == actionsByWallet
           Goal == \A t \in {actionsByWallet', actionsByWalletRef', storage'} : Truthful(t)
<1>1. Truthful(actionsByWallet) /\ Truthful(actionsByWalletRef) /\ Truthful(storage)
  BY DEF VerdictsAreVenues, Copies, Truthful
<1>2. actionsByWallet \in States
  BY DEF TypeOK, States
<1>3. ASSUME UNCHANGED <<actionsByWallet, actionsByWalletRef, storage>>
      PROVE  Goal
  BY <1>1, <1>3
<1>4. ASSUME NEW o \in Orders, SubmitInWallet(o) \/ CancelInWallet(o)
      PROVE  Goal
  BY <1>1, <1>2, <1>4, UpdatesTruthful DEF SubmitInWallet, CancelInWallet, ClickUpdates
<1>5. ASSUME NEW f \in flows, FlowFails(f) \/ SubmissionSucceeds(f) \/ CancellationSucceeds(f)
      PROVE  Goal
  <2>1. f.id \in Orders
    BY DEF TypeOK, Flow
  <2>2. UNCHANGED <<actionsByWalletRef, storage>>
    BY <1>5 DEF FlowFails, SubmissionSucceeds, CancellationSucceeds
  <2>3. Truthful(actionsByWallet')
    BY <1>1, <1>2, <1>5, <2>1, UpdatesTruthful DEF FlowFails, SubmissionSucceeds,
       CancellationSucceeds
  <2>4. QED
    BY <1>1, <2>2, <2>3
<1>6. ASSUME NEW p \in polls, PollContinues(p)
      PROVE  Goal
  <2>1. p.id \in Orders /\ (p.answer = "error" \/ p.answer \in BffStatuses)
    BY <1>6 DEF PollContinues, Poll, TypeOK
  <2>2. UNCHANGED <<actionsByWalletRef, storage>>
    BY <1>6 DEF PollContinues
  <2>3. p.answer \in Verdicts => NormalizeOrderStatus(venueOrders[p.id]) = p.answer
    BY DEF VerdictsAreVenues
  <2>4. Truthful(actionsByWallet')
    BY <1>1, <1>2, <1>6, <2>1, <2>3, UpdatesTruthful DEF PollContinues
  <2>5. QED
    BY <1>1, <2>2, <2>4
<1>7. ASSUME EffectsFlush \/ Reload
      PROVE  Goal
  BY <1>1, <1>7 DEF EffectsFlush, Reload
<1>8. ASSUME NEW m \in wire, VenueAnswer(m)
      PROVE  Goal
  <2>1. UNCHANGED pageVars
    BY <1>8 DEF VenueAnswer, VenueHandlesOrder, VenueHandlesCancel, RequestLost, Venue,
       VenueAnswersBlank
  <2>2. QED
    BY <1>3, <2>1 DEF pageVars
<1>9. QED
  BY <1>3, <1>4, <1>5, <1>6, <1>7, <1>8
     DEF Next, UserStep, FlowStep, VenueStep, VenueAnswer, PollStep, PostSignedAction,
         AnswerLost, VenueEndsOrder, BffAnswersPoll, PollFails, PollOrderStatuses,
         pageVars, vars

LEMMA VerdictsStep ==
  ASSUME TypeOK, FreshOrders, VerdictsAreVenues, [Next]_vars
  PROVE  VerdictsAreVenues'
<1>1. \A o \in Orders :
        NormalizeOrderStatus(venueOrders[o]) \in Verdicts => venueOrders'[o] = venueOrders[o]
  BY VerdictStable
<1>2. ASSUME NEW t \in Copies', NEW o \in Orders, t[o].status \in Verdicts
      PROVE  NormalizeOrderStatus(venueOrders[o])' = t[o].status
  <2>1. Truthful(t)
    BY StepTruthful DEF Copies
  <2>2. NormalizeOrderStatus(venueOrders[o]) = t[o].status
    BY <1>2, <2>1 DEF Truthful
  <2>3. venueOrders'[o] = venueOrders[o]
    BY <1>1, <1>2, <2>2
  <2>4. QED
    BY <2>2, <2>3
<1> DEFINE Answers ==
      \A p \in polls' :
        p.answer \in Verdicts => NormalizeOrderStatus(venueOrders[p.id]) = p.answer
<1>3. Answers
  <2>1. ASSUME NEW p \in polls, BffAnswersPoll(p)
        PROVE  Answers
    <3>1. PICK raw \in {venueOrders[p.id], "unknownOid"} :
            polls' = (polls \ {p}) \cup {[p EXCEPT !.answer = NormalizeOrderStatus(raw)]}
      BY <2>1 DEF BffAnswersPoll
    <3> DEFINE q == [p EXCEPT !.answer = NormalizeOrderStatus(raw)]
    <3>2. q.id = p.id /\ q.answer = NormalizeOrderStatus(raw)
      BY DEF TypeOK, Poll
    <3>3. NormalizeOrderStatus("unknownOid") \notin Verdicts
      BY DEF NormalizeOrderStatus, Verdicts
    <3>4. polls' = (polls \ {p}) \cup {q}
      BY <3>1
    <3> HIDE DEF q
    <3>5. QED
      BY <3>2, <3>3, <3>4 DEF VerdictsAreVenues
  <2>2. ASSUME NEW p \in polls, PollFails(p)
        PROVE  Answers
    <3> DEFINE q == [p EXCEPT !.answer = "error"]
    <3>1. q.answer \notin Verdicts
      BY DEF TypeOK, Poll, Verdicts
    <3>2. polls' = (polls \ {p}) \cup {q}
      BY <2>2 DEF PollFails
    <3> HIDE DEF q
    <3>3. QED
      BY <3>1, <3>2 DEF VerdictsAreVenues
  <2>3. ASSUME PollOrderStatuses
        PROVE  Answers
    <3>1. \A p \in polls' : p \in polls \/ p.answer = "waiting"
      BY <2>3 DEF PollOrderStatuses
    <3>2. QED
      BY <3>1 DEF VerdictsAreVenues, Verdicts
  <2>4. ASSUME polls' \subseteq polls
        PROVE  Answers
    BY <2>4 DEF VerdictsAreVenues
  <2>5. QED
    BY <2>1, <2>2, <2>3, <2>4, PollFrame
       DEF Next, UserStep, FlowStep, VenueStep, VenueAnswer, PollStep, PollContinues,
           Reload, vars
<1>4. ASSUME NEW p \in polls', p.answer \in Verdicts
      PROVE  NormalizeOrderStatus(venueOrders[p.id])' = p.answer
  <2>1. p.id \in Orders
    BY StepType DEF TypeOK, Poll
  <2>2. venueOrders'[p.id] = venueOrders[p.id]
    BY <1>1, <1>3, <1>4, <2>1
  <2>3. QED
    BY <1>3, <1>4, <2>2
<1>5. QED
  BY <1>2, <1>4 DEF VerdictsAreVenues

-----------------------------------------------------------------------------
(* Where a step's flows and copies come from. *)

\* A flow is an older one of the same kind and order, or was just clicked.
LEMMA FlowsOrigin ==
  ASSUME TypeOK, FreshOrders, [Next]_vars, NEW f \in flows'
  PROVE  \/ \E g \in flows : g.kind = f.kind /\ g.id = f.id
         \/ f.kind = "submit" /\ f.id \in Orders /\ SubmitInWallet(f.id)
         \/ f.kind = "cancel" /\ f.id \in Orders /\ CancelInWallet(f.id)
<1> DEFINE Goal == \/ \E g \in flows : g.kind = f.kind /\ g.id = f.id
                   \/ f.kind = "submit" /\ f.id \in Orders /\ SubmitInWallet(f.id)
                   \/ f.kind = "cancel" /\ f.id \in Orders /\ CancelInWallet(f.id)
<1>1. CASE f \in flows
  BY <1>1
<1>2. ASSUME f \notin flows, NEW o \in Orders, SubmitInWallet(o)
      PROVE  Goal
  <2>1. f.kind = "submit" /\ f.id = o
    BY <1>2 DEF SubmitInWallet
  <2>2. QED
    BY <1>2, <2>1
<1>3. ASSUME f \notin flows, NEW o \in Orders, CancelInWallet(o)
      PROVE  Goal
  <2>1. f.kind = "cancel" /\ f.id = o
    BY <1>3 DEF CancelInWallet
  <2>2. QED
    BY <1>3, <2>1
<1>4. ASSUME f \notin flows, NEW g \in flows, PostSignedAction(g) \/ AnswerLost(g)
      PROVE  Goal
  <2>1. f \in {[g EXCEPT !.stage = "posted"], [g EXCEPT !.stage = "refused"]}
    BY <1>4 DEF PostSignedAction, AnswerLost
  <2>2. f.kind = g.kind /\ f.id = g.id
    BY <2>1 DEF TypeOK, Flow
  <2>3. QED
    BY <2>2
<1>5. ASSUME f \notin flows, NEW m \in wire, VenueAnswer(m)
      PROVE  Goal
  <2>1. PICK stage \in {"accepted", "acceptedWithoutOid", "refused"} :
               flows' = Answered(m, stage)
    BY <1>5, VenueAnswerFacts
  <2>2. f \in Answered(m, stage)
    BY <2>1
  <2>3. QED
    BY <2>2, AnsweredFlows
<1>6. QED
  BY <1>1, <1>2, <1>3, <1>4, <1>5, PageStepFrame
     DEF Next, UserStep, FlowStep, VenueStep, VenueAnswer, PageStep, FlowFails,
         SubmissionSucceeds, CancellationSucceeds, VenueEndsOrder, Reload, vars

\* One flow of a kind and order stays one, unless another is clicked.
LEMMA FlowsUnique ==
  ASSUME TypeOK, FreshOrders, [Next]_vars, NEW k \in {"submit", "cancel"},
         \A f, g \in flows : f.kind = k /\ g.kind = k /\ f.id = g.id => f = g,
         \A o \in Orders : k = "submit" /\ SubmitInWallet(o) => ~SubmitRunning(o),
         \A o \in Orders : k = "cancel" /\ CancelInWallet(o) => ~CancelRunning(o)
  PROVE  \A f, g \in flows' : f.kind = k /\ g.kind = k /\ f.id = g.id => f = g
<1> DEFINE Goal == \A f, g \in flows' : f.kind = k /\ g.kind = k /\ f.id = g.id => f = g
<1>1. ASSUME flows' \subseteq flows
      PROVE  Goal
  BY <1>1
<1>2. ASSUME NEW o \in Orders, SubmitInWallet(o)
      PROVE  Goal
  BY <1>2 DEF SubmitInWallet, SubmitRunning
<1>3. ASSUME NEW o \in Orders, CancelInWallet(o)
      PROVE  Goal
  BY <1>3 DEF CancelInWallet, CancelRunning
<1>4. ASSUME NEW h \in flows, PostSignedAction(h) \/ AnswerLost(h)
      PROVE  Goal
  <2>1. PICK stage : flows' = (flows \ {h}) \cup {[h EXCEPT !.stage = stage]}
    BY <1>4 DEF PostSignedAction, AnswerLost
  <2> DEFINE moved == [h EXCEPT !.stage = stage]
  <2>2. moved.kind = h.kind /\ moved.id = h.id
    BY DEF TypeOK, Flow
  <2>3. flows' = (flows \ {h}) \cup {moved}
    BY <2>1
  <2> HIDE DEF moved
  <2>4. QED
    BY <2>2, <2>3
<1>5. ASSUME NEW m \in wire, VenueAnswer(m)
      PROVE  Goal
  <2>1. PICK stage \in {"accepted", "acceptedWithoutOid", "refused"} :
               flows' = Answered(m, stage)
    BY <1>5, VenueAnswerFacts
  <2> DEFINE answer(f) == IF f.kind = m.kind /\ f.id = m.id /\ f.stage = "posted"
                          THEN [f EXCEPT !.stage = stage] ELSE f
  <2>2. flows' = {answer(f) : f \in flows}
    BY <2>1 DEF Answered
  <2>3. \A f \in flows : answer(f).kind = f.kind /\ answer(f).id = f.id
    BY DEF TypeOK, Flow
  <2> HIDE DEF answer
  <2>4. QED
    BY <2>2, <2>3
<1>6. QED
  BY <1>1, <1>2, <1>3, <1>4, <1>5, PageStepFrame
     DEF Next, UserStep, FlowStep, VenueStep, VenueAnswer, PageStep, FlowFails,
         SubmissionSucceeds, CancellationSucceeds, VenueEndsOrder, Reload, vars

FlowEnds(f) == FlowFails(f) \/ SubmissionSucceeds(f) \/ CancellationSucceeds(f)

LEMMA FlowEndsFrame ==
  ASSUME NEW f, FlowEnds(f)
  PROVE  /\ flows' = flows \ {f}
         /\ UNCHANGED <<actionsByWalletRef, storage, polls, inFlightActionIds, wire,
                        venueOrders, submittedAt>>
  BY DEF FlowEnds, FlowFails, SubmissionSucceeds, CancellationSucceeds

\* A click, the end of a flow or a continued poll of order q.
Addressed(q) ==
  \/ SubmitInWallet(q)
  \/ CancelInWallet(q)
  \/ \E f \in flows : f.id = q /\ FlowEnds(f)
  \/ \E p \in polls : p.id = q /\ PollContinues(p)

\* Without a reload the state of an action changes only when it is dropped or
\* addressed.
LEMMA StateOrigin ==
  ASSUME TypeOK, FreshOrders, [Next]_vars, NEW q \in Orders
  PROVE  \/ actionsByWallet'[q] \in {actionsByWallet[q], Untracked}
         \/ Addressed(q)
         \/ Reload
<1> USE DEF Addressed
<1> DEFINE s == actionsByWallet
           Goal == \/ actionsByWallet'[q] \in {s[q], Untracked}
                   \/ Addressed(q)
                   \/ Reload
<1>1. s \in States
  BY DEF TypeOK, States
<1>2. CASE actionsByWallet' = s
  BY <1>2
<1>3. ASSUME NEW o \in Orders, SubmitInWallet(o)
      PROVE  Goal
  <2>1. actionsByWallet' = AddOptimisticAction(s, o)
    BY <1>3 DEF SubmitInWallet, ClickUpdates
  <2>2. CASE q = o
    BY <1>3, <2>2
  <2>3. CASE q # o
    BY <1>1, <2>1, <2>3, AddAt
  <2>4. QED
    BY <2>2, <2>3
<1>4. ASSUME NEW o \in Orders, CancelInWallet(o)
      PROVE  Goal
  <2>1. actionsByWallet' = MarkActionCancelStarted(s, o)
    BY <1>4 DEF CancelInWallet, ClickUpdates
  <2>2. CASE q = o
    BY <1>4, <2>2
  <2>3. CASE q # o
    BY <1>1, <2>1, <2>3, UpdateElsewhere
  <2>4. QED
    BY <2>2, <2>3
<1>5. ASSUME NEW f \in flows, FlowEnds(f)
      PROVE  Goal
  <2>1. f.id \in Orders
    BY DEF TypeOK, Flow
  <2>3. CASE q = f.id
    BY <1>5, <2>3
  <2>4. CASE q # f.id
    <3>1. /\ \A b \in BOOLEAN : MarkActionSubmitted(s, f.id, b)[q] = s[q]
          /\ MarkActionFailed(s, f.id)[q] = s[q]
          /\ MarkActionCancelSubmitted(s, f.id)[q] = s[q]
          /\ MarkActionCancelFailed(s, f.id)[q] = s[q]
      BY <1>1, <2>1, <2>4, UpdateElsewhere
    <3> HIDE DEF s
    <3>2. \/ actionsByWallet' = MarkActionFailed(s, f.id)
          \/ actionsByWallet' = MarkActionCancelFailed(s, f.id)
          \/ actionsByWallet' = MarkActionSubmitted(s, f.id, f.stage = "accepted")
          \/ actionsByWallet' = MarkActionCancelSubmitted(s, f.id)
      BY <1>5, Zenon DEF FlowEnds, FlowFails, SubmissionSucceeds, CancellationSucceeds, s
    <3>3. QED
      BY <3>1, <3>2
  <2>5. QED
    BY <2>3, <2>4
<1>6. ASSUME NEW p \in polls, PollContinues(p)
      PROVE  Goal
  <2>1. p.id \in Orders /\ (p.answer = "error" \/ p.answer \in BffStatuses)
    BY <1>6 DEF PollContinues, Poll, TypeOK
  <2>2. CASE q = p.id
    BY <1>6, <2>2
  <2>3. CASE q # p.id
    <3>1. ApplyPollError(s, p.id)[q] = s[q]
      BY <1>1, <2>1, <2>3, UpdateElsewhere
    <3>2. p.answer # "error" => ApplyOrderStatus(s, p.id, p.answer)[q] = s[q]
      BY <1>1, <2>1, <2>3, UpdateElsewhere
    <3>3. QED
      BY <1>6, <3>1, <3>2 DEF PollContinues
  <2>4. QED
    BY <2>2, <2>3
<1>7. ASSUME NEW m \in wire, VenueAnswer(m)
      PROVE  Goal
  BY <1>2, <1>7, VenueAnswerFacts DEF pageVars
<1>8. QED
  BY <1>2, <1>3, <1>4, <1>5, <1>6, <1>7
     DEF Next, UserStep, FlowStep, VenueStep, VenueAnswer, PollStep, PostSignedAction,
         AnswerLost, VenueEndsOrder, BffAnswersPoll, PollFails, PollOrderStatuses,
         EffectsFlush, FlowEnds, pageVars, vars

\* The ref and the stored copy stay, or become the new state.
LEMMA LaggingCopies ==
  ASSUME TypeOK, FreshOrders, [Next]_vars
  PROVE  /\ actionsByWalletRef' \in {actionsByWalletRef, actionsByWallet'}
         /\ storage' \in {storage, actionsByWallet'}
         /\ storage' = actionsByWalletRef' \/ UNCHANGED <<actionsByWalletRef, storage>>
         /\ Reload => actionsByWallet' = storage
<1>1. ASSUME NEW m \in wire, VenueAnswer(m)
      PROVE  UNCHANGED <<actionsByWalletRef, storage>>
  BY <1>1, VenueAnswerFacts DEF pageVars
<1>2. QED
  BY <1>1
     DEF Next, UserStep, FlowStep, VenueStep, VenueAnswer, PollStep, SubmitInWallet,
         CancelInWallet, ClickUpdates, PostSignedAction, FlowFails, SubmissionSucceeds,
         CancellationSucceeds, AnswerLost, VenueEndsOrder, BffAnswersPoll, PollFails,
         PollContinues, PollOrderStatuses, EffectsFlush, Reload, pageVars, vars

\* An action of any copy was there before, was dropped or was addressed.
LEMMA CopiesOrigin ==
  ASSUME TypeOK, FreshOrders, [Next]_vars, NEW q \in Orders, NEW t \in Copies'
  PROVE  \/ \E s \in Copies : t[q] = s[q]
         \/ t[q] = Untracked
         \/ Addressed(q)
<1>1. t \in Copies \/ t = actionsByWallet'
  BY LaggingCopies DEF Copies
<1>2. QED
  BY <1>1, StateOrigin, LaggingCopies DEF Copies

\* A poll is an older one of the same order, or was just started for an action
\* with an order id.
LEMMA PollsOrigin ==
  ASSUME TypeOK, [Next]_vars, NEW p \in polls'
  PROVE  \/ \E r \in polls : r.id = p.id
         \/ PollOrderStatuses /\ p.id \in Orders /\ actionsByWalletRef[p.id].hasVenueOrderId
<1> DEFINE Goal ==
      \/ \E r \in polls : r.id = p.id
      \/ PollOrderStatuses /\ p.id \in Orders /\ actionsByWalletRef[p.id].hasVenueOrderId
<1>1. CASE p \in polls
  BY <1>1
<1>2. ASSUME p \notin polls, NEW r \in polls, BffAnswersPoll(r) \/ PollFails(r)
      PROVE  Goal
  <2>1. PICK answer : p = [r EXCEPT !.answer = answer]
    BY <1>2 DEF BffAnswersPoll, PollFails
  <2>2. p.id = r.id
    BY <2>1 DEF TypeOK, Poll
  <2>3. QED
    BY <2>2
<1>3. ASSUME p \notin polls, PollOrderStatuses
      PROVE  Goal
  BY <1>3 DEF PollOrderStatuses, Pollable
<1>4. ASSUME polls' \subseteq polls
      PROVE  Goal
  BY <1>1, <1>4
<1>5. QED
  BY <1>1, <1>2, <1>3, <1>4, PollFrame
     DEF Next, UserStep, FlowStep, VenueStep, VenueAnswer, PollStep, PollContinues, Reload,
         vars

\* A submission is ranked once.
LEMMA RankStays ==
  ASSUME TypeOK, FreshOrders, [Next]_vars, NEW o \in Orders
  PROVE  submittedAt'[o] = 0 => submittedAt[o] = 0 /\ ~SubmitInWallet(o)
<1>1. ASSUME NEW q \in Orders, SubmitInWallet(q)
      PROVE  submittedAt'[q] # 0 /\ \A r \in Orders : r # q => submittedAt'[r] = submittedAt[r]
  <2>1. Cardinality({r \in Orders : submittedAt[r] # 0}) \in Nat
    BY OrdersAssumption, FS_Subset, FS_CardinalityType
  <2>2. QED
    BY <1>1, <2>1 DEF SubmitInWallet, TypeOK
<1>2. ASSUME ~\E q \in Orders : SubmitInWallet(q)
      PROVE  submittedAt' = submittedAt
  BY <1>2, PageStepFrame, VenueAnswerFacts
     DEF Next, UserStep, FlowStep, VenueStep, VenueAnswer, PageStep, CancelInWallet,
         PostSignedAction, FlowFails, SubmissionSucceeds, CancellationSucceeds, AnswerLost,
         VenueEndsOrder, Reload, vars
<1>3. QED
  BY <1>1, <1>2

-----------------------------------------------------------------------------
LEMMA OneSubmissionInit == Init => OneSubmission
  BY DEF Init, OneSubmission, Copies, SubmitRunning, CancelRunning

\* An order id in the rendered or the newest copy rules a submission out.
LEMMA CancelNeedsOid ==
  ASSUME TypeOK, OneSubmission, NEW o \in Orders, CancelInWallet(o)
  PROVE  ~SubmitRunning(o) /\ submittedAt[o] # 0
<1>1. \E s \in Copies : s[o].hasVenueOrderId
  BY DEF CancelInWallet, CancelState, Copies
<1>2. ~Untracked.hasVenueOrderId /\ ~OptimisticAction.hasVenueOrderId
  BY DEF Untracked, OptimisticAction
<1>3. QED
  BY <1>1, <1>2 DEF OneSubmission

LEMMA OneSubmissionStep ==
  ASSUME TypeOK, FreshOrders, OneSubmission, [Next]_vars
  PROVE  OneSubmission'
<1>1. ~Untracked.hasVenueOrderId /\ ~OptimisticAction.hasVenueOrderId
  BY DEF Untracked, OptimisticAction
<1>2. \A f \in flows : f.id \in Orders /\ f.kind \in {"submit", "cancel"}
  BY DEF TypeOK, Flow
<1>3. \A o \in Orders :
        SubmitInWallet(o) =>
          /\ submittedAt[o] = 0 /\ ~SubmitRunning(o) /\ ~CancelRunning(o)
          /\ ~\E p \in polls : p.id = o
  BY DEF SubmitInWallet, FreshOrders, OneSubmission
<1>4. \A f, g \in flows' : f.kind = "submit" /\ g.kind = "submit" /\ f.id = g.id => f = g
  <2>1. \A f, g \in flows : f.kind = "submit" /\ g.kind = "submit" /\ f.id = g.id => f = g
    BY DEF OneSubmission
  <2>2. QED
    BY <1>3, <2>1, FlowsUnique
<1>5. ASSUME NEW q \in Orders
      PROVE  /\ SubmitRunning(q)' => SubmitRunning(q) \/ SubmitInWallet(q)
             /\ CancelRunning(q)' => CancelRunning(q) \/ CancelInWallet(q)
  BY FlowsOrigin DEF SubmitRunning, CancelRunning
<1>6. \A o \in Orders : CancelInWallet(o) => ~SubmitRunning(o) /\ submittedAt[o] # 0
  BY CancelNeedsOid
<1>7. ASSUME NEW q \in Orders, SubmitRunning(q)'
      PROVE  ~CancelRunning(q)'
  BY <1>3, <1>5, <1>6, <1>7 DEF OneSubmission
<1>8. ASSUME NEW q \in Orders, SubmitRunning(q)', NEW t \in Copies'
      PROVE  t[q] \in {OptimisticAction, Untracked}
  <2>1. CASE SubmitInWallet(q)
    <3>1. t = AddOptimisticAction(actionsByWallet, q)
      BY <2>1 DEF SubmitInWallet, ClickUpdates, Copies
    <3>2. t[q] = OptimisticAction
      BY <3>1, AddAt DEF TypeOK, States
    <3>3. QED
      BY <3>2
  <2>2. CASE SubmitRunning(q) /\ ~SubmitInWallet(q)
    <3>1. ~CancelInWallet(q) /\ ~\E p \in polls : p.id = q
      BY <1>6, <2>2 DEF OneSubmission
    <3>2. ASSUME NEW f \in flows, f.id = q
          PROVE  ~FlowEnds(f)
      <4>1. PICK g \in flows' : g.kind = "submit" /\ g.id = q
        BY <1>8 DEF SubmitRunning
      <4>2. f.kind = "submit"
        BY <1>2, <2>2, <3>2 DEF OneSubmission, CancelRunning
      <4>3. g \in flows => g = f
        BY <3>2, <4>1, <4>2 DEF OneSubmission
      <4>4. QED
        BY <4>1, <4>3, FlowEndsFrame
    <3>3. t[q] = Untracked \/ \E s \in Copies : t[q] = s[q]
      BY <2>2, <3>1, <3>2, CopiesOrigin DEF Addressed
    <3>4. QED
      BY <2>2, <3>3 DEF OneSubmission
  <2>3. QED
    BY <1>5, <1>8, <2>1, <2>2
<1>9. ASSUME NEW q \in Orders, submittedAt'[q] = 0
      PROVE  ~CancelRunning(q)' /\ \A t \in Copies' : t[q] = Untracked
  <2>1. submittedAt[q] = 0 /\ ~SubmitInWallet(q)
    BY <1>9, RankStays
  <2>2. /\ ~SubmitRunning(q) /\ ~CancelRunning(q) /\ ~CancelInWallet(q)
        /\ ~\E p \in polls : p.id = q
    BY <1>6, <2>1 DEF OneSubmission, FreshOrders
  <2>3. ~\E f \in flows : f.id = q
    BY <1>2, <2>2 DEF SubmitRunning, CancelRunning
  <2>4. \A t \in Copies' : t[q] = Untracked \/ \E s \in Copies : t[q] = s[q]
    BY <2>1, <2>2, <2>3, CopiesOrigin DEF Addressed
  <2>5. QED
    BY <1>5, <2>1, <2>2, <2>4 DEF OneSubmission
<1>10. ASSUME NEW p \in polls'
       PROVE  ~SubmitRunning(p.id)' /\ submittedAt'[p.id] # 0
  <2>1. p.id \in Orders
    BY StepType DEF TypeOK, Poll
  <2>2. CASE \E r \in polls : r.id = p.id
    BY <1>3, <1>5, <2>1, <2>2, RankStays DEF OneSubmission
  <2>3. CASE PollOrderStatuses /\ actionsByWalletRef[p.id].hasVenueOrderId
    <3>1. UNCHANGED <<flows, submittedAt>>
      BY <2>3, PageStepFrame DEF PageStep
    <3>2. ~SubmitRunning(p.id) /\ submittedAt[p.id] # 0
      BY <1>1, <2>1, <2>3 DEF OneSubmission, Copies
    <3>3. QED
      BY <3>1, <3>2 DEF SubmitRunning
  <2>4. QED
    BY <2>2, <2>3, PollsOrigin
<1>11. QED
  BY <1>4, <1>7, <1>8, <1>9, <1>10 DEF OneSubmission

-----------------------------------------------------------------------------
LEMMA CancelInit == Init => OneCancellationPerOrder /\ CancelDisabled
  BY DEF Init, OneCancellationPerOrder, CancelDisabled, CancelRunning

\* The button of a running cancellation cannot be clicked.
LEMMA NoSecondCancel ==
  ASSUME TypeOK, CancelDisabled, NEW o \in Orders, CancelInWallet(o)
  PROVE  ~CancelRunning(o)
<1>1. \E s \in {actionsByWallet, actionsByWalletRef} :
        s[o].status = "open" /\ ~s[o].isCancelPending
  BY DEF CancelInWallet, CancelState
<1>2. QED
  BY <1>1 DEF CancelDisabled

LEMMA OneCancellationStep ==
  ASSUME TypeOK, FreshOrders, OneSubmission, OneCancellationPerOrder, CancelDisabled,
         [Next]_vars
  PROVE  OneCancellationPerOrder'
<1>1. \A o \in Orders : CancelInWallet(o) => ~CancelRunning(o)
  BY NoSecondCancel
<1>2. \A f, g \in flows : f.kind = "cancel" /\ g.kind = "cancel" /\ f.id = g.id => f = g
  BY DEF OneCancellationPerOrder
<1>3. \A f, g \in flows' : f.kind = "cancel" /\ g.kind = "cancel" /\ f.id = g.id => f = g
  BY <1>1, <1>2, FlowsUnique
<1>4. QED
  BY <1>3 DEF OneCancellationPerOrder

\* The button of an action in a copy is disabled for good while it is pending or
\* the venue ended the order.
Disabled(action, o) ==
  \/ action.status = "untracked"
  \/ action.isCancelPending
  \/ action.status # "open" /\ venueOrders[o] \in RawTerminal

\* How the state of an action changes while its cancellation runs on.
LEMMA DuringCancellation ==
  ASSUME TypeOK, FreshOrders, OneSubmission, OneCancellationPerOrder, CancelDisabled,
         [Next]_vars, NEW q \in Orders, CancelRunning(q)', ~CancelInWallet(q)
  PROVE  /\ CancelRunning(q)
         /\ ~Reload
         /\ \/ actionsByWallet'[q] \in {actionsByWallet[q], Untracked}
            \/ \E p \in polls : p.id = q /\ PollContinues(p)
<1>1. CancelRunning(q)
  BY FlowsOrigin DEF CancelRunning
<1>2. ~Reload
  BY DEF Reload, CancelRunning
<1>3. ~SubmitInWallet(q)
  BY <1>1 DEF SubmitInWallet, OneSubmission
<1>4. ASSUME NEW f \in flows, f.id = q
      PROVE  ~FlowEnds(f)
  <2>1. f.kind = "cancel"
    BY <1>1, <1>4 DEF TypeOK, Flow, OneSubmission, SubmitRunning
  <2>2. PICK g \in flows' : g.kind = "cancel" /\ g.id = q
    BY DEF CancelRunning
  <2>3. g \in flows => g = f
    BY <1>4, <2>1, <2>2 DEF OneCancellationPerOrder
  <2>4. QED
    BY <2>2, <2>3, FlowEndsFrame
<1>5. QED
  BY <1>1, <1>2, <1>3, <1>4, StateOrigin DEF Addressed

\* A continued poll leaves the button disabled.
LEMMA PollKeepsDisabled ==
  ASSUME TypeOK, VerdictsAreVenues, CancelDisabled, NEW p \in polls, PollContinues(p),
         CancelRunning(p.id)
  PROVE  Disabled(actionsByWallet'[p.id], p.id)
<1> DEFINE s == actionsByWallet
           o == p.id
<1>1. o \in Orders /\ (p.answer = "error" \/ p.answer \in BffStatuses)
  BY DEF PollContinues, Poll, TypeOK
<1>2. s \in States /\ venueOrders[o] \in RawStatuses
  BY <1>1 DEF TypeOK, States
<1>3. Disabled(s[o], o)
  BY <1>1 DEF CancelDisabled, Disabled
<1>4. actionsByWallet' = IF p.answer = "error" THEN ApplyPollError(s, o)
                         ELSE ApplyOrderStatus(s, o, p.answer)
  BY DEF PollContinues
<1>5. p.answer = "open" => s[o].status = "untracked" \/ s[o].isCancelPending
  BY DEF CancelDisabled
<1>6. p.answer \in Verdicts => venueOrders[o] \in RawTerminal
  <2>1. p.answer \in Verdicts => NormalizeOrderStatus(venueOrders[o]) \in Verdicts
    BY DEF VerdictsAreVenues
  <2>2. QED
    BY <1>2, <2>1 DEF NormalizeOrderStatus, Verdicts, RawStatuses, RawTerminal
<1> HIDE DEF s, o
<1>7. CASE s[o].status = "untracked"
  <2>1. ApplyPollError(s, o)[o] = s[o]
    BY <1>1, <1>2, <1>7, UpdateElsewhere
  <2>2. p.answer # "error" => ApplyOrderStatus(s, o, p.answer)[o] = s[o]
    BY <1>1, <1>2, <1>7, UpdateElsewhere
  <2>3. QED
    BY <1>3, <1>4, <2>1, <2>2 DEF o
<1>8. CASE s[o].status # "untracked" /\ p.answer = "error"
  <2>1. /\ ApplyPollError(s, o)[o].status \in {"failed", "reconciling"}
        /\ ApplyPollError(s, o)[o].isCancelPending = s[o].isCancelPending
    BY <1>1, <1>2, <1>8, ApplyErrorAt
  <2>2. QED
    BY <1>3, <1>4, <1>8, <2>1 DEF Disabled, o
<1>9. CASE s[o].status # "untracked" /\ p.answer # "error"
  <2>1. LET a == ApplyOrderStatus(s, o, p.answer)[o]
        IN /\ a.status = IF p.answer = "submitted" THEN "reconciling" ELSE p.answer
           /\ a.isCancelPending = (s[o].isCancelPending /\ p.answer \notin Verdicts)
    BY <1>1, <1>2, <1>9, ApplyStatusAt
  <2>2. QED
    BY <1>3, <1>4, <1>5, <1>6, <1>9, <2>1 DEF Disabled, Verdicts, o
<1>10. QED
  BY <1>7, <1>8, <1>9

\* An order that ended at the venue stays so.
LEMMA EndedStays ==
  ASSUME TypeOK, FreshOrders, [Next]_vars, NEW o \in Orders, venueOrders[o] \in RawTerminal
  PROVE  venueOrders'[o] = venueOrders[o]
<1>1. NormalizeOrderStatus(venueOrders[o]) \in Verdicts
  BY DEF NormalizeOrderStatus, Verdicts, RawTerminal
<1>2. QED
  BY <1>1, VerdictStable

LEMMA CancelDisabledStep ==
  ASSUME TypeOK, FreshOrders, VerdictsAreVenues, OnePollPerAction, OneSubmission,
         OneCancellationPerOrder, CancelDisabled, [Next]_vars
  PROVE  CancelDisabled'
<1>1. Untracked.status = "untracked"
  BY DEF Untracked
<1>2. ASSUME NEW q \in Orders, CancelInWallet(q)
      PROVE  \A s \in {actionsByWallet', actionsByWalletRef'} :
               s[q].status = "untracked" \/ s[q].isCancelPending
  <2>1. actionsByWallet \in States
    BY DEF TypeOK, States
  <2>2. \A s \in {actionsByWallet', actionsByWalletRef'} :
          s = MarkActionCancelStarted(actionsByWallet, q)
    BY <1>2 DEF CancelInWallet, ClickUpdates
  <2>3. CASE actionsByWallet[q].status = "untracked"
    BY <2>1, <2>2, <2>3, UpdateElsewhere
  <2>4. CASE actionsByWallet[q].status # "untracked"
    BY <2>1, <2>2, <2>4, MarkAt
  <2>5. QED
    BY <2>3, <2>4
<1>3. ASSUME NEW q \in Orders, CancelRunning(q)'
      PROVE  \A s \in {actionsByWallet', actionsByWalletRef'} : Disabled(s[q], q)
  <2>1. CASE CancelInWallet(q)
    BY <1>2, <2>1 DEF Disabled
  <2>2. CASE ~CancelInWallet(q)
    <3>1. CancelRunning(q) /\ ~Reload
      BY <1>3, <2>2, DuringCancellation
    <3>2. Disabled(actionsByWallet[q], q) /\ Disabled(actionsByWalletRef[q], q)
      BY <3>1 DEF CancelDisabled, Disabled
    <3>3. Disabled(actionsByWallet'[q], q)
      <4>1. CASE actionsByWallet'[q] \in {actionsByWallet[q], Untracked}
        BY <1>1, <3>2, <4>1 DEF Disabled
      <4>2. CASE \E p \in polls : p.id = q /\ PollContinues(p)
        BY <3>1, <4>2, PollKeepsDisabled
      <4>3. QED
        BY <1>3, <2>2, <4>1, <4>2, DuringCancellation
    <3>4. QED
      BY <3>2, <3>3, LaggingCopies
  <2>3. QED
    BY <2>1, <2>2
<1>4. ASSUME NEW q \in Orders, CancelRunning(q)',
             NEW s \in {actionsByWallet', actionsByWalletRef'}
      PROVE  \/ s[q].status = "untracked"
             \/ s[q].isCancelPending
             \/ s[q].status # "open" /\ venueOrders'[q] \in RawTerminal
  BY <1>3, <1>4, EndedStays DEF Disabled
<1>5. ASSUME NEW p \in polls', p.answer = "open", CancelRunning(p.id)'
      PROVE  \/ actionsByWallet'[p.id].status = "untracked"
             \/ actionsByWallet'[p.id].isCancelPending
  <2> DEFINE q == p.id
  <2>1. q \in Orders
    BY StepType DEF TypeOK, Poll
  <2>2. CASE CancelInWallet(q)
    BY <1>2, <2>1, <2>2
  <2>3. CASE ~CancelInWallet(q)
    <3>1. CancelRunning(q) /\ ~Reload
      BY <1>5, <2>1, <2>3, DuringCancellation
    <3>2. ~\E r \in polls : r.id = q /\ PollContinues(r)
      <4>1. SUFFICES ASSUME NEW r \in polls, r.id = q, PollContinues(r) PROVE FALSE
        OBVIOUS
      <4>2. p \in polls /\ p # r
        BY <4>1 DEF PollContinues
      <4>3. QED
        BY <4>1, <4>2 DEF OnePollPerAction
    <3>3. actionsByWallet'[q] \in {actionsByWallet[q], Untracked}
      BY <1>5, <2>1, <2>3, <3>2, DuringCancellation
    <3>4. CASE p \in polls
      BY <1>1, <1>5, <3>1, <3>3, <3>4 DEF CancelDisabled
    <3>5. CASE p \notin polls
      <4>1. PICK r \in polls : BffAnswersPoll(r) /\ r.id = q /\ venueOrders[q] = "open"
        <5>1. ASSUME NEW r \in polls, BffAnswersPoll(r)
              PROVE  r.id = q /\ venueOrders[q] = "open"
          <6>1. PICK raw \in {venueOrders[r.id], "unknownOid"} :
                  p = [r EXCEPT !.answer = NormalizeOrderStatus(raw)]
            BY <3>5, <5>1 DEF BffAnswersPoll
          <6>2. p.id = r.id /\ p.answer = NormalizeOrderStatus(raw)
            BY <6>1 DEF TypeOK, Poll
          <6>3. raw = "open"
            BY <1>5, <6>2 DEF NormalizeOrderStatus
          <6>4. QED
            BY <6>2, <6>3
        <5>2. ASSUME NEW r \in polls, PollFails(r)
              PROVE  FALSE
          <6>1. p = [r EXCEPT !.answer = "error"]
            BY <3>5, <5>2 DEF PollFails
          <6>2. QED
            BY <1>5, <6>1 DEF TypeOK, Poll
        <5>3. ASSUME PollOrderStatuses
              PROVE  FALSE
          BY <1>5, <3>5, <5>3 DEF PollOrderStatuses
        <5>4. ~(polls' \subseteq polls)
          BY <3>5
        <5>5. QED
          BY <5>1, <5>2, <5>3, <5>4, PollFrame
             DEF Next, UserStep, FlowStep, VenueStep, VenueAnswer, PollStep,
                 PollContinues, Reload, vars
      <4>2. "open" \notin RawTerminal
        BY DEF RawTerminal
      <4>3. actionsByWallet[q].status = "untracked" \/ actionsByWallet[q].isCancelPending
        BY <2>1, <3>1, <4>1, <4>2 DEF CancelDisabled
      <4>4. QED
        BY <1>1, <3>3, <4>3
    <3>6. QED
      BY <3>4, <3>5
  <2>4. QED
    BY <2>2, <2>3
<1>6. QED
  BY <1>4, <1>5 DEF CancelDisabled

-----------------------------------------------------------------------------
\* An action of a copy that failed with an order id has its attempts spent.
Spent(action) ==
  action.status = "failed" /\ action.hasVenueOrderId =>
    action.reconciliationAttempts = MaxReconciliationAttempts

LEMMA FailuresInit == Init => FailuresSpent /\ SavedWithRef
  BY DEF Init, FailuresSpent, SavedWithRef, Copies, Untracked

LEMMA UpdatesSpent ==
  ASSUME NEW s \in States, NEW o \in Orders, NEW q \in Orders, Spent(s[q])
  PROVE  /\ Spent(AddOptimisticAction(s, o)[q])
         /\ \A b \in BOOLEAN : Spent(MarkActionSubmitted(s, o, b)[q])
         /\ ~s[o].hasVenueOrderId => Spent(MarkActionFailed(s, o)[q])
         /\ Spent(MarkActionCancelStarted(s, o)[q])
         /\ Spent(MarkActionCancelSubmitted(s, o)[q])
         /\ Spent(MarkActionCancelFailed(s, o)[q])
         /\ Spent(ApplyPollError(s, o)[q])
         /\ \A status \in BffStatuses : Spent(ApplyOrderStatus(s, o, status)[q])
<1>1. Spent(AddOptimisticAction(s, o)[q])
  <2>1. Spent(Untracked) /\ Spent(OptimisticAction)
    BY DEF Spent, Untracked, OptimisticAction
  <2>2. QED
    BY <2>1, AddAt
<1>2. CASE q # o \/ s[q].status = "untracked"
  BY <1>1, <1>2, UpdateElsewhere
<1>3. CASE q = o /\ s[q].status # "untracked"
  <2>1. \A b \in BOOLEAN : Spent(MarkActionSubmitted(s, o, b)[q])
    BY <1>3, MarkAt DEF Spent
  <2>2. ~s[o].hasVenueOrderId => Spent(MarkActionFailed(s, o)[q])
    BY <1>3, MarkAt DEF Spent
  <2>3. ASSUME NEW t \in {MarkActionCancelStarted(s, o), MarkActionCancelSubmitted(s, o),
                         MarkActionCancelFailed(s, o)}
        PROVE  Spent(t[q])
    BY <1>3, MarkAt DEF Spent
  <2>4. Spent(ApplyPollError(s, o)[q])
    BY <1>3, ApplyErrorAt DEF Spent
  <2>5. ASSUME NEW status \in BffStatuses
        PROVE  Spent(ApplyOrderStatus(s, o, status)[q])
    <3>1. ApplyOrderStatus(s, o, status)[q].status
            = IF status = "submitted" THEN "reconciling" ELSE status
      BY <1>3, ApplyStatusAt
    <3>2. QED
      BY <3>1 DEF Spent, BffStatuses
  <2>6. QED
    BY <1>1, <2>1, <2>2, <2>3, <2>4, <2>5
<1>4. QED
  BY <1>2, <1>3

LEMMA FailuresStep ==
  ASSUME TypeOK, FreshOrders, OneSubmission, FailuresSpent, [Next]_vars
  PROVE  FailuresSpent'
<1> DEFINE s == actionsByWallet
           Goal == \A q \in Orders : Spent(actionsByWallet'[q])
<1>1. s \in States
  BY DEF TypeOK, States
<1>2. \A q \in Orders : Spent(s[q]) /\ Spent(actionsByWalletRef[q]) /\ Spent(storage[q])
  BY DEF FailuresSpent, Copies, Spent
<1>3. ASSUME actionsByWallet' \in {s, storage}
      PROVE  Goal
  BY <1>2, <1>3
<1>4. ASSUME NEW o \in Orders, SubmitInWallet(o) \/ CancelInWallet(o)
      PROVE  Goal
  BY <1>1, <1>2, <1>4, UpdatesSpent DEF SubmitInWallet, CancelInWallet, ClickUpdates
<1>5. ASSUME NEW f \in flows, FlowEnds(f),
             NEW q \in Orders
      PROVE  Spent(actionsByWallet'[q])
  <2>1. f.id \in Orders
    BY DEF TypeOK, Flow
  <2>2. f.kind = "submit" => ~s[f.id].hasVenueOrderId
    BY <2>1 DEF OneSubmission, SubmitRunning, Copies, Untracked, OptimisticAction
  <2>3. /\ \A b \in BOOLEAN : Spent(MarkActionSubmitted(s, f.id, b)[q])
        /\ ~s[f.id].hasVenueOrderId => Spent(MarkActionFailed(s, f.id)[q])
        /\ Spent(MarkActionCancelSubmitted(s, f.id)[q])
        /\ Spent(MarkActionCancelFailed(s, f.id)[q])
    BY <1>1, <1>2, <2>1, UpdatesSpent
  <2> HIDE DEF s
  <2>4. \/ f.kind = "submit" /\ actionsByWallet' = MarkActionFailed(s, f.id)
        \/ actionsByWallet' = MarkActionCancelFailed(s, f.id)
        \/ actionsByWallet' = MarkActionSubmitted(s, f.id, f.stage = "accepted")
        \/ actionsByWallet' = MarkActionCancelSubmitted(s, f.id)
    BY <1>5, Zenon DEF FlowEnds, FlowFails, SubmissionSucceeds, CancellationSucceeds, s
  <2>5. QED
    BY <2>2, <2>3, <2>4
<1>6. ASSUME NEW p \in polls, PollContinues(p), NEW q \in Orders
      PROVE  Spent(actionsByWallet'[q])
  <2>1. p.id \in Orders /\ (p.answer = "error" \/ p.answer \in BffStatuses)
    BY <1>6 DEF PollContinues, Poll, TypeOK
  <2>2. Spent(ApplyPollError(s, p.id)[q])
    BY <1>1, <1>2, <2>1, UpdatesSpent
  <2>3. p.answer # "error" => Spent(ApplyOrderStatus(s, p.id, p.answer)[q])
    BY <1>1, <1>2, <2>1, UpdatesSpent
  <2>4. QED
    BY <1>6, <2>2, <2>3 DEF PollContinues
<1>7. ASSUME NEW m \in wire, VenueAnswer(m)
      PROVE  actionsByWallet' = s
  BY <1>7, VenueAnswerFacts DEF pageVars
<1>8. Goal
  BY <1>3, <1>4, <1>5, <1>6, <1>7
     DEF Next, UserStep, FlowStep, VenueStep, VenueAnswer, PollStep, PostSignedAction,
         AnswerLost, VenueEndsOrder, BffAnswersPoll, PollFails, PollOrderStatuses,
         EffectsFlush, Reload, FlowEnds, pageVars, vars
<1>9. \A t \in Copies' : \A q \in Orders : Spent(t[q])
  BY <1>2, <1>8, LaggingCopies DEF Copies
<1>10. QED
  BY <1>9 DEF FailuresSpent, Spent

LEMMA SavedStep ==
  ASSUME TypeOK, FreshOrders, SavedWithRef, [Next]_vars
  PROVE  SavedWithRef'
  BY LaggingCopies DEF SavedWithRef

-----------------------------------------------------------------------------
(* The theorems *)

LEMMA IInvInit == Init => IInv
  BY InitType, FreshInit, VerdictsInit, OnePollInit, OneSubmissionInit, CancelInit,
     FailuresInit DEF IInv

LEMMA IInvStep == IInv /\ [Next]_vars => IInv'
<1> SUFFICES ASSUME IInv, [Next]_vars PROVE IInv'
  OBVIOUS
<1>1. TypeOK' /\ FreshOrders' /\ OneSubmission'
  BY StepType, FreshStep, OneSubmissionStep DEF IInv
<1>2. VerdictsAreVenues' /\ OnePollPerAction'
  BY VerdictsStep, OnePollStep DEF IInv
<1>3. OneCancellationPerOrder' /\ CancelDisabled'
  BY OneCancellationStep, CancelDisabledStep DEF IInv
<1>4. FailuresSpent' /\ SavedWithRef'
  BY FailuresStep, SavedStep DEF IInv
<1>5. QED
  BY <1>1, <1>2, <1>3, <1>4 DEF IInv

\* The inductive invariant holds in every reachable state.
THEOREM Invariance == Spec => []IInv
  BY IInvInit, IInvStep, PTL DEF Spec

\* A final status of the tracker is the venue's own verdict, for any number of
\* orders and however polls, cancellations, lost answers and reloads interleave.
THEOREM TerminalStatusCorrect == Spec => []TerminalStatusIsVenues
<1>1. IInv => TerminalStatusIsVenues
  BY DEF IInv, VerdictsAreVenues, Copies, Verdicts, TerminalStatusIsVenues
<1>2. QED
  BY <1>1, Invariance, PTL

\* No page runs two cancellations of one order, though a verdict may clear the
\* pending flag and the clicked row may be stale.
THEOREM OneCancellation == Spec => []OneCancellationPerOrder
<1>1. IInv => OneCancellationPerOrder
  BY DEF IInv
<1>2. QED
  BY <1>1, Invariance, PTL

\* A confirmed order is reported failed only with all its attempts spent.
THEOREM FailuresAreSpent == Spec => []FailedOnlyWhenSpent
<1>1. IInv => FailedOnlyWhenSpent
  BY DEF IInv, FailuresSpent, Copies, FailedOnlyWhenSpent
<1>2. QED
  BY <1>1, Invariance, PTL

\* Only a poll that finds an action pollable puts its id in flight.
LEMMA InFlightOrigin ==
  ASSUME [Next]_vars
  PROVE  inFlightActionIds' \subseteq inFlightActionIds \cup {q \in Orders : Pollable(q)}
BY DEF Next, UserStep, FlowStep, VenueStep, PollStep, SubmitInWallet, CancelInWallet,
   PostSignedAction, FlowFails, SubmissionSucceeds, CancellationSucceeds, AnswerLost,
   VenueHandlesOrder, VenueHandlesCancel, Venue, RequestLost, VenueAnswersBlank, VenueEndsOrder,
   BffAnswersPoll, PollFails, PollContinues, PollOrderStatuses, EffectsFlush, Reload,
   pageVars, vars

LEMMA SettledStep ==
  ASSUME IInv, [Next]_vars, NEW o \in Orders, Settled(o)
  PROVE  IsTracked(actionsByWallet', o) =>
           Settled(o)' /\ actionsByWallet'[o].status = actionsByWallet[o].status
<1> DEFINE s == actionsByWallet
           Kept(a) == a.status = s[o].status /\ a.isTerminal
           Goal == Kept(actionsByWallet'[o]) \/ actionsByWallet'[o] = Untracked
<1>1. s \in States /\ Kept(s[o]) /\ Kept(actionsByWalletRef[o]) /\ storage = actionsByWalletRef
  BY DEF IInv, SavedWithRef, TypeOK, States, Settled
<1>2. Untracked.status = "untracked" /\ ~Untracked.isTerminal /\ ~OptimisticAction.isTerminal
  BY DEF Untracked, OptimisticAction
<1>3. ~SubmitRunning(o) /\ submittedAt[o] # 0
  BY <1>1, <1>2 DEF IInv, OneSubmission, Copies
<1>4. ASSUME NEW t \in {MarkActionCancelStarted(s, o), MarkActionCancelSubmitted(s, o),
                       MarkActionCancelFailed(s, o)}
      PROVE  Kept(t[o])
  <2>1. CASE s[o].status = "untracked"
    BY <1>1, <2>1, UpdateElsewhere
  <2>2. CASE s[o].status # "untracked"
    BY <1>1, <2>2, MarkAt
  <2>3. QED
    BY <2>1, <2>2
<1>5. ~\E p \in polls : p.id = o
  BY DEF IInv, OnePollPerAction, Settled
<1>6. Goal
  <2>1. CASE actionsByWallet'[o] \in {s[o], Untracked} \/ Reload
    BY <1>1, <2>1 DEF Reload
  <2>2. CASE CancelInWallet(o)
    BY <1>4, <2>2 DEF CancelInWallet, ClickUpdates
  <2>3. ASSUME NEW f \in flows, f.id = o, FlowEnds(f)
        PROVE  Goal
    <3>1. f.kind = "cancel"
      BY <1>3, <2>3 DEF IInv, TypeOK, Flow, SubmitRunning
    <3>2. actionsByWallet' \in {MarkActionCancelSubmitted(s, o), MarkActionCancelFailed(s, o)}
      BY <2>3, <3>1 DEF FlowEnds, FlowFails, SubmissionSucceeds, CancellationSucceeds
    <3>3. QED
      BY <1>4, <3>2
  <2>4. ~SubmitInWallet(o)
    BY <1>3 DEF SubmitInWallet
  <2>5. QED
    BY <1>5, <2>1, <2>2, <2>3, <2>4, StateOrigin DEF IInv, Addressed
<1>7. actionsByWalletRef'[o] \in {actionsByWalletRef[o], actionsByWallet'[o]}
  BY LaggingCopies DEF IInv
<1>8. o \notin inFlightActionIds'
  <2>1. ~Pollable(o)
    BY <1>1 DEF Pollable
  <2>2. inFlightActionIds' \subseteq inFlightActionIds \cup {q \in Orders : Pollable(q)}
    BY InFlightOrigin
  <2>3. QED
    BY <2>1, <2>2 DEF Settled
<1>9. QED
  BY <1>1, <1>2, <1>6, <1>7, <1>8 DEF IsTracked, Settled

\* A settled final status never changes again.
THEOREM SettledStays == Spec => SettledStatusStays
<1>1. IInv /\ [Next]_vars =>
        [\A o \in Orders :
           Settled(o) /\ IsTracked(actionsByWallet', o) =>
             Settled(o)' /\ actionsByWallet'[o].status = actionsByWallet[o].status]_vars
  BY SettledStep
<1>2. QED
  BY <1>1, Invariance, PTL DEF Spec, SettledStatusStays

-----------------------------------------------------------------------------
(* Which actions the tracker keeps, and why a cancellation it shows as    *)
(* pending is: two theorems that need counting and the flows' history on   *)
(* top of the invariant above.                                             *)

\* The same actions are tracked, and those that are not stay as they were.
SameTracked(t, s) ==
  \A q \in Orders : /\ IsTracked(t, q) <=> IsTracked(s, q)
                    /\ ~IsTracked(s, q) => t[q] = s[q]

LEMMA SameAfterOne ==
  ASSUME NEW s, NEW t, NEW o \in Orders,
         \A q \in Orders : q # o \/ s[q].status = "untracked" => t[q] = s[q],
         s[o].status # "untracked" => t[o].status # "untracked"
  PROVE  SameTracked(t, s)
  BY DEF SameTracked, IsTracked

\* No update of one action drops it or brings it back.
LEMMA MarksKeepTracked ==
  ASSUME NEW s \in States, NEW o \in Orders
  PROVE  /\ \A b \in BOOLEAN : SameTracked(MarkActionSubmitted(s, o, b), s)
         /\ SameTracked(MarkActionFailed(s, o), s)
         /\ \A t \in {MarkActionCancelStarted(s, o), MarkActionCancelSubmitted(s, o),
                     MarkActionCancelFailed(s, o)} : SameTracked(t, s)
<1>1. ASSUME NEW b \in BOOLEAN
      PROVE  SameTracked(MarkActionSubmitted(s, o, b), s)
  <2> DEFINE t == MarkActionSubmitted(s, o, b)
  <2>1. \A q \in Orders : q # o \/ s[q].status = "untracked" => t[q] = s[q]
    BY UpdateElsewhere
  <2>2. s[o].status # "untracked" => t[o].status # "untracked"
    BY MarkAt
  <2> HIDE DEF t
  <2>3. SameTracked(t, s)
    BY <2>1, <2>2, SameAfterOne
  <2>4. QED
    BY <2>3 DEF t
<1>2. SameTracked(MarkActionFailed(s, o), s)
  <2> DEFINE t == MarkActionFailed(s, o)
  <2>1. \A q \in Orders : q # o \/ s[q].status = "untracked" => t[q] = s[q]
    BY UpdateElsewhere
  <2>2. s[o].status # "untracked" => t[o].status # "untracked"
    BY MarkAt
  <2> HIDE DEF t
  <2>3. SameTracked(t, s)
    BY <2>1, <2>2, SameAfterOne
  <2>4. QED
    BY <2>3 DEF t
<1>3. ASSUME NEW t \in {MarkActionCancelStarted(s, o), MarkActionCancelSubmitted(s, o),
                       MarkActionCancelFailed(s, o)}
      PROVE  SameTracked(t, s)
  <2>1. \A q \in Orders : q # o \/ s[q].status = "untracked" => t[q] = s[q]
    BY UpdateElsewhere
  <2>2. s[o].status # "untracked" => t[o].status # "untracked"
    BY MarkAt
  <2>3. QED
    BY <2>1, <2>2, SameAfterOne
<1>4. QED
  BY <1>1, <1>2, <1>3

LEMMA PollsKeepTracked ==
  ASSUME NEW s \in States, NEW o \in Orders
  PROVE  /\ SameTracked(ApplyPollError(s, o), s)
         /\ \A status \in BffStatuses : SameTracked(ApplyOrderStatus(s, o, status), s)
<1>1. SameTracked(ApplyPollError(s, o), s)
  <2> DEFINE t == ApplyPollError(s, o)
  <2>1. \A q \in Orders : q # o \/ s[q].status = "untracked" => t[q] = s[q]
    BY UpdateElsewhere
  <2>2. s[o].status # "untracked" => t[o].status # "untracked"
    BY ApplyErrorAt
  <2> HIDE DEF t
  <2>3. SameTracked(t, s)
    BY <2>1, <2>2, SameAfterOne
  <2>4. QED
    BY <2>3 DEF t
<1>2. ASSUME NEW status \in BffStatuses
      PROVE  SameTracked(ApplyOrderStatus(s, o, status), s)
  <2> DEFINE t == ApplyOrderStatus(s, o, status)
  <2>1. \A q \in Orders : q # o \/ s[q].status = "untracked" => t[q] = s[q]
    BY UpdateElsewhere
  <2>2. s[o].status # "untracked" => t[o].status # "untracked"
    BY ApplyStatusAt DEF BffStatuses
  <2> HIDE DEF t
  <2>3. SameTracked(t, s)
    BY <2>1, <2>2, SameAfterOne
  <2>4. QED
    BY <2>3 DEF t
<1>3. QED
  BY <1>1, <1>2

\* Only a submission or a reload changes which actions the state tracks.
LEMMA TrackedStays ==
  ASSUME TypeOK, FreshOrders, [Next]_vars,
         ~Reload, \A o \in Orders : ~SubmitInWallet(o)
  PROVE  SameTracked(actionsByWallet', actionsByWallet)
<1> DEFINE s == actionsByWallet
           Goal == SameTracked(actionsByWallet', s)
<1>1. s \in States
  BY DEF TypeOK, States
<1>2. CASE actionsByWallet' = s
  BY <1>2 DEF SameTracked, IsTracked
<1>3. ASSUME NEW o \in Orders, CancelInWallet(o)
      PROVE  Goal
  BY <1>1, <1>3, MarksKeepTracked DEF CancelInWallet, ClickUpdates
<1>4. ASSUME NEW f \in flows, FlowEnds(f)
      PROVE  Goal
  <2>1. f.id \in Orders
    BY DEF TypeOK, Flow
  <2>2. /\ \A b \in BOOLEAN : SameTracked(MarkActionSubmitted(s, f.id, b), s)
        /\ SameTracked(MarkActionFailed(s, f.id), s)
        /\ SameTracked(MarkActionCancelSubmitted(s, f.id), s)
        /\ SameTracked(MarkActionCancelFailed(s, f.id), s)
    BY <1>1, <2>1, MarksKeepTracked
  <2>3. \/ actionsByWallet' = MarkActionFailed(s, f.id)
        \/ actionsByWallet' = MarkActionCancelFailed(s, f.id)
        \/ actionsByWallet' = MarkActionSubmitted(s, f.id, f.stage = "accepted")
        \/ actionsByWallet' = MarkActionCancelSubmitted(s, f.id)
    BY <1>4, Zenon DEF FlowEnds, FlowFails, SubmissionSucceeds, CancellationSucceeds, s
  <2> HIDE DEF s
  <2>4. QED
    BY <2>2, <2>3
<1>5. ASSUME NEW p \in polls, PollContinues(p)
      PROVE  Goal
  <2>1. p.id \in Orders /\ (p.answer = "error" \/ p.answer \in BffStatuses)
    BY <1>5 DEF PollContinues, Poll, TypeOK
  <2>2. QED
    BY <1>1, <1>5, <2>1, PollsKeepTracked DEF PollContinues
<1>6. ASSUME NEW m \in wire, VenueAnswer(m)
      PROVE  Goal
  BY <1>2, <1>6, VenueAnswerFacts DEF pageVars
<1>7. QED
  BY <1>2, <1>3, <1>4, <1>5, <1>6
     DEF Next, UserStep, FlowStep, VenueStep, VenueAnswer, PollStep, PostSignedAction,
         AnswerLost, VenueEndsOrder, BffAnswersPoll, PollFails, PollOrderStatuses,
         EffectsFlush, FlowEnds, pageVars, vars

-----------------------------------------------------------------------------
(* The list of a wallet. *)

Submitted == {p \in Orders : submittedAt[p] # 0}
Later(o) == {p \in Orders : WalletOf[p] = WalletOf[o] /\ submittedAt[p] > submittedAt[o]}

\* A new submission ranks above all others.
Ranked == \A p \in Orders : submittedAt[p] <= Cardinality(Submitted)

Latest(s) ==
  \A o \in Orders :
    IsTracked(s, o) <=> submittedAt[o] # 0 /\ Cardinality(Later(o)) < MaxTracked

\* Which actions are tracked is the same in the state and in localStorage.
ListInv == Ranked /\ Latest(actionsByWallet) /\ Latest(storage)

LEMMA Counts ==
  ASSUME NEW A \in SUBSET Orders
  PROVE  IsFiniteSet(A) /\ Cardinality(A) \in Nat
  BY OrdersAssumption, FS_Subset, FS_CardinalityType

LEMMA ListInit == Init => ListInv
<1> SUFFICES ASSUME Init PROVE ListInv
  OBVIOUS
<1>1. Cardinality(Submitted) \in Nat
  BY Counts DEF Submitted
<1>2. Ranked
  BY <1>1 DEF Init, Ranked
<1>3. Latest(actionsByWallet) /\ Latest(storage)
  BY DEF Init, Latest, IsTracked, Untracked
<1>4. QED
  BY <1>2, <1>3 DEF ListInv

\* A submission counts itself ahead of every other action of its wallet, and
\* drops the actions it leaves with MaxTracked ahead of them.
LEMMA SubmissionKeepsLatest ==
  ASSUME TypeOK, ListInv, NEW o \in Orders, SubmitInWallet(o)
  PROVE  Ranked' /\ Latest(actionsByWallet)'
<1> DEFINE s == actionsByWallet
           n == Cardinality(Submitted)
<1>1. n \in Nat
  BY Counts DEF Submitted
<1>2. /\ submittedAt \in [Orders -> Nat]
      /\ \A p \in Orders : submittedAt[p] <= n
      /\ submittedAt[o] = 0
  BY DEF TypeOK, ListInv, Ranked, SubmitInWallet
<1>3. submittedAt' = [submittedAt EXCEPT ![o] = n + 1]
  BY DEF SubmitInWallet, Submitted
<1>4. submittedAt'[o] = n + 1 /\ \A p \in Orders : p # o => submittedAt'[p] = submittedAt[p]
  BY <1>2, <1>3
<1> HIDE DEF n
<1>5. Ranked'
  <2>1. Submitted' = Submitted \cup {o}
    BY <1>1, <1>2, <1>4 DEF Submitted
  <2>2. Cardinality(Submitted \cup {o}) = n + 1
    <3>1. IsFiniteSet(Submitted) /\ o \notin Submitted
      BY <1>2, Counts DEF Submitted
    <3>2. QED
      BY <3>1, FS_AddElement DEF n
  <2>3. QED
    BY <1>1, <1>2, <1>4, <2>1, <2>2 DEF Ranked
<1>6. actionsByWallet' = AddOptimisticAction(s, o)
  BY DEF SubmitInWallet, ClickUpdates
<1>7. ASSUME NEW p \in Orders
      PROVE  IsTracked(actionsByWallet', p) <=>
               submittedAt'[p] # 0 /\ Cardinality(Later(p)') < MaxTracked
  <2>1. CASE p = o
    <3>1. Later(p)' = {}
      BY <1>1, <1>2, <1>4, <2>1 DEF Later
    <3>2. Cardinality(Later(p)') < MaxTracked
      BY <3>1, TrackedAssumption, FS_EmptySet
    <3>3. IsTracked(actionsByWallet', p)
      BY <1>6, <2>1 DEF AddOptimisticAction, IsTracked, OptimisticAction, Untracked
    <3>4. QED
      BY <1>1, <1>4, <2>1, <3>2, <3>3
  <2>2. CASE p # o /\ WalletOf[p] # WalletOf[o]
    <3>1. Later(p)' = Later(p)
      BY <1>4, <2>2 DEF Later
    <3>2. actionsByWallet'[p] = s[p]
      BY <1>6, <2>2 DEF AddOptimisticAction, SlicedOff
    <3>3. QED
      BY <1>4, <2>2, <3>1, <3>2 DEF ListInv, Latest, IsTracked
  <2>3. CASE p # o /\ WalletOf[p] = WalletOf[o]
    <3> DEFINE k == Cardinality(Later(p))
    <3>1. IsFiniteSet(Later(p)) /\ k \in Nat
      BY Counts DEF Later
    <3>2. Later(p)' = Later(p) \cup {o} /\ o \notin Later(p)
      BY <1>1, <1>2, <1>4, <2>3 DEF Later
    <3>3. Cardinality(Later(p)') = k + 1
      BY <3>1, <3>2, FS_AddElement
    <3>4. IsTracked(s, p) <=> submittedAt[p] # 0 /\ k < MaxTracked
      BY DEF ListInv, Latest
    <3>5. actionsByWallet'[p] = IF Cardinality(Ahead(s, p)) + 1 >= MaxTracked
                                THEN Untracked ELSE s[p]
      BY <1>6, <2>3 DEF AddOptimisticAction, SlicedOff
    <3>6. CASE IsTracked(s, p)
      <4>1. ASSUME NEW q \in Later(p)
            PROVE  IsTracked(s, q)
        <5>1. q \in Orders /\ submittedAt[q] # 0 /\ Later(q) \subseteq Later(p)
          BY <1>2, <4>1 DEF Later
        <5>2. Cardinality(Later(q)) <= k /\ Cardinality(Later(q)) \in Nat
          BY <3>1, <5>1, FS_Subset, FS_CardinalityType
        <5>3. Cardinality(Later(q)) < MaxTracked
          BY <3>1, <3>4, <3>6, <5>2, TrackedAssumption
        <5>4. QED
          BY <5>1, <5>3 DEF ListInv, Latest
      <4>2. Ahead(s, p) = Later(p)
        BY <4>1 DEF Ahead, Later
      <4>3. IsTracked(actionsByWallet', p) <=> ~(k + 1 >= MaxTracked)
        BY <3>5, <3>6, <4>2 DEF IsTracked, Untracked
      <4>4. QED
        BY <1>4, <2>3, <3>1, <3>3, <3>4, <3>6, <4>3, TrackedAssumption
    <3>7. CASE ~IsTracked(s, p)
      <4>1. ~IsTracked(actionsByWallet', p)
        BY <3>5, <3>7 DEF IsTracked, Untracked
      <4>2. submittedAt[p] = 0 \/ ~(k + 1 < MaxTracked)
        BY <3>1, <3>4, <3>7, TrackedAssumption
      <4>3. QED
        BY <1>4, <2>3, <3>3, <4>1, <4>2
    <3>8. QED
      BY <3>6, <3>7
  <2>4. QED
    BY <2>1, <2>2, <2>3
<1>8. QED
  BY <1>5, <1>7 DEF Latest

LEMMA ListStep ==
  ASSUME TypeOK, FreshOrders, ListInv, [Next]_vars
  PROVE  ListInv'
<1>1. ASSUME NEW o \in Orders, SubmitInWallet(o)
      PROVE  ListInv'
  <2>1. storage' = actionsByWallet'
    BY <1>1 DEF SubmitInWallet, ClickUpdates
  <2>2. QED
    BY <1>1, <2>1, SubmissionKeepsLatest DEF ListInv, Latest
<1>2. ASSUME \A o \in Orders : ~SubmitInWallet(o)
      PROVE  ListInv'
  <2>1. submittedAt' = submittedAt
    BY <1>2, PageStepFrame, VenueAnswerFacts
       DEF Next, UserStep, FlowStep, VenueStep, VenueAnswer, PageStep, CancelInWallet,
           PostSignedAction, FlowFails, SubmissionSucceeds, CancellationSucceeds, AnswerLost,
           VenueEndsOrder, Reload, vars
  <2>2. Ranked' /\ \A o \in Orders : Later(o)' = Later(o)
    BY <2>1 DEF ListInv, Ranked, Submitted, Later
  <2>3. \A o \in Orders : IsTracked(actionsByWallet', o) <=> IsTracked(actionsByWallet, o)
    <3>1. CASE Reload
      BY <3>1 DEF Reload, ListInv, Latest, IsTracked
    <3>2. CASE ~Reload
      BY <1>2, <3>2, TrackedStays DEF SameTracked
    <3>3. QED
      BY <3>1, <3>2
  <2>4. Latest(actionsByWallet)'
    BY <2>1, <2>2, <2>3 DEF ListInv, Latest
  <2>5. Latest(storage)'
    <3>1. CASE storage' = storage
      BY <2>1, <2>2, <3>1 DEF ListInv, Latest
    <3>2. CASE storage' = actionsByWallet'
      BY <2>4, <3>2 DEF Latest
    <3>3. QED
      BY <3>1, <3>2, LaggingCopies
  <2>6. QED
    BY <2>2, <2>4, <2>5 DEF ListInv
<1>3. QED
  BY <1>1, <1>2

\* A wallet tracks exactly its MaxTracked latest submissions, for any number
\* of orders and any limit.
THEOREM ListIsLatest == Spec => []TracksLatestSubmissions
<1>1. ListInv => TracksLatestSubmissions
  BY DEF ListInv, Latest, Later, TracksLatestSubmissions
<1>2. IInv /\ ListInv /\ [Next]_vars => ListInv'
  BY ListStep DEF IInv
<1>3. QED
  BY <1>1, <1>2, ListInit, Invariance, PTL DEF Spec

-----------------------------------------------------------------------------
(* Pending cancellations. *)

\* A dropped action is not pending, an accepted cancellation has ended its
\* order unless its answer stated nothing, and a pending flag nobody is left to
\* reset has a reason.
PendingInv ==
  /\ \A s \in Copies : \A o \in Orders : ~IsTracked(s, o) => ~s[o].isCancelPending
  /\ \A f \in flows :
       f.kind = "cancel" /\ f.stage = "accepted" =>
         venueOrders[f.id] \in RawTerminal \/ f.id \in orphans
  /\ \A o \in Orders :
       actionsByWallet[o].isCancelPending /\ ~CancelRunning(o) =>
         venueOrders[o] \in RawTerminal \/ o \in orphans

LEMMA PendingInit == Init => PendingInv
  BY DEF Init, PendingInv, Copies, Untracked

LEMMA DroppedStep ==
  ASSUME TypeOK, FreshOrders, PendingInv, [Next]_vars
  PROVE  \A s \in Copies' : \A o \in Orders : ~IsTracked(s, o) => ~s[o].isCancelPending
<1> DEFINE Plain(s) == \A o \in Orders : ~IsTracked(s, o) => ~s[o].isCancelPending
<1>1. Plain(actionsByWallet) /\ Plain(actionsByWalletRef) /\ Plain(storage)
  BY DEF PendingInv, Copies
<1>2. Plain(actionsByWallet')
  <2>1. ASSUME NEW o \in Orders, SubmitInWallet(o)
        PROVE  Plain(actionsByWallet')
    <3>1. actionsByWallet' = AddOptimisticAction(actionsByWallet, o)
      BY <2>1 DEF SubmitInWallet, ClickUpdates
    <3>2. ~Untracked.isCancelPending /\ ~OptimisticAction.isCancelPending
      BY DEF Untracked, OptimisticAction
    <3>3. \A q \in Orders :
            actionsByWallet'[q] \in {actionsByWallet[q], Untracked, OptimisticAction}
      BY <3>1 DEF AddOptimisticAction
    <3>4. QED
      BY <1>1, <3>2, <3>3 DEF IsTracked
  <2>2. CASE Reload
    BY <1>1, <2>2 DEF Reload
  <2>3. ASSUME ~Reload, \A o \in Orders : ~SubmitInWallet(o)
        PROVE  Plain(actionsByWallet')
    <3>1. SameTracked(actionsByWallet', actionsByWallet)
      BY <2>3, TrackedStays
    <3>2. QED
      BY <1>1, <3>1 DEF SameTracked
  <2>4. QED
    BY <2>1, <2>2, <2>3
<1> HIDE DEF Plain
<1>3. Plain(actionsByWalletRef') /\ Plain(storage')
  BY <1>1, <1>2, LaggingCopies
<1>4. \A s \in Copies' : Plain(s)
  BY <1>2, <1>3 DEF Copies
<1>5. QED
  BY <1>4 DEF Plain

LEMMA OrphansStay ==
  ASSUME TypeOK, FreshOrders, [Next]_vars
  PROVE  orphans \subseteq orphans'
<1>1. ASSUME NEW m \in wire, VenueAnswer(m)
      PROVE  orphans \subseteq orphans'
  BY <1>1 DEF VenueAnswer, VenueHandlesOrder, VenueHandlesCancel, RequestLost, Venue,
     VenueAnswersBlank
<1>2. QED
  BY <1>1
     DEF Next, UserStep, FlowStep, VenueStep, VenueAnswer, PollStep, SubmitInWallet,
         CancelInWallet, PostSignedAction, FlowFails, SubmissionSucceeds,
         CancellationSucceeds, AnswerLost, VenueEndsOrder, BffAnswersPoll, PollFails,
         PollContinues, PollOrderStatuses, EffectsFlush, Reload, vars

LEMMA AcceptedStep ==
  ASSUME TypeOK, FreshOrders, PendingInv, [Next]_vars,
         NEW f \in flows', f.kind = "cancel", f.stage = "accepted"
  PROVE  venueOrders'[f.id] \in RawTerminal \/ f.id \in orphans'
<1> DEFINE Goal == venueOrders'[f.id] \in RawTerminal \/ f.id \in orphans'
<1>1. CASE f \in flows
  <2>1. f.id \in Orders /\ (venueOrders[f.id] \in RawTerminal \/ f.id \in orphans)
    BY <1>1 DEF PendingInv, TypeOK, Flow
  <2>2. QED
    BY <2>1, EndedStays, OrphansStay
<1>2. ASSUME NEW o \in Orders, SubmitInWallet(o) \/ CancelInWallet(o)
      PROVE  f \in flows
  BY <1>2 DEF SubmitInWallet, CancelInWallet
<1>3. ASSUME NEW g \in flows, PostSignedAction(g) \/ AnswerLost(g)
      PROVE  f \in flows
  <2>1. f \in flows \/ f \in {[g EXCEPT !.stage = "posted"], [g EXCEPT !.stage = "refused"]}
    BY <1>3 DEF PostSignedAction, AnswerLost
  <2>2. QED
    BY <2>1 DEF TypeOK, Flow
<1>4. ASSUME NEW m \in wire, NEW stage, NEW raw, Venue(m, stage, raw),
             m.kind = "submit" \/ stage # "accepted" \/ raw \in RawTerminal
      PROVE  Goal
  <2>1. PICK g \in flows :
          f = IF g.kind = m.kind /\ g.id = m.id /\ g.stage = "posted"
              THEN [g EXCEPT !.stage = stage] ELSE g
    BY <1>4 DEF Venue, Answered
  <2>2. g \in Flow /\ m.id \in Orders
    BY DEF TypeOK
  <2>3. CASE g.kind = m.kind /\ g.id = m.id /\ g.stage = "posted"
    <3>1. f.kind = g.kind /\ f.id = g.id /\ f.stage = stage
      BY <2>1, <2>2, <2>3 DEF Flow
    <3>2. raw \in RawTerminal
      BY <1>4, <2>3, <3>1
    <3>3. venueOrders'[m.id] = raw
      BY <1>4, <2>2 DEF Venue, TypeOK
    <3>4. QED
      BY <2>3, <3>1, <3>2, <3>3
  <2>4. CASE ~(g.kind = m.kind /\ g.id = m.id /\ g.stage = "posted")
    BY <1>1, <2>1, <2>4
  <2>5. QED
    BY <2>3, <2>4
<1>5. ASSUME NEW m \in wire, VenueAnswer(m)
      PROVE  Goal
  <2>1. CASE VenueAnswersBlank(m)
    <3>1. PICK stage \in {"accepted", "acceptedWithoutOid"} : flows' = Answered(m, stage)
      BY <2>1 DEF VenueAnswersBlank
    <3>2. PICK g \in flows :
            f = IF g.kind = m.kind /\ g.id = m.id /\ g.stage = "posted"
                THEN [g EXCEPT !.stage = stage] ELSE g
      BY <3>1 DEF Answered
    <3>3. CASE g.kind = m.kind /\ g.id = m.id /\ g.stage = "posted"
      <4>1. f.kind = m.kind /\ f.id = m.id
        BY <3>2, <3>3 DEF TypeOK, Flow
      <4>2. QED
        BY <2>1, <4>1 DEF VenueAnswersBlank
    <3>4. QED
      BY <1>1, <3>2, <3>3
  <2>2. CASE ~VenueAnswersBlank(m)
    <3>1. PICK stage, raw :
            /\ Venue(m, stage, raw)
            /\ m.kind = "submit" \/ stage # "accepted" \/ raw \in RawTerminal
      BY <1>5, <2>2
      DEF VenueAnswer, VenueHandlesOrder, VenueHandlesCancel, RequestLost, RawTerminal
    <3>2. QED
      BY <1>4, <3>1
  <2>3. QED
    BY <2>1, <2>2
<1>6. QED
  BY <1>1, <1>2, <1>3, <1>5, PageStepFrame
     DEF Next, UserStep, FlowStep, VenueStep, VenueAnswer, PageStep, FlowFails,
         SubmissionSucceeds, CancellationSucceeds, VenueEndsOrder, Reload, vars

\* A cancellation that runs goes on until it ends or the page is reloaded.
LEMMA CancelContinues ==
  ASSUME TypeOK, FreshOrders, [Next]_vars, ~Reload, NEW q \in Orders, CancelRunning(q),
         \A f \in flows : f.kind = "cancel" /\ f.id = q => ~FlowEnds(f)
  PROVE  CancelRunning(q)'
<1> DEFINE Goal == CancelRunning(q)'
<1>1. PICK c \in flows : c.kind = "cancel" /\ c.id = q
  BY DEF CancelRunning
<1>2. CASE c \in flows'
  BY <1>1, <1>2 DEF CancelRunning
<1>3. ASSUME NEW o \in Orders, SubmitInWallet(o) \/ CancelInWallet(o)
      PROVE  c \in flows'
  BY <1>3 DEF SubmitInWallet, CancelInWallet
<1>4. ASSUME NEW f \in flows, PostSignedAction(f) \/ AnswerLost(f)
      PROVE  Goal
  <2>1. PICK stage : flows' = (flows \ {f}) \cup {[f EXCEPT !.stage = stage]}
    BY <1>4 DEF PostSignedAction, AnswerLost
  <2> DEFINE moved == [f EXCEPT !.stage = stage]
  <2>2. moved.kind = f.kind /\ moved.id = f.id
    BY DEF TypeOK, Flow
  <2>3. flows' = (flows \ {f}) \cup {moved}
    BY <2>1
  <2> HIDE DEF moved
  <2>4. CASE c = f
    BY <1>1, <2>2, <2>3, <2>4 DEF CancelRunning
  <2>5. CASE c # f
    BY <1>2, <2>3, <2>5
  <2>6. QED
    BY <2>4, <2>5
<1>5. ASSUME NEW f \in flows, FlowEnds(f)
      PROVE  c \in flows'
  BY <1>1, <1>5, FlowEndsFrame
<1>6. ASSUME NEW m \in wire, VenueAnswer(m)
      PROVE  Goal
  <2>1. PICK stage \in {"accepted", "acceptedWithoutOid", "refused"} :
               flows' = Answered(m, stage)
    BY <1>6, VenueAnswerFacts
  <2> DEFINE next == IF c.kind = m.kind /\ c.id = m.id /\ c.stage = "posted"
                     THEN [c EXCEPT !.stage = stage] ELSE c
  <2>2. next.kind = c.kind /\ next.id = c.id
    BY DEF TypeOK, Flow
  <2>3. next \in flows'
    BY <2>1 DEF Answered
  <2> HIDE DEF next
  <2>4. QED
    BY <1>1, <2>2, <2>3 DEF CancelRunning
<1>7. QED
  BY <1>2, <1>3, <1>4, <1>5, <1>6, PageStepFrame
     DEF Next, UserStep, FlowStep, VenueStep, VenueAnswer, PageStep, FlowEnds,
         VenueEndsOrder, vars

\* What each end of a flow and each poll makes of the pending flag.
LEMMA PendingAt ==
  ASSUME NEW s \in States, NEW o \in Orders, IsTracked(s, o)
  PROVE  /\ \A b \in BOOLEAN : ~MarkActionSubmitted(s, o, b)[o].isCancelPending
         /\ ~MarkActionCancelFailed(s, o)[o].isCancelPending
<1>1. s[o] \in Action /\ s[o].status # "untracked"
  BY DEF States, IsTracked
<1>2. \A a : Replace(s, o, a)[o] = a
  BY <1>1, ReplaceAt
<1>3. ASSUME NEW b \in BOOLEAN
      PROVE  ~MarkActionSubmitted(s, o, b)[o].isCancelPending
  <2> DEFINE a == [s[o] EXCEPT !.hasVenueOrderId = b,
                     !.status = IF b THEN "reconciling" ELSE "submitted",
                     !.isTerminal = FALSE,
                     !.isCancelPending = FALSE]
  <2>1. MarkActionSubmitted(s, o, b)[o] = a
    BY <1>2, Zenon DEF MarkActionSubmitted
  <2>2. ~a.isCancelPending
    BY <1>1 DEF Action
  <2>3. QED
    BY <2>1, <2>2
<1>4. ~MarkActionCancelFailed(s, o)[o].isCancelPending
  <2> DEFINE a == [s[o] EXCEPT !.isCancelPending = FALSE]
  <2>1. MarkActionCancelFailed(s, o)[o] = a
    BY <1>2, Zenon DEF MarkActionCancelFailed
  <2>2. ~a.isCancelPending
    BY <1>1 DEF Action
  <2>3. QED
    BY <2>1, <2>2
<1>5. QED
  BY <1>3, <1>4

\* Apart from the end of a cancellation, a step that leaves the flag set found
\* it set, or is the click on the cancel button.
LEMMA PendingOrigin ==
  ASSUME IInv, PendingInv, [Next]_vars, ~Reload, NEW q \in Orders,
         \A f \in flows : f.kind = "cancel" /\ f.id = q => ~FlowEnds(f),
         ~CancelInWallet(q), actionsByWallet'[q].isCancelPending
  PROVE  actionsByWallet[q].isCancelPending
<1> DEFINE s == actionsByWallet
<1>1. s \in States /\ ~Untracked.isCancelPending /\ ~OptimisticAction.isCancelPending
  BY DEF IInv, TypeOK, States, Untracked, OptimisticAction
<1>2. CASE actionsByWallet'[q] \in {s[q], Untracked}
  BY <1>1, <1>2
<1>3. ASSUME SubmitInWallet(q)
      PROVE  FALSE
  <2>1. actionsByWallet'[q] = OptimisticAction
    BY <1>3 DEF SubmitInWallet, ClickUpdates, AddOptimisticAction
  <2>2. QED
    BY <1>1, <2>1
<1>4. ASSUME NEW f \in flows, f.id = q, FlowEnds(f)
      PROVE  s[q].isCancelPending
  <2>1. f.kind = "submit" /\ f.kind # "cancel"
    BY <1>4 DEF IInv, TypeOK, Flow
  <2>2. \/ actionsByWallet' = MarkActionFailed(s, q)
        \/ actionsByWallet' = MarkActionSubmitted(s, q, f.stage = "accepted")
    BY <1>4, <2>1 DEF FlowEnds, FlowFails, SubmissionSucceeds, CancellationSucceeds
  <2>3. CASE s[q].status = "untracked"
    <3>1. MarkActionSubmitted(s, q, f.stage = "accepted")[q] = s[q]
      BY <1>1, <2>3, UpdateElsewhere
    <3>2. MarkActionFailed(s, q)[q] = s[q]
      BY <1>1, <2>3, UpdateElsewhere
    <3>3. QED
      BY <2>2, <3>1, <3>2
  <2>4. CASE s[q].status # "untracked"
    <3>1. ~MarkActionSubmitted(s, q, f.stage = "accepted")[q].isCancelPending
      BY <1>1, <2>4, PendingAt DEF IsTracked
    <3>2. MarkActionFailed(s, q)[q].isCancelPending = s[q].isCancelPending
      BY <1>1, <2>4, MarkAt
    <3>3. QED
      BY <2>2, <3>1, <3>2
  <2>5. QED
    BY <2>3, <2>4
<1>5. ASSUME NEW p \in polls, p.id = q, PollContinues(p)
      PROVE  s[q].isCancelPending
  <2>1. p.answer = "error" \/ p.answer \in BffStatuses
    BY <1>5 DEF PollContinues, IInv, TypeOK, Poll
  <2>2. CASE s[q].status = "untracked"
    <3>1. actionsByWallet'[q] = s[q]
      BY <1>1, <1>5, <2>1, <2>2, UpdateElsewhere DEF PollContinues
    <3>2. QED
      BY <3>1
  <2>3. CASE s[q].status # "untracked" /\ p.answer = "error"
    <3>1. ApplyPollError(s, q)[q].isCancelPending = s[q].isCancelPending
      BY <1>1, <2>3, ApplyErrorAt
    <3>2. QED
      BY <1>5, <2>3, <3>1 DEF PollContinues
  <2>4. CASE s[q].status # "untracked" /\ p.answer # "error"
    <3>1. ApplyOrderStatus(s, q, p.answer)[q].isCancelPending
            = (s[q].isCancelPending /\ p.answer \notin Verdicts)
      BY <1>1, <2>1, <2>4, ApplyStatusAt
    <3>2. QED
      BY <1>5, <2>4, <3>1 DEF PollContinues
  <2>5. QED
    BY <2>2, <2>3, <2>4
<1>6. QED
  BY <1>2, <1>3, <1>4, <1>5, StateOrigin DEF IInv, Addressed

LEMMA PendingStep ==
  ASSUME IInv, PendingInv, [Next]_vars
  PROVE  PendingInv'
<1> DEFINE Backed(q) == venueOrders[q] \in RawTerminal \/ q \in orphans
<1>1. TypeOK /\ FreshOrders
  BY DEF IInv
<1>2. ASSUME NEW q \in Orders, Backed(q)
      PROVE  Backed(q)'
  <2>1. venueOrders[q] \in RawTerminal => venueOrders'[q] \in RawTerminal
    BY <1>1, EndedStays
  <2>2. QED
    BY <1>1, <1>2, <2>1, OrphansStay
<1>3. ASSUME NEW q \in Orders, actionsByWallet'[q].isCancelPending, ~CancelRunning(q)'
      PROVE  Backed(q)'
  <2>1. CASE Reload
    BY <1>3, <2>1 DEF Reload
  <2>2. ASSUME NEW f \in flows, f.kind = "cancel", f.id = q, FlowEnds(f)
        PROVE  Backed(q)'
    <3>1. CASE CancellationSucceeds(f)
      BY <1>2, <2>2, <3>1 DEF CancellationSucceeds, PendingInv
    <3>2. CASE ~CancellationSucceeds(f)
      <4>1. actionsByWallet' = MarkActionCancelFailed(actionsByWallet, q)
        BY <2>2, <3>2 DEF FlowEnds, FlowFails, SubmissionSucceeds
      <4>2. actionsByWallet \in States
        BY <1>1 DEF TypeOK, States
      <4>3. CASE IsTracked(actionsByWallet, q)
        BY <1>3, <4>1, <4>2, <4>3, PendingAt
      <4>4. CASE ~IsTracked(actionsByWallet, q)
        <5>1. actionsByWallet'[q] = actionsByWallet[q]
          BY <4>1, <4>2, <4>4, UpdateElsewhere DEF IsTracked
        <5>2. QED
          BY <1>3, <4>4, <5>1 DEF PendingInv, Copies
      <4>5. QED
        BY <4>3, <4>4
    <3>3. QED
      BY <3>1, <3>2
  <2>3. ASSUME ~Reload, \A f \in flows : f.kind = "cancel" /\ f.id = q => ~FlowEnds(f)
        PROVE  Backed(q)'
    <3>1. ~CancelRunning(q)
      BY <1>1, <1>3, <2>3, CancelContinues
    <3>2. ~CancelInWallet(q)
      <4>1. SUFFICES ASSUME CancelInWallet(q) PROVE CancelRunning(q)'
        BY <1>3
      <4> DEFINE new == [kind |-> "cancel", id |-> q, stage |-> "signing"]
      <4>2. new.kind = "cancel" /\ new.id = q /\ new \in flows'
        BY <4>1 DEF CancelInWallet
      <4> HIDE DEF new
      <4>3. QED
        BY <4>2 DEF CancelRunning
    <3>3. actionsByWallet[q].isCancelPending
      BY <1>3, <2>3, <3>2, PendingOrigin
    <3>4. QED
      BY <1>2, <3>1, <3>3 DEF PendingInv
  <2>4. QED
    BY <2>1, <2>2, <2>3
<1>4. \A f \in flows' :
        f.kind = "cancel" /\ f.stage = "accepted" =>
          venueOrders'[f.id] \in RawTerminal \/ f.id \in orphans'
  BY <1>1, AcceptedStep
<1>5. \A s \in Copies' : \A o \in Orders : ~IsTracked(s, o) => ~s[o].isCancelPending
  BY <1>1, DroppedStep
<1>6. QED
  BY <1>3, <1>4, <1>5 DEF PendingInv

\* A cancellation shown as pending has a reason, however polls, lost requests,
\* answers that state nothing and reloads interleave with it.
THEOREM PendingIsBacked == Spec => []PendingCancelIsBacked
<1>1. PendingInv => PendingCancelIsBacked
  BY DEF PendingInv, CancelRunning, PendingCancelIsBacked
<1>2. IInv /\ PendingInv /\ [Next]_vars => PendingInv'
  BY PendingStep
<1>3. QED
  BY <1>1, <1>2, PendingInit, Invariance, PTL DEF Spec
=============================================================================
