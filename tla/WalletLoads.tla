----------------------------- MODULE WalletLoads -----------------------------
(***************************************************************************)
(* What the page loads for the wallets of the wallet manager: the          *)
(* positions of every connected wallet (useWorkspaceMarketData with        *)
(* collectConnectedPositionWallets and aggregateWalletPositions) and the   *)
(* fills of the active slot (PerpOrdersFillsPanel).  Each is an effect     *)
(* that runs again when its wallets change while requests of earlier runs  *)
(* are still on their way.                                                 *)
(*                                                                         *)
(* A wallet stands for an account at a venue.  What a request brings is    *)
(* told apart by the wallet it was for and the run of the effect that sent *)
(* it; an answer that does not parse is a failed one.                      *)
(***************************************************************************)
EXTENDS Naturals, FiniteSets

CONSTANTS
  None,
  Slots,
  Wallets,
  MaxChanges   \* bound: changes of the slots or of the active one

ASSUME NoneIsNoWallet == None \notin Slots \cup Wallets
ASSUME ChangesAssumption == MaxChanges \in Nat

VARIABLES
  hydrated,          \* hasHydrated
  wallet,            \* the account and venue of each slot
  connected,         \* the slots whose status is connected
  activeSlot,
  positionsDue,      \* the positions effect has yet to run for the last change
  fillsDue,          \* the fills effect has yet to run for the last change
  reference,         \* instruments and marks: loading, loaded or failed
  positionsRun,      \* runs of the positions effect; only the last isActive
  positionsRequests, \* runs whose requests wait, with their wallets
  positions,         \* the run whose positions are shown, and their wallets
  positionsLoading,
  positionsError,    \* the wallets whose positions could not be loaded
  fillsRun,          \* runs of the fills effect; earlier ones are aborted
  fillsRequests,     \* runs whose request waits, with the wallet asked for
  fills,             \* the run whose fills are shown, and their wallet
  fillsLoading,
  fillsError,
  changes

slotState == <<hydrated, wallet, connected, activeSlot>>
positionsState == <<positionsRun, positionsRequests, positions, positionsLoading,
                    positionsError>>
fillsState == <<fillsRun, fillsRequests, fills, fillsLoading, fillsError>>
vars == <<hydrated, wallet, connected, activeSlot, positionsDue, fillsDue, reference,
          positionsRun, positionsRequests, positions, positionsLoading, positionsError,
          fillsRun, fillsRequests, fills, fillsLoading, fillsError, changes>>

\* collectConnectedPositionWallets: each wallet once, however many slots.
ConnectedWallets == {wallet[s] : s \in connected}

NoPositions(run) == [run |-> run, wallets |-> {}]
NoFills(run) == [run |-> run, wallet |-> None]

\* The page has mounted: both effects have run once, without slots.
Init ==
  /\ hydrated = FALSE
  /\ wallet \in [Slots -> Wallets]
  /\ connected = {}
  /\ activeSlot = None
  /\ positionsDue = FALSE
  /\ fillsDue = FALSE
  /\ reference = "loading"
  /\ positionsRun = 0
  /\ positionsRequests = {}
  /\ positions = NoPositions(0)
  /\ positionsLoading = TRUE
  /\ positionsError = {}
  /\ fillsRun = 0
  /\ fillsRequests = {}
  /\ fills = NoFills(0)
  /\ fillsLoading = FALSE
  /\ fillsError = FALSE
  /\ changes = 0

-----------------------------------------------------------------------------
(* The wallet manager renders new slots.  React runs the effects of one    *)
(* render before it renders the next.                                      *)

Renders ==
  /\ ~positionsDue /\ ~fillsDue
  /\ changes < MaxChanges
  /\ changes' = changes + 1
  /\ UNCHANGED <<reference, positionsState, fillsState>>

\* The mount's effect of the wallet manager has read the slots back.
Hydrate ==
  /\ ~hydrated
  /\ hydrated' = TRUE
  /\ connected' \in SUBSET Slots
  /\ activeSlot' \in Slots \cup {None}
  /\ positionsDue' = TRUE
  /\ fillsDue' = (activeSlot' # None)
  /\ UNCHANGED <<wallet, reference, positionsState, fillsState, changes>>

\* A slot connects, disconnects or changes its account: the slots are a new
\* list, and the active slot a new object if it is the one.
SlotChanges(s, w, isConnected) ==
  /\ hydrated
  /\ Renders
  /\ wallet' = [wallet EXCEPT ![s] = w]
  /\ connected' = IF isConnected THEN connected \cup {s} ELSE connected \ {s}
  /\ positionsDue' = TRUE
  /\ fillsDue' = (activeSlot = s)
  /\ UNCHANGED <<hydrated, activeSlot>>

\* Another slot is activated, or none; the slots stay the same list.
ActiveSlotChanges(s) ==
  /\ hydrated
  /\ Renders
  /\ s # activeSlot
  /\ activeSlot' = s
  /\ fillsDue' = TRUE
  /\ UNCHANGED <<hydrated, wallet, connected, positionsDue>>

-----------------------------------------------------------------------------
(* Instruments and marks, requested once: Promise.all. *)

ReferenceSettles(outcome) ==
  /\ reference = "loading"
  /\ reference' = outcome
  /\ UNCHANGED <<slotState, positionsDue, fillsDue, positionsState, fillsState, changes>>

-----------------------------------------------------------------------------
(* Positions. *)

\* Fault: without wallets the loading flag of the run before is left alone.
StartsUnlessEmpty(wallets) == positionsLoading \/ wallets # {}

Starts(wallets) == wallets # {}

PositionsEffect ==
  /\ positionsDue
  /\ positionsDue' = FALSE
  /\ positionsRun' = positionsRun + 1
  /\ positionsLoading' = Starts(ConnectedWallets)
  /\ positionsError' = {}
  /\ IF ConnectedWallets = {}
     THEN positions' = NoPositions(positionsRun') /\ UNCHANGED positionsRequests
     ELSE /\ positionsRequests' = positionsRequests \cup
               {[run |-> positionsRun', wallets |-> ConnectedWallets]}
          /\ UNCHANGED positions
  /\ UNCHANGED <<slotState, fillsDue, reference, fillsState, changes>>

\* Fault: a run is heard although the effect was cleaned up.
IsActiveAlways(run) == TRUE

\* The cleanup of a run that is followed by another clears its isActive.
IsActive(run) == run = positionsRun

\* Promise.allSettled has the answer for every wallet of a run: positions for
\* some, failures for the others.
PositionsSettle(request, answered) ==
  /\ request \in positionsRequests
  /\ positionsRequests' = positionsRequests \ {request}
  /\ IF IsActive(request.run)
     THEN /\ positions' = [run |-> request.run, wallets |-> answered]
          /\ positionsLoading' = FALSE
          /\ positionsError' = request.wallets \ answered
     ELSE UNCHANGED <<positions, positionsLoading, positionsError>>
  /\ UNCHANGED <<slotState, positionsDue, fillsDue, reference, positionsRun, fillsState,
                 changes>>

-----------------------------------------------------------------------------
(* Fills. *)

FillsEffect ==
  /\ fillsDue
  /\ fillsDue' = FALSE
  /\ fillsRun' = fillsRun + 1
  /\ fillsLoading' = (activeSlot # None)
  /\ fillsError' = FALSE
  /\ IF activeSlot = None
     THEN fills' = NoFills(fillsRun') /\ UNCHANGED fillsRequests
     ELSE /\ fillsRequests' = fillsRequests \cup
               {[run |-> fillsRun', wallet |-> wallet[activeSlot]]}
          /\ UNCHANGED fills
  /\ UNCHANGED <<slotState, positionsDue, reference, positionsState, changes>>

\* Fault: the answer to an aborted request is taken.
NeverAborted(run) == FALSE

\* The cleanup of a run aborts its request.
IsAborted(run) == run # fillsRun

\* The answer to a fills request, or the failure or abortion of it.
FillsAnswer(request, succeeds) ==
  /\ request \in fillsRequests
  /\ fillsRequests' = fillsRequests \ {request}
  /\ IF IsAborted(request.run) THEN UNCHANGED <<fills, fillsLoading, fillsError>>
     ELSE /\ fills' = IF succeeds THEN request ELSE NoFills(request.run)
          /\ fillsLoading' = FALSE
          /\ fillsError' = ~succeeds
  /\ UNCHANGED <<slotState, positionsDue, fillsDue, reference, positionsState, fillsRun,
                 changes>>

-----------------------------------------------------------------------------
Answers ==
  \/ \E request \in positionsRequests : \E answered \in SUBSET request.wallets :
       PositionsSettle(request, answered)
  \/ \E request \in fillsRequests, succeeds \in BOOLEAN : FillsAnswer(request, succeeds)

Next ==
  \/ Hydrate
  \/ \E s \in Slots, w \in Wallets, isConnected \in BOOLEAN : SlotChanges(s, w, isConnected)
  \/ \E s \in Slots \cup {None} : ActiveSlotChanges(s)
  \/ \E outcome \in {"loaded", "failed"} : ReferenceSettles(outcome)
  \/ PositionsEffect
  \/ FillsEffect
  \/ Answers

Spec == Init /\ [][Next]_vars

\* React runs due effects, the mount's among them, and every request is answered or
\* fails in the end: the BFF's client gives its venues eight seconds.
Fairness ==
  /\ WF_vars(Hydrate)
  /\ WF_vars(\E outcome \in {"loaded", "failed"} : ReferenceSettles(outcome))
  /\ WF_vars(PositionsEffect)
  /\ WF_vars(FillsEffect)
  /\ WF_vars(Answers)

FairSpec == Spec /\ Fairness

-----------------------------------------------------------------------------
TypeOK ==
  /\ hydrated \in BOOLEAN /\ positionsDue \in BOOLEAN /\ fillsDue \in BOOLEAN
  /\ wallet \in [Slots -> Wallets]
  /\ connected \subseteq Slots
  /\ activeSlot \in Slots \cup {None}
  /\ reference \in {"loading", "loaded", "failed"}
  /\ positionsRun \in Nat /\ fillsRun \in Nat /\ changes \in Nat
  /\ positionsRequests \subseteq [run : 1..positionsRun, wallets : SUBSET Wallets]
  /\ positions \in [run : 0..positionsRun, wallets : SUBSET Wallets]
  /\ positionsLoading \in BOOLEAN /\ fillsLoading \in BOOLEAN /\ fillsError \in BOOLEAN
  /\ positionsError \subseteq Wallets
  /\ fillsRequests \subseteq [run : 1..fillsRun, wallet : Wallets]
  /\ fills \in [run : 0..fillsRun, wallet : Wallets \cup {None}]

\* Once nothing is being loaded, the positions on the page come from the last
\* run of the effect and are those of the wallets connected now, each one
\* either shown or named in the error: a slow answer for an earlier set of
\* wallets never replaces or joins them.
PositionsAreConnectedWallets ==
  hydrated /\ ~positionsDue /\ ~positionsLoading =>
    /\ positions.run = positionsRun
    /\ positions.wallets \cup positionsError = ConnectedWallets
    /\ positions.wallets \cap positionsError = {}

\* Once nothing is being loaded, the fills are those of the active slot's
\* wallet as last requested, or none when the slot is gone or the request
\* failed.
FillsAreActiveSlots ==
  ~fillsDue /\ ~fillsLoading =>
    /\ fills.run = fillsRun
    /\ fills.wallet = IF activeSlot = None \/ fillsError THEN None ELSE wallet[activeSlot]

\* loading, as useWorkspaceMarketData returns it.
Loading == reference = "loading" \/ positionsLoading \/ ~hydrated

\* When the wallets stop changing the page stops loading, however the answers
\* to superseded requests were spread.
LoadsSettle == <>[](~Loading /\ ~fillsLoading)
=============================================================================
