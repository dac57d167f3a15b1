--------------------------- MODULE WalletLoadsProofs ---------------------------
(***************************************************************************)
(* What the page shows belongs to the wallets of now, for any slots and    *)
(* wallets and any number of changes.  The argument: a run that is still   *)
(* heard was started by the last effect, and unless the next effect is     *)
(* already due, nothing it asked for has changed since.                    *)
(***************************************************************************)
EXTENDS WalletLoads, TLAPS

\* The heard positions requests are for the wallets connected now.
HeardPositions ==
  ~positionsDue =>
    \A r \in positionsRequests : IsActive(r.run) => r.wallets = ConnectedWallets

\* The heard fills request is for the active slot's wallet of now.
HeardFills ==
  ~fillsDue =>
    \A r \in fillsRequests : ~IsAborted(r.run) =>
      activeSlot # None /\ r.wallet = wallet[activeSlot]

\* Until the slots are restored there are none to load anything for.
NothingBefore == ~hydrated => ~positionsDue /\ ~fillsDue /\ activeSlot = None

PositionsInv == TypeOK /\ HeardPositions /\ PositionsAreConnectedWallets
FillsInv == TypeOK /\ NothingBefore /\ HeardFills /\ FillsAreActiveSlots

-----------------------------------------------------------------------------
LEMMA TypeInit == Init => TypeOK
<1> SUFFICES ASSUME Init PROVE TypeOK
  OBVIOUS
<1>1. positions \in [run : 0..positionsRun, wallets : SUBSET Wallets]
  BY DEF Init, NoPositions
<1>2. fills \in [run : 0..fillsRun, wallet : Wallets \cup {None}]
  BY DEF Init, NoFills
<1>3. positionsRun \in Nat /\ fillsRun \in Nat /\ changes \in Nat
  BY DEF Init
<1>4. /\ positionsRequests \subseteq [run : 1..positionsRun, wallets : SUBSET Wallets]
      /\ fillsRequests \subseteq [run : 1..fillsRun, wallet : Wallets]
  BY DEF Init
<1>5. QED
  BY <1>1, <1>2, <1>3, <1>4 DEF Init, TypeOK

LEMMA ConnectedAreWallets ==
  ASSUME TypeOK PROVE ConnectedWallets \subseteq Wallets
  BY DEF TypeOK, ConnectedWallets

LEMMA TypeSlots ==
  ASSUME TypeOK,
         \/ Hydrate
         \/ \E s \in Slots, w \in Wallets, c \in BOOLEAN : SlotChanges(s, w, c)
         \/ \E s \in Slots \cup {None} : ActiveSlotChanges(s)
  PROVE  TypeOK'
<1>1. CASE Hydrate
  BY <1>1 DEF TypeOK, Hydrate, positionsState, fillsState
<1>2. ASSUME NEW s \in Slots, NEW w \in Wallets, NEW c \in BOOLEAN, SlotChanges(s, w, c)
      PROVE  TypeOK'
  BY <1>2 DEF TypeOK, SlotChanges, Renders, positionsState, fillsState
<1>3. ASSUME NEW s \in Slots \cup {None}, ActiveSlotChanges(s)
      PROVE  TypeOK'
  BY <1>3 DEF TypeOK, ActiveSlotChanges, Renders, positionsState, fillsState
<1>4. QED
  BY <1>1, <1>2, <1>3

LEMMA TypePositions ==
  ASSUME TypeOK,
         \/ PositionsEffect
         \/ \E r \in positionsRequests : \E answered \in SUBSET r.wallets :
              PositionsSettle(r, answered)
  PROVE  TypeOK'
<1>1. CASE PositionsEffect
  <2>1. positionsRun' \in Nat /\ positionsRun' \in 1..positionsRun' /\ positionsRun \in Nat
        /\ positionsRun' = positionsRun + 1
    BY <1>1 DEF TypeOK, PositionsEffect
  <2>2. positionsRequests' \subseteq [run : 1..positionsRun', wallets : SUBSET Wallets]
    BY <1>1, <2>1, ConnectedAreWallets DEF TypeOK, PositionsEffect
  <2>3. positions' \in [run : 0..positionsRun', wallets : SUBSET Wallets]
    BY <1>1, <2>1 DEF TypeOK, PositionsEffect, NoPositions
  <2>4. positionsLoading' \in BOOLEAN /\ positionsError' \subseteq Wallets
    BY <1>1 DEF TypeOK, PositionsEffect, Starts
  <2>5. QED
    BY <1>1, <2>1, <2>2, <2>3, <2>4 DEF TypeOK, PositionsEffect, slotState, fillsState
<1>2. ASSUME NEW r \in positionsRequests, NEW answered \in SUBSET r.wallets,
             PositionsSettle(r, answered)
      PROVE  TypeOK'
  <2>1. r \in [run : 1..positionsRun, wallets : SUBSET Wallets]
    BY DEF TypeOK
  <2>2. positions' \in [run : 0..positionsRun, wallets : SUBSET Wallets]
    <3>1. r.run \in 0..positionsRun /\ answered \in SUBSET Wallets
      BY <2>1 DEF TypeOK
    <3>2. QED
      BY <1>2, <3>1 DEF TypeOK, PositionsSettle
  <2>3. positionsError' \subseteq Wallets /\ positionsLoading' \in BOOLEAN
    BY <1>2, <2>1 DEF TypeOK, PositionsSettle
  <2>4. QED
    BY <1>2, <2>2, <2>3 DEF TypeOK, PositionsSettle, slotState, fillsState
<1>3. QED
  BY <1>1, <1>2

LEMMA TypeFills ==
  ASSUME TypeOK,
         \/ FillsEffect
         \/ \E r \in fillsRequests, succeeds \in BOOLEAN : FillsAnswer(r, succeeds)
  PROVE  TypeOK'
<1>1. CASE FillsEffect
  <2>1. fillsRun' \in Nat /\ fillsRun' \in 1..fillsRun' /\ fillsRun \in Nat
        /\ fillsRun' = fillsRun + 1
    BY <1>1 DEF TypeOK, FillsEffect
  <2>2. activeSlot # None => wallet[activeSlot] \in Wallets
    BY DEF TypeOK
  <2>3. fillsRequests' \subseteq [run : 1..fillsRun', wallet : Wallets]
    BY <1>1, <2>1, <2>2 DEF TypeOK, FillsEffect
  <2>4. fills' \in [run : 0..fillsRun', wallet : Wallets \cup {None}]
    BY <1>1, <2>1 DEF TypeOK, FillsEffect, NoFills
  <2>5. QED
    BY <1>1, <2>1, <2>3, <2>4 DEF TypeOK, FillsEffect, slotState, positionsState
<1>2. ASSUME NEW r \in fillsRequests, NEW succeeds \in BOOLEAN, FillsAnswer(r, succeeds)
      PROVE  TypeOK'
  <2>1. r \in [run : 1..fillsRun, wallet : Wallets]
    BY DEF TypeOK
  <2>2. r \in [run : 0..fillsRun, wallet : Wallets \cup {None}]
        /\ NoFills(r.run) \in [run : 0..fillsRun, wallet : Wallets \cup {None}]
    BY <2>1 DEF TypeOK, NoFills
  <2>3. fills' \in [run : 0..fillsRun, wallet : Wallets \cup {None}]
    BY <1>2, <2>2 DEF TypeOK, FillsAnswer
  <2>4. QED
    BY <1>2, <2>3 DEF TypeOK, FillsAnswer, slotState, positionsState
<1>3. QED
  BY <1>1, <1>2

LEMMA TypeStep == TypeOK /\ [Next]_vars => TypeOK'
<1> SUFFICES ASSUME TypeOK, [Next]_vars PROVE TypeOK'
  OBVIOUS
<1>1. ASSUME NEW outcome \in {"loaded", "failed"}, ReferenceSettles(outcome)
      PROVE  TypeOK'
  BY <1>1 DEF TypeOK, ReferenceSettles, slotState, positionsState, fillsState
<1>2. CASE UNCHANGED vars
  BY <1>2 DEF TypeOK, vars
<1>3. QED
  BY <1>1, <1>2, TypeSlots, TypePositions, TypeFills DEF Next, Answers

\* Every variable keeps its type; a request's run is never above the last run
\* of its effect, whatever changes and answers come in between.
THEOREM TypeCorrectness == Spec => []TypeOK
  BY TypeInit, TypeStep, PTL DEF Spec

-----------------------------------------------------------------------------
(* Positions. *)

LEMMA PositionsInit == Init => HeardPositions /\ PositionsAreConnectedWallets
  BY DEF Init, HeardPositions, PositionsAreConnectedWallets

\* A step that leaves the slots and the positions alone.
LEMMA PositionsKept ==
  ASSUME HeardPositions, PositionsAreConnectedWallets,
         UNCHANGED <<hydrated, wallet, connected, positionsDue, positionsState>>
  PROVE  HeardPositions' /\ PositionsAreConnectedWallets'
  BY DEF HeardPositions, PositionsAreConnectedWallets, IsActive, ConnectedWallets,
         positionsState

LEMMA PositionsEffectStep ==
  ASSUME TypeOK, PositionsEffect
  PROVE  HeardPositions' /\ PositionsAreConnectedWallets'
<1>1. positionsRun' = positionsRun + 1 /\ positionsRun \in Nat
  BY DEF TypeOK, PositionsEffect
<1>2. ConnectedWallets' = ConnectedWallets
  BY DEF PositionsEffect, slotState, ConnectedWallets
<1>3. ASSUME NEW r \in positionsRequests', IsActive(r.run)'
      PROVE  r.wallets = ConnectedWallets'
  <2>1. r.run = positionsRun'
    BY <1>3 DEF IsActive
  <2>2. r \notin positionsRequests
    <3>1. r \in positionsRequests => r.run \in 1..positionsRun
      BY DEF TypeOK
    <3>2. QED
      BY <1>1, <2>1, <3>1
  <2>3. r = [run |-> positionsRun', wallets |-> ConnectedWallets]
    BY <1>3, <2>2 DEF PositionsEffect
  <2>4. QED
    BY <1>2, <2>3
<1>4. PositionsAreConnectedWallets'
  <2>1. CASE ConnectedWallets = {}
    BY <1>2, <2>1 DEF PositionsAreConnectedWallets, PositionsEffect, NoPositions
  <2>2. CASE ConnectedWallets # {}
    BY <2>2 DEF PositionsAreConnectedWallets, PositionsEffect, Starts
  <2>3. QED
    BY <2>1, <2>2
<1>5. QED
  BY <1>3, <1>4 DEF HeardPositions

LEMMA PositionsSettleStep ==
  ASSUME HeardPositions, PositionsAreConnectedWallets,
         NEW r \in positionsRequests, NEW answered \in SUBSET r.wallets,
         PositionsSettle(r, answered)
  PROVE  HeardPositions' /\ PositionsAreConnectedWallets'
<1>1. /\ ConnectedWallets' = ConnectedWallets
      /\ positionsRun' = positionsRun
      /\ positionsDue' = positionsDue
      /\ hydrated' = hydrated
  BY DEF PositionsSettle, slotState, ConnectedWallets
<1>2. HeardPositions'
  BY <1>1 DEF HeardPositions, PositionsSettle, IsActive
<1>3. CASE IsActive(r.run)
  <2>1. ~positionsDue => r.wallets = ConnectedWallets
    BY <1>3 DEF HeardPositions
  <2>2. positions' = [run |-> r.run, wallets |-> answered]
        /\ positionsError' = r.wallets \ answered
    BY <1>3 DEF PositionsSettle
  <2>3. r.run = positionsRun
    BY <1>3 DEF IsActive
  <2>4. QED
    BY <1>1, <1>2, <2>1, <2>2, <2>3 DEF PositionsAreConnectedWallets
<1>4. CASE ~IsActive(r.run)
  BY <1>1, <1>2, <1>4 DEF PositionsAreConnectedWallets, PositionsSettle
<1>5. QED
  BY <1>3, <1>4

LEMMA PositionsStep == PositionsInv /\ [Next]_vars => PositionsInv'
<1> SUFFICES ASSUME PositionsInv, [Next]_vars PROVE PositionsInv'
  OBVIOUS
<1> USE DEF PositionsInv
<1>1. TypeOK'
  BY TypeStep
<1>2. CASE Hydrate \/ \E s \in Slots, w \in Wallets, c \in BOOLEAN : SlotChanges(s, w, c)
  <2>1. positionsDue'
    BY <1>2 DEF Hydrate, SlotChanges
  <2>2. QED
    BY <1>1, <2>1 DEF HeardPositions, PositionsAreConnectedWallets
<1>3. CASE \E s \in Slots \cup {None} : ActiveSlotChanges(s)
  <2>1. UNCHANGED <<hydrated, wallet, connected, positionsDue, positionsState>>
    BY <1>3 DEF ActiveSlotChanges, Renders, positionsState
  <2>2. QED
    BY <1>1, <2>1, PositionsKept
<1>4. CASE \/ \E outcome \in {"loaded", "failed"} : ReferenceSettles(outcome)
           \/ FillsEffect
           \/ \E r \in fillsRequests, succeeds \in BOOLEAN : FillsAnswer(r, succeeds)
           \/ UNCHANGED vars
  <2>1. UNCHANGED <<hydrated, wallet, connected, positionsDue, positionsState>>
    BY <1>4 DEF ReferenceSettles, FillsEffect, FillsAnswer, slotState, positionsState, vars
  <2>2. QED
    BY <1>1, <2>1, PositionsKept
<1>5. CASE PositionsEffect
  BY <1>1, <1>5, PositionsEffectStep
<1>6. ASSUME NEW r \in positionsRequests, NEW answered \in SUBSET r.wallets,
             PositionsSettle(r, answered)
      PROVE  PositionsInv'
  BY <1>1, <1>6, PositionsSettleStep
<1>7. QED
  BY <1>2, <1>3, <1>4, <1>5, <1>6 DEF Next, Answers

\* Once nothing is being loaded, the positions shown are those of the wallets
\* connected now: no answer for an earlier set of wallets is ever joined with or
\* shown in place of them.
THEOREM PositionsAreCurrent == Spec => []PositionsAreConnectedWallets
<1>1. Init => PositionsInv
  BY TypeInit, PositionsInit DEF PositionsInv
<1>2. PositionsInv => PositionsAreConnectedWallets
  BY DEF PositionsInv
<1>3. QED
  BY <1>1, <1>2, PositionsStep, PTL DEF Spec

-----------------------------------------------------------------------------
(* Fills. *)

LEMMA FillsInit == Init => NothingBefore /\ HeardFills /\ FillsAreActiveSlots
  BY DEF Init, NothingBefore, HeardFills, FillsAreActiveSlots, NoFills

\* A step that leaves the active slot, its wallet and the fills alone.
LEMMA FillsKept ==
  ASSUME HeardFills, FillsAreActiveSlots,
         UNCHANGED <<activeSlot, fillsDue, fillsState>>,
         activeSlot # None => wallet'[activeSlot] = wallet[activeSlot]
  PROVE  HeardFills' /\ FillsAreActiveSlots'
<1> USE DEF fillsState
<1>1. HeardFills'
  BY DEF HeardFills, IsAborted
<1>2. FillsAreActiveSlots'
  BY DEF FillsAreActiveSlots
<1>3. QED
  BY <1>1, <1>2

LEMMA FillsSlotsStep ==
  ASSUME FillsInv,
         \/ Hydrate
         \/ \E s \in Slots, w \in Wallets, c \in BOOLEAN : SlotChanges(s, w, c)
         \/ \E s \in Slots \cup {None} : ActiveSlotChanges(s)
  PROVE  NothingBefore' /\ HeardFills' /\ FillsAreActiveSlots'
<1> USE DEF FillsInv
<1>1. CASE Hydrate
  <2>1. NothingBefore'
    BY <1>1 DEF Hydrate, NothingBefore
  <2>2. CASE activeSlot' = None
    <3>1. activeSlot = None /\ ~fillsDue /\ ~fillsDue'
      BY <1>1, <2>2 DEF Hydrate, NothingBefore
    <3>2. UNCHANGED <<activeSlot, fillsDue, fillsState>>
      BY <1>1, <2>2, <3>1 DEF Hydrate, TypeOK
    <3>3. QED
      BY <2>1, <3>1, <3>2, FillsKept
  <2>3. CASE activeSlot' # None
    BY <1>1, <2>1, <2>3 DEF Hydrate, HeardFills, FillsAreActiveSlots
  <2>4. QED
    BY <2>2, <2>3
<1>2. ASSUME NEW s \in Slots, NEW w \in Wallets, NEW c \in BOOLEAN, SlotChanges(s, w, c)
      PROVE  NothingBefore' /\ HeardFills' /\ FillsAreActiveSlots'
  <2>1. NothingBefore'
    BY <1>2 DEF SlotChanges, NothingBefore
  <2>2. CASE activeSlot = s
    BY <1>2, <2>1, <2>2 DEF SlotChanges, HeardFills, FillsAreActiveSlots
  <2>3. CASE activeSlot # s
    <3>1. UNCHANGED <<activeSlot, fillsState>> /\ ~fillsDue /\ fillsDue' = FALSE
      BY <1>2, <2>3 DEF SlotChanges, Renders
    <3>2. activeSlot # None => wallet'[activeSlot] = wallet[activeSlot]
      BY <1>2, <2>3 DEF SlotChanges, TypeOK
    <3>3. fillsDue' = fillsDue
      BY <3>1 DEF TypeOK
    <3>4. QED
      BY <2>1, <3>1, <3>2, <3>3, FillsKept
  <2>4. QED
    BY <2>2, <2>3
<1>3. ASSUME NEW s \in Slots \cup {None}, ActiveSlotChanges(s)
      PROVE  NothingBefore' /\ HeardFills' /\ FillsAreActiveSlots'
  BY <1>3 DEF ActiveSlotChanges, NothingBefore, HeardFills, FillsAreActiveSlots
<1>4. QED
  BY <1>1, <1>2, <1>3

LEMMA FillsEffectStep ==
  ASSUME TypeOK, NothingBefore, FillsEffect
  PROVE  NothingBefore' /\ HeardFills' /\ FillsAreActiveSlots'
<1>1. fillsRun' = fillsRun + 1 /\ fillsRun \in Nat
  BY DEF TypeOK, FillsEffect
<1>2. UNCHANGED <<hydrated, wallet, activeSlot>>
  BY DEF FillsEffect, slotState
<1>3. ASSUME NEW r \in fillsRequests', ~IsAborted(r.run)'
      PROVE  activeSlot' # None /\ r.wallet = wallet'[activeSlot']
  <2>1. r.run = fillsRun'
    BY <1>3 DEF IsAborted
  <2>2. r \notin fillsRequests
    <3>1. r \in fillsRequests => r.run \in 1..fillsRun
      BY DEF TypeOK
    <3>2. QED
      BY <1>1, <2>1, <3>1
  <2>3. activeSlot # None /\ r = [run |-> fillsRun', wallet |-> wallet[activeSlot]]
    BY <1>3, <2>2 DEF FillsEffect
  <2>4. QED
    BY <1>2, <2>3
<1>4. FillsAreActiveSlots'
  <2>1. CASE activeSlot = None
    BY <1>2, <2>1 DEF FillsAreActiveSlots, FillsEffect, NoFills
  <2>2. CASE activeSlot # None
    BY <2>2 DEF FillsAreActiveSlots, FillsEffect
  <2>3. QED
    BY <2>1, <2>2
<1>5. NothingBefore'
  BY <1>2 DEF NothingBefore, FillsEffect
<1>6. QED
  BY <1>3, <1>4, <1>5 DEF HeardFills

LEMMA FillsAnswerStep ==
  ASSUME TypeOK, NothingBefore, HeardFills, FillsAreActiveSlots,
         NEW r \in fillsRequests, NEW succeeds \in BOOLEAN, FillsAnswer(r, succeeds)
  PROVE  NothingBefore' /\ HeardFills' /\ FillsAreActiveSlots'
<1>1. UNCHANGED <<hydrated, wallet, activeSlot, positionsDue, fillsDue, fillsRun>>
  BY DEF FillsAnswer, slotState
<1>2. NothingBefore' /\ HeardFills'
  BY <1>1 DEF NothingBefore, HeardFills, FillsAnswer, IsAborted
<1>3. CASE IsAborted(r.run)
  BY <1>1, <1>2, <1>3 DEF FillsAreActiveSlots, FillsAnswer
<1>4. CASE ~IsAborted(r.run)
  <2>1. r.run = fillsRun
    BY <1>4 DEF IsAborted
  <2>2. ~fillsDue => activeSlot # None /\ r.wallet = wallet[activeSlot]
    BY <1>4 DEF HeardFills
  <2>3. CASE succeeds
    <3>1. fills' = r /\ ~fillsError'
      BY <1>4, <2>3, Zenon DEF FillsAnswer
    <3>2. QED
      BY <1>1, <1>2, <2>1, <2>2, <3>1 DEF FillsAreActiveSlots
  <2>4. CASE ~succeeds
    <3>1. fills' = NoFills(r.run) /\ fillsError'
      BY <1>4, <2>4, Zenon DEF FillsAnswer
    <3>2. QED
      BY <1>1, <1>2, <2>1, <3>1 DEF FillsAreActiveSlots, NoFills
  <2>5. QED
    BY <2>3, <2>4
<1>5. QED
  BY <1>3, <1>4

LEMMA FillsStep == FillsInv /\ [Next]_vars => FillsInv'
<1> SUFFICES ASSUME FillsInv, [Next]_vars PROVE FillsInv'
  OBVIOUS
<1> USE DEF FillsInv
<1>1. TypeOK'
  BY TypeStep
<1>2. CASE \/ Hydrate
           \/ \E s \in Slots, w \in Wallets, c \in BOOLEAN : SlotChanges(s, w, c)
           \/ \E s \in Slots \cup {None} : ActiveSlotChanges(s)
  BY <1>1, <1>2, FillsSlotsStep
<1>3. CASE \/ \E outcome \in {"loaded", "failed"} : ReferenceSettles(outcome)
           \/ PositionsEffect
           \/ \E r \in positionsRequests : \E answered \in SUBSET r.wallets :
                PositionsSettle(r, answered)
           \/ UNCHANGED vars
  <2>1. UNCHANGED <<hydrated, wallet, activeSlot, fillsDue, fillsState>>
        /\ (positionsDue' = positionsDue \/ ~positionsDue')
    BY <1>3 DEF ReferenceSettles, PositionsEffect, PositionsSettle, slotState, fillsState,
                vars
  <2>2. NothingBefore'
    BY <2>1 DEF NothingBefore
  <2>3. HeardFills' /\ FillsAreActiveSlots'
    BY <2>1, FillsKept
  <2>4. QED
    BY <1>1, <2>2, <2>3
<1>4. CASE FillsEffect
  BY <1>1, <1>4, FillsEffectStep
<1>5. ASSUME NEW r \in fillsRequests, NEW succeeds \in BOOLEAN, FillsAnswer(r, succeeds)
      PROVE  FillsInv'
  BY <1>1, <1>5, FillsAnswerStep
<1>6. QED
  BY <1>2, <1>3, <1>4, <1>5 DEF Next, Answers

\* Once nothing is being loaded, the fills shown are those of the active slot's
\* wallet: no answer for a slot that was active before, or for its account of
\* before, replaces them.
THEOREM FillsAreCurrent == Spec => []FillsAreActiveSlots
<1>1. Init => FillsInv
  BY TypeInit, FillsInit DEF FillsInv
<1>2. FillsInv => FillsAreActiveSlots
  BY DEF FillsInv
<1>3. QED
  BY <1>1, <1>2, FillsStep, PTL DEF Spec
=============================================================================
