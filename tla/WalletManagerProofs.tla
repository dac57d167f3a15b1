------------------------- MODULE WalletManagerProofs -------------------------
(***************************************************************************)
(* Theorems about WalletManager, for any sets of wallets, accounts and     *)
(* venues, any number of slots and any bounds on clicks, switches and      *)
(* reloads.                                                                *)
(***************************************************************************)
EXTENDS WalletManager, TLAPS, WellFoundedInduction

-----------------------------------------------------------------------------
(* What the functions of the session store do to a slot *)

\* "new" is the slot "old", unless normalizing has dropped it.
Kept(old, new) == new = old \/ new = Absent

\* "new" is the slot "old", or what is left of it: nothing, or a slot that is
\* not connected any more and keeps all else.
Lessened(old, new) ==
  \/ Kept(old, new)
  \/ old # Absent /\ new \in Slot /\ new.status \in {"disconnected", "stale"}
     /\ new.account = old.account /\ new.venue = old.venue
     /\ new.connector = old.connector /\ new.eligibility = old.eligibility

ConnectedSlot(account, venue, connector, eligibility) ==
  [status |-> "connected", account |-> account, venue |-> venue, connector |-> connector,
   eligibility |-> eligibility]

LEMMA SlotTypes ==
  ASSUME NEW slot \in Slot
  PROVE  /\ slot = Absent <=> slot.status = "absent"
         /\ slot # Absent => /\ slot.status \in {"connected", "disconnected", "stale"}
                             /\ slot.account \in Accounts
                             /\ slot.venue \in Venues
                             /\ slot.connector \in Connectors
         /\ slot.eligibility \in Eligibilities
  BY DEF Slot, Absent, Eligibilities

LEMMA NewestMember ==
  ASSUME NEW ids
  PROVE  Newest(ids) = 0 \/ (Newest(ids) \in ids /\ \A t \in ids : t <= Newest(ids))
  BY DEF Newest, IsNewest

\* A set of naturals that is not empty has a least element.
LEMMA LeastMember ==
  ASSUME NEW T \in SUBSET Nat, T # {}
  PROVE  \E x \in T : \A y \in T : x <= y
<1> DEFINE R == OpToRel(<, Nat)
<1>1. R = {ss \in Nat \X Nat : ss[1] < ss[2]}
  BY DEF OpToRel
<1>2. IsWellFoundedOn(R, Nat)
  BY NatLessThanWellFounded
<1> HIDE DEF R
<1>3. PICK x \in T : \A y \in T : <<y, x>> \notin R
  BY <1>2, WFMin
<1>4. \A y \in T : ~(y < x)
  BY <1>1, <1>3
<1>5. QED
  BY <1>4

LEMMA NewestExists ==
  ASSUME NEW ids \in SUBSET SlotIds, ids # {}
  PROVE  Newest(ids) \in ids
<1> DEFINE T == {n \in Nat : MaxSlotIds - n \in ids}
<1>1. MaxSlotIds \in Nat
  BY LimitsAssumption
<1>2. T \in SUBSET Nat
  OBVIOUS
<1>3. T # {}
  <2>1. PICK s \in ids : s \in 1 .. MaxSlotIds
    BY DEF SlotIds
  <2>2. MaxSlotIds - s \in T
    BY <1>1, <2>1
  <2>3. QED
    BY <2>2
<1> HIDE DEF T
<1>4. PICK x \in T : \A y \in T : x <= y
  BY <1>2, <1>3, LeastMember
<1>5. IsNewest(MaxSlotIds - x, ids)
  <2>1. MaxSlotIds - x \in ids /\ x \in Nat
    BY DEF T
  <2>2. ASSUME NEW t \in ids
        PROVE  t <= MaxSlotIds - x
    <3>1. t \in 1 .. MaxSlotIds
      BY DEF SlotIds
    <3>2. MaxSlotIds - t \in T
      BY <1>1, <3>1 DEF T
    <3>3. QED
      BY <1>1, <1>4, <2>1, <3>1, <3>2
  <2>3. QED
    BY <2>1, <2>2 DEF IsNewest
<1>6. QED
  BY <1>5 DEF Newest, IsNewest

\* Normalizing drops slots and changes none.
LEMMA NormalizeSlots ==
  ASSUME NEW f \in [SlotIds -> Slot], NEW a \in {0} \cup SlotIds
  PROVE  LET new == NormalizeState([slots |-> f, activeSlotId |-> a])
         IN /\ new \in Session
            /\ \A t \in SlotIds : new.slots[t] \in {f[t], Absent}
<1> DEFINE state == [slots |-> f, activeSlotId |-> a]
           kept == {s \in Listed(state) :
                     Cardinality({t \in Listed(state) : t > s}) < MaxWalletSlots}
           g == [s \in SlotIds |-> IF s \in kept THEN f[s] ELSE Absent]
           b == IF a \in kept THEN a ELSE Newest(kept)
<1>1. NormalizeState(state) = [slots |-> g, activeSlotId |-> b]
  BY DEF NormalizeState
<1>2. kept \subseteq SlotIds
  BY DEF Listed
<1> HIDE DEF kept
<1>3. b \in {0} \cup SlotIds
  BY <1>2, NewestMember
<1>4. g \in [SlotIds -> Slot] /\ \A t \in SlotIds : g[t] \in {f[t], Absent}
  BY DEF Slot
<1> HIDE DEF g, b
<1>5. [slots |-> g, activeSlotId |-> b] \in Session
  BY <1>3, <1>4 DEF Session
<1>6. QED
  BY <1>1, <1>4, <1>5

LEMMA SessionParts ==
  ASSUME NEW state \in Session
  PROVE  /\ state.slots \in [SlotIds -> Slot]
         /\ state.activeSlotId \in {0} \cup SlotIds
         /\ state = [slots |-> state.slots, activeSlotId |-> state.activeSlotId]
         /\ Listed(state) = {s \in SlotIds : state.slots[s] # Absent}
         /\ Connected(state) \subseteq Listed(state)
<1>1. /\ state.slots \in [SlotIds -> Slot]
      /\ state.activeSlotId \in {0} \cup SlotIds
      /\ state = [slots |-> state.slots, activeSlotId |-> state.activeSlotId]
  BY DEF Session
<1>2. \A s \in SlotIds : state.slots[s] \in Slot
  BY <1>1
<1>3. QED
  BY <1>1, <1>2, SlotTypes DEF Listed, Connected

LEMMA UpsertSlots ==
  ASSUME NEW state \in Session, NEW s \in SlotIds, NEW account \in Accounts,
         NEW connector \in Connectors, NEW venue \in Venues,
         NEW eligibility \in Eligibilities
  PROVE  LET new == UpsertConnectedWallet(state, s,
                      [account |-> account, connector |-> connector], venue, eligibility)
         IN /\ new \in Session
            /\ \A t \in SlotIds :
                 \/ Lessened(state.slots[t], new.slots[t])
                 \/ t = s /\ new.slots[t] = ConnectedSlot(account, venue, connector, eligibility)
            /\ \A t \in SlotIds \ {s} : Kept(state.slots[t], new.slots[t])
            /\ new.slots[s] \in {Absent, ConnectedSlot(account, venue, connector, eligibility)}
<1> DEFINE slot == ConnectedSlot(account, venue, connector, eligibility)
           f == WithSlot(state, s, slot)
<1>1. slot \in Slot
  BY DEF Slot, ConnectedSlot
<1>2. /\ f \in [SlotIds -> Slot]
      /\ f[s] = slot
      /\ \A t \in SlotIds : t # s => f[t] = state.slots[t]
  BY <1>1, SessionParts DEF WithSlot
<1>3. CASE UpsertChanges(state, s)
  <2>1. UpsertConnectedWallet(state, s, [account |-> account, connector |-> connector],
                              venue, eligibility)
        = NormalizeState([slots |-> f, activeSlotId |-> s])
    BY <1>3 DEF UpsertConnectedWallet, ConnectedSlot
  <2> HIDE DEF f, slot
  <2>2. QED
    BY <1>2, <2>1, NormalizeSlots DEF Lessened, Kept, slot
<1>4. CASE ~UpsertChanges(state, s)
  <2>1. UpsertConnectedWallet(state, s, [account |-> account, connector |-> connector],
                              venue, eligibility)
        = NormalizeState(state)
    BY <1>4 DEF UpsertConnectedWallet
  <2>2. state.slots[s] = Absent
    BY <1>4, SessionParts DEF UpsertChanges
  <2>3. QED
    BY <2>1, <2>2, SessionParts, NormalizeSlots DEF Lessened, Kept
<1>5. QED
  BY <1>3, <1>4

LEMMA MarkSlots ==
  ASSUME NEW state \in Session, NEW ids, NEW status \in {"disconnected", "stale"}
  PROVE  LET new == MarkWalletSlots(state, ids, status)
         IN /\ new \in Session
            /\ \A t \in SlotIds : Lessened(state.slots[t], new.slots[t])
            /\ \A t \in SlotIds \cap ids : new.slots[t].status # "connected"
            /\ \A t \in SlotIds \ ids : Kept(state.slots[t], new.slots[t])
<1> DEFINE f == [s \in SlotIds |-> IF s \in ids \cap Listed(state)
                                   THEN [state.slots[s] EXCEPT !.status = status]
                                   ELSE state.slots[s]]
<1>1. ASSUME NEW t \in SlotIds
      PROVE  /\ f[t] \in Slot
             /\ Lessened(state.slots[t], f[t])
             /\ t \in ids => f[t].status # "connected"
             /\ t \notin ids => f[t] = state.slots[t]
  <2>1. state.slots[t] \in Slot
    BY SessionParts
  <2>2. CASE t \in ids \cap Listed(state)
    <3>1. state.slots[t] \in [status: {"connected", "disconnected", "stale"},
            account: Accounts, venue: Venues, connector: Connectors,
            eligibility: Eligibilities]
      BY <2>1, <2>2, SessionParts DEF Slot
    <3>2. f[t] = [state.slots[t] EXCEPT !.status = status]
      BY <2>2
    <3>3. f[t] \in Slot /\ f[t].status = status
      BY <3>1, <3>2 DEF Slot
    <3>4. /\ f[t].account = state.slots[t].account /\ f[t].venue = state.slots[t].venue
          /\ f[t].connector = state.slots[t].connector
          /\ f[t].eligibility = state.slots[t].eligibility
      BY <3>1, <3>2
    <3>5. state.slots[t] # Absent
      BY <2>2, SessionParts
    <3>6. QED
      BY <3>3, <3>4, <3>5 DEF Lessened, Kept
  <2>3. CASE t \notin ids \cap Listed(state)
    <3>1. t \in ids => state.slots[t] = Absent
      BY <2>3, SessionParts
    <3>2. QED
      BY <2>1, <2>3, <3>1 DEF Lessened, Kept, Absent
  <2>4. QED
    BY <2>2, <2>3
<1>2. f \in [SlotIds -> Slot]
  BY <1>1
<1>3. MarkWalletSlots(state, ids, status)
      = NormalizeState([slots |-> f, activeSlotId |-> state.activeSlotId])
  BY DEF MarkWalletSlots
<1> HIDE DEF f
<1>4. QED
  BY <1>1, <1>2, <1>3, SessionParts, NormalizeSlots DEF Lessened, Kept, Absent

LEMMA RemoveSlots ==
  ASSUME NEW state \in Session, NEW s \in SlotIds
  PROVE  LET new == RemoveWalletSlot(state, s)
         IN /\ new \in Session
            /\ \A t \in SlotIds : Kept(state.slots[t], new.slots[t])
            /\ new.slots[s] = Absent
<1> DEFINE f == WithSlot(state, s, Absent)
<1>1. /\ f \in [SlotIds -> Slot]
      /\ f[s] = Absent
      /\ \A t \in SlotIds : t # s => f[t] = state.slots[t]
  BY SessionParts DEF WithSlot, Slot
<1>2. RemoveWalletSlot(state, s)
      = NormalizeState([slots |-> f, activeSlotId |-> state.activeSlotId])
  BY DEF RemoveWalletSlot
<1> HIDE DEF f
<1>3. QED
  BY <1>1, <1>2, SessionParts, NormalizeSlots DEF Lessened, Kept

LEMMA ActivateSlots ==
  ASSUME NEW state \in Session, NEW s \in SlotIds
  PROVE  LET new == SetActiveWalletSlot(state, s)
         IN /\ new \in Session
            /\ \A t \in SlotIds : Kept(state.slots[t], new.slots[t])
  BY SessionParts, NormalizeSlots DEF SetActiveWalletSlot, Kept

LEMMA EmptySlots ==
  EmptySession \in Session /\ \A t \in SlotIds : EmptySession.slots[t] = Absent
  BY DEF EmptySession, Session, Slot

LEMMA WatchSlots ==
  ASSUME NEW state \in Session, NEW s \in SlotIds, NEW session \in Runtime
  PROVE  LET new == WatchUpdate(state, s, session)
         IN /\ new \in Session
            /\ \A t \in SlotIds :
                 \/ Lessened(state.slots[t], new.slots[t])
                 \/ /\ t = s /\ session # NoSession /\ state.slots[s] # Absent
                    /\ \E eligibility \in Eligibilities :
                         /\ new.slots[s] = ConnectedSlot(session.account, state.slots[s].venue,
                                                         session.connector, eligibility)
                         /\ eligibility # "unknown" => /\ session.account = state.slots[s].account
                                                       /\ eligibility = state.slots[s].eligibility
            /\ session = NoSession => new.slots[s].status # "connected"
            /\ \A t \in SlotIds \ {s} : Kept(state.slots[t], new.slots[t])
            /\ session # NoSession =>
                 new.slots[s] = Absent \/ \E eligibility \in Eligibilities :
                   /\ new.slots[s] = ConnectedSlot(session.account, state.slots[s].venue,
                                                   session.connector, eligibility)
                   /\ eligibility # "unknown" => /\ session.account = state.slots[s].account
                                                 /\ eligibility = state.slots[s].eligibility
<1> DEFINE slot == state.slots[s]
           eligibility == IF session.account = slot.account THEN slot.eligibility
                          ELSE "unknown"
<1>1. slot \in Slot
  BY SessionParts
<1>2. CASE s \notin Listed(state)
  <2>1. WatchUpdate(state, s, session) = state /\ slot = Absent
    BY <1>2, SessionParts DEF WatchUpdate
  <2>2. QED
    BY <2>1 DEF Lessened, Kept, Absent
<1>3. CASE s \in Listed(state) /\ session = NoSession
  BY <1>3, MarkSlots DEF WatchUpdate, MarkWalletSlotStatus
<1>4. CASE s \in Listed(state) /\ session # NoSession
  <2>1. PICK account \in Accounts, connector \in Connectors :
          session = [account |-> account, connector |-> connector]
    BY <1>4 DEF Runtime
  <2>2. slot # Absent /\ slot.venue \in Venues /\ slot.eligibility \in Eligibilities
    BY <1>1, <1>4, SessionParts, SlotTypes
  <2>3. /\ eligibility \in Eligibilities
        /\ eligibility # "unknown" => session.account = slot.account
                                      /\ eligibility = slot.eligibility
    BY <2>2 DEF Eligibilities
  <2>4. WatchUpdate(state, s, session)
        = UpsertConnectedWallet(state, s, session, slot.venue, eligibility)
    BY <1>4 DEF WatchUpdate
  <2> HIDE DEF eligibility, slot
  <2>5. QED
    BY <1>4, <2>1, <2>2, <2>3, <2>4, UpsertSlots DEF slot
<1>5. QED
  BY <1>2, <1>3, <1>4

LEMMA SettleSlots ==
  ASSUME NEW state \in Session, NEW v \in VerificationCall, NEW eligibility \in Eligibilities
  PROVE  LET new == SettleVerification(state, v, eligibility)
             slot == state.slots[v.slot]
         IN /\ new \in Session
            /\ \A t \in SlotIds :
                 \/ Lessened(state.slots[t], new.slots[t])
                 \/ /\ t = v.slot /\ slot.status = "connected" /\ slot.account = v.account
                    /\ new.slots[t] = ConnectedSlot(v.account, v.venue, slot.connector, eligibility)
            /\ \A t \in SlotIds \ {v.slot} : Kept(state.slots[t], new.slots[t])
            /\ \/ Kept(slot, new.slots[v.slot])
               \/ /\ slot.status = "connected" /\ slot.account = v.account
                  /\ new.slots[v.slot] = ConnectedSlot(v.account, v.venue, slot.connector,
                                                       eligibility)
<1> DEFINE slot == state.slots[v.slot]
<1>1. v.slot \in SlotIds /\ v.account \in Accounts /\ v.venue \in Venues
  BY DEF VerificationCall
<1>2. slot \in Slot
  BY <1>1, SessionParts
<1>3. CASE Settles(slot, v.account)
  <2>1. slot.status = "connected" /\ slot.account = v.account /\ slot.connector \in Connectors
    BY <1>2, <1>3, SlotTypes DEF Settles, Absent
  <2>2. SettleVerification(state, v, eligibility)
        = UpsertConnectedWallet(state, v.slot,
            [account |-> v.account, connector |-> slot.connector], v.venue, eligibility)
    BY <1>3 DEF SettleVerification
  <2> HIDE DEF slot
  <2>3. QED
    BY <1>1, <2>1, <2>2, UpsertSlots DEF slot, Kept
<1>4. CASE ~Settles(slot, v.account)
  BY <1>4 DEF SettleVerification, Lessened, Kept
<1>5. QED
  BY <1>3, <1>4

-----------------------------------------------------------------------------
(* The inductive invariant *)

\* The dialog waits for the one verification that the user's action began.
UserVerification ==
  /\ \A v \in verifications : v.by = "user" => flow.stage = "verifying"
  /\ \A v, w \in verifications : v.by = "user" /\ w.by = "user" => v = w

\* The reconciliation awaits a slot that was connected when it began.
Awaited ==
  reconcile.stage = "running" => reconcile.awaiting \in Connected(reconcile.previous)

\* A tradable verdict was given for the account and the venue of its slot.
VettedSlot(slot, C) ==
  slot.eligibility = "tradable" =>
    \E page \in 0 .. MaxReloads : <<slot.account, slot.venue, page>> \in C

Vetted(state, C) == \A t \in SlotIds : VettedSlot(state.slots[t], C)

AllVetted ==
  /\ Vetted(sessionState, confirmed)
  /\ Vetted(committed, confirmed)
  /\ Vetted(stateRef, confirmed)
  /\ Vetted(reconcile.previous, confirmed)
  /\ Vetted(reconcile.next, confirmed)

IInv == TypeOK /\ UserVerification /\ Awaited /\ AllVetted

LEMMA LessenedVetted ==
  ASSUME NEW old, NEW new, NEW C, VettedSlot(old, C), Lessened(old, new)
  PROVE  VettedSlot(new, C)
  BY DEF VettedSlot, Lessened, Kept, Absent

LEMMA LaterVetted ==
  ASSUME NEW state, NEW C, NEW D, C \subseteq D, Vetted(state, C)
  PROVE  Vetted(state, D)
  BY DEF Vetted, VettedSlot

LEMMA EmptyVetted ==
  ASSUME NEW C
  PROVE  Vetted(EmptySession, C)
  BY EmptySlots DEF Vetted, VettedSlot, Absent

LEMMA NoReconcileType ==
  NoReconcile \in Reconciliation /\ NoReconcile.stage = "off"
  /\ NoReconcile.previous = EmptySession /\ NoReconcile.next = EmptySession
  BY EmptySlots DEF NoReconcile, Reconciliation

\* Every function of the store keeps the verdicts of the state it is given.
LEMMA MarkVetted ==
  ASSUME NEW state \in Session, NEW ids, NEW status \in {"disconnected", "stale"}, NEW C,
         Vetted(state, C)
  PROVE  Vetted(MarkWalletSlots(state, ids, status), C)
  BY MarkSlots, LessenedVetted DEF Vetted

LEMMA WatchVetted ==
  ASSUME NEW state \in Session, NEW s \in SlotIds, NEW session \in Runtime, NEW C,
         Vetted(state, C)
  PROVE  Vetted(WatchUpdate(state, s, session), C)
<1> DEFINE new == WatchUpdate(state, s, session)
<1> SUFFICES ASSUME NEW t \in SlotIds
             PROVE  VettedSlot(new.slots[t], C)
  BY DEF Vetted
<1>1. CASE Lessened(state.slots[t], new.slots[t])
  BY <1>1, LessenedVetted DEF Vetted
<1>2. CASE ~Lessened(state.slots[t], new.slots[t])
  <2>1. /\ t = s
        /\ \E eligibility \in Eligibilities :
             /\ new.slots[s] = ConnectedSlot(session.account, state.slots[s].venue,
                                             session.connector, eligibility)
             /\ eligibility # "unknown" => /\ session.account = state.slots[s].account
                                           /\ eligibility = state.slots[s].eligibility
    BY <1>2, WatchSlots
  <2>2. VettedSlot(state.slots[s], C)
    BY DEF Vetted
  <2>3. QED
    BY <2>1, <2>2 DEF VettedSlot, ConnectedSlot
<1>3. QED
  BY <1>1, <1>2

LEMMA SettleVetted ==
  ASSUME NEW state \in Session, NEW v \in VerificationCall, NEW eligibility \in Eligibilities,
         NEW C, Vetted(state, C),
         eligibility = "tradable" =>
           \E page \in 0 .. MaxReloads : <<v.account, v.venue, page>> \in C
  PROVE  Vetted(SettleVerification(state, v, eligibility), C)
<1> DEFINE new == SettleVerification(state, v, eligibility)
<1> SUFFICES ASSUME NEW t \in SlotIds
             PROVE  VettedSlot(new.slots[t], C)
  BY DEF Vetted
<1>1. CASE Lessened(state.slots[t], new.slots[t])
  BY <1>1, LessenedVetted DEF Vetted
<1>2. CASE ~Lessened(state.slots[t], new.slots[t])
  <2>1. new.slots[t] = ConnectedSlot(v.account, v.venue, state.slots[v.slot].connector,
                                     eligibility)
    BY <1>2, SettleSlots
  <2>2. QED
    BY <2>1 DEF VettedSlot, ConnectedSlot
<1>3. QED
  BY <1>1, <1>2

LEMMA UpsertVetted ==
  ASSUME NEW state \in Session, NEW s \in SlotIds, NEW session \in Runtime,
         session # NoSession, NEW venue \in Venues, NEW C, Vetted(state, C)
  PROVE  /\ UpsertConnectedWallet(state, s, session, venue, "checking") \in Session
         /\ Vetted(UpsertConnectedWallet(state, s, session, venue, "checking"), C)
<1>1. PICK account \in Accounts, connector \in Connectors :
        session = [account |-> account, connector |-> connector]
  BY DEF Runtime
<1>2. "checking" \in Eligibilities
  BY DEF Eligibilities
<1> DEFINE new == UpsertConnectedWallet(state, s, session, venue, "checking")
<1>3. /\ new \in Session
      /\ \A t \in SlotIds :
           \/ Lessened(state.slots[t], new.slots[t])
           \/ t = s /\ new.slots[t] = ConnectedSlot(account, venue, connector, "checking")
  BY <1>1, <1>2, UpsertSlots
<1>4. ASSUME NEW t \in SlotIds
      PROVE  VettedSlot(new.slots[t], C)
  <2>1. CASE Lessened(state.slots[t], new.slots[t])
    BY <2>1, LessenedVetted DEF Vetted
  <2>2. CASE new.slots[t] = ConnectedSlot(account, venue, connector, "checking")
    BY <2>2 DEF VettedSlot, ConnectedSlot
  <2>3. QED
    BY <1>3, <2>1, <2>2
<1>5. QED
  BY <1>3, <1>4 DEF Vetted

-----------------------------------------------------------------------------
(* The initial state *)

THEOREM InitialInvariant == Init => IInv
<1> SUFFICES ASSUME Init
             PROVE  IInv
  OBVIOUS
<1>1. TypeOK
  <2>1. runtime \in [SlotIds -> Runtime]
    BY DEF Init, Runtime
  <2>2. reconcile \in Reconciliation
    BY NoReconcileType DEF Init
  <2>3. walletAccount \in [Connectors -> Accounts \cup {None}]
    BY DEF Init
  <2>4. /\ created \in 0 .. MaxSlotIds
        /\ clicks \in 0 .. MaxClicks
        /\ switches \in 0 .. MaxSwitches
        /\ reloads \in 0 .. MaxReloads
    BY LimitsAssumption DEF Init
  <2>5. sessionState \in Session /\ committed \in Session /\ stateRef \in Session
    BY EmptySlots DEF Init
  <2>6. QED
    BY <2>1, <2>2, <2>3, <2>4, <2>5 DEF Init, TypeOK, Flow
<1>2. UserVerification /\ Awaited
  BY NoReconcileType DEF Init, UserVerification, Awaited
<1>3. AllVetted
  BY NoReconcileType, EmptyVetted DEF Init, AllVetted
<1>4. QED
  BY <1>1, <1>2, <1>3 DEF IInv

-----------------------------------------------------------------------------
(* Steps shared by several actions *)

\* A slot that is connected in the new state was so in the old one, with the
\* same account and wallet.
NoneRevived(old, new) ==
  \A t \in SlotIds :
    new.slots[t].status = "connected" =>
      /\ old.slots[t].status = "connected"
      /\ new.slots[t].account = old.slots[t].account
      /\ new.slots[t].connector = old.slots[t].connector

LEMMA LessenedNoneRevived ==
  ASSUME NEW old, NEW new, \A t \in SlotIds : Lessened(old.slots[t], new.slots[t])
  PROVE  NoneRevived(old, new)
  BY DEF NoneRevived, Lessened, Kept, Absent

LEMMA SettleNoneRevived ==
  ASSUME NEW state \in Session, NEW v \in VerificationCall, NEW eligibility \in Eligibilities
  PROVE  NoneRevived(state, SettleVerification(state, v, eligibility))
<1> DEFINE new == SettleVerification(state, v, eligibility)
<1> SUFFICES ASSUME NEW t \in SlotIds, new.slots[t].status = "connected"
             PROVE  /\ state.slots[t].status = "connected"
                    /\ new.slots[t].account = state.slots[t].account
                    /\ new.slots[t].connector = state.slots[t].connector
  BY DEF NoneRevived
<1>1. CASE Lessened(state.slots[t], new.slots[t])
  BY <1>1 DEF Lessened, Kept, Absent
<1>2. CASE ~Lessened(state.slots[t], new.slots[t])
  <2>1. /\ t = v.slot /\ state.slots[t].status = "connected"
        /\ state.slots[t].account = v.account
        /\ new.slots[t] = ConnectedSlot(v.account, v.venue, state.slots[t].connector,
                                        eligibility)
    BY <1>2, SettleSlots
  <2>2. QED
    BY <2>1 DEF ConnectedSlot
<1>3. QED
  BY <1>1, <1>2

LEMMA EligibilityNames ==
  {"unknown", "checking", "tradable", "not-eligible", "error"} \subseteq Eligibilities
  BY DEF Eligibilities

\* A reconciled slot's verification is well formed.
LEMMA NextCallType ==
  ASSUME NEW state \in Session, NEW s \in Connected(state)
  PROVE  Verification("reconcile", s, state.slots[s].account, state.slots[s].venue)
           \in VerificationCall
<1>1. s \in SlotIds /\ state.slots[s] \in Slot /\ state.slots[s] # Absent
  BY SessionParts DEF Connected, Listed
<1>2. state.slots[s].account \in Accounts /\ state.slots[s].venue \in Venues
  BY <1>1, SlotTypes
<1>3. QED
  BY <1>1, <1>2 DEF Verification, VerificationCall

LEMMA EndsStep ==
  ASSUME TypeOK, UserVerification, NEW v \in verifications,
         NEW eligibility \in Eligibilities, VerificationEnds(v, eligibility)
  PROVE  /\ sessionState' \in Session
         /\ NoneRevived(sessionState, sessionState')
         /\ \A C : /\ Vetted(sessionState, C)
                   /\ eligibility = "tradable" =>
                        \E page \in 0 .. MaxReloads : <<v.account, v.venue, page>> \in C
                   => Vetted(sessionState', C)
         /\ verifications' \subseteq VerificationCall
         /\ flow' \in Flow
         /\ UserVerification'
         /\ reconcile' = reconcile \/ reconcile' = NoReconcile
<1> DEFINE settled == SettleVerification(sessionState, v, eligibility)
           ids == {t \in Connected(reconcile.next) : t < v.slot}
           s == Newest(ids)
           next == Verification("reconcile", s, reconcile.next.slots[s].account,
                                reconcile.next.slots[s].venue)
<1>1. v \in VerificationCall /\ sessionState \in Session /\ reconcile.next \in Session
  BY DEF TypeOK, Reconciliation
<1>2. settled \in Session
  BY <1>1, SettleSlots
<1>3. NoneRevived(sessionState, settled)
  BY <1>1, SettleNoneRevived
<1>4. ASSUME NEW C, Vetted(sessionState, C),
             eligibility = "tradable" =>
               \E page \in 0 .. MaxReloads : <<v.account, v.venue, page>> \in C
      PROVE  Vetted(settled, C)
  BY <1>1, <1>4, SettleVetted
<1>5. CASE v.by = "reconcile" /\ s # 0
  <2>1. s \in Connected(reconcile.next)
    BY <1>5, NewestMember
  <2>2. next \in VerificationCall
    BY <1>1, <2>1, NextCallType
  <2>3. /\ sessionState' = SettleVerification(settled, next, "checking")
        /\ verifications' = (verifications \ {v}) \cup {next}
        /\ UNCHANGED <<flow, reconcile>>
    BY <1>5 DEF VerificationEnds
  <2>4. next.by = "reconcile"
    BY DEF Verification
  <2> HIDE DEF settled, s, next
  <2>5. sessionState' \in Session
    BY <1>2, <2>2, <2>3, SettleSlots, EligibilityNames
  <2>6. NoneRevived(sessionState, sessionState')
    <3>1. NoneRevived(settled, sessionState')
      BY <1>2, <2>2, <2>3, SettleNoneRevived, EligibilityNames
    <3>2. QED
      BY <1>3, <3>1 DEF NoneRevived
  <2>7. ASSUME NEW C, Vetted(settled, C)
        PROVE  Vetted(sessionState', C)
    BY <1>2, <2>2, <2>3, <2>7, SettleVetted, EligibilityNames
  <2>8. verifications' \subseteq VerificationCall /\ flow' \in Flow
    BY <2>2, <2>3 DEF TypeOK
  <2>9. UserVerification'
    BY <2>3, <2>4 DEF UserVerification
  <2>10. QED
    BY <1>4, <2>3, <2>5, <2>6, <2>7, <2>8, <2>9
<1>6. CASE ~(v.by = "reconcile" /\ s # 0)
  <2>1. /\ sessionState' = settled
        /\ verifications' = verifications \ {v}
        /\ flow' = IF v.by = "user" THEN [flow EXCEPT !.stage = "ended"] ELSE flow
        /\ reconcile' = IF v.by = "reconcile" THEN NoReconcile ELSE reconcile
    BY <1>6 DEF VerificationEnds
  <2>2. flow' \in Flow
    <3>1. CASE v.by = "user"
      <4>1. flow.stage = "verifying"
        BY <3>1 DEF UserVerification
      <4>2. flow \in Flow /\ flow # NoFlow
        BY <4>1 DEF TypeOK, NoFlow
      <4>3. QED
        BY <2>1, <3>1, <4>2 DEF Flow
    <3>2. CASE v.by # "user"
      BY <2>1, <3>2 DEF TypeOK
    <3>3. QED
      BY <3>1, <3>2
  <2>3. verifications' \subseteq VerificationCall
    BY <2>1 DEF TypeOK
  <2>4. UserVerification'
    <3>1. CASE v.by = "user"
      <4>1. \A w \in verifications' : w.by # "user"
        BY <2>1, <3>1 DEF UserVerification
      <4>2. QED
        BY <4>1 DEF UserVerification
    <3>2. CASE v.by # "user"
      BY <2>1, <3>2 DEF UserVerification
    <3>3. QED
      BY <3>1, <3>2
  <2> HIDE DEF settled
  <2>5. QED
    BY <1>2, <1>3, <1>4, <2>1, <2>2, <2>3, <2>4
<1>7. QED
  BY <1>5, <1>6

LEMMA ContinuesStep ==
  ASSUME TypeOK, Awaited, reconcile.stage = "running",
         NEW next \in Session, NEW shown \in Session, ReconcileContinues(next, shown)
  PROVE  /\ sessionState' \in Session
         /\ reconcile' \in Reconciliation
         /\ Awaited'
         /\ verifications' \subseteq VerificationCall
         /\ \A w \in verifications' : w \in verifications \/ w.by = "reconcile"
         /\ reconcile'.previous \in {reconcile.previous, EmptySession}
         /\ \A C : Vetted(next, C) /\ Vetted(shown, C)
                   => Vetted(sessionState', C) /\ Vetted(reconcile'.next, C)
         /\ reconcile'.stage = "running" =>
              /\ NoneRevived(next, reconcile'.next)
              /\ reconcile'.previous = reconcile.previous
              /\ ~reconcile'.detached
              /\ \A t \in Connected(reconcile'.next) \cap Connected(reconcile.previous) :
                   t > reconcile'.awaiting => t >= reconcile.awaiting
         /\ reconcile'.stage # "running" =>
              /\ NoneRevived(next, sessionState')
              /\ \A t \in Connected(sessionState') \cap Connected(reconcile.previous) :
                   t >= reconcile.awaiting
<1> DEFINE left == {t \in Connected(reconcile.previous) : t < reconcile.awaiting}
           free == {t \in left :
                      reconcile.previous.slots[t].connector \notin LockedConnectors(next)}
           s == Newest(free)
           marked == MarkWalletSlots(next, {t \in left : t > s}, "stale")
           first == Newest(Connected(marked))
           v == Verification("reconcile", first, marked.slots[first].account,
                             marked.slots[first].venue)
<1>1. /\ reconcile \in Reconciliation
      /\ reconcile.previous \in Session
      /\ reconcile.awaiting \in SlotIds
      /\ \A t \in Connected(reconcile.previous) : t \in SlotIds
  BY DEF TypeOK, Reconciliation, Awaited, Connected
<1>2. s = 0 \/ s \in left
  BY NewestMember
<1>3. /\ marked \in Session
      /\ \A t \in SlotIds : Lessened(next.slots[t], marked.slots[t])
      /\ \A t \in SlotIds : t \in left /\ t > s => marked.slots[t].status # "connected"
  BY MarkSlots
<1>4. NoneRevived(next, marked)
  BY <1>3, LessenedNoneRevived
<1>5. ASSUME NEW C, Vetted(next, C)
      PROVE  Vetted(marked, C)
  BY <1>5, MarkVetted
<1>6. \A t \in Connected(marked) : t \in SlotIds /\ marked.slots[t].status = "connected"
  BY DEF Connected
<1>7. CASE s # 0
  <2>1. /\ sessionState' = shown
        /\ reconcile' = [reconcile EXCEPT !.next = marked, !.awaiting = s, !.detached = FALSE]
        /\ UNCHANGED verifications
    BY <1>7 DEF ReconcileContinues
  <2>2. s \in Connected(reconcile.previous) /\ s \in SlotIds
    BY <1>1, <1>2, <1>7
  <2> HIDE DEF marked, s
  <2>3. /\ reconcile' \in Reconciliation
        /\ reconcile'.next = marked
        /\ reconcile'.awaiting = s
        /\ reconcile'.previous = reconcile.previous
        /\ ~reconcile'.detached
        /\ reconcile'.stage = "running"
    BY <1>1, <1>3, <2>1, <2>2 DEF Reconciliation
  <2>4. ASSUME NEW t \in Connected(marked), t \in Connected(reconcile.previous), t > s
        PROVE  t >= reconcile.awaiting
    <3>1. t \in SlotIds /\ t \notin left
      BY <1>3, <1>6, <2>4
    <3>2. QED
      BY <1>1, <2>4, <3>1 DEF SlotIds
  <2>5. Awaited'
    <3>1. reconcile'.awaiting \in Connected(reconcile'.previous)
      BY <2>2, <2>3
    <3>2. QED
      BY <3>1 DEF Awaited, Connected
  <2>6. verifications' \subseteq VerificationCall
    BY <2>1 DEF TypeOK
  <2>7. QED
    BY <1>4, <1>5, <2>1, <2>3, <2>4, <2>5, <2>6
<1>8. CASE s = 0
  <2>1. ASSUME NEW state, NoneRevived(marked, state), NEW t \in Connected(state),
               t \in Connected(reconcile.previous)
        PROVE  t >= reconcile.awaiting
    <3>1. t \in SlotIds /\ marked.slots[t].status = "connected"
      BY <2>1 DEF NoneRevived, Connected
    <3>2. t > s
      BY <1>8, <3>1 DEF SlotIds
    <3>3. t \notin left
      BY <1>3, <3>1, <3>2
    <3>4. QED
      BY <1>1, <2>1, <3>1, <3>3 DEF SlotIds
  <2>2. NoneRevived(marked, marked)
    BY DEF NoneRevived
  <2>3. CASE first # 0
    <3>1. v \in VerificationCall /\ v.by = "reconcile"
      BY <1>3, <2>3, NewestMember, NextCallType DEF Verification
    <3>2. /\ sessionState' = SettleVerification(marked, v, "checking")
          /\ verifications' = verifications \cup {v}
          /\ reconcile' = [NoReconcile EXCEPT !.stage = "verifying", !.next = marked]
      BY <1>8, <2>3 DEF ReconcileContinues
    <3> HIDE DEF marked, v
    <3>3. /\ sessionState' \in Session
          /\ NoneRevived(marked, sessionState')
      BY <1>3, <3>1, <3>2, SettleSlots, SettleNoneRevived, EligibilityNames
    <3>4. /\ reconcile' \in Reconciliation
          /\ reconcile'.stage = "verifying"
          /\ reconcile'.next = marked
          /\ reconcile'.previous = EmptySession
      BY <1>3, <3>2, EmptySlots DEF NoReconcile, Reconciliation
    <3>5. ASSUME NEW C, Vetted(marked, C)
          PROVE  Vetted(sessionState', C)
      BY <1>3, <3>1, <3>2, <3>5, SettleVetted, EligibilityNames
    <3>6. NoneRevived(next, sessionState')
      BY <1>4, <3>3 DEF NoneRevived
    <3>7. Awaited'
      BY <3>4 DEF Awaited
    <3>8. verifications' \subseteq VerificationCall
      BY <3>1, <3>2 DEF TypeOK
    <3>9. QED
      BY <1>5, <2>1, <3>1, <3>2, <3>3, <3>4, <3>5, <3>6, <3>7, <3>8
  <2>4. CASE first = 0
    <3>1. /\ sessionState' = marked
          /\ reconcile' = NoReconcile
          /\ UNCHANGED verifications
      BY <1>8, <2>4 DEF ReconcileContinues
    <3> HIDE DEF marked
    <3>2. Awaited'
      BY <3>1, NoReconcileType DEF Awaited
    <3>3. verifications' \subseteq VerificationCall
      BY <3>1 DEF TypeOK
    <3>4. /\ reconcile' \in Reconciliation
          /\ reconcile'.stage = "off"
          /\ reconcile'.previous = EmptySession
          /\ reconcile'.next = EmptySession
      BY <3>1, NoReconcileType
    <3>5. \A C : Vetted(reconcile'.next, C)
      BY <3>4, EmptyVetted
    <3>6. \A t \in Connected(sessionState') \cap Connected(reconcile.previous) :
            t >= reconcile.awaiting
      BY <2>1, <2>2, <3>1
    <3>7. QED
      BY <1>3, <1>4, <1>5, <3>1, <3>2, <3>3, <3>4, <3>5, <3>6
  <2>5. QED
    BY <2>3, <2>4
<1>9. QED
  BY <1>7, <1>8

-----------------------------------------------------------------------------
(* Preservation *)

\* Some steps leave alone what an invariant is about.
LEMMA QuietFlow ==
  ASSUME UserVerification, UNCHANGED <<flow, verifications>>
  PROVE  UserVerification'
  BY DEF UserVerification

LEMMA QuietReconcile ==
  ASSUME Awaited, UNCHANGED reconcile
  PROVE  Awaited'
  BY DEF Awaited, Connected

LEMMA QuietReconcileVetted ==
  ASSUME AllVetted, UNCHANGED <<reconcile, confirmed>>,
         Vetted(sessionState', confirmed), Vetted(committed', confirmed),
         Vetted(stateRef', confirmed)
  PROVE  AllVetted'
  BY DEF AllVetted, Vetted, VettedSlot

\* A click that sets a state shows it and stores it too.
LEMMA ClickSets ==
  ASSUME TypeOK, UserVerification, Awaited, AllVetted, UserActs,
         NEW s \in SUBSET SlotIds, reconcile' \in {reconcile, ReconcileWithout(s)},
         runtime' \in {runtime, Dropped(s)}, watchers' \subseteq watchers,
         sessionState' \in Session, Vetted(sessionState', confirmed),
         committed' \in Session, Vetted(committed', confirmed), stateRef' = committed',
         outdated' \in BOOLEAN, UNCHANGED <<flow, verifications, boundVars>>
  PROVE  IInv'
<1>1. /\ reconcile' \in Reconciliation
      /\ reconcile'.stage = reconcile.stage
      /\ reconcile'.previous = reconcile.previous
      /\ reconcile'.next = reconcile.next
      /\ reconcile'.awaiting = reconcile.awaiting
  BY DEF TypeOK, Reconciliation, ReconcileWithout
<1>2. runtime' \in [SlotIds -> Runtime]
  BY DEF TypeOK, Dropped, Runtime
<1>3. clicks' \in 0 .. MaxClicks
  BY LimitsAssumption DEF UserActs, TypeOK
<1>4. TypeOK'
  BY <1>1, <1>2, <1>3 DEF TypeOK, boundVars
<1>5. Awaited'
  BY <1>1 DEF Awaited, Connected
<1>6. AllVetted'
  BY <1>1 DEF AllVetted, Vetted, VettedSlot, boundVars
<1>7. QED
  BY <1>4, <1>5, <1>6, QuietFlow DEF IInv

\* A click that starts an action of the dialog.
LEMMA ClickStarts ==
  ASSUME TypeOK, UserVerification, Awaited, AllVetted, UserActs,
         flow' \in Flow, ReadsRef, ClickCommits(sessionState),
         UNCHANGED <<sessionState, runtime, watchers, verifications, reconcile, boundVars>>
  PROVE  IInv'
<1>1. clicks' \in 0 .. MaxClicks
  BY LimitsAssumption DEF UserActs, TypeOK
<1>2. TypeOK'
  BY <1>1 DEF TypeOK, boundVars, ClickCommits, ReadsRef, OverlapsReconcile
<1>3. UserVerification'
  BY DEF UserActs, UserVerification, NoFlow
<1>4. AllVetted'
  BY QuietReconcileVetted DEF AllVetted, boundVars, ClickCommits
<1>5. QED
  BY <1>2, <1>3, <1>4, QuietReconcile DEF IInv

LEMMA UserSteps ==
  ASSUME IInv, UserStep
  PROVE  IInv'
<1>1. TypeOK /\ UserVerification /\ Awaited /\ AllVetted
  BY DEF IInv
<1>2. /\ sessionState \in Session /\ stateRef \in Session
      /\ Vetted(sessionState, confirmed) /\ Vetted(stateRef, confirmed)
  BY <1>1 DEF TypeOK, AllVetted
<1>3. ASSUME NEW connector \in Connectors, NEW venue \in Venues, ClickConnect(connector, venue)
      PROVE  IInv'
  <2>1. created + 1 \in SlotIds
    BY <1>1, <1>3, LimitsAssumption DEF ClickConnect, TypeOK, SlotIds
  <2>2. flow' \in Flow
    BY <1>3, <2>1 DEF ClickConnect, Flow
  <2>3. QED
    BY <1>1, <1>3, <2>2, ClickStarts DEF ClickConnect
<1>4. ASSUME NEW s \in SlotIds, ClickReconnect(s)
      PROVE  IInv'
  <2>1. stateRef.slots[s] \in Slot /\ stateRef.slots[s] # Absent
    BY <1>2, <1>4, SessionParts DEF ClickReconnect
  <2>2. stateRef.slots[s].connector \in Connectors /\ stateRef.slots[s].venue \in Venues
    BY <2>1, SlotTypes
  <2>3. flow' \in Flow
    BY <1>4, <2>2 DEF ClickReconnect, Flow
  <2>4. QED
    BY <1>1, <1>4, <2>3, ClickStarts DEF ClickReconnect
<1>5. ASSUME NEW s \in SlotIds, ClickSetActive(s)
      PROVE  IInv'
  <2>1. /\ sessionState' = SetActiveWalletSlot(stateRef, s)
        /\ committed' = sessionState' /\ stateRef' = committed'
        /\ outdated' \in BOOLEAN
    BY <1>1, <1>5 DEF ClickSetActive, ClickSetsFromRef, SetsFromRef, ReadsRef, ClickCommits,
                      OverlapsReconcile, TypeOK
  <2>2. sessionState' \in Session /\ Vetted(sessionState', confirmed)
    BY <1>2, <2>1, ActivateSlots, LessenedVetted DEF Vetted, Lessened
  <2>3. QED
    BY <1>1, <1>5, <2>1, <2>2, ClickSets DEF ClickSetActive
<1>6. ASSUME NEW s \in SlotIds, ClickDisconnect(s)
      PROVE  IInv'
  <2>1. /\ sessionState' = MarkWalletSlots(sessionState, {s}, "disconnected")
        /\ committed' = sessionState /\ stateRef' = committed'
        /\ outdated' \in BOOLEAN
    BY <1>1, <1>6 DEF ClickDisconnect, MarkWalletSlotStatus, ClickCommits, OverlapsReconcile,
                      TypeOK
  <2>2. sessionState' \in Session /\ Vetted(sessionState', confirmed)
    BY <1>2, <2>1, MarkSlots, MarkVetted
  <2>3. QED
    BY <1>1, <1>2, <1>6, <2>1, <2>2, ClickSets DEF ClickDisconnect, Unwatched
<1>7. ASSUME NEW s \in SlotIds, ClickRemove(s)
      PROVE  IInv'
  <2>1. /\ sessionState' = IF s \in Listed(stateRef) THEN RemoveWalletSlot(stateRef, s)
                           ELSE sessionState
        /\ committed' = sessionState' /\ stateRef' = committed'
        /\ outdated' \in BOOLEAN
    BY <1>1, <1>7 DEF ClickRemove, ClickSetsFromRef, SetsFromRef, ReadsRef, ClickCommits,
                      OverlapsReconcile, TypeOK
  <2>2. sessionState' \in Session /\ Vetted(sessionState', confirmed)
    BY <1>2, <2>1, RemoveSlots, LessenedVetted DEF Vetted, Lessened
  <2>3. QED
    BY <1>1, <1>7, <2>1, <2>2, ClickSets DEF ClickRemove, Unwatched
<1>8. CASE ClickClearAll
  <2>1. /\ sessionState' = EmptySession
        /\ committed' = sessionState' /\ stateRef' = committed'
        /\ outdated' \in BOOLEAN
    BY <1>1, <1>8 DEF ClickClearAll, ClickSetsFromRef, SetsFromRef, ReadsRef, ClickCommits,
                      OverlapsReconcile, TypeOK
  <2>2. Listed(stateRef) \in SUBSET SlotIds
    BY DEF Listed
  <2>3. QED
    BY <1>1, <1>8, <2>1, <2>2, EmptySlots, EmptyVetted, ClickSets DEF ClickClearAll
<1>9. QED
  BY <1>3, <1>4, <1>5, <1>6, <1>7, <1>8 DEF UserStep

LEMMA FlowSteps ==
  ASSUME IInv, FlowConnected \/ FlowRefused
  PROVE  IInv'
<1>1. TypeOK /\ UserVerification /\ Awaited /\ AllVetted
  BY DEF IInv
<1>2. /\ sessionState \in Session /\ stateRef \in Session
      /\ Vetted(sessionState, confirmed) /\ Vetted(stateRef, confirmed)
  BY <1>1 DEF TypeOK, AllVetted
<1>3. flow.stage = "wallet" => /\ flow.kind \in {"connect", "reconnect"}
                               /\ flow.slot \in SlotIds
                               /\ flow.connector \in Connectors
                               /\ flow.venue \in Venues
                               /\ [flow EXCEPT !.stage = "verifying"] \in Flow
                               /\ [flow EXCEPT !.stage = "ended"] \in Flow
                               /\ [flow EXCEPT !.stage = "verifying"].stage = "verifying"
                               /\ \A v \in verifications : v.by # "user"
  <2>1. flow.stage = "wallet" => flow \in [kind: {"connect", "reconnect"}, slot: SlotIds,
          connector: Connectors, venue: Venues, stage: {"wallet", "verifying", "ended"}]
    BY <1>1 DEF TypeOK, Flow, NoFlow
  <2>2. QED
    BY <1>1, <2>1 DEF Flow, UserVerification
<1>4. CASE FlowConnected
  <2> DEFINE s == flow.slot
             session == [account |-> walletAccount[flow.connector],
                         connector |-> flow.connector]
             v == Verification("user", s, session.account, flow.venue)
             upserted == IF UpsertChanges(stateRef, s)
                         THEN UpsertConnectedWallet(stateRef, s, session, flow.venue, "checking")
                         ELSE sessionState
             watched == WatchUpdate(upserted, s, session)
  <2>1. /\ flow.stage = "wallet"
        /\ session.account # None
        /\ sessionState' = SettleVerification(watched, v, "checking")
        /\ runtime' = [runtime EXCEPT ![s] = session]
        /\ watchers' = watchers \cup {s}
        /\ verifications' = verifications \cup {v}
        /\ flow' = [flow EXCEPT !.stage = "verifying"]
        /\ created' = IF flow.kind = "connect" THEN s ELSE created
        /\ outdated' \in BOOLEAN
        /\ UNCHANGED <<committed, stateRef, reconcile, walletAccount, clicks, switches,
                       reloads, confirmed>>
    BY <1>1, <1>4 DEF FlowConnected, SetsFromRef, ReadsRef, OverlapsReconcile, TypeOK
  <2>2. session.account \in Accounts
    BY <1>1, <1>3, <2>1 DEF TypeOK
  <2>3. session \in Runtime /\ session # NoSession
    BY <1>3, <2>1, <2>2 DEF Runtime, NoSession
  <2>4. v \in VerificationCall /\ v.by = "user"
    BY <1>3, <2>1, <2>2 DEF Verification, VerificationCall
  <2> HIDE DEF session, v
  <2>5. upserted \in Session /\ Vetted(upserted, confirmed)
    BY <1>2, <1>3, <2>1, <2>3, UpsertVetted
  <2> HIDE DEF upserted
  <2>6. watched \in Session /\ Vetted(watched, confirmed)
    BY <1>3, <2>1, <2>3, <2>5, WatchSlots, WatchVetted
  <2> HIDE DEF watched
  <2>7. sessionState' \in Session /\ Vetted(sessionState', confirmed)
    BY <2>1, <2>4, <2>6, SettleSlots, SettleVetted, EligibilityNames
  <2>8. TypeOK'
    <3>1. runtime' \in [SlotIds -> Runtime]
      BY <1>1, <2>1, <2>3 DEF TypeOK
    <3>2. created' \in 0 .. MaxSlotIds
      BY <1>1, <1>3, <2>1, LimitsAssumption DEF TypeOK, SlotIds
    <3>3. QED
      BY <1>1, <1>3, <2>1, <2>4, <2>7, <3>1, <3>2 DEF TypeOK
  <2>9. UserVerification'
    BY <1>3, <2>1, <2>4 DEF UserVerification
  <2>10. AllVetted'
    BY <1>1, <2>1, <2>7, QuietReconcileVetted DEF AllVetted
  <2>11. QED
    BY <1>1, <2>1, <2>8, <2>9, <2>10, QuietReconcile DEF IInv
<1>5. CASE FlowRefused
  <2>1. /\ flow.stage = "wallet"
        /\ flow' = [flow EXCEPT !.stage = "ended"]
        /\ sessionState' \in {sessionState, MarkWalletSlots(stateRef, {flow.slot}, "stale")}
        /\ outdated' \in BOOLEAN
        /\ UNCHANGED <<committed, stateRef, runtime, watchers, verifications, reconcile,
                       outerVars>>
    BY <1>1, <1>5 DEF FlowRefused, SetsFromRef, ReadsRef, OverlapsReconcile, TypeOK,
                      MarkWalletSlotStatus
  <2>2. sessionState' \in Session /\ Vetted(sessionState', confirmed)
    BY <1>2, <2>1, MarkSlots, MarkVetted
  <2>3. TypeOK'
    BY <1>1, <1>3, <2>1, <2>2 DEF TypeOK, outerVars, boundVars
  <2>4. UserVerification'
    BY <1>3, <2>1 DEF UserVerification
  <2>5. AllVetted'
    BY <1>1, <2>1, <2>2, QuietReconcileVetted DEF AllVetted, outerVars, boundVars
  <2>6. QED
    BY <1>1, <2>1, <2>3, <2>4, <2>5, QuietReconcile DEF IInv
<1>6. QED
  BY <1>4, <1>5

LEMMA VerificationSteps ==
  ASSUME IInv, VerificationStep
  PROVE  IInv'
<1>1. TypeOK /\ UserVerification /\ Awaited /\ AllVetted
  BY DEF IInv
<1>2. /\ reconcile' \in {reconcile, NoReconcile} => Awaited'
      /\ reconcile' \in {reconcile, NoReconcile} => reconcile' \in Reconciliation
      /\ \A C : /\ Vetted(reconcile.previous, C) /\ Vetted(reconcile.next, C)
                /\ reconcile' \in {reconcile, NoReconcile}
                => Vetted(reconcile'.previous, C) /\ Vetted(reconcile'.next, C)
  <2>1. CASE reconcile' = reconcile
    BY <1>1, <2>1, QuietReconcile DEF TypeOK
  <2>2. CASE reconcile' = NoReconcile
    BY <2>2, NoReconcileType, EmptyVetted DEF Awaited
  <2>3. QED
    BY <2>1, <2>2
<1>3. ASSUME NEW v \in verifications, VerificationSigns(v)
      PROVE  IInv'
  <2> DEFINE w == [v EXCEPT !.stage = "signed"]
  <2>1. v \in VerificationCall
    BY <1>1 DEF TypeOK
  <2>2. w \in VerificationCall /\ w.by = v.by
    BY <2>1 DEF VerificationCall
  <2>3. /\ verifications' = (verifications \ {v}) \cup {w}
        /\ UNCHANGED <<sessionState, committed, stateRef, runtime, watchers, flow, reconcile,
                       outerVars, outdated>>
    BY <1>3 DEF VerificationSigns
  <2> HIDE DEF w
  <2>4. TypeOK'
    BY <1>1, <2>2, <2>3 DEF TypeOK, outerVars, boundVars
  <2>5. UserVerification'
    BY <1>1, <2>2, <2>3 DEF UserVerification
  <2>6. AllVetted'
    BY <1>1, <2>3, QuietReconcileVetted DEF AllVetted, outerVars, boundVars
  <2>7. QED
    BY <1>1, <2>3, <2>4, <2>5, <2>6, QuietReconcile DEF IInv
<1>4. ASSUME NEW v \in verifications, NEW eligible \in BOOLEAN, VerificationAnswers(v, eligible)
      PROVE  IInv'
  <2> DEFINE eligibility == IF eligible THEN "tradable" ELSE "not-eligible"
             C == IF eligible THEN confirmed \cup {<<v.account, v.venue, reloads>>}
                  ELSE confirmed
  <2>1. /\ VerificationEnds(v, eligibility)
        /\ confirmed' = C
        /\ UNCHANGED <<committed, stateRef, runtime, watchers, walletAccount, created, clicks,
                       switches, reloads, outdated>>
    BY <1>4 DEF VerificationAnswers
  <2>2. eligibility \in Eligibilities
    BY DEF Eligibilities
  <2>3. v \in VerificationCall /\ reloads \in 0 .. MaxReloads
    BY <1>1 DEF TypeOK
  <2>4. C \subseteq Accounts \X Venues \X (0 .. MaxReloads)
    BY <1>1, <2>3 DEF TypeOK, VerificationCall
  <2>5. confirmed \subseteq C
    OBVIOUS
  <2>6. eligibility = "tradable" =>
          \E page \in 0 .. MaxReloads : <<v.account, v.venue, page>> \in C
    BY <2>3
  <2> HIDE DEF C, eligibility
  <2>7. Vetted(sessionState, C) /\ Vetted(committed, C) /\ Vetted(stateRef, C)
        /\ Vetted(reconcile.previous, C) /\ Vetted(reconcile.next, C)
    BY <1>1, <2>5, LaterVetted DEF AllVetted
  <2>8. /\ sessionState' \in Session
        /\ Vetted(sessionState', C)
        /\ verifications' \subseteq VerificationCall
        /\ flow' \in Flow
        /\ UserVerification'
        /\ reconcile' \in {reconcile, NoReconcile}
    BY <1>1, <2>1, <2>2, <2>6, <2>7, EndsStep
  <2>9. TypeOK'
    BY <1>1, <1>2, <2>1, <2>4, <2>8 DEF TypeOK
  <2>10. Vetted(reconcile'.previous, C) /\ Vetted(reconcile'.next, C)
    BY <1>2, <2>7, <2>8
  <2>11. AllVetted'
    BY <2>1, <2>7, <2>8, <2>10 DEF AllVetted, Vetted, VettedSlot
  <2>12. QED
    BY <1>2, <2>8, <2>9, <2>11 DEF IInv
<1>5. ASSUME NEW v \in verifications, VerificationFails(v)
      PROVE  IInv'
  <2>1. /\ VerificationEnds(v, "error")
        /\ UNCHANGED <<committed, stateRef, runtime, watchers, outerVars, outdated>>
    BY <1>5 DEF VerificationFails
  <2>2. /\ sessionState' \in Session
        /\ Vetted(sessionState', confirmed)
        /\ verifications' \subseteq VerificationCall
        /\ flow' \in Flow
        /\ UserVerification'
        /\ reconcile' \in {reconcile, NoReconcile}
    BY <1>1, <2>1, EndsStep, EligibilityNames DEF AllVetted
  <2>3. TypeOK'
    BY <1>1, <1>2, <2>1, <2>2 DEF TypeOK, outerVars, boundVars
  <2>4. Vetted(reconcile'.previous, confirmed) /\ Vetted(reconcile'.next, confirmed)
    BY <1>1, <1>2, <2>2 DEF AllVetted
  <2>5. AllVetted'
    BY <1>1, <2>1, <2>2, <2>4 DEF AllVetted, Vetted, VettedSlot, outerVars, boundVars
  <2>6. QED
    BY <1>2, <2>2, <2>3, <2>5 DEF IInv
<1>6. QED
  BY <1>3, <1>4, <1>5 DEF VerificationStep

\* The two answers for the awaited slot, up to the new "next" and "shown".
LEMMA ReconcileNext ==
  ASSUME TypeOK, UserVerification, Awaited, AllVetted, reconcile.stage = "running",
         NEW next \in Session, NEW shown \in Session, ReconcileContinues(next, shown),
         Vetted(next, confirmed), Vetted(shown, confirmed),
         runtime' \in [SlotIds -> Runtime], watchers' \subseteq SlotIds,
         UNCHANGED <<committed, stateRef, flow, outerVars, outdated>>
  PROVE  IInv'
<1>1. /\ sessionState' \in Session
      /\ reconcile' \in Reconciliation
      /\ Awaited'
      /\ verifications' \subseteq VerificationCall
      /\ \A w \in verifications' : w \in verifications \/ w.by = "reconcile"
      /\ reconcile'.previous \in {reconcile.previous, EmptySession}
      /\ Vetted(sessionState', confirmed) /\ Vetted(reconcile'.next, confirmed)
  BY ContinuesStep
<1>2. TypeOK'
  BY <1>1 DEF TypeOK, outerVars, boundVars
<1>3. UserVerification'
  BY <1>1 DEF UserVerification
<1>4. Vetted(reconcile'.previous, confirmed)
  BY <1>1, EmptyVetted DEF AllVetted
<1>5. AllVetted'
  BY <1>1, <1>4 DEF AllVetted, Vetted, VettedSlot, outerVars, boundVars
<1>6. QED
  BY <1>1, <1>2, <1>3, <1>5 DEF IInv

\* The slot the reconciliation reconnects has a typed session and slot.
LEMMA AwaitedSlot ==
  ASSUME TypeOK, Awaited, reconcile.stage = "running"
  PROVE  LET slot == reconcile.previous.slots[reconcile.awaiting]
         IN /\ reconcile.awaiting \in SlotIds
            /\ slot.status = "connected"
            /\ slot.connector \in Connectors
            /\ slot.venue \in Venues
            /\ walletAccount[slot.connector] \in Accounts \cup {None}
<1>1. /\ reconcile.previous \in Session
      /\ reconcile.awaiting \in Connected(reconcile.previous)
  BY DEF TypeOK, Reconciliation, Awaited
<1>2. /\ reconcile.awaiting \in SlotIds
      /\ reconcile.previous.slots[reconcile.awaiting].status = "connected"
      /\ reconcile.previous.slots[reconcile.awaiting] \in Slot
      /\ reconcile.previous.slots[reconcile.awaiting] # Absent
  BY <1>1, SessionParts DEF Connected
<1>3. QED
  BY <1>2, SlotTypes DEF TypeOK

LEMMA ReconcileSteps ==
  ASSUME IInv, ReconcileReconnects \/ ReconcileRefused
  PROVE  IInv'
<1>1. TypeOK /\ UserVerification /\ Awaited /\ AllVetted
  BY DEF IInv
<1>2. /\ sessionState \in Session /\ reconcile.next \in Session
      /\ Vetted(sessionState, confirmed) /\ Vetted(reconcile.next, confirmed)
  BY <1>1 DEF TypeOK, Reconciliation, AllVetted
<1>3. CASE ReconcileReconnects
  <2> DEFINE s == reconcile.awaiting
             slot == reconcile.previous.slots[s]
             session == [account |-> walletAccount[slot.connector],
                         connector |-> slot.connector]
             next == UpsertConnectedWallet(reconcile.next, s, session, slot.venue, "checking")
             shown == WatchUpdate(sessionState, s, runtime'[s])
  <2>1. /\ reconcile.stage = "running"
        /\ session.account # None
        /\ runtime' = IF reconcile.detached THEN runtime ELSE [runtime EXCEPT ![s] = session]
        /\ watchers' = watchers \cup {s}
        /\ ReconcileContinues(next, shown)
        /\ UNCHANGED <<committed, stateRef, flow, outerVars, outdated>>
    BY <1>3 DEF ReconcileReconnects, Reconnected
  <2>2. /\ s \in SlotIds /\ slot.connector \in Connectors /\ slot.venue \in Venues
        /\ walletAccount[slot.connector] \in Accounts
    BY <1>1, <2>1, AwaitedSlot
  <2>3. session \in Runtime /\ session # NoSession
    BY <2>1, <2>2 DEF Runtime, NoSession
  <2> HIDE DEF slot, session
  <2>4. runtime' \in [SlotIds -> Runtime]
    BY <1>1, <2>1, <2>3 DEF TypeOK
  <2>5. watchers' \subseteq SlotIds
    BY <1>1, <2>1, <2>2 DEF TypeOK
  <2>6. next \in Session /\ Vetted(next, confirmed)
    BY <1>2, <2>2, <2>3, UpsertVetted
  <2>7. shown \in Session /\ Vetted(shown, confirmed)
    BY <1>2, <2>2, <2>4, WatchSlots, WatchVetted
  <2> HIDE DEF s, next, shown
  <2>8. QED
    BY <1>1, <2>1, <2>4, <2>5, <2>6, <2>7, ReconcileNext
<1>4. CASE ReconcileRefused
  <2> DEFINE next == MarkWalletSlots(reconcile.next, {reconcile.awaiting}, "stale")
  <2>1. /\ reconcile.stage = "running"
        /\ ReconcileContinues(next, sessionState)
        /\ UNCHANGED <<committed, stateRef, runtime, watchers, flow, outerVars, outdated>>
    BY <1>4 DEF ReconcileRefused, MarkWalletSlotStatus
  <2>2. next \in Session /\ Vetted(next, confirmed)
    BY <1>2, MarkSlots, MarkVetted
  <2>3. runtime' \in [SlotIds -> Runtime] /\ watchers' \subseteq SlotIds
    BY <1>1, <2>1 DEF TypeOK
  <2> HIDE DEF next
  <2>4. QED
    BY <1>1, <1>2, <2>1, <2>2, <2>3, ReconcileNext
<1>5. QED
  BY <1>3, <1>4

LEMMA ProviderEventStep ==
  ASSUME IInv, NEW s \in SlotIds, NEW session \in Runtime, ProviderEvent(s, session)
  PROVE  IInv'
<1>1. TypeOK /\ UserVerification /\ Awaited /\ AllVetted
  BY DEF IInv
<1>2. /\ runtime' = [runtime EXCEPT ![s] = session]
      /\ sessionState' = WatchUpdate(sessionState, s, session)
      /\ outdated' \in BOOLEAN
      /\ UNCHANGED <<committed, stateRef, watchers, flow, verifications, reconcile, outerVars>>
  BY <1>1 DEF ProviderEvent, OverlapsReconcile, TypeOK
<1>3. sessionState' \in Session /\ Vetted(sessionState', confirmed)
  BY <1>1, <1>2, WatchSlots, WatchVetted DEF TypeOK, AllVetted
<1>4. TypeOK'
  BY <1>1, <1>2, <1>3 DEF TypeOK, outerVars, boundVars
<1>5. AllVetted'
  BY <1>1, <1>2, <1>3, QuietReconcileVetted DEF AllVetted, outerVars, boundVars
<1>6. QED
  BY <1>1, <1>2, <1>4, <1>5, QuietFlow, QuietReconcile DEF IInv

LEMMA WalletSteps ==
  ASSUME IInv, WalletStep
  PROVE  IInv'
<1>1. TypeOK /\ UserVerification /\ Awaited /\ AllVetted
  BY DEF IInv
<1>2. ASSUME NEW connector \in Connectors, NEW account \in Accounts \cup {None},
             WalletSwitches(connector, account)
      PROVE  IInv'
  <2>1. /\ walletAccount' = [walletAccount EXCEPT ![connector] = account]
        /\ switches < MaxSwitches /\ switches' = switches + 1
        /\ UNCHANGED <<sessionState, committed, stateRef, runtime, watchers, flow,
                       verifications, reconcile, created, clicks, reloads, confirmed, outdated>>
    BY <1>2 DEF WalletSwitches
  <2>2. switches' \in 0 .. MaxSwitches
    BY <1>1, <2>1, LimitsAssumption DEF TypeOK
  <2>3. walletAccount' \in [Connectors -> Accounts \cup {None}]
    BY <1>1, <2>1 DEF TypeOK
  <2>4. TypeOK'
    BY <1>1, <2>1, <2>2, <2>3 DEF TypeOK
  <2>5. AllVetted'
    BY <1>1, <2>1, QuietReconcileVetted DEF AllVetted
  <2>6. QED
    BY <1>1, <2>1, <2>4, <2>5, QuietFlow, QuietReconcile DEF IInv
<1>3. ASSUME NEW s \in SlotIds, AccountsChanged(s)
      PROVE  IInv'
  <2> DEFINE account == walletAccount[runtime[s].connector]
             session == IF account = None THEN NoSession
                        ELSE [runtime[s] EXCEPT !.account = account]
  <2>1. runtime[s] # NoSession /\ ProviderEvent(s, session)
    BY <1>3 DEF AccountsChanged
  <2>2. PICK a \in Accounts, connector \in Connectors :
          runtime[s] = [account |-> a, connector |-> connector]
    BY <1>1, <2>1 DEF TypeOK, Runtime
  <2>3. account \in Accounts \cup {None}
    BY <1>1, <2>2 DEF TypeOK
  <2>4. session \in Runtime
    BY <2>2, <2>3 DEF Runtime
  <2> HIDE DEF session
  <2>5. QED
    BY <2>1, <2>4, ProviderEventStep
<1>4. ASSUME NEW s \in SlotIds, ProviderDisconnects(s)
      PROVE  IInv'
  BY <1>4, ProviderEventStep DEF ProviderDisconnects, Runtime
<1>5. QED
  BY <1>2, <1>3, <1>4 DEF WalletStep

LEMMA PageSteps ==
  ASSUME IInv, Commit \/ EffectsFlush \/ UNCHANGED vars
  PROVE  IInv'
<1>1. TypeOK /\ UserVerification /\ Awaited /\ AllVetted
  BY DEF IInv
<1>2. /\ stateRef' = committed \/ stateRef' = stateRef
      /\ committed' = sessionState \/ committed' = committed
      /\ flow' = flow \/ (flow.stage = "ended" /\ flow' = NoFlow)
      /\ UNCHANGED <<sessionState, runtime, watchers, verifications, reconcile>>
      /\ UNCHANGED <<walletAccount, created, clicks, switches, reloads, confirmed, outdated>>
  BY DEF Commit, EffectsFlush, vars, outerVars, boundVars
<1>3. TypeOK'
  BY <1>1, <1>2 DEF TypeOK, outerVars, boundVars, Flow
<1>4. UserVerification'
  BY <1>1, <1>2 DEF UserVerification
<1>5. AllVetted'
  BY <1>1, <1>2, QuietReconcileVetted DEF AllVetted, outerVars, boundVars
<1>6. QED
  BY <1>1, <1>2, <1>3, <1>4, <1>5, QuietReconcile DEF IInv

\* What a reload reads back.
LEMMA ReloadedState ==
  ASSUME TypeOK, AllVetted
  PROVE  LET state == NormalizeState(stateRef)
         IN /\ state \in Session
            /\ Vetted(state, confirmed)
            /\ StartReconcile(state) \in Reconciliation
            /\ StartReconcile(state).stage = "running" =>
                 StartReconcile(state).awaiting \in Connected(StartReconcile(state).previous)
            /\ Vetted(StartReconcile(state).previous, confirmed)
            /\ Vetted(StartReconcile(state).next, confirmed)
<1> DEFINE state == NormalizeState(stateRef)
<1>1. stateRef \in Session /\ Vetted(stateRef, confirmed)
  BY DEF TypeOK, AllVetted
<1>2. /\ state \in Session
      /\ \A t \in SlotIds : Lessened(stateRef.slots[t], state.slots[t])
  BY <1>1, SessionParts, NormalizeSlots DEF Lessened, Kept
<1>3. Vetted(state, confirmed)
  BY <1>1, <1>2, LessenedVetted DEF Vetted
<1> HIDE DEF state
<1>4. CASE Connected(state) = {}
  BY <1>2, <1>3, <1>4, NoReconcileType, EmptyVetted DEF StartReconcile, state
<1>5. CASE Connected(state) # {}
  <2> DEFINE r == [stage |-> "running", previous |-> state, next |-> state,
                   awaiting |-> Newest(Connected(state)), detached |-> FALSE]
  <2>1. StartReconcile(state) = r
    BY <1>5 DEF StartReconcile
  <2>2. r.awaiting \in Connected(state) /\ r.awaiting \in SlotIds
    BY <1>5, NewestExists DEF Connected
  <2>3. r \in Reconciliation
    BY <1>2, <2>2 DEF Reconciliation
  <2>4. QED
    BY <1>2, <1>3, <2>1, <2>2, <2>3 DEF state
<1>6. QED
  BY <1>4, <1>5

LEMMA ReloadStep ==
  ASSUME IInv, Reload
  PROVE  IInv'
<1> DEFINE state == NormalizeState(stateRef)
<1>1. TypeOK /\ UserVerification /\ Awaited /\ AllVetted
  BY DEF IInv
<1>2. /\ reloads < MaxReloads /\ reloads' = reloads + 1
      /\ sessionState' = state /\ committed' = state /\ stateRef' = state
      /\ reconcile' = StartReconcile(state)
      /\ runtime' = [s \in SlotIds |-> NoSession]
      /\ watchers' = {} /\ flow' = NoFlow /\ verifications' = {} /\ outdated' = FALSE
      /\ UNCHANGED <<walletAccount, created, clicks, switches, confirmed>>
  BY DEF Reload, ClickCommits
<1>3. /\ state \in Session
      /\ Vetted(state, confirmed)
      /\ reconcile' \in Reconciliation
      /\ reconcile'.stage = "running" => reconcile'.awaiting \in Connected(reconcile'.previous)
      /\ Vetted(reconcile'.previous, confirmed)
      /\ Vetted(reconcile'.next, confirmed)
  BY <1>1, <1>2, ReloadedState
<1>4. reloads' \in 0 .. MaxReloads
  BY <1>1, <1>2, LimitsAssumption DEF TypeOK
<1>5. runtime' \in [SlotIds -> Runtime]
  BY <1>2 DEF Runtime
<1> HIDE DEF state
<1>6. TypeOK'
  BY <1>1, <1>2, <1>3, <1>4, <1>5 DEF TypeOK, Flow
<1>7. UserVerification'
  BY <1>2 DEF UserVerification
<1>8. Awaited'
  <2>1. reconcile'.awaiting \in Connected(reconcile'.previous)
        \/ reconcile'.stage # "running"
    BY <1>3
  <2>2. QED
    BY <2>1 DEF Awaited, Connected
<1>9. AllVetted'
  BY <1>2, <1>3 DEF AllVetted, Vetted, VettedSlot
<1>10. QED
  BY <1>6, <1>7, <1>8, <1>9 DEF IInv

LEMMA Invariance == Spec => []IInv
<1>1. IInv /\ [Next]_vars => IInv'
  BY UserSteps, FlowSteps, VerificationSteps, ReconcileSteps, WalletSteps, PageSteps, ReloadStep
  DEF Next
<1>2. QED
  BY <1>1, InitialInvariant, PTL DEF Spec

-----------------------------------------------------------------------------
(* Theorems *)

\* Every variable of the wallet manager keeps its type.
THEOREM TypeCorrectness == Spec => []TypeOK
<1>1. IInv => TypeOK
  BY DEF IInv
<1>2. QED
  BY <1>1, Invariance, PTL

\* A slot offered for trading has an account the BFF found eligible at the
\* slot's venue.
THEOREM TradableCorrect == Spec => []TradableWasConfirmed
<1>1. IInv => TradableWasConfirmed
  BY DEF IInv, AllVetted, Vetted, VettedSlot, TradableWasConfirmed, Tradable, Connected
<1>2. QED
  BY <1>1, Invariance, PTL

-----------------------------------------------------------------------------
(* While no callback works from an older state, the page follows its       *)
(* wallets: what a slot shows is what its runtime session has, a wallet    *)
(* serves one slot, every verdict is of this page or on its way, and only  *)
(* a reconnect revives a slot.                                             *)

Live(s) == s \in watchers /\ runtime[s] # NoSession

SessionOf(slot) == [account |-> slot.account, connector |-> slot.connector]

\* A connected slot is watched and has the session it shows.
Sessions ==
  \A t \in Connected(sessionState) :
    t \in watchers /\ runtime[t] = SessionOf(sessionState.slots[t])

\* An event can only reach a slot that is connected, so none revives one.
LiveAreConnected ==
  \A t \in Listed(sessionState) : Live(t) => t \in Connected(sessionState)

Exclusive ==
  \A t, u \in Connected(sessionState) :
    sessionState.slots[t].connector = sessionState.slots[u].connector => t = u

VerifiedHere ==
  \A t \in Tradable(sessionState) :
    <<sessionState.slots[t].account, sessionState.slots[t].venue, reloads>> \in confirmed

\* The verification w is of slot t with this account, or the reconciliation
\* will come to t after it.
Serves(w, t, account) ==
  \/ w.slot = t /\ w.account = account
  \/ /\ w.by = "reconcile" /\ t < w.slot /\ t \in Connected(reconcile.next)
     /\ reconcile.next.slots[t].account = account

CheckingIsServed ==
  \A t \in Connected(sessionState) :
    sessionState.slots[t].eligibility = "checking" =>
      \E w \in verifications : Serves(w, t, sessionState.slots[t].account)

\* A slot that is connected now and in the ref is not shown otherwise: a
\* reconnect cannot be clicked for it.
RefAgrees ==
  \A t \in SlotIds :
    /\ t \in Connected(sessionState) /\ t \in Connected(stateRef)
    /\ t \in Listed(committed)
    => t \in Connected(committed)

\* The wallet the dialog waits for serves no other slot, and the slot to be
\* reconnected is not connected.
FlowIsFree ==
  flow.stage = "wallet" =>
    /\ flow.kind = "reconnect" => flow.slot \notin Connected(sessionState)
    /\ \A t \in Connected(sessionState) :
         sessionState.slots[t].connector = flow.connector => t = flow.slot

Following ==
  /\ Sessions /\ LiveAreConnected /\ Exclusive /\ VerifiedHere
  /\ CheckingIsServed /\ RefAgrees /\ FlowIsFree

\* During the start-up nothing else has happened on the page.
NothingElse == ~reconcile.detached /\ flow = NoFlow /\ verifications = {}

\* The new state connects slots of the old one, on their wallets.
FromPrevious(next) ==
  \A t \in Connected(next) :
    /\ t \in Connected(reconcile.previous)
    /\ next.slots[t].connector = reconcile.previous.slots[t].connector

\* The slots from "first" on that are connected have their sessions and are
\* to be verified.
Reached(next, first, W, sessions) ==
  \A t \in Connected(next) :
    t >= first => /\ t \in W
                  /\ sessions[t] = SessionOf(next.slots[t])
                  /\ next.slots[t].eligibility = "checking"

\* A connected slot from "first" on and one after it have different wallets.
Apart(next, first) ==
  \A t, u \in Connected(next) :
    t >= first /\ u > t =>
      reconcile.previous.slots[t].connector # reconcile.previous.slots[u].connector

\* Only slots from "first" on are watched, and only connected ones.
WatchedFrom(next, first, W) ==
  \A t \in W : t >= first /\ (t \in Listed(next) => t \in Connected(next))

\* Nothing listed was disconnected since the start-up began.
StillConnected(state) ==
  \A t \in Connected(reconcile.previous) : t \in Listed(state) => t \in Connected(state)

\* The awaited slot has a wallet of its own among those after it.
AwaitedApart ==
  \A u \in Connected(reconcile.next) :
    u > reconcile.awaiting =>
      reconcile.previous.slots[reconcile.awaiting].connector
        # reconcile.previous.slots[u].connector

Starting ==
  /\ NothingElse
  /\ FromPrevious(reconcile.next)
  /\ Reached(reconcile.next, reconcile.awaiting + 1, watchers, runtime)
  /\ Apart(reconcile.next, reconcile.awaiting + 1)
  /\ AwaitedApart
  /\ WatchedFrom(reconcile.next, reconcile.awaiting + 1, watchers)
  /\ StillConnected(sessionState) /\ StillConnected(committed) /\ StillConnected(stateRef)

Starts == reconcile.stage = "running" /\ ~outdated

\* The reconciliation verifies one slot at a time.
OneReconciling ==
  \A v, w \in verifications :
    v.by = "reconcile" => /\ reconcile.stage = "verifying"
                          /\ w.by = "reconcile" => v = w

FInv == (Follows => Following) /\ (Starts => Starting) /\ OneReconciling

-----------------------------------------------------------------------------
(* More of the session store *)

LEMMA LessenedSame ==
  ASSUME NEW old, NEW new, Lessened(old, new), new.status = "connected"
  PROVE  new = old
  BY DEF Lessened, Kept, Absent

LEMMA KeptSame ==
  ASSUME NEW old, NEW new, Kept(old, new), new.status # "absent"
  PROVE  new = old
  BY DEF Kept, Absent

\* A verdict is given to the slot it is for while it is connected with the
\* account, and to no other.
LEMMA SettleExactly ==
  ASSUME NEW state \in Session, NEW v \in VerificationCall, NEW eligibility \in Eligibilities
  PROVE  LET new == SettleVerification(state, v, eligibility)
             slot == state.slots[v.slot]
         IN /\ new \in Session
            /\ \A t \in SlotIds \ {v.slot} : Kept(state.slots[t], new.slots[t])
            /\ Settles(slot, v.account) =>
                 new.slots[v.slot] \in {Absent, ConnectedSlot(slot.account, v.venue,
                                                              slot.connector, eligibility)}
            /\ ~Settles(slot, v.account) => new.slots[v.slot] = slot
<1> DEFINE slot == state.slots[v.slot]
<1>1. v.slot \in SlotIds /\ v.account \in Accounts /\ v.venue \in Venues
  BY DEF VerificationCall
<1>2. slot \in Slot
  BY <1>1, SessionParts
<1>3. CASE Settles(slot, v.account)
  <2>1. slot.account = v.account /\ slot.connector \in Connectors
    BY <1>2, <1>3, SlotTypes DEF Settles, Absent
  <2>2. SettleVerification(state, v, eligibility)
        = UpsertConnectedWallet(state, v.slot,
            [account |-> v.account, connector |-> slot.connector], v.venue, eligibility)
    BY <1>3 DEF SettleVerification
  <2> HIDE DEF slot
  <2>3. QED
    BY <1>1, <1>3, <2>1, <2>2, UpsertSlots DEF slot
<1>4. CASE ~Settles(slot, v.account)
  BY <1>4 DEF SettleVerification, Kept
<1>5. QED
  BY <1>3, <1>4

\* A state in which every slot is kept, or stays connected with its account
\* and its wallet.
Holds(old, new) ==
  \A t \in SlotIds :
    \/ Kept(old.slots[t], new.slots[t])
    \/ /\ old.slots[t].status = "connected" /\ new.slots[t].status = "connected"
       /\ new.slots[t].account = old.slots[t].account
       /\ new.slots[t].connector = old.slots[t].connector

LEMMA SettleHolds ==
  ASSUME NEW state \in Session, NEW v \in VerificationCall, NEW eligibility \in Eligibilities
  PROVE  Holds(state, SettleVerification(state, v, eligibility))
<1> DEFINE new == SettleVerification(state, v, eligibility)
           slot == state.slots[v.slot]
<1>1. \A t \in SlotIds \ {v.slot} : Kept(state.slots[t], new.slots[t])
  BY SettleExactly
<1>2. CASE Settles(slot, v.account)
  <2>1. new.slots[v.slot] \in {Absent, ConnectedSlot(slot.account, v.venue,
                                                     slot.connector, eligibility)}
    BY <1>2, SettleExactly
  <2>2. slot.status = "connected"
    BY <1>2 DEF Settles
  <2>3. QED
    BY <1>1, <2>1, <2>2 DEF Holds, Kept, ConnectedSlot
<1>3. CASE ~Settles(slot, v.account)
  <2>1. new.slots[v.slot] = slot
    BY <1>3, SettleExactly
  <2>2. QED
    BY <1>1, <2>1 DEF Holds, Kept
<1>4. QED
  BY <1>2, <1>3

-----------------------------------------------------------------------------
(* Parts of a step that several actions share *)

\* No slot becomes connected, and none that stays so changes its wallet.
Stays ==
  \A t \in Connected(sessionState)' :
    /\ t \in Connected(sessionState)
    /\ sessionState'.slots[t].connector = sessionState.slots[t].connector

\* What is shown and what the ref holds change only as commits change them.
CommitsAre ==
  \/ UNCHANGED <<committed, stateRef>>
  \/ committed' = stateRef'
  \/ committed' = sessionState'

LEMMA StaysFollows ==
  ASSUME Exclusive, RefAgrees, FlowIsFree, Stays, CommitsAre
  PROVE  /\ Exclusive'
         /\ RefAgrees'
         /\ flow' = flow \/ flow'.stage # "wallet" => FlowIsFree'
<1>1. Exclusive'
  BY DEF Exclusive, Stays
<1>2. RefAgrees'
  <2>1. CASE UNCHANGED <<committed, stateRef>>
    BY <2>1 DEF RefAgrees, Stays, Connected, Listed
  <2>2. CASE committed' = stateRef'
    BY <2>2 DEF RefAgrees, Connected
  <2>3. CASE committed' = sessionState'
    BY <2>3 DEF RefAgrees, Connected
  <2>4. QED
    BY <2>1, <2>2, <2>3 DEF CommitsAre
<1>3. flow' = flow \/ flow'.stage # "wallet" => FlowIsFree'
  BY DEF FlowIsFree, Stays
<1>4. QED
  BY <1>1, <1>2, <1>3

\* Running verifications go on, whatever their stage.
CallsGoOn ==
  \A w \in verifications : \E x \in verifications' :
    x.by = w.by /\ x.slot = w.slot /\ x.account = w.account

\* A step that only takes away: slots are kept or lessened, and one that is
\* still live is kept.
Lessens ==
  /\ \A t \in SlotIds : Lessened(sessionState.slots[t], sessionState'.slots[t])
  /\ \A t \in watchers' :
       /\ t \in watchers /\ runtime'[t] \in {runtime[t], NoSession}
       /\ Live(t) => Kept(sessionState.slots[t], sessionState'.slots[t])
  /\ \A t \in Connected(sessionState)' :
       t \in watchers => t \in watchers' /\ runtime'[t] = runtime[t]
  /\ CallsGoOn
  /\ reconcile'.next = reconcile.next
  /\ UNCHANGED <<reloads, confirmed>>

LEMMA LessensFollows ==
  ASSUME Following, Lessens, CommitsAre, sessionState \in Session,
         flow' = flow \/ flow'.stage # "wallet" \/ FlowIsFree'
  PROVE  Following'
<1>1. /\ Sessions /\ LiveAreConnected /\ Exclusive /\ VerifiedHere
      /\ CheckingIsServed /\ RefAgrees /\ FlowIsFree
  BY DEF Following
<1>2. ASSUME NEW t \in Connected(sessionState)'
      PROVE  t \in Connected(sessionState) /\ sessionState'.slots[t] = sessionState.slots[t]
  <2>1. t \in SlotIds /\ sessionState'.slots[t].status = "connected"
    BY DEF Connected
  <2>2. sessionState'.slots[t] = sessionState.slots[t]
    BY <2>1, LessenedSame DEF Lessens
  <2>3. QED
    BY <2>1, <2>2 DEF Connected
<1>3. Stays
  BY <1>2 DEF Stays
<1>4. Sessions'
  BY <1>1, <1>2 DEF Sessions, Lessens
<1>5. LiveAreConnected'
  <2> SUFFICES ASSUME NEW t \in Listed(sessionState)', Live(t)'
               PROVE  t \in Connected(sessionState)'
    BY DEF LiveAreConnected
  <2>1. t \in watchers' /\ runtime'[t] # NoSession
    BY DEF Live
  <2>2. Live(t)
    BY <2>1 DEF Live, Lessens
  <2>3. t \in SlotIds /\ sessionState'.slots[t].status # "absent"
    BY DEF Listed
  <2>4. sessionState'.slots[t] = sessionState.slots[t]
    BY <2>1, <2>2, <2>3, KeptSame DEF Lessens
  <2>5. t \in Connected(sessionState)
    BY <1>1, <2>2, <2>3, <2>4 DEF LiveAreConnected, Listed
  <2>6. QED
    BY <2>3, <2>4, <2>5 DEF Connected
<1>6. VerifiedHere'
  <2> SUFFICES ASSUME NEW t \in Tradable(sessionState)'
               PROVE  <<sessionState'.slots[t].account, sessionState'.slots[t].venue, reloads'>>
                        \in confirmed'
    BY DEF VerifiedHere
  <2>1. t \in Connected(sessionState)' /\ sessionState'.slots[t].eligibility = "tradable"
    BY DEF Tradable
  <2>2. t \in Tradable(sessionState)
    BY <1>2, <2>1 DEF Tradable
  <2>3. QED
    BY <1>1, <1>2, <2>1, <2>2 DEF VerifiedHere, Lessens
<1>7. CheckingIsServed'
  <2> SUFFICES ASSUME NEW t \in Connected(sessionState)',
                      sessionState'.slots[t].eligibility = "checking"
               PROVE  \E x \in verifications' : Serves(x, t, sessionState.slots[t].account)'
    BY DEF CheckingIsServed
  <2>1. PICK w \in verifications : Serves(w, t, sessionState.slots[t].account)
    BY <1>1, <1>2 DEF CheckingIsServed
  <2>2. PICK x \in verifications' : x.by = w.by /\ x.slot = w.slot /\ x.account = w.account
    BY DEF Lessens, CallsGoOn
  <2>3. Serves(x, t, sessionState.slots[t].account)'
    BY <1>2, <2>1, <2>2 DEF Serves, Lessens, Connected
  <2>4. QED
    BY <2>3
<1>8. QED
  BY <1>1, <1>3, <1>4, <1>5, <1>6, <1>7, StaysFollows DEF Following

-----------------------------------------------------------------------------
(* The user's clicks *)

LEMMA LastingCalls ==
  ASSUME UNCHANGED verifications
  PROVE  CallsGoOn
  BY DEF CallsGoOn

\* The store's functions that only take away.
LEMMA TakenAway ==
  ASSUME NEW state \in Session, NEW s \in SlotIds
  PROVE  /\ \A t \in SlotIds : Lessened(state.slots[t], SetActiveWalletSlot(state, s).slots[t])
         /\ \A t \in SlotIds : Kept(state.slots[t], SetActiveWalletSlot(state, s).slots[t])
         /\ \A t \in SlotIds : Kept(state.slots[t], RemoveWalletSlot(state, s).slots[t])
         /\ \A t \in SlotIds : Lessened(state.slots[t], RemoveWalletSlot(state, s).slots[t])
         /\ RemoveWalletSlot(state, s).slots[s] = Absent
  BY ActivateSlots, RemoveSlots DEF Lessened

\* A click that starts an action of the dialog, for a wallet and a slot that
\* are free.
LEMMA StartClick ==
  ASSUME IInv, Following, ~outdated', ReadsRef, ClickCommits(sessionState),
         UNCHANGED <<sessionState, runtime, watchers, verifications, reconcile, boundVars>>,
         FlowIsFree'
  PROVE  Following'
<1>1. sessionState \in Session
  BY DEF IInv, TypeOK
<1>2. CommitsAre
  BY DEF CommitsAre, ClickCommits
<1>3. Lessens
  BY LastingCalls DEF Lessens, Lessened, Kept, boundVars
<1>4. QED
  BY <1>1, <1>2, <1>3, LessensFollows

LEMMA ClicksFollow ==
  ASSUME IInv, Following, UserStep, ~outdated'
  PROVE  Following'
<1>1. /\ sessionState \in Session /\ stateRef \in Session
      /\ \A t \in SlotIds : Kept(sessionState.slots[t], sessionState.slots[t])
  BY DEF IInv, TypeOK, Kept
<1>2. ReadsRef => stateRef = sessionState
  BY DEF ReadsRef
<1>3. flow = NoFlow => flow.stage # "wallet"
  BY DEF NoFlow
<1>4. UserActs => flow = NoFlow
  BY DEF UserActs
<1>5. ASSUME NEW connector \in Connectors, NEW venue \in Venues, ClickConnect(connector, venue)
      PROVE  Following'
  <2>1. /\ ReadsRef /\ ClickCommits(sessionState)
        /\ ~IsConnectorLocked(stateRef, connector, 0)
        /\ flow'.kind = "connect" /\ flow'.connector = connector
        /\ UNCHANGED <<sessionState, runtime, watchers, verifications, reconcile, boundVars>>
    BY <1>5 DEF ClickConnect
  <2>2. \A t \in Connected(sessionState) : sessionState.slots[t].connector # connector
    BY <1>2, <2>1 DEF IsConnectorLocked, Connected, SlotIds
  <2>3. FlowIsFree'
    BY <2>1, <2>2 DEF FlowIsFree, Connected
  <2>4. QED
    BY <2>1, <2>3, StartClick
<1>6. ASSUME NEW s \in SlotIds, ClickReconnect(s)
      PROVE  Following'
  <2>1. /\ ReadsRef /\ ClickCommits(sessionState)
        /\ s \in Listed(committed) /\ s \notin Connected(committed)
        /\ ~IsConnectorLocked(stateRef, stateRef.slots[s].connector, s)
        /\ flow'.slot = s /\ flow'.connector = stateRef.slots[s].connector
        /\ UNCHANGED <<sessionState, runtime, watchers, verifications, reconcile, boundVars>>
    BY <1>6 DEF ClickReconnect
  <2>2. s \notin Connected(sessionState)
    BY <1>2, <2>1 DEF Following, RefAgrees
  <2>3. \A t \in Connected(sessionState) :
          sessionState.slots[t].connector = flow'.connector => t = s
    BY <1>2, <2>1 DEF IsConnectorLocked
  <2>4. FlowIsFree'
    BY <2>1, <2>2, <2>3 DEF FlowIsFree, Connected
  <2>5. QED
    BY <2>1, <2>4, StartClick
<1>7. ASSUME NEW s \in SlotIds, ClickSetActive(s)
      PROVE  Following'
  <2>1. /\ sessionState' = SetActiveWalletSlot(stateRef, s)
        /\ stateRef = sessionState
        /\ committed' = stateRef'
        /\ UNCHANGED <<runtime, watchers, flow, verifications, reconcile, boundVars>>
    BY <1>2, <1>7 DEF ClickSetActive, ClickSetsFromRef, SetsFromRef, ClickCommits
  <2>2. \A t \in SlotIds : /\ Lessened(sessionState.slots[t], sessionState'.slots[t])
                           /\ Kept(sessionState.slots[t], sessionState'.slots[t])
    BY <1>1, <2>1, TakenAway
  <2>3. watchers \subseteq SlotIds
    BY DEF IInv, TypeOK
  <2>4. CallsGoOn
    BY <2>1, LastingCalls
  <2>5. Lessens
    BY <2>1, <2>2, <2>3, <2>4 DEF Lessens, boundVars
  <2>6. QED
    BY <1>1, <2>1, <2>5, LessensFollows DEF CommitsAre
<1>8. ASSUME NEW s \in SlotIds, ClickDisconnect(s)
      PROVE  Following'
  <2>1. /\ sessionState' = MarkWalletSlots(sessionState, {s}, "disconnected")
        /\ committed' = stateRef'
        /\ watchers' = watchers \ {s}
        /\ runtime' = Dropped({s})
        /\ UNCHANGED <<flow, verifications, reconcile, boundVars>>
    BY <1>8 DEF ClickDisconnect, MarkWalletSlotStatus, ClickCommits, Unwatched
  <2>2. /\ \A t \in SlotIds : Lessened(sessionState.slots[t], sessionState'.slots[t])
        /\ sessionState'.slots[s].status # "connected"
        /\ \A t \in SlotIds \ {s} : Kept(sessionState.slots[t], sessionState'.slots[t])
    BY <1>1, <2>1, MarkSlots
  <2>3. \A t \in SlotIds \ {s} : runtime'[t] = runtime[t]
    BY <2>1 DEF Dropped
  <2>4. watchers \subseteq SlotIds
    BY DEF IInv, TypeOK
  <2>5. Lessens
    BY <2>1, <2>2, <2>3, <2>4, LastingCalls DEF Lessens, boundVars, Connected
  <2>6. QED
    BY <1>1, <2>1, <2>5, LessensFollows DEF CommitsAre
<1>9. ASSUME NEW s \in SlotIds, ClickRemove(s)
      PROVE  Following'
  <2>1. /\ sessionState' = IF s \in Listed(stateRef) THEN RemoveWalletSlot(stateRef, s)
                           ELSE sessionState
        /\ stateRef = sessionState
        /\ committed' = stateRef'
        /\ watchers' = watchers \ {s}
        /\ runtime' = Dropped({s})
        /\ reconcile'.next = reconcile.next
        /\ UNCHANGED <<flow, verifications, boundVars>>
    <3>1. reconcile' = ReconcileWithout({s})
      BY <1>9 DEF ClickRemove
    <3>2. reconcile'.next = reconcile.next
      BY <3>1 DEF ReconcileWithout, IInv, TypeOK, Reconciliation
    <3>3. QED
      BY <1>2, <1>9, <3>2
      DEF ClickRemove, ClickSetsFromRef, SetsFromRef, ClickCommits, Unwatched
  <2>2. /\ \A t \in SlotIds : Kept(sessionState.slots[t], sessionState'.slots[t])
        /\ sessionState'.slots[s].status # "connected"
    <3>1. CASE s \in Listed(stateRef)
      BY <1>1, <2>1, <3>1, TakenAway DEF Absent
    <3>2. CASE s \notin Listed(stateRef)
      BY <1>1, <2>1, <3>2 DEF Listed
    <3>3. QED
      BY <3>1, <3>2
  <2>3. \A t \in SlotIds \ {s} : runtime'[t] = runtime[t]
    BY <2>1 DEF Dropped
  <2>4. watchers \subseteq SlotIds
    BY DEF IInv, TypeOK
  <2>5. Lessens
    BY <2>1, <2>2, <2>3, <2>4, LastingCalls DEF Lessens, Lessened, boundVars, Connected
  <2>6. QED
    BY <1>1, <2>1, <2>5, LessensFollows DEF CommitsAre
<1>10. CASE ClickClearAll
  <2>1. /\ sessionState' = EmptySession
        /\ committed' = stateRef'
        /\ watchers' = {}
        /\ reconcile'.next = reconcile.next
        /\ UNCHANGED <<flow, verifications, boundVars>>
    <3>1. reconcile' = ReconcileWithout(Listed(stateRef))
      BY <1>10 DEF ClickClearAll
    <3>2. reconcile'.next = reconcile.next
      BY <3>1 DEF ReconcileWithout, IInv, TypeOK, Reconciliation
    <3>3. QED
      BY <1>10, <3>2 DEF ClickClearAll, ClickSetsFromRef, SetsFromRef, ClickCommits
  <2>2. \A t \in SlotIds : sessionState'.slots[t] = Absent
    BY <2>1, EmptySlots
  <2>3. Lessens
    BY <2>1, <2>2, LastingCalls DEF Lessens, Lessened, Kept, boundVars, Connected, Absent
  <2>4. QED
    BY <1>1, <2>1, <2>3, LessensFollows DEF CommitsAre
<1>11. QED
  BY <1>5, <1>6, <1>7, <1>8, <1>9, <1>10 DEF UserStep

-----------------------------------------------------------------------------
(* The wallet's answers and events, and the verifications *)

LEMMA RefusalFollows ==
  ASSUME IInv, Following, FlowRefused, ~outdated'
  PROVE  Following'
<1>1. sessionState \in Session /\ flow \in Flow
  BY DEF IInv, TypeOK
<1>2. /\ flow.stage = "wallet"
      /\ flow' = [flow EXCEPT !.stage = "ended"]
      /\ UNCHANGED <<committed, stateRef, runtime, watchers, verifications, reconcile, outerVars>>
  BY DEF FlowRefused
<1>3. flow'.stage # "wallet"
  BY <1>1, <1>2 DEF Flow, NoFlow
<1>4. watchers \subseteq SlotIds /\ CallsGoOn
  BY <1>2, LastingCalls DEF IInv, TypeOK
<1>5. CASE UNCHANGED sessionState
  <2>1. Lessens
    BY <1>2, <1>4, <1>5 DEF Lessens, Lessened, Kept, outerVars, boundVars
  <2>2. QED
    BY <1>1, <1>2, <1>3, <2>1, LessensFollows DEF CommitsAre
<1>6. CASE ~UNCHANGED sessionState
  <2>1. /\ sessionState' = MarkWalletSlots(sessionState, {flow.slot}, "stale")
        /\ flow.kind = "reconnect" /\ flow.slot \in Listed(sessionState)
    BY <1>6 DEF FlowRefused, SetsFromRef, ReadsRef, MarkWalletSlotStatus
  <2>2. /\ \A t \in SlotIds : Lessened(sessionState.slots[t], sessionState'.slots[t])
        /\ \A t \in SlotIds \ {flow.slot} :
             Kept(sessionState.slots[t], sessionState'.slots[t])
    BY <1>1, <2>1, MarkSlots
  <2>3. ~Live(flow.slot)
    BY <1>2, <2>1 DEF Following, FlowIsFree, LiveAreConnected
  <2>4. Lessens
    BY <1>2, <1>4, <2>2, <2>3 DEF Lessens, outerVars, boundVars
  <2>5. QED
    BY <1>1, <1>2, <1>3, <2>4, LessensFollows DEF CommitsAre
<1>7. QED
  BY <1>5, <1>6

\* Steps after which every slot is as it was.
LEMMA QuietFollows ==
  ASSUME IInv, Following, UNCHANGED <<sessionState, watchers, runtime, reloads, confirmed>>,
         reconcile'.next = reconcile.next, CallsGoOn, CommitsAre,
         flow' = flow \/ flow'.stage # "wallet"
  PROVE  Following'
<1>1. sessionState \in Session /\ watchers \subseteq SlotIds
  BY DEF IInv, TypeOK
<1>2. Lessens
  BY <1>1 DEF Lessens, Lessened, Kept
<1>3. QED
  BY <1>1, <1>2, LessensFollows

LEMMA SigningFollows ==
  ASSUME IInv, Following, NEW v \in verifications, VerificationSigns(v)
  PROVE  Following'
<1> DEFINE x == [v EXCEPT !.stage = "signed"]
<1>1. v \in VerificationCall
  BY DEF IInv, TypeOK
<1>2. x.by = v.by /\ x.slot = v.slot /\ x.account = v.account
  BY <1>1 DEF VerificationCall
<1>3. /\ verifications' = (verifications \ {v}) \cup {x}
      /\ UNCHANGED <<sessionState, committed, stateRef, runtime, watchers, flow, reconcile,
                     reloads, confirmed>>
  BY DEF VerificationSigns, outerVars, boundVars
<1> HIDE DEF x
<1>4. CallsGoOn
  BY <1>2, <1>3 DEF CallsGoOn
<1>5. QED
  BY <1>3, <1>4, QuietFollows DEF CommitsAre

LEMMA PageFollows ==
  ASSUME IInv, Following,
         \/ Commit \/ EffectsFlush \/ UNCHANGED vars
         \/ \E connector \in Connectors, account \in Accounts \cup {None} :
              WalletSwitches(connector, account)
  PROVE  Following'
<1>1. /\ UNCHANGED <<sessionState, watchers, runtime, reloads, confirmed, reconcile,
                     verifications>>
      /\ CommitsAre
      /\ flow' \in {flow, NoFlow}
  <2>1. CASE Commit
    BY <2>1 DEF Commit, outerVars, boundVars, CommitsAre
  <2>2. CASE EffectsFlush
    BY <2>2 DEF EffectsFlush, outerVars, boundVars, CommitsAre
  <2>3. CASE UNCHANGED vars
    BY <2>3 DEF vars, CommitsAre
  <2>4. ASSUME NEW connector \in Connectors, NEW account \in Accounts \cup {None},
               WalletSwitches(connector, account)
        PROVE  /\ UNCHANGED <<sessionState, watchers, runtime, reloads, confirmed, reconcile,
                              verifications, flow>>
               /\ CommitsAre
    BY <2>4 DEF WalletSwitches, CommitsAre
  <2>5. QED
    BY <2>1, <2>2, <2>3, <2>4
<1>2. flow' = flow \/ flow'.stage # "wallet"
  BY <1>1 DEF NoFlow
<1>3. QED
  BY <1>1, <1>2, LastingCalls, QuietFollows

\* An event of a slot's provider: the slot is connected, and follows it.
LEMMA EventFollows ==
  ASSUME IInv, Following, NEW s \in SlotIds, NEW session \in Runtime,
         session = NoSession \/ session.connector = runtime[s].connector,
         ProviderEvent(s, session)
  PROVE  Following'
<1> DEFINE old == sessionState.slots[s]
           new == sessionState'.slots[s]
<1>1. /\ Sessions /\ LiveAreConnected /\ Exclusive /\ VerifiedHere
      /\ CheckingIsServed /\ RefAgrees /\ FlowIsFree
      /\ sessionState \in Session /\ watchers \subseteq SlotIds
      /\ runtime \in [SlotIds -> Runtime]
  BY DEF Following, IInv, TypeOK
<1>2. /\ Live(s)
      /\ runtime' = [runtime EXCEPT ![s] = session]
      /\ sessionState' = WatchUpdate(sessionState, s, session)
      /\ UNCHANGED <<committed, stateRef, watchers, flow, verifications, reconcile, reloads,
                     confirmed>>
  BY DEF ProviderEvent, Live, outerVars, boundVars
<1>3. /\ \A t \in SlotIds \ {s} : Kept(sessionState.slots[t], sessionState'.slots[t])
      /\ session = NoSession => new.status # "connected"
      /\ session # NoSession =>
           \/ new = Absent
           \/ \E eligibility \in Eligibilities :
                /\ new = ConnectedSlot(session.account, old.venue, session.connector, eligibility)
                /\ eligibility # "unknown" => /\ session.account = old.account
                                              /\ eligibility = old.eligibility
      /\ old = Absent => new = Absent
  <2>1. old = Absent => Lessened(old, new)
    BY <1>1, <1>2, WatchSlots
  <2>2. old = Absent => new = Absent
    BY <2>1 DEF Lessened, Kept
  <2>3. \A t \in SlotIds \ {s} : Kept(sessionState.slots[t], sessionState'.slots[t])
    BY <1>1, <1>2, WatchSlots
  <2>4. session = NoSession => new.status # "connected"
    BY <1>1, <1>2, WatchSlots
  <2>5. session # NoSession =>
          \/ new = Absent
          \/ \E eligibility \in Eligibilities :
               /\ new = ConnectedSlot(session.account, old.venue, session.connector, eligibility)
               /\ eligibility # "unknown" => /\ session.account = old.account
                                             /\ eligibility = old.eligibility
    BY <1>1, <1>2, WatchSlots
  <2>6. QED
    BY <2>2, <2>3, <2>4, <2>5
<1>4. old # Absent => /\ s \in Connected(sessionState)
                      /\ runtime[s] = SessionOf(old)
  BY <1>1, <1>2, SessionParts DEF LiveAreConnected, Sessions
<1>5. ASSUME new.status = "connected"
      PROVE  /\ s \in Connected(sessionState)
             /\ session # NoSession
             /\ new.account = session.account
             /\ new.venue = old.venue
             /\ new.connector = session.connector
             /\ session.connector = old.connector
             /\ new.eligibility # "unknown" =>
                  new.account = old.account /\ new.eligibility = old.eligibility
  <2>1. session # NoSession /\ new # Absent /\ old # Absent
    BY <1>3, <1>5 DEF Absent
  <2>2. PICK eligibility \in Eligibilities :
          /\ new = ConnectedSlot(session.account, old.venue, session.connector, eligibility)
          /\ eligibility # "unknown" => /\ session.account = old.account
                                        /\ eligibility = old.eligibility
    BY <1>3, <2>1
  <2> HIDE DEF new, old
  <2>3. /\ new.account = session.account /\ new.venue = old.venue
        /\ new.connector = session.connector /\ new.eligibility = eligibility
    BY <2>2 DEF ConnectedSlot
  <2>4. runtime[s].connector = old.connector
    BY <1>4, <2>1 DEF SessionOf
  <2>5. QED
    BY <1>4, <2>1, <2>2, <2>3, <2>4
<1>6. ASSUME NEW t \in Connected(sessionState)', t # s
      PROVE  t \in Connected(sessionState) /\ sessionState'.slots[t] = sessionState.slots[t]
  BY <1>3, <1>6, KeptSame DEF Connected
<1>7. \A t \in Connected(sessionState)' : t = s => new.status = "connected"
  BY DEF Connected
<1> HIDE DEF old, new
<1>8. Stays
  BY <1>5, <1>6, <1>7 DEF Stays, old, new
<1>9. Sessions'
  <2> SUFFICES ASSUME NEW t \in Connected(sessionState)'
               PROVE  t \in watchers' /\ runtime'[t] = SessionOf(sessionState'.slots[t])
    BY DEF Sessions
  <2>1. CASE t = s
    <3>1. session = [account |-> session.account, connector |-> session.connector]
      BY DEF Runtime, NoSession
    <3>2. runtime'[s] = session
      BY <1>1, <1>2
    <3>3. QED
      BY <1>2, <1>5, <1>7, <2>1, <3>1, <3>2 DEF SessionOf, Live, new
  <2>2. CASE t # s
    BY <1>1, <1>2, <1>6, <2>2 DEF Sessions
  <2>3. QED
    BY <2>1, <2>2
<1>10. LiveAreConnected'
  <2> SUFFICES ASSUME NEW t \in Listed(sessionState)', Live(t)'
               PROVE  t \in Connected(sessionState)'
    BY DEF LiveAreConnected
  <2>1. t \in SlotIds /\ sessionState'.slots[t].status # "absent"
    BY DEF Listed
  <2>2. CASE t = s
    <3>1. session # NoSession
      BY <1>1, <1>2, <2>2 DEF Live
    <3>2. new.status = "connected"
      <4>1. new.status # "absent"
        BY <2>1, <2>2 DEF new
      <4>2. QED
        BY <1>3, <3>1, <4>1 DEF ConnectedSlot, Absent
    <3>3. QED
      BY <2>2, <3>2 DEF Connected, new
  <2>3. CASE t # s
    <3>1. sessionState'.slots[t] = sessionState.slots[t]
      BY <1>3, <2>1, <2>3, KeptSame
    <3>2. t \in Listed(sessionState) /\ Live(t)
      BY <1>1, <1>2, <2>1, <2>3, <3>1 DEF Listed, Live
    <3>3. QED
      BY <1>1, <3>1, <3>2 DEF LiveAreConnected, Connected
  <2>4. QED
    BY <2>2, <2>3
<1>11. VerifiedHere'
  <2> SUFFICES ASSUME NEW t \in Tradable(sessionState)'
               PROVE  <<sessionState'.slots[t].account, sessionState'.slots[t].venue, reloads>>
                        \in confirmed
    BY <1>2 DEF VerifiedHere
  <2>1. t \in Connected(sessionState)' /\ sessionState'.slots[t].eligibility = "tradable"
    BY DEF Tradable
  <2>2. /\ t \in Tradable(sessionState)
        /\ sessionState'.slots[t].account = sessionState.slots[t].account
        /\ sessionState'.slots[t].venue = sessionState.slots[t].venue
    BY <1>5, <1>6, <1>7, <2>1 DEF Tradable, old, new
  <2>3. QED
    BY <1>1, <2>2 DEF VerifiedHere
<1>12. CheckingIsServed'
  <2> SUFFICES ASSUME NEW t \in Connected(sessionState)',
                      sessionState'.slots[t].eligibility = "checking"
               PROVE  \E x \in verifications' : Serves(x, t, sessionState.slots[t].account)'
    BY DEF CheckingIsServed
  <2>1. /\ t \in Connected(sessionState) /\ sessionState.slots[t].eligibility = "checking"
        /\ sessionState'.slots[t].account = sessionState.slots[t].account
    BY <1>5, <1>6, <1>7 DEF old, new
  <2>2. PICK w \in verifications : Serves(w, t, sessionState.slots[t].account)
    BY <1>1, <2>1 DEF CheckingIsServed
  <2>3. Serves(w, t, sessionState.slots[t].account)'
    BY <1>2, <2>1, <2>2 DEF Serves, Connected
  <2>4. QED
    BY <1>2, <2>3
<1>13. QED
  BY <1>1, <1>2, <1>8, <1>9, <1>10, <1>11, <1>12, StaysFollows DEF Following, CommitsAre

\* The slots after the wallet's answer: the one of the flow has the session
\* and is being verified, unless there was no room for it.
LEMMA AnsweredSlots ==
  ASSUME IInv, FlowConnected, stateRef = sessionState
  PROVE  LET session == [account |-> walletAccount[flow.connector],
                         connector |-> flow.connector]
             new == sessionState'.slots[flow.slot]
         IN /\ session # NoSession
            /\ flow.slot \in SlotIds
            /\ \A t \in SlotIds \ {flow.slot} : Kept(sessionState.slots[t], sessionState'.slots[t])
            /\ new # Absent => /\ new.status = "connected"
                               /\ SessionOf(new) = session
                               /\ new.eligibility \in {"unknown", "checking"}
<1> DEFINE s == flow.slot
           session == [account |-> walletAccount[flow.connector], connector |-> flow.connector]
           v == Verification("user", s, session.account, flow.venue)
           upserted == IF UpsertChanges(stateRef, s)
                       THEN UpsertConnectedWallet(stateRef, s, session, flow.venue, "checking")
                       ELSE sessionState
           watched == WatchUpdate(upserted, s, session)
<1>1. /\ flow.stage = "wallet" /\ session.account # None
      /\ sessionState' = SettleVerification(watched, v, "checking")
  BY DEF FlowConnected, SetsFromRef
<1>2. /\ sessionState \in Session /\ flow \in Flow
      /\ walletAccount \in [Connectors -> Accounts \cup {None}]
  BY DEF IInv, TypeOK
<1>3. s \in SlotIds /\ flow.connector \in Connectors /\ flow.venue \in Venues
  BY <1>1, <1>2 DEF Flow, NoFlow
<1>4. session.account \in Accounts /\ session.connector \in Connectors
  BY <1>1, <1>2, <1>3
<1>5. session \in Runtime /\ session # NoSession
  BY <1>1, <1>4 DEF Runtime, NoSession
<1>6. v \in VerificationCall /\ v.slot = s /\ v.account = session.account
  BY <1>3, <1>4 DEF Verification, VerificationCall
<1>7. session = [account |-> session.account, connector |-> session.connector]
  OBVIOUS
<1> HIDE DEF session, v
<1>8. /\ upserted \in Session
      /\ \A t \in SlotIds \ {s} : Kept(sessionState.slots[t], upserted.slots[t])
      /\ upserted.slots[s].eligibility \in {"unknown", "checking"}
  <2>1. CASE UpsertChanges(stateRef, s)
    <3> DEFINE new == UpsertConnectedWallet(sessionState, s,
                        [account |-> session.account, connector |-> session.connector],
                        flow.venue, "checking")
    <3>1. upserted = new
      BY <1>7, <2>1
    <3>2. /\ new \in Session
          /\ \A t \in SlotIds \ {s} : Kept(sessionState.slots[t], new.slots[t])
          /\ new.slots[s] \in {Absent, ConnectedSlot(session.account, flow.venue,
                                                     session.connector, "checking")}
      BY <1>2, <1>3, <1>4, UpsertSlots, EligibilityNames
    <3> HIDE DEF new
    <3>3. new.slots[s].eligibility \in {"unknown", "checking"}
      BY <3>2 DEF Absent, ConnectedSlot
    <3>4. QED
      BY <3>1, <3>2, <3>3
  <2>2. CASE ~UpsertChanges(stateRef, s)
    <3>1. sessionState.slots[s] = Absent
      BY <1>2, <1>3, <2>2, SessionParts DEF UpsertChanges
    <3>2. upserted = sessionState
      BY <2>2
    <3>3. QED
      BY <1>2, <3>1, <3>2 DEF Kept, Absent
  <2>3. QED
    BY <2>1, <2>2
<1> HIDE DEF upserted
<1>9. /\ watched \in Session
      /\ \A t \in SlotIds \ {s} : Kept(upserted.slots[t], watched.slots[t])
      /\ \/ watched.slots[s] = Absent
         \/ /\ watched.slots[s].status = "connected"
            /\ SessionOf(watched.slots[s]) = session
            /\ watched.slots[s].eligibility \in {"unknown", "checking"}
  <2>1. watched \in Session
    BY <1>3, <1>5, <1>8, WatchSlots
  <2>2. \A t \in SlotIds \ {s} : Kept(upserted.slots[t], watched.slots[t])
    BY <1>3, <1>5, <1>8, WatchSlots
  <2>3. \/ watched.slots[s] = Absent
        \/ \E eligibility \in Eligibilities :
             /\ watched.slots[s] = ConnectedSlot(session.account, upserted.slots[s].venue,
                                                 session.connector, eligibility)
             /\ eligibility # "unknown" => /\ session.account = upserted.slots[s].account
                                           /\ eligibility = upserted.slots[s].eligibility
    BY <1>3, <1>5, <1>8, WatchSlots
  <2> HIDE DEF watched
  <2>4. ASSUME NEW eligibility \in Eligibilities,
               watched.slots[s] = ConnectedSlot(session.account, upserted.slots[s].venue,
                                                session.connector, eligibility),
               eligibility # "unknown" => eligibility = upserted.slots[s].eligibility
        PROVE  /\ watched.slots[s].status = "connected"
               /\ SessionOf(watched.slots[s]) = session
               /\ watched.slots[s].eligibility \in {"unknown", "checking"}
    BY <1>7, <1>8, <2>4 DEF ConnectedSlot, SessionOf
  <2>5. QED
    BY <2>1, <2>2, <2>3, <2>4
<1> HIDE DEF watched
<1>10. /\ \A t \in SlotIds \ {s} : Kept(watched.slots[t], sessionState'.slots[t])
       /\ Settles(watched.slots[s], v.account) =>
            \/ sessionState'.slots[s] = Absent
            \/ sessionState'.slots[s] = ConnectedSlot(watched.slots[s].account, v.venue,
                                                      watched.slots[s].connector, "checking")
       /\ ~Settles(watched.slots[s], v.account) => sessionState'.slots[s] = watched.slots[s]
  <2>1. v \in VerificationCall /\ v.slot = s /\ "checking" \in Eligibilities
    BY <1>6, EligibilityNames
  <2>2. /\ \A t \in SlotIds \ {v.slot} : Kept(watched.slots[t], sessionState'.slots[t])
        /\ Settles(watched.slots[v.slot], v.account) =>
             sessionState'.slots[v.slot] \in
               {Absent, ConnectedSlot(watched.slots[v.slot].account, v.venue,
                                      watched.slots[v.slot].connector, "checking")}
        /\ ~Settles(watched.slots[v.slot], v.account) =>
             sessionState'.slots[v.slot] = watched.slots[v.slot]
    BY <1>1, <1>9, <2>1, SettleExactly
  <2> HIDE DEF s
  <2>3. QED
    BY <2>1, <2>2
<1>11. \A t \in SlotIds \ {s} : Kept(sessionState.slots[t], sessionState'.slots[t])
  BY <1>8, <1>9, <1>10 DEF Kept
<1>12. ASSUME sessionState'.slots[s] # Absent
       PROVE  /\ sessionState'.slots[s].status = "connected"
              /\ SessionOf(sessionState'.slots[s]) = session
              /\ sessionState'.slots[s].eligibility \in {"unknown", "checking"}
  <2>1. CASE Settles(watched.slots[s], v.account)
    <3>1. watched.slots[s] # Absent
      BY <2>1 DEF Settles, Absent
    <3>2. sessionState'.slots[s] = ConnectedSlot(watched.slots[s].account, v.venue,
                                                 watched.slots[s].connector, "checking")
      BY <1>10, <1>12, <2>1
    <3>3. SessionOf(watched.slots[s]) = session
      BY <1>9, <3>1
    <3>4. QED
      BY <3>2, <3>3 DEF ConnectedSlot, SessionOf
  <2>2. CASE ~Settles(watched.slots[s], v.account)
    BY <1>9, <1>10, <1>12, <2>2
  <2>3. QED
    BY <2>1, <2>2
<1>13. QED
  BY <1>3, <1>5, <1>11, <1>12 DEF session

LEMMA AnswerFollows ==
  ASSUME IInv, Following, FlowConnected, ~outdated'
  PROVE  Following'
<1> DEFINE s == flow.slot
           session == [account |-> walletAccount[flow.connector], connector |-> flow.connector]
           v == Verification("user", s, session.account, flow.venue)
           new == sessionState'.slots[s]
<1>1. /\ Sessions /\ LiveAreConnected /\ Exclusive /\ VerifiedHere
      /\ CheckingIsServed /\ RefAgrees /\ FlowIsFree
      /\ runtime \in [SlotIds -> Runtime] /\ flow \in Flow
  BY DEF Following, IInv, TypeOK
<1>2. /\ flow.stage = "wallet"
      /\ flow' = [flow EXCEPT !.stage = "verifying"]
      /\ runtime' = [runtime EXCEPT ![s] = session]
      /\ watchers' = watchers \cup {s}
      /\ verifications' = verifications \cup {v}
      /\ stateRef = sessionState
      /\ UNCHANGED <<committed, stateRef, reconcile, reloads, confirmed>>
  BY DEF FlowConnected, SetsFromRef, ReadsRef
<1>3. flow'.stage # "wallet"
  BY <1>1, <1>2 DEF Flow, NoFlow
<1>4. v.slot = s /\ v.account = session.account
  BY DEF Verification
<1>5. /\ s \in SlotIds
      /\ \A t \in SlotIds \ {s} : Kept(sessionState.slots[t], sessionState'.slots[t])
      /\ new # Absent => /\ new.status = "connected"
                         /\ SessionOf(new) = session
                         /\ new.eligibility \in {"unknown", "checking"}
  BY <1>2, AnsweredSlots
<1>6. runtime'[s] = session /\ \A t \in SlotIds \ {s} : runtime'[t] = runtime[t]
  BY <1>1, <1>2, <1>5
<1>7. SessionOf(new) = session => /\ new.account = session.account
                                  /\ new.connector = flow.connector
  BY DEF SessionOf
<1> HIDE DEF v, session, new, s
<1>8. ASSUME NEW t \in Listed(sessionState)', t # s
      PROVE  t \in Listed(sessionState) /\ sessionState'.slots[t] = sessionState.slots[t]
  BY <1>5, <1>8, KeptSame DEF Listed
<1>9. ASSUME NEW t \in Connected(sessionState)', t # s
      PROVE  t \in Connected(sessionState) /\ sessionState'.slots[t] = sessionState.slots[t]
  BY <1>5, <1>9, KeptSame DEF Connected
<1>10. s \in Listed(sessionState)' => new # Absent
  BY DEF Listed, Absent, new
<1>11. \A t \in Connected(sessionState)' : t = s => new # Absent
  BY DEF Connected, Absent, new
<1>12. Sessions'
  <2> SUFFICES ASSUME NEW t \in Connected(sessionState)'
               PROVE  t \in watchers' /\ runtime'[t] = SessionOf(sessionState'.slots[t])
    BY DEF Sessions
  <2>1. CASE t = s
    BY <1>2, <1>5, <1>6, <1>11, <2>1 DEF new
  <2>2. CASE t # s
    <3>1. t \in SlotIds
      BY DEF Connected
    <3>2. QED
      BY <1>1, <1>2, <1>6, <1>9, <2>2, <3>1 DEF Sessions
  <2>3. QED
    BY <2>1, <2>2
<1>13. LiveAreConnected'
  <2> SUFFICES ASSUME NEW t \in Listed(sessionState)', Live(t)'
               PROVE  t \in Connected(sessionState)'
    BY DEF LiveAreConnected
  <2>1. t \in SlotIds
    BY DEF Listed
  <2>2. CASE t = s
    BY <1>5, <1>10, <2>1, <2>2 DEF Connected, new
  <2>3. CASE t # s
    <3>1. Live(t)
      BY <1>2, <1>6, <2>1, <2>3 DEF Live
    <3>2. t \in Connected(sessionState)
      BY <1>1, <1>8, <2>3, <3>1 DEF LiveAreConnected
    <3>3. QED
      BY <1>8, <2>3, <3>2 DEF Connected
  <2>4. QED
    BY <2>2, <2>3
<1>14. Exclusive'
  <2> SUFFICES ASSUME NEW t \in Connected(sessionState)', NEW u \in Connected(sessionState)',
                      sessionState'.slots[t].connector = sessionState'.slots[u].connector
               PROVE  t = u
    BY DEF Exclusive
  <2>1. ASSUME NEW x \in Connected(sessionState)', x # s
        PROVE  sessionState'.slots[x].connector # flow.connector
    BY <1>1, <1>2, <1>9, <2>1 DEF FlowIsFree, s
  <2>2. s \in Connected(sessionState)' => sessionState'.slots[s].connector = flow.connector
    BY <1>5, <1>7, <1>11 DEF new
  <2>3. CASE t = s \/ u = s
    BY <2>1, <2>2, <2>3
  <2>4. CASE t # s /\ u # s
    BY <1>1, <1>9, <2>4 DEF Exclusive
  <2>5. QED
    BY <2>3, <2>4
<1>15. VerifiedHere'
  <2> SUFFICES ASSUME NEW t \in Tradable(sessionState)'
               PROVE  <<sessionState'.slots[t].account, sessionState'.slots[t].venue, reloads>>
                        \in confirmed
    BY <1>2 DEF VerifiedHere
  <2>1. t \in Connected(sessionState)' /\ sessionState'.slots[t].eligibility = "tradable"
    BY DEF Tradable
  <2>2. t # s
    BY <1>5, <1>11, <2>1 DEF new
  <2>3. QED
    BY <1>1, <1>9, <2>1, <2>2 DEF VerifiedHere, Tradable
<1>16. CheckingIsServed'
  <2> SUFFICES ASSUME NEW t \in Connected(sessionState)',
                      sessionState'.slots[t].eligibility = "checking"
               PROVE  \E x \in verifications' : Serves(x, t, sessionState.slots[t].account)'
    BY DEF CheckingIsServed
  <2>1. CASE t = s
    <3>1. sessionState'.slots[t].account = session.account
      BY <1>5, <1>7, <1>11, <2>1 DEF new
    <3>2. v \in verifications' /\ v.slot = t /\ v.account = sessionState'.slots[t].account
      BY <1>2, <1>4, <2>1, <3>1
    <3>3. QED
      BY <3>2 DEF Serves
  <2>2. CASE t # s
    <3>1. PICK w \in verifications : Serves(w, t, sessionState.slots[t].account)
      BY <1>1, <1>9, <2>2 DEF CheckingIsServed
    <3>2. Serves(w, t, sessionState.slots[t].account)'
      BY <1>2, <1>9, <2>2, <3>1 DEF Serves, Connected
    <3>3. QED
      BY <1>2, <3>2
  <2>3. QED
    BY <2>1, <2>2
<1>17. RefAgrees'
  BY <1>1, <1>2 DEF RefAgrees, Connected, Listed
<1>18. FlowIsFree'
  BY <1>3 DEF FlowIsFree
<1>19. QED
  BY <1>12, <1>13, <1>14, <1>15, <1>16, <1>17, <1>18 DEF Following

\* The older slot a verification of the reconciliation is followed by.
Follower(v) == Newest({t \in Connected(reconcile.next) : t < v.slot})

\* A slot after a verdict: as it was if the verdict is not its own, with the
\* verdict, or being verified next.
LEMMA VerdictSlots ==
  ASSUME IInv, NEW v \in verifications, NEW e \in Eligibilities, VerificationEnds(v, e),
         NEW t \in SlotIds, sessionState'.slots[t].status # "absent"
  PROVE  LET old == sessionState.slots[t]
             new == sessionState'.slots[t]
             s == Follower(v)
         IN \/ new = old /\ (t = v.slot => ~Settles(old, v.account))
            \/ /\ t = v.slot /\ Settles(old, v.account)
               /\ new = ConnectedSlot(v.account, v.venue, old.connector, e)
            \/ /\ v.by = "reconcile" /\ s # 0 /\ t = s /\ old.status = "connected"
               /\ old.account = reconcile.next.slots[s].account
               /\ new = ConnectedSlot(old.account, reconcile.next.slots[s].venue,
                                      old.connector, "checking")
<1> DEFINE old == sessionState.slots[t]
           settled == SettleVerification(sessionState, v, e)
           s == Follower(v)
           next == Verification("reconcile", s, reconcile.next.slots[s].account,
                                reconcile.next.slots[s].venue)
<1>1. /\ sessionState \in Session /\ reconcile.next \in Session
      /\ v \in VerificationCall /\ v.slot \in SlotIds
      /\ "checking" \in Eligibilities
  BY EligibilityNames DEF IInv, TypeOK, Reconciliation, VerificationCall
<1>2. /\ settled \in Session
      /\ \A u \in SlotIds \ {v.slot} : Kept(sessionState.slots[u], settled.slots[u])
      /\ Settles(sessionState.slots[v.slot], v.account) =>
           settled.slots[v.slot] \in
             {Absent, ConnectedSlot(sessionState.slots[v.slot].account, v.venue,
                                    sessionState.slots[v.slot].connector, e)}
      /\ ~Settles(sessionState.slots[v.slot], v.account) =>
           settled.slots[v.slot] = sessionState.slots[v.slot]
  BY <1>1, SettleExactly
<1> HIDE DEF settled
<1>3. ASSUME settled.slots[t].status # "absent"
      PROVE  \/ settled.slots[t] = old /\ (t = v.slot => ~Settles(old, v.account))
             \/ /\ t = v.slot /\ Settles(old, v.account)
                /\ settled.slots[t] = ConnectedSlot(v.account, v.venue, old.connector, e)
  <2>1. settled.slots[t] # Absent
    BY <1>3 DEF Absent
  <2>2. CASE t = v.slot
    BY <1>2, <2>1, <2>2 DEF Settles
  <2>3. CASE t # v.slot
    BY <1>2, <2>1, <2>3 DEF Kept
  <2>4. QED
    BY <2>2, <2>3
<1>4. CASE v.by = "reconcile" /\ s # 0
  <2>1. s \in Connected(reconcile.next) /\ s < v.slot /\ s \in SlotIds
    <3> DEFINE ids == {u \in Connected(reconcile.next) : u < v.slot}
    <3>1. s = Newest(ids)
      BY DEF Follower
    <3>2. s \in ids
      BY <1>4, <3>1, NewestMember
    <3>3. QED
      BY <3>2 DEF Connected
  <2>2. next \in VerificationCall
    BY <1>1, <2>1, NextCallType
  <2>3. sessionState' = SettleVerification(settled, next, "checking")
    BY <1>4 DEF VerificationEnds, settled, Follower
  <2>4. /\ next.slot = s /\ next.account = reconcile.next.slots[s].account
        /\ next.venue = reconcile.next.slots[s].venue
    BY DEF Verification
  <2> HIDE DEF next, s
  <2>5. /\ \A u \in SlotIds \ {s} : Kept(settled.slots[u], sessionState'.slots[u])
        /\ Settles(settled.slots[s], next.account) =>
             sessionState'.slots[s] \in
               {Absent, ConnectedSlot(settled.slots[s].account, next.venue,
                                      settled.slots[s].connector, "checking")}
        /\ ~Settles(settled.slots[s], next.account) =>
             sessionState'.slots[s] = settled.slots[s]
    BY <1>1, <1>2, <2>2, <2>3, <2>4, SettleExactly
  <2>6. sessionState'.slots[t] # Absent
    BY DEF Absent
  <2>7. CASE t # s
    <3>1. sessionState'.slots[t] = settled.slots[t]
      BY <2>5, <2>6, <2>7 DEF Kept
    <3>2. QED
      BY <1>3, <3>1
  <2>8. CASE t = s
    <3>1. t # v.slot
      BY <1>1, <2>1, <2>8 DEF SlotIds
    <3>2. CASE Settles(settled.slots[s], next.account)
      <4>1. /\ sessionState'.slots[t] = ConnectedSlot(settled.slots[t].account, next.venue,
                                                      settled.slots[t].connector, "checking")
            /\ settled.slots[t].status = "connected" /\ settled.slots[t].account = next.account
        BY <2>5, <2>6, <2>8, <3>2 DEF Settles
      <4>2. settled.slots[t] = old
        BY <1>3, <3>1, <4>1
      <4>3. QED
        BY <1>4, <2>4, <2>8, <4>1, <4>2 DEF s
    <3>3. CASE ~Settles(settled.slots[s], next.account)
      <4>1. sessionState'.slots[t] = settled.slots[t]
        BY <2>5, <2>8, <3>3
      <4>2. QED
        BY <1>3, <3>1, <4>1
    <3>4. QED
      BY <3>2, <3>3
  <2>9. QED
    BY <2>7, <2>8
<1>5. CASE ~(v.by = "reconcile" /\ s # 0)
  <2>1. sessionState' = settled
    BY <1>5 DEF VerificationEnds, settled, Follower
  <2>2. QED
    BY <1>3, <2>1
<1>6. QED
  BY <1>4, <1>5

\* A running verification is the one that ends, or goes on and serves what it
\* served, unless the reconciliation's other one has ended.
LEMMA OthersServe ==
  ASSUME OneReconciling, NEW v \in verifications, NEW e, VerificationEnds(v, e),
         NEW w \in verifications, w # v, NEW t, NEW account, Serves(w, t, account)
  PROVE  /\ w \in verifications'
         /\ \/ w.slot = t /\ w.account = account
            \/ /\ w.by = "reconcile" /\ t < w.slot /\ t \in Connected(reconcile'.next)
               /\ reconcile'.next.slots[t].account = account
<1>1. w \in verifications'
  BY DEF VerificationEnds
<1>2. CASE v.by = "reconcile"
  BY <1>1, <1>2 DEF OneReconciling, Serves
<1>3. CASE v.by # "reconcile"
  <2>1. reconcile' = reconcile
    BY <1>3 DEF VerificationEnds
  <2>2. QED
    BY <1>1, <2>1 DEF Serves
<1>4. QED
  BY <1>2, <1>3

LEMMA VerdictFollows ==
  ASSUME IInv, Following, OneReconciling, NEW v \in verifications,
         NEW e \in Eligibilities \ {"checking"}, VerificationEnds(v, e),
         confirmed \subseteq confirmed',
         e = "tradable" => <<v.account, v.venue, reloads>> \in confirmed',
         UNCHANGED <<committed, stateRef, runtime, watchers, reloads>>
  PROVE  Following'
<1> DEFINE s == Follower(v)
           next == Verification("reconcile", s, reconcile.next.slots[s].account,
                                reconcile.next.slots[s].venue)
<1>1. /\ Sessions /\ LiveAreConnected /\ Exclusive /\ VerifiedHere
      /\ CheckingIsServed /\ RefAgrees /\ FlowIsFree
      /\ flow \in Flow
      /\ v.slot \in SlotIds /\ v \in VerificationCall
  BY DEF Following, IInv, TypeOK, VerificationCall
<1>2. ASSUME NEW t \in SlotIds, sessionState'.slots[t].status # "absent"
      PROVE  LET old == sessionState.slots[t]
                 new == sessionState'.slots[t]
             IN \/ new = old /\ (t = v.slot => ~Settles(old, v.account))
                \/ /\ t = v.slot /\ Settles(old, v.account)
                   /\ new = ConnectedSlot(v.account, v.venue, old.connector, e)
                \/ /\ v.by = "reconcile" /\ s # 0 /\ t = s /\ old.status = "connected"
                   /\ old.account = reconcile.next.slots[s].account
                   /\ new = ConnectedSlot(old.account, reconcile.next.slots[s].venue,
                                          old.connector, "checking")
  BY <1>2, VerdictSlots
<1> HIDE DEF s
<1>3. ASSUME NEW t \in Connected(sessionState)'
      PROVE  /\ t \in Connected(sessionState)
             /\ SessionOf(sessionState'.slots[t]) = SessionOf(sessionState.slots[t])
             /\ sessionState'.slots[t].connector = sessionState.slots[t].connector
             /\ sessionState'.slots[t].account = sessionState.slots[t].account
  <2>1. t \in SlotIds /\ sessionState'.slots[t].status = "connected"
    BY DEF Connected
  <2>2. LET old == sessionState.slots[t]
            new == sessionState'.slots[t]
        IN \/ new = old
           \/ /\ Settles(old, v.account)
              /\ new = ConnectedSlot(v.account, v.venue, old.connector, e)
           \/ /\ old.status = "connected"
              /\ new = ConnectedSlot(old.account, reconcile.next.slots[s].venue,
                                     old.connector, "checking")
    BY <1>2, <2>1
  <2>3. QED
    BY <2>1, <2>2 DEF Settles, ConnectedSlot, Connected, SessionOf
<1>4. Stays
  BY <1>3 DEF Stays
<1>5. flow' = flow \/ flow'.stage # "wallet"
  <2>1. CASE v.by = "user"
    <3>1. flow' = [flow EXCEPT !.stage = "ended"] /\ flow.stage = "verifying"
      BY <2>1 DEF VerificationEnds, IInv, UserVerification
    <3>2. QED
      BY <1>1, <3>1 DEF Flow, NoFlow
  <2>2. CASE v.by # "user"
    BY <2>2 DEF VerificationEnds
  <2>3. QED
    BY <2>1, <2>2
<1>6. Exclusive' /\ RefAgrees' /\ FlowIsFree'
  BY <1>1, <1>4, <1>5, StaysFollows DEF CommitsAre
<1>7. Sessions'
  BY <1>1, <1>3 DEF Sessions
<1>8. LiveAreConnected'
  <2> SUFFICES ASSUME NEW t \in Listed(sessionState)', Live(t)'
               PROVE  t \in Connected(sessionState)'
    BY DEF LiveAreConnected
  <2>1. t \in SlotIds /\ sessionState'.slots[t].status # "absent" /\ Live(t)
    BY DEF Listed, Live
  <2>2. CASE sessionState'.slots[t] = sessionState.slots[t]
    BY <1>1, <2>1, <2>2 DEF LiveAreConnected, Listed, Connected
  <2>3. CASE sessionState'.slots[t] # sessionState.slots[t]
    <3>1. \/ sessionState'.slots[t] = ConnectedSlot(v.account, v.venue,
                                                   sessionState.slots[t].connector, e)
          \/ sessionState'.slots[t] = ConnectedSlot(sessionState.slots[t].account,
                                                   reconcile.next.slots[s].venue,
                                                   sessionState.slots[t].connector, "checking")
      BY <1>2, <2>1, <2>3
    <3>2. QED
      BY <2>1, <3>1 DEF ConnectedSlot, Connected
  <2>4. QED
    BY <2>2, <2>3
<1>9. VerifiedHere'
  <2> SUFFICES ASSUME NEW t \in Tradable(sessionState)'
               PROVE  <<sessionState'.slots[t].account, sessionState'.slots[t].venue, reloads>>
                        \in confirmed'
    BY DEF VerifiedHere
  <2>1. /\ t \in SlotIds /\ sessionState'.slots[t].status = "connected"
        /\ sessionState'.slots[t].eligibility = "tradable"
    BY DEF Tradable, Connected
  <2>2. CASE sessionState'.slots[t] = sessionState.slots[t]
    BY <1>1, <2>1, <2>2 DEF VerifiedHere, Tradable, Connected
  <2>3. CASE sessionState'.slots[t] # sessionState.slots[t]
    <3>1. \/ sessionState'.slots[t] = ConnectedSlot(v.account, v.venue,
                                                   sessionState.slots[t].connector, e)
          \/ sessionState'.slots[t] = ConnectedSlot(sessionState.slots[t].account,
                                                   reconcile.next.slots[s].venue,
                                                   sessionState.slots[t].connector, "checking")
      BY <1>2, <2>1, <2>3
    <3>2. QED
      BY <2>1, <3>1 DEF ConnectedSlot
  <2>4. QED
    BY <2>2, <2>3
<1>10. v.by = "reconcile" /\ s # 0 => next \in verifications' /\ UNCHANGED reconcile
  BY DEF VerificationEnds, Follower, s
<1>11. next.by = "reconcile" /\ next.slot = s /\ next.account = reconcile.next.slots[s].account
  BY DEF Verification
<1> HIDE DEF next
<1>12. CheckingIsServed'
  <2> SUFFICES ASSUME NEW t \in Connected(sessionState)',
                      sessionState'.slots[t].eligibility = "checking"
               PROVE  \E x \in verifications' : Serves(x, t, sessionState.slots[t].account)'
    BY DEF CheckingIsServed
  <2> DEFINE old == sessionState.slots[t]
             new == sessionState'.slots[t]
  <2>1. t \in SlotIds /\ new.status = "connected"
    BY DEF Connected
  <2>2. CASE v.by = "reconcile" /\ s # 0 /\ t = s /\ new.account = next.account
    BY <1>10, <1>11, <2>2 DEF Serves
  <2>3. CASE ~(v.by = "reconcile" /\ s # 0 /\ t = s /\ new.account = next.account)
    <3>1. new = old /\ (t = v.slot => ~Settles(old, v.account))
      <4>1. new # ConnectedSlot(v.account, v.venue, old.connector, e)
        BY DEF ConnectedSlot
      <4>2. new = ConnectedSlot(old.account, reconcile.next.slots[s].venue, old.connector,
                                "checking")
            => new.account = old.account
        BY DEF ConnectedSlot
      <4>3. QED
        BY <1>2, <1>11, <2>1, <2>3, <4>1, <4>2
    <3>2. PICK w \in verifications : Serves(w, t, old.account)
      BY <1>1, <2>1, <3>1 DEF CheckingIsServed, Connected
    <3>3. CASE w # v
      <4>1. /\ w \in verifications'
            /\ \/ w.slot = t /\ w.account = new.account
               \/ /\ w.by = "reconcile" /\ t < w.slot /\ t \in Connected(reconcile'.next)
                  /\ reconcile'.next.slots[t].account = new.account
        BY <3>1, <3>2, <3>3, OthersServe
      <4>2. QED
        BY <4>1 DEF Serves, Connected
    <3>4. CASE w = v
      <4>1. v.slot = t => v.account # old.account
        BY <2>1, <3>1 DEF Settles
      <4>2. /\ v.by = "reconcile" /\ t < v.slot /\ t \in Connected(reconcile.next)
            /\ reconcile.next.slots[t].account = new.account
        BY <3>1, <3>2, <3>4, <4>1 DEF Serves
      <4>3. /\ s \in Connected(reconcile.next) /\ s \in SlotIds
            /\ t <= s
        <5> DEFINE ids == {u \in Connected(reconcile.next) : u < v.slot}
        <5>1. t \in ids /\ ids \in SUBSET SlotIds
          BY <4>2 DEF Connected
        <5>2. s = Newest(ids)
          BY DEF s, Follower
        <5>3. s \in ids
          BY <5>1, <5>2, NewestExists
        <5>4. s # 0
          BY <5>1, <5>3 DEF SlotIds
        <5>5. t <= s
          BY <5>1, <5>2, <5>4, NewestMember
        <5>6. QED
          BY <5>1, <5>3, <5>5
      <4>4. s # 0 /\ t # s
        BY <1>11, <2>3, <4>2, <4>3 DEF SlotIds
      <4>5. t < s
        BY <2>1, <4>3, <4>4 DEF SlotIds
      <4>6. next \in verifications' /\ UNCHANGED reconcile
        BY <1>10, <4>2, <4>4
      <4>7. QED
        BY <1>11, <4>2, <4>5, <4>6 DEF Serves, Connected
    <3>5. QED
      BY <3>3, <3>4
  <2>4. QED
    BY <2>2, <2>3
<1>13. QED
  BY <1>6, <1>7, <1>8, <1>9, <1>12 DEF Following

-----------------------------------------------------------------------------
(* The start-up reconciliation *)

\* Marking the older slots that lose their wallets keeps what is known of the
\* slots reached, down to the next one to await.
LEMMA MarkedParts ==
  ASSUME IInv, reconcile.stage = "running", NEW next \in Session,
         NEW W \in SUBSET SlotIds, NEW sessions,
         FromPrevious(next), Reached(next, reconcile.awaiting, W, sessions),
         Apart(next, reconcile.awaiting), WatchedFrom(next, reconcile.awaiting, W),
         NEW s \in {0} \cup SlotIds, s < reconcile.awaiting
  PROVE  LET left == {t \in Connected(reconcile.previous) : t < reconcile.awaiting}
             marked == MarkWalletSlots(next, {t \in left : t > s}, "stale")
         IN /\ marked \in Session
            /\ FromPrevious(marked)
            /\ Reached(marked, s + 1, W, sessions)
            /\ Apart(marked, s + 1)
            /\ WatchedFrom(marked, s + 1, W)
            /\ \A t \in Connected(marked) : t > s => /\ t >= reconcile.awaiting
                                                     /\ t \in Connected(next)
<1> DEFINE ids == {t \in {u \in Connected(reconcile.previous) : u < reconcile.awaiting} : t > s}
           marked == MarkWalletSlots(next, ids, "stale")
<1>1. reconcile.awaiting \in SlotIds /\ \A t \in SlotIds : t \in Nat
  BY DEF IInv, Awaited, Connected, SlotIds
<1>2. /\ marked \in Session
      /\ \A t \in SlotIds : Lessened(next.slots[t], marked.slots[t])
      /\ \A t \in SlotIds \cap ids : marked.slots[t].status # "connected"
      /\ \A t \in SlotIds \ ids : Kept(next.slots[t], marked.slots[t])
  BY MarkSlots
<1> HIDE DEF marked
<1>3. ASSUME NEW t \in Connected(marked)
      PROVE  /\ t \in SlotIds
             /\ t \in Connected(next) /\ marked.slots[t] = next.slots[t]
             /\ t \notin ids
  <2>1. t \in SlotIds /\ marked.slots[t].status = "connected"
    BY DEF Connected
  <2>2. marked.slots[t] = next.slots[t]
    BY <1>2, <2>1, LessenedSame
  <2>3. QED
    BY <1>2, <2>1, <2>2 DEF Connected
<1>4. FromPrevious(marked)
  BY <1>3 DEF FromPrevious
<1>5. ASSUME NEW t \in Connected(marked), t > s
      PROVE  t >= reconcile.awaiting
  <2>1. t \in Connected(reconcile.previous) /\ t \in SlotIds /\ t \notin ids
    BY <1>3 DEF FromPrevious
  <2>2. QED
    BY <1>1, <1>5, <2>1
<1>6. \A t \in SlotIds : t >= s + 1 => t > s
  BY <1>1
<1>7. Reached(marked, s + 1, W, sessions)
  BY <1>3, <1>5, <1>6 DEF Reached
<1>8. Apart(marked, s + 1)
  BY <1>3, <1>5, <1>6 DEF Apart
<1>9. WatchedFrom(marked, s + 1, W)
  <2> SUFFICES ASSUME NEW t \in W
               PROVE  t >= s + 1 /\ (t \in Listed(marked) => t \in Connected(marked))
    BY DEF WatchedFrom
  <2>1. t \in SlotIds /\ t >= reconcile.awaiting /\ (t \in Listed(next) => t \in Connected(next))
    BY DEF WatchedFrom
  <2>2. t >= s + 1 /\ t \notin ids
    BY <1>1, <2>1
  <2>3. Kept(next.slots[t], marked.slots[t])
    BY <1>2, <2>1, <2>2
  <2>4. QED
    BY <2>1, <2>2, <2>3, KeptSame DEF Listed, Connected
<1>10. QED
  BY <1>2, <1>3, <1>4, <1>5, <1>7, <1>8, <1>9 DEF marked

\* When every slot has been reached, the page follows its wallets.
LEMMA ReconciledFollows ==
  ASSUME NEW marked \in Session, FromPrevious(marked),
         Reached(marked, 1, watchers', runtime'), Apart(marked, 1),
         WatchedFrom(marked, 1, watchers'), StillConnected(committed),
         Holds(marked, sessionState'),
         \A t \in Connected(sessionState)' : sessionState'.slots[t].eligibility = "checking",
         CheckingIsServed', UNCHANGED <<committed, stateRef>>, flow' = NoFlow
  PROVE  Following'
<1>1. \A t \in SlotIds : t \in Nat /\ t >= 1
  BY DEF SlotIds
<1>2. ASSUME NEW t \in Connected(sessionState)'
      PROVE  /\ t \in SlotIds /\ t \in Connected(marked)
             /\ t \in Connected(reconcile.previous)
             /\ sessionState'.slots[t].account = marked.slots[t].account
             /\ sessionState'.slots[t].connector = marked.slots[t].connector
             /\ sessionState'.slots[t].connector = reconcile.previous.slots[t].connector
  <2>1. t \in SlotIds /\ sessionState'.slots[t].status = "connected"
    BY DEF Connected
  <2>2. /\ marked.slots[t].status = "connected"
        /\ sessionState'.slots[t].account = marked.slots[t].account
        /\ sessionState'.slots[t].connector = marked.slots[t].connector
    BY <2>1 DEF Holds, Kept, Absent
  <2>3. QED
    BY <2>1, <2>2 DEF Connected, FromPrevious
<1>3. Sessions'
  BY <1>1, <1>2 DEF Sessions, Reached, SessionOf
<1>4. LiveAreConnected'
  <2> SUFFICES ASSUME NEW t \in Listed(sessionState)', Live(t)'
               PROVE  t \in Connected(sessionState)'
    BY DEF LiveAreConnected
  <2>1. t \in SlotIds /\ sessionState'.slots[t].status # "absent" /\ t \in watchers'
    BY DEF Listed, Live
  <2>2. \/ sessionState'.slots[t] = marked.slots[t]
        \/ sessionState'.slots[t].status = "connected"
    BY <2>1 DEF Holds, Kept, Absent
  <2>3. CASE sessionState'.slots[t] = marked.slots[t]
    BY <2>1, <2>3 DEF WatchedFrom, Listed, Connected
  <2>4. QED
    BY <2>1, <2>2, <2>3 DEF Connected
<1>5. Exclusive'
  <2> SUFFICES ASSUME NEW t \in Connected(sessionState)', NEW u \in Connected(sessionState)',
                      sessionState'.slots[t].connector = sessionState'.slots[u].connector
               PROVE  t = u
    BY DEF Exclusive
  <2>1. ~(u > t) /\ ~(t > u)
    BY <1>1, <1>2 DEF Apart
  <2>2. QED
    BY <1>1, <1>2, <2>1
<1>6. VerifiedHere'
  BY DEF VerifiedHere, Tradable
<1>7. RefAgrees'
  BY <1>2 DEF RefAgrees, StillConnected, Connected, Listed
<1>8. FlowIsFree'
  BY DEF FlowIsFree, NoFlow
<1>9. QED
  BY <1>3, <1>4, <1>5, <1>6, <1>7, <1>8 DEF Following

\* After an answer, the reconciliation awaits the next slot or has ended.
LEMMA ContinuesFollows ==
  ASSUME IInv, reconcile.stage = "running", flow = NoFlow, verifications = {},
         NEW next \in Session, NEW shown \in Session, ReconcileContinues(next, shown),
         FromPrevious(next), watchers' \subseteq SlotIds,
         Reached(next, reconcile.awaiting, watchers', runtime'),
         Apart(next, reconcile.awaiting), WatchedFrom(next, reconcile.awaiting, watchers'),
         StillConnected(shown), StillConnected(committed), StillConnected(stateRef),
         UNCHANGED <<committed, stateRef, flow>>
  PROVE  /\ reconcile'.stage = "running" => Starting'
         /\ reconcile'.stage # "running" => Following'
         /\ OneReconciling'
<1> DEFINE left == {t \in Connected(reconcile.previous) : t < reconcile.awaiting}
           free == {t \in left :
                      reconcile.previous.slots[t].connector \notin LockedConnectors(next)}
           s == Newest(free)
           marked == MarkWalletSlots(next, {t \in left : t > s}, "stale")
           first == Newest(Connected(marked))
           v == Verification("reconcile", first, marked.slots[first].account,
                             marked.slots[first].venue)
<1>1. /\ reconcile \in Reconciliation
      /\ reconcile.awaiting \in SlotIds
      /\ \A t \in SlotIds : t \in Nat /\ t >= 1
  BY DEF IInv, TypeOK, Awaited, Connected, SlotIds
<1>2. s = 0 \/ s \in free
  BY NewestMember
<1> HIDE DEF s
<1>3. s \in {0} \cup SlotIds /\ s < reconcile.awaiting
  <2>1. s # 0 => s \in SlotIds /\ s < reconcile.awaiting
    BY <1>2 DEF Connected
  <2>2. 0 < reconcile.awaiting
    BY <1>1
  <2>3. QED
    BY <2>1, <2>2
<1>4. /\ marked \in Session
      /\ FromPrevious(marked)
      /\ Reached(marked, s + 1, watchers', runtime')
      /\ Apart(marked, s + 1)
      /\ WatchedFrom(marked, s + 1, watchers')
      /\ \A t \in Connected(marked) : t > s => /\ t >= reconcile.awaiting
                                               /\ t \in Connected(next)
  BY <1>3, MarkedParts
<1>5. CASE s # 0
  <2>1. /\ sessionState' = shown
        /\ reconcile' = [reconcile EXCEPT !.next = marked, !.awaiting = s, !.detached = FALSE]
        /\ UNCHANGED verifications
    BY <1>5 DEF ReconcileContinues, s
  <2> HIDE DEF marked
  <2>2. /\ reconcile'.next = marked /\ reconcile'.awaiting = s
        /\ reconcile'.previous = reconcile.previous
        /\ ~reconcile'.detached /\ reconcile'.stage = "running"
    BY <1>1, <1>3, <2>1 DEF Reconciliation
  <2>3. AwaitedApart'
    <3> SUFFICES ASSUME NEW u \in Connected(marked), u > s
                 PROVE  reconcile.previous.slots[s].connector
                          # reconcile.previous.slots[u].connector
      BY <2>2 DEF AwaitedApart, Connected
    <3>1. reconcile.previous.slots[s].connector \notin LockedConnectors(next)
      BY <1>2, <1>5
    <3>2. /\ u >= reconcile.awaiting /\ u \in Connected(next)
          /\ u \in Connected(reconcile.previous)
          /\ next.slots[u].connector = reconcile.previous.slots[u].connector
      BY <1>4 DEF FromPrevious
    <3>3. next.slots[u].connector \in LockedConnectors(next)
      BY <3>2 DEF LockedConnectors
    <3>4. QED
      BY <3>1, <3>2, <3>3
  <2>4. NothingElse'
    BY <2>1, <2>2 DEF NothingElse
  <2>5. FromPrevious(reconcile.next)' /\ Apart(reconcile.next, reconcile.awaiting + 1)'
    BY <1>4, <2>2 DEF FromPrevious, Apart, Connected
  <2>6. Reached(reconcile.next, reconcile.awaiting + 1, watchers, runtime)'
    BY <1>4, <2>2 DEF Reached, Connected
  <2>7. WatchedFrom(reconcile.next, reconcile.awaiting + 1, watchers)'
    BY <1>4, <2>2 DEF WatchedFrom, Connected, Listed
  <2>8. StillConnected(sessionState)' /\ StillConnected(committed)' /\ StillConnected(stateRef)'
    BY <2>1, <2>2 DEF StillConnected, Connected, Listed
  <2>9. Starting'
    BY <2>3, <2>4, <2>5, <2>6, <2>7, <2>8 DEF Starting
  <2>10. OneReconciling'
    BY <2>1 DEF OneReconciling
  <2>11. QED
    BY <2>2, <2>9, <2>10
<1>6. CASE s = 0
  <2>1. /\ Reached(marked, 1, watchers', runtime') /\ Apart(marked, 1)
        /\ WatchedFrom(marked, 1, watchers')
    BY <1>4, <1>6
  <2>2. \A t \in Connected(marked) : t \in SlotIds /\ marked.slots[t].eligibility = "checking"
    BY <1>1, <2>1 DEF Reached, Connected
  <2>3. CASE first # 0
    <3>1. /\ first \in Connected(marked) /\ first \in SlotIds
          /\ \A t \in Connected(marked) : t <= first
      BY <2>3, NewestMember DEF Connected
    <3>2. v \in VerificationCall
      BY <1>4, <3>1, NextCallType
    <3>3. /\ v.by = "reconcile" /\ v.slot = first /\ v.account = marked.slots[first].account
      BY DEF Verification
    <3>4. /\ sessionState' = SettleVerification(marked, v, "checking")
          /\ verifications' = {v}
          /\ reconcile' = [NoReconcile EXCEPT !.stage = "verifying", !.next = marked]
      BY <1>6, <2>3 DEF ReconcileContinues, s
    <3> HIDE DEF marked, v, first
    <3>5. reconcile'.stage = "verifying" /\ reconcile'.next = marked
      BY <3>4 DEF NoReconcile
    <3>6. "checking" \in Eligibilities
      BY EligibilityNames
    <3>7. Holds(marked, sessionState')
      BY <1>4, <3>2, <3>4, <3>6, SettleHolds
    <3>8. ASSUME NEW t \in Connected(sessionState)'
          PROVE  /\ t \in SlotIds /\ t \in Connected(marked)
                 /\ sessionState'.slots[t].account = marked.slots[t].account
                 /\ sessionState'.slots[t].eligibility = "checking"
      <4>1. t \in SlotIds /\ sessionState'.slots[t].status = "connected"
        BY DEF Connected
      <4>2. /\ marked.slots[t].status = "connected"
            /\ sessionState'.slots[t].account = marked.slots[t].account
        BY <3>7, <4>1 DEF Holds, Kept, Absent
      <4>3. marked.slots[t].eligibility = "checking"
        BY <2>2, <4>1, <4>2 DEF Connected
      <4>4. CASE t = first
        <5>1. Settles(marked.slots[first], v.account)
          BY <3>1, <3>3 DEF Settles, Connected
        <5>2. sessionState'.slots[first] \in
                {Absent, ConnectedSlot(marked.slots[first].account, v.venue,
                                       marked.slots[first].connector, "checking")}
          BY <1>4, <3>2, <3>3, <3>4, <3>6, <5>1, SettleExactly
        <5>3. QED
          BY <4>1, <4>2, <4>4, <5>2 DEF Absent, ConnectedSlot, Connected
      <4>5. CASE t # first
        <5>1. Kept(marked.slots[t], sessionState'.slots[t])
          BY <1>4, <3>2, <3>3, <3>4, <3>6, <4>1, <4>5, SettleExactly
        <5>2. QED
          BY <4>1, <4>2, <4>3, <5>1 DEF Kept, Absent, Connected
      <4>6. QED
        BY <4>4, <4>5
    <3>9. CheckingIsServed'
      <4> SUFFICES ASSUME NEW t \in Connected(sessionState)'
                   PROVE  \E x \in verifications' : Serves(x, t, sessionState.slots[t].account)'
        BY DEF CheckingIsServed
      <4>1. t = first \/ t < first
        BY <1>1, <3>1, <3>8
      <4>2. /\ t = first => v.slot = t /\ v.account = sessionState'.slots[t].account
            /\ t # first => /\ v.by = "reconcile" /\ t < v.slot /\ t \in Connected(marked)
                            /\ marked.slots[t].account = sessionState'.slots[t].account
        BY <3>3, <3>8, <4>1
      <4>4. QED
        BY <3>4, <3>5, <4>2 DEF Serves, Connected
    <3>10. Following'
      BY <1>4, <2>1, <3>7, <3>8, <3>9, ReconciledFollows
    <3>11. OneReconciling'
      BY <3>4, <3>5 DEF OneReconciling
    <3>12. QED
      BY <3>5, <3>10, <3>11
  <2>4. CASE first = 0
    <3>1. /\ sessionState' = marked
          /\ reconcile' = NoReconcile
          /\ UNCHANGED verifications
      BY <1>6, <2>4 DEF ReconcileContinues, s
    <3>2. Connected(marked) = {}
      <4>1. Connected(marked) \in SUBSET SlotIds /\ 0 \notin Connected(marked)
        BY <1>1 DEF Connected
      <4>2. QED
        BY <2>4, <4>1, NewestExists
    <3> HIDE DEF marked, first
    <3>3. Connected(sessionState)' = {}
      BY <3>1, <3>2 DEF Connected
    <3>4. Holds(marked, sessionState')
      BY <3>1 DEF Holds, Kept
    <3>5. CheckingIsServed'
      BY <3>3 DEF CheckingIsServed
    <3>6. Following'
      BY <1>4, <2>1, <3>3, <3>4, <3>5, ReconciledFollows
    <3>7. OneReconciling' /\ reconcile'.stage # "running"
      BY <3>1, NoReconcileType DEF OneReconciling
    <3>8. QED
      BY <3>6, <3>7
  <2>5. QED
    BY <2>3, <2>4
<1>7. QED
  BY <1>5, <1>6

LEMMA RefusedFollows ==
  ASSUME IInv, Starting, ReconcileRefused
  PROVE  /\ reconcile'.stage = "running" => Starting'
         /\ reconcile'.stage # "running" => Following'
         /\ OneReconciling'
<1> DEFINE s == reconcile.awaiting
           next == MarkWalletSlots(reconcile.next, {s}, "stale")
<1>1. /\ reconcile.next \in Session
      /\ s \in SlotIds /\ reconcile.stage = "running"
      /\ watchers \subseteq SlotIds
      /\ \A t \in SlotIds : t \in Nat
  BY DEF IInv, TypeOK, Reconciliation, Awaited, Connected, ReconcileRefused, SlotIds
<1>2. /\ ReconcileContinues(next, sessionState)
      /\ UNCHANGED <<committed, stateRef, runtime, watchers, flow>>
  BY DEF ReconcileRefused, MarkWalletSlotStatus
<1>3. /\ next \in Session
      /\ \A t \in SlotIds : Lessened(reconcile.next.slots[t], next.slots[t])
      /\ next.slots[s].status # "connected"
      /\ \A t \in SlotIds \ {s} : Kept(reconcile.next.slots[t], next.slots[t])
  BY <1>1, MarkSlots
<1> HIDE DEF next, s
<1>4. ASSUME NEW t \in Connected(next)
      PROVE  /\ t \in SlotIds /\ t # s
             /\ t \in Connected(reconcile.next) /\ next.slots[t] = reconcile.next.slots[t]
  <2>1. t \in SlotIds /\ next.slots[t].status = "connected"
    BY DEF Connected
  <2>2. QED
    BY <1>3, <2>1, LessenedSame DEF Connected
<1>5. \A t \in SlotIds : t >= s /\ t # s => t >= s + 1
  BY <1>1
<1>6. FromPrevious(next) /\ Reached(next, s, watchers, runtime) /\ Apart(next, s)
  BY <1>4, <1>5 DEF Starting, FromPrevious, Reached, Apart, s
<1>7. WatchedFrom(next, s, watchers)
  <2> SUFFICES ASSUME NEW t \in watchers
               PROVE  t >= s /\ (t \in Listed(next) => t \in Connected(next))
    BY DEF WatchedFrom
  <2>1. /\ t \in SlotIds /\ t >= s + 1
        /\ t \in Listed(reconcile.next) => t \in Connected(reconcile.next)
    BY <1>1 DEF Starting, WatchedFrom, s
  <2>2. t >= s /\ t # s
    BY <1>1, <2>1
  <2>3. QED
    BY <1>3, <2>1, <2>2, KeptSame DEF Listed, Connected
<1>8. /\ FromPrevious(next) /\ watchers' \subseteq SlotIds
      /\ Reached(next, reconcile.awaiting, watchers', runtime')
      /\ Apart(next, reconcile.awaiting) /\ WatchedFrom(next, reconcile.awaiting, watchers')
  BY <1>1, <1>2, <1>6, <1>7 DEF s
<1>9. /\ flow = NoFlow /\ verifications = {}
      /\ StillConnected(sessionState) /\ StillConnected(committed) /\ StillConnected(stateRef)
  BY DEF Starting, NothingElse
<1>10. sessionState \in Session
  BY DEF IInv, TypeOK
<1>11. QED
  BY <1>1, <1>2, <1>3, <1>8, <1>9, <1>10, ContinuesFollows

LEMMA ReconnectedFollows ==
  ASSUME IInv, Starting, ReconcileReconnects
  PROVE  /\ reconcile'.stage = "running" => Starting'
         /\ reconcile'.stage # "running" => Following'
         /\ OneReconciling'
<1> DEFINE s == reconcile.awaiting
           slot == reconcile.previous.slots[s]
           session == [account |-> walletAccount[slot.connector], connector |-> slot.connector]
           next == UpsertConnectedWallet(reconcile.next, s, session, slot.venue, "checking")
           shown == WatchUpdate(sessionState, s, session)
<1>1. /\ reconcile.next \in Session /\ sessionState \in Session
      /\ s \in SlotIds /\ s \in Connected(reconcile.previous)
      /\ reconcile.stage = "running"
      /\ watchers \subseteq SlotIds /\ runtime \in [SlotIds -> Runtime]
      /\ \A t \in SlotIds : t \in Nat
  BY DEF IInv, TypeOK, Reconciliation, Awaited, Connected, ReconcileReconnects, SlotIds
<1>2. /\ slot.connector \in Connectors /\ slot.venue \in Venues
      /\ walletAccount[slot.connector] \in Accounts
  BY AwaitedSlot DEF IInv, ReconcileReconnects
<1>3. session \in Runtime /\ session # NoSession
  BY <1>2, NoneAssumption DEF Runtime, NoSession
<1>4. /\ runtime' = [runtime EXCEPT ![s] = session]
      /\ watchers' = watchers \cup {s}
      /\ UNCHANGED <<committed, stateRef, flow>>
      /\ ReconcileContinues(next, WatchUpdate(sessionState, s, runtime'[s]))
  BY DEF ReconcileReconnects, Reconnected, Starting, NothingElse
<1>5. runtime'[s] = session /\ \A t \in SlotIds \ {s} : runtime'[t] = runtime[t]
  BY <1>1, <1>4
<1>6. ReconcileContinues(next, shown)
  BY <1>4, <1>5
<1>7. /\ next \in Session
      /\ \A t \in SlotIds \ {s} : Kept(reconcile.next.slots[t], next.slots[t])
      /\ next.slots[s] \in {Absent, ConnectedSlot(session.account, slot.venue,
                                                  session.connector, "checking")}
  <2>1. "checking" \in Eligibilities
    BY EligibilityNames
  <2>2. session.account \in Accounts /\ session.connector \in Connectors
    BY <1>2
  <2>3. next = UpsertConnectedWallet(reconcile.next, s,
                 [account |-> session.account, connector |-> session.connector], slot.venue,
                 "checking")
    OBVIOUS
  <2> HIDE DEF next, session, slot, s
  <2>4. next \in Session
    BY <1>1, <1>2, <2>1, <2>2, <2>3, UpsertSlots
  <2>5. \A t \in SlotIds \ {s} : Kept(reconcile.next.slots[t], next.slots[t])
    BY <1>1, <1>2, <2>1, <2>2, <2>3, UpsertSlots
  <2>6. next.slots[s] \in {Absent, ConnectedSlot(session.account, slot.venue,
                                                 session.connector, "checking")}
    BY <1>1, <1>2, <2>1, <2>2, <2>3, UpsertSlots
  <2>7. QED
    BY <2>4, <2>5, <2>6
<1>8. /\ shown \in Session
      /\ \A t \in SlotIds \ {s} : Kept(sessionState.slots[t], shown.slots[t])
      /\ \/ shown.slots[s] = Absent
         \/ \E eligibility \in Eligibilities :
              shown.slots[s] = ConnectedSlot(session.account, sessionState.slots[s].venue,
                                             session.connector, eligibility)
  <2> HIDE DEF session, s
  <2>1. /\ shown \in Session
        /\ \A t \in SlotIds \ {s} : Kept(sessionState.slots[t], shown.slots[t])
    BY <1>1, <1>3, WatchSlots
  <2>2. \/ shown.slots[s] = Absent
        \/ \E eligibility \in Eligibilities :
             shown.slots[s] = ConnectedSlot(session.account, sessionState.slots[s].venue,
                                            session.connector, eligibility)
    BY <1>1, <1>3, WatchSlots
  <2>3. QED
    BY <2>1, <2>2
<1>9. SessionOf(ConnectedSlot(session.account, slot.venue, session.connector, "checking"))
      = session /\ session.connector = slot.connector
  BY DEF SessionOf, ConnectedSlot
<1> HIDE DEF session, next, shown, slot, s
<1>10. ASSUME NEW t \in Connected(next), t # s
       PROVE  /\ t \in SlotIds /\ t \in Connected(reconcile.next)
              /\ next.slots[t] = reconcile.next.slots[t]
  <2>1. t \in SlotIds /\ next.slots[t].status = "connected"
    BY DEF Connected
  <2>2. next.slots[t] = reconcile.next.slots[t]
    BY <1>7, <1>10, <2>1, KeptSame
  <2>3. QED
    BY <2>1, <2>2 DEF Connected
<1>11. next.slots[s].status # "absent" =>
         /\ next.slots[s].status = "connected"
         /\ SessionOf(next.slots[s]) = session
         /\ next.slots[s].connector = slot.connector
         /\ next.slots[s].eligibility = "checking"
  <2>1. ASSUME next.slots[s] = ConnectedSlot(session.account, slot.venue,
                                             session.connector, "checking")
        PROVE  /\ next.slots[s].status = "connected"
               /\ SessionOf(next.slots[s]) = session
               /\ next.slots[s].connector = slot.connector
               /\ next.slots[s].eligibility = "checking"
    <3>1. SessionOf(next.slots[s]) = session
      BY <1>9, <2>1
    <3>2. QED
      BY <1>9, <2>1, <3>1 DEF ConnectedSlot
  <2>2. QED
    BY <1>7, <2>1 DEF Absent
<1>12. s \in Connected(next) => next.slots[s].status # "absent"
  BY DEF Connected
<1>13. \A t \in SlotIds : /\ t >= s /\ t # s => t >= s + 1
                          /\ t > s => t # s
  BY <1>1
<1>14. FromPrevious(next)
  BY <1>1, <1>10, <1>11, <1>12 DEF FromPrevious, Starting, slot
<1>15. Reached(next, s, watchers', runtime')
  <2> SUFFICES ASSUME NEW t \in Connected(next), t >= s
               PROVE  /\ t \in watchers' /\ runtime'[t] = SessionOf(next.slots[t])
                      /\ next.slots[t].eligibility = "checking"
    BY DEF Reached
  <2>1. CASE t = s
    BY <1>4, <1>5, <1>11, <1>12, <2>1
  <2>2. CASE t # s
    BY <1>4, <1>5, <1>10, <1>13, <2>2 DEF Starting, Reached, s
  <2>3. QED
    BY <2>1, <2>2
<1>16. Apart(next, s)
  <2> SUFFICES ASSUME NEW t \in Connected(next), NEW u \in Connected(next), t >= s, u > t
               PROVE  reconcile.previous.slots[t].connector
                        # reconcile.previous.slots[u].connector
    BY DEF Apart
  <2>1. t \in SlotIds /\ u \in SlotIds
    BY DEF Connected
  <2>2. u > s /\ u # s
    BY <1>1, <2>1
  <2>3. CASE t = s
    BY <1>10, <2>2, <2>3 DEF Starting, AwaitedApart, s
  <2>4. CASE t # s
    BY <1>10, <1>13, <2>2, <2>4 DEF Starting, Apart, s
  <2>5. QED
    BY <2>3, <2>4
<1>17. WatchedFrom(next, s, watchers')
  <2> SUFFICES ASSUME NEW t \in watchers'
               PROVE  t >= s /\ (t \in Listed(next) => t \in Connected(next))
    BY DEF WatchedFrom
  <2>1. CASE t = s
    BY <1>1, <1>11, <2>1 DEF Listed, Connected
  <2>2. CASE t # s
    <3>1. /\ t \in SlotIds /\ t >= s + 1
          /\ t \in Listed(reconcile.next) => t \in Connected(reconcile.next)
      BY <1>1, <1>4, <2>2 DEF Starting, WatchedFrom, s
    <3>2. t >= s
      BY <1>1, <3>1
    <3>3. QED
      BY <1>7, <2>2, <3>1, <3>2, KeptSame DEF Listed, Connected
  <2>3. QED
    BY <2>1, <2>2
<1>18. StillConnected(shown)
  <2> SUFFICES ASSUME NEW t \in Connected(reconcile.previous), t \in Listed(shown)
               PROVE  t \in Connected(shown)
    BY DEF StillConnected
  <2>1. t \in SlotIds /\ shown.slots[t].status # "absent"
    BY DEF Listed
  <2>2. CASE t = s
    <3>1. PICK eligibility \in Eligibilities :
            shown.slots[s] = ConnectedSlot(session.account, sessionState.slots[s].venue,
                                           session.connector, eligibility)
      BY <1>8, <2>1, <2>2 DEF Absent
    <3>2. QED
      BY <2>1, <2>2, <3>1 DEF ConnectedSlot, Connected
  <2>3. CASE t # s
    <3>1. shown.slots[t] = sessionState.slots[t]
      BY <1>8, <2>1, <2>3, KeptSame
    <3>2. QED
      BY <2>1, <3>1 DEF Starting, StillConnected, Listed, Connected
  <2>4. QED
    BY <2>2, <2>3
<1>19. /\ flow = NoFlow /\ verifications = {}
       /\ StillConnected(committed) /\ StillConnected(stateRef)
       /\ watchers' \subseteq SlotIds
  BY <1>1, <1>4 DEF Starting, NothingElse
<1>20. /\ Reached(next, reconcile.awaiting, watchers', runtime')
       /\ Apart(next, reconcile.awaiting) /\ WatchedFrom(next, reconcile.awaiting, watchers')
  BY <1>15, <1>16, <1>17 DEF s
<1>21. QED
  BY <1>1, <1>4, <1>6, <1>7, <1>8, <1>14, <1>18, <1>19, <1>20, ContinuesFollows

\* The page's commits and the wallets' own switches do not disturb it.
LEMMA QuietStarting ==
  ASSUME Starting,
         \/ Commit \/ EffectsFlush \/ UNCHANGED vars
         \/ \E connector \in Connectors, account \in Accounts \cup {None} :
              WalletSwitches(connector, account)
  PROVE  Starting'
<1>1. /\ UNCHANGED <<sessionState, watchers, runtime, reconcile, verifications>>
      /\ flow' \in {flow, NoFlow}
      /\ committed' \in {committed, sessionState}
      /\ stateRef' \in {stateRef, committed}
  <2>1. CASE Commit
    BY <2>1 DEF Commit
  <2>2. CASE EffectsFlush
    BY <2>2 DEF EffectsFlush
  <2>3. CASE UNCHANGED vars
    BY <2>3 DEF vars
  <2>4. ASSUME NEW connector \in Connectors, NEW account \in Accounts \cup {None},
               WalletSwitches(connector, account)
        PROVE  UNCHANGED <<sessionState, watchers, runtime, reconcile, verifications, flow,
                           committed, stateRef>>
    BY <2>4 DEF WalletSwitches
  <2>5. QED
    BY <2>1, <2>2, <2>3, <2>4
<1>2. NothingElse'
  BY <1>1 DEF Starting, NothingElse
<1>3. /\ FromPrevious(reconcile.next)' /\ Apart(reconcile.next, reconcile.awaiting + 1)'
      /\ AwaitedApart'
  BY <1>1 DEF Starting, FromPrevious, Apart, AwaitedApart, Connected
<1>4. /\ Reached(reconcile.next, reconcile.awaiting + 1, watchers, runtime)'
      /\ WatchedFrom(reconcile.next, reconcile.awaiting + 1, watchers)'
  BY <1>1 DEF Starting, Reached, WatchedFrom, Connected, Listed
<1>5. StillConnected(sessionState)' /\ StillConnected(committed)' /\ StillConnected(stateRef)'
  BY <1>1 DEF Starting, StillConnected, Connected, Listed
<1>6. QED
  BY <1>2, <1>3, <1>4, <1>5 DEF Starting

-----------------------------------------------------------------------------
(* One verification of the reconciliation at a time *)

\* Steps that leave its verifications alone, and do not end it.
LEMMA SameReconciling ==
  ASSUME OneReconciling, reconcile'.stage = reconcile.stage,
         \A w \in verifications' : w \in verifications \/ w.by = "user"
  PROVE  OneReconciling'
  BY DEF OneReconciling

LEMMA SigningOne ==
  ASSUME IInv, OneReconciling, NEW v \in verifications, VerificationSigns(v)
  PROVE  OneReconciling'
<1> DEFINE x == [v EXCEPT !.stage = "signed"]
<1>1. v \in VerificationCall
  BY DEF IInv, TypeOK
<1>2. x.by = v.by
  BY <1>1 DEF VerificationCall
<1>3. verifications' = (verifications \ {v}) \cup {x} /\ UNCHANGED reconcile
  BY DEF VerificationSigns
<1> HIDE DEF x
<1>4. QED
  BY <1>2, <1>3 DEF OneReconciling

LEMMA EndingOne ==
  ASSUME OneReconciling, NEW v \in verifications, NEW e, VerificationEnds(v, e)
  PROVE  OneReconciling'
<1> DEFINE s == Follower(v)
           next == Verification("reconcile", s, reconcile.next.slots[s].account,
                                reconcile.next.slots[s].venue)
<1>1. \/ /\ v.by = "reconcile"
         /\ verifications' = (verifications \ {v}) \cup {next}
         /\ UNCHANGED reconcile
      \/ /\ verifications' = verifications \ {v}
         /\ v.by # "reconcile" => UNCHANGED reconcile
  BY DEF VerificationEnds, Follower
<1> HIDE DEF next
<1>2. QED
  BY <1>1 DEF OneReconciling

LEMMA ContinuingOne ==
  ASSUME OneReconciling, reconcile \in Reconciliation, reconcile.stage = "running",
         NEW next, NEW shown, ReconcileContinues(next, shown)
  PROVE  OneReconciling'
<1>1. \A w \in verifications : w.by # "reconcile"
  BY DEF OneReconciling
<1>2. \/ UNCHANGED verifications
      \/ \E v : verifications' = verifications \cup {v} /\ reconcile'.stage = "verifying"
  BY DEF ReconcileContinues, NoReconcile
<1>3. QED
  BY <1>1, <1>2 DEF OneReconciling

-----------------------------------------------------------------------------
(* The reload *)

LEMMA ReloadFollows ==
  ASSUME IInv, Reload
  PROVE  /\ reconcile'.stage = "running" => Starting'
         /\ reconcile'.stage # "running" => Following'
         /\ OneReconciling'
<1> DEFINE state == NormalizeState(stateRef)
<1>1. /\ sessionState' = state /\ committed' = state /\ stateRef' = state
      /\ reconcile' = StartReconcile(state)
      /\ watchers' = {} /\ flow' = NoFlow /\ verifications' = {}
  BY DEF Reload, ClickCommits
<1> HIDE DEF state
<1>2. OneReconciling'
  BY <1>1 DEF OneReconciling
<1>3. CASE Connected(state) = {}
  <2>1. Connected(sessionState)' = {}
    BY <1>1, <1>3 DEF Connected
  <2>2. Sessions' /\ Exclusive' /\ VerifiedHere' /\ CheckingIsServed' /\ RefAgrees'
    BY <2>1 DEF Sessions, Exclusive, VerifiedHere, CheckingIsServed, RefAgrees, Tradable
  <2>3. LiveAreConnected' /\ FlowIsFree'
    BY <1>1 DEF LiveAreConnected, Live, FlowIsFree, NoFlow
  <2>4. reconcile'.stage # "running"
    BY <1>1, <1>3, NoReconcileType DEF StartReconcile
  <2>5. QED
    BY <1>2, <2>2, <2>3, <2>4 DEF Following
<1>4. CASE Connected(state) # {}
  <2> DEFINE s == Newest(Connected(state))
  <2>1. reconcile' = [stage |-> "running", previous |-> state, next |-> state,
                      awaiting |-> s, detached |-> FALSE]
    BY <1>1, <1>4 DEF StartReconcile
  <2>2. /\ s \in SlotIds /\ s \in Nat
        /\ \A t \in Connected(state) : t \in Nat /\ t <= s
    <3>1. Connected(state) \in SUBSET SlotIds
      BY DEF Connected
    <3>2. s \in Connected(state)
      BY <1>4, <3>1, NewestExists
    <3>3. s # 0
      BY <3>1, <3>2 DEF SlotIds
    <3>4. \A t \in Connected(state) : t <= s
      BY <3>3, NewestMember
    <3>5. QED
      BY <3>1, <3>2, <3>4 DEF SlotIds
  <2> HIDE DEF s
  <2>3. /\ reconcile'.stage = "running" /\ reconcile'.previous = state
        /\ reconcile'.next = state /\ reconcile'.awaiting = s /\ ~reconcile'.detached
    BY <2>1
  <2>4. \A t \in Connected(state) : ~(t >= s + 1) /\ ~(t > s)
    BY <2>2
  <2>5. NothingElse'
    BY <1>1, <2>3 DEF NothingElse
  <2>6. /\ FromPrevious(reconcile.next)' /\ Apart(reconcile.next, reconcile.awaiting + 1)'
        /\ AwaitedApart'
    BY <2>3, <2>4 DEF FromPrevious, Apart, AwaitedApart, Connected
  <2>7. /\ Reached(reconcile.next, reconcile.awaiting + 1, watchers, runtime)'
        /\ WatchedFrom(reconcile.next, reconcile.awaiting + 1, watchers)'
    BY <1>1, <2>3, <2>4 DEF Reached, WatchedFrom, Connected
  <2>8. /\ StillConnected(sessionState)' /\ StillConnected(committed)'
        /\ StillConnected(stateRef)'
    BY <1>1, <2>3 DEF StillConnected, Connected
  <2>9. QED
    BY <1>2, <2>3, <2>5, <2>6, <2>7, <2>8 DEF Starting
<1>5. QED
  BY <1>3, <1>4

-----------------------------------------------------------------------------
(* The steps together *)

\* A click or an event during the start-up is remembered until the page is
\* reloaded, and so is a callback that found an older state.
LEMMA StaysOutdated ==
  ASSUME UserStep \/ \E s \in SlotIds, session \in Runtime : ProviderEvent(s, session)
  PROVE  outdated \/ reconcile.stage = "running" => outdated'
<1>1. CASE UserStep
  BY <1>1
  DEF UserStep, ClickConnect, ClickReconnect, ClickSetActive, ClickDisconnect, ClickRemove,
      ClickClearAll, ClickSetsFromRef, SetsFromRef, ReadsRef, OverlapsReconcile
<1>2. ASSUME NEW s \in SlotIds, NEW session \in Runtime, ProviderEvent(s, session)
      PROVE  outdated \/ reconcile.stage = "running" => outdated'
  BY <1>2 DEF ProviderEvent, OverlapsReconcile
<1>3. QED
  BY <1>1, <1>2

LEMMA ReconcileWithoutStage ==
  ASSUME reconcile \in Reconciliation, NEW ids, reconcile' = ReconcileWithout(ids)
  PROVE  reconcile'.stage = reconcile.stage
  BY DEF ReconcileWithout, Reconciliation

\* A provider's event has a session of the slot's own wallet, or none.
LEMMA EventSessions ==
  ASSUME IInv, NEW s \in SlotIds, AccountsChanged(s) \/ ProviderDisconnects(s)
  PROVE  \E session \in Runtime : /\ session = NoSession \/ session.connector = runtime[s].connector
                                  /\ ProviderEvent(s, session)
<1>1. runtime[s] \in Runtime /\ walletAccount \in [Connectors -> Accounts \cup {None}]
  BY DEF IInv, TypeOK
<1>2. NoSession \in Runtime
  BY DEF Runtime
<1>3. CASE ProviderDisconnects(s)
  BY <1>2, <1>3 DEF ProviderDisconnects
<1>4. CASE AccountsChanged(s)
  <2> DEFINE account == walletAccount[runtime[s].connector]
             session == [runtime[s] EXCEPT !.account = account]
  <2>1. runtime[s] # NoSession /\ ProviderEvent(s, IF account = None THEN NoSession ELSE session)
    BY <1>4 DEF AccountsChanged
  <2>2. PICK a \in Accounts, c \in Connectors : runtime[s] = [account |-> a, connector |-> c]
    BY <1>1, <2>1 DEF Runtime
  <2>3. account \in Accounts \cup {None}
    BY <1>1, <2>2
  <2>4. session = [account |-> account, connector |-> c] /\ runtime[s].connector = c
    BY <2>2
  <2>5. CASE account = None
    BY <1>2, <2>1, <2>5
  <2>6. CASE account # None
    <3> HIDE DEF account, session
    <3>1. session \in Runtime /\ session.connector = runtime[s].connector
      BY <2>3, <2>4, <2>6 DEF Runtime
    <3>2. QED
      BY <2>1, <2>6, <3>1
  <2>7. QED
    BY <2>5, <2>6
<1>5. QED
  BY <1>3, <1>4

LEMMA UserKeeps ==
  ASSUME IInv, FInv, UserStep
  PROVE  FInv'
<1>1. /\ UNCHANGED verifications
      /\ reconcile' = reconcile \/ \E ids : reconcile' = ReconcileWithout(ids)
  BY DEF UserStep, ClickConnect, ClickReconnect, ClickSetActive, ClickDisconnect, ClickRemove,
         ClickClearAll
<1>2. reconcile'.stage = reconcile.stage
  BY <1>1, ReconcileWithoutStage DEF IInv, TypeOK
<1>3. OneReconciling'
  BY <1>1, <1>2, SameReconciling DEF FInv
<1>4. CASE outdated'
  BY <1>3, <1>4 DEF FInv, Follows, Starts
<1>5. CASE ~outdated'
  <2>1. ~outdated /\ reconcile.stage # "running"
    BY <1>5, StaysOutdated
  <2>2. Following'
    BY <1>5, <2>1, ClicksFollow DEF FInv, Follows
  <2>3. QED
    BY <1>2, <1>3, <2>1, <2>2 DEF FInv, Starts
<1>6. QED
  BY <1>4, <1>5

LEMMA FlowKeeps ==
  ASSUME IInv, FInv, FlowConnected \/ FlowRefused
  PROVE  FInv'
<1>1. /\ flow.stage = "wallet" /\ UNCHANGED reconcile
      /\ outdated => outdated'
      /\ \A w \in verifications' : w \in verifications \/ w.by = "user"
  <2>1. CASE FlowRefused
    BY <2>1 DEF FlowRefused, SetsFromRef, ReadsRef
  <2>2. CASE FlowConnected
    <3> DEFINE v == Verification("user", flow.slot, walletAccount[flow.connector], flow.venue)
    <3>1. /\ flow.stage = "wallet" /\ UNCHANGED reconcile
          /\ outdated => outdated'
          /\ verifications' = verifications \cup {v}
      BY <2>2 DEF FlowConnected, SetsFromRef, ReadsRef
    <3>2. v.by = "user"
      BY DEF Verification
    <3> HIDE DEF v
    <3>3. QED
      BY <3>1, <3>2
  <2>3. QED
    BY <2>1, <2>2
<1>2. OneReconciling'
  BY <1>1, SameReconciling DEF FInv
<1>3. CASE outdated'
  BY <1>2, <1>3 DEF FInv, Follows, Starts
<1>4. CASE ~outdated'
  <2>1. ~Starts
    BY <1>1 DEF FInv, Starting, NothingElse, NoFlow
  <2>2. Follows /\ Following
    BY <1>1, <1>4, <2>1 DEF FInv, Starts, Follows
  <2>3. Following'
    BY <1>4, <2>2, AnswerFollows, RefusalFollows
  <2>4. QED
    BY <1>1, <1>2, <2>2, <2>3 DEF FInv, Starts, Follows
<1>5. QED
  BY <1>3, <1>4

LEMMA VerificationKeeps ==
  ASSUME IInv, FInv, VerificationStep
  PROVE  FInv'
<1>1. PICK v \in verifications :
        \/ VerificationSigns(v)
        \/ \E eligible \in BOOLEAN : VerificationAnswers(v, eligible)
        \/ VerificationFails(v)
  BY DEF VerificationStep
<1>2. CASE outdated
  <2>1. UNCHANGED outdated
    BY <1>1 DEF VerificationSigns, VerificationAnswers, VerificationFails
  <2>2. OneReconciling'
    BY <1>1, SigningOne, EndingOne DEF FInv, VerificationAnswers, VerificationFails
  <2>3. QED
    BY <1>2, <2>1, <2>2 DEF FInv, Follows, Starts
<1>3. CASE ~outdated
  <2>1. reconcile.stage # "running" /\ Following /\ OneReconciling
    BY <1>3 DEF FInv, Starts, Follows, Starting, NothingElse
  <2>2. CASE VerificationSigns(v)
    <3>1. Following' /\ OneReconciling' /\ UNCHANGED reconcile
      BY <2>1, <2>2, SigningFollows, SigningOne DEF VerificationSigns
    <3>2. QED
      BY <2>1, <3>1 DEF FInv, Starts
  <2>3. ASSUME NEW e \in Eligibilities, VerificationEnds(v, e)
        PROVE  OneReconciling' /\ reconcile'.stage # "running"
    <3>1. reconcile' = reconcile \/ reconcile' = NoReconcile
      BY <2>3 DEF VerificationEnds
    <3>2. OneReconciling'
      BY <2>1, <2>3, EndingOne
    <3>3. QED
      BY <2>1, <3>1, <3>2, NoReconcileType
  <2>4. ASSUME NEW eligible \in BOOLEAN, VerificationAnswers(v, eligible)
        PROVE  FInv'
    <3> DEFINE e == IF eligible THEN "tradable" ELSE "not-eligible"
    <3>1. e \in Eligibilities \ {"checking"}
      BY DEF Eligibilities
    <3>2. /\ VerificationEnds(v, e)
          /\ UNCHANGED <<committed, stateRef, runtime, watchers, reloads>>
          /\ confirmed \subseteq confirmed'
          /\ e = "tradable" => <<v.account, v.venue, reloads>> \in confirmed'
      BY <2>4 DEF VerificationAnswers
    <3> HIDE DEF e
    <3>3. Following'
      BY <2>1, <3>1, <3>2, VerdictFollows
    <3>4. QED
      BY <2>3, <3>1, <3>2, <3>3 DEF FInv, Starts
  <2>5. CASE VerificationFails(v)
    <3>1. "error" \in Eligibilities \ {"checking"}
      BY DEF Eligibilities
    <3>2. /\ VerificationEnds(v, "error")
          /\ UNCHANGED <<committed, stateRef, runtime, watchers, reloads, confirmed>>
      BY <2>5 DEF VerificationFails, outerVars, boundVars
    <3>3. Following'
      BY <2>1, <3>1, <3>2, VerdictFollows
    <3>4. QED
      BY <2>3, <3>1, <3>2, <3>3 DEF FInv, Starts
  <2>6. QED
    BY <1>1, <2>2, <2>4, <2>5
<1>4. QED
  BY <1>2, <1>3

LEMMA ReconcileKeeps ==
  ASSUME IInv, FInv, ReconcileReconnects \/ ReconcileRefused
  PROVE  FInv'
<1>1. reconcile.stage = "running" /\ UNCHANGED outdated
  BY DEF ReconcileReconnects, ReconcileRefused
<1>2. CASE outdated
  <2>1. reconcile \in Reconciliation
    BY DEF IInv, TypeOK
  <2>2. \E next, shown : ReconcileContinues(next, shown)
    BY DEF ReconcileReconnects, ReconcileRefused
  <2>3. OneReconciling'
    BY <1>1, <2>1, <2>2, ContinuingOne DEF FInv
  <2>4. QED
    BY <1>1, <1>2, <2>3 DEF FInv, Follows, Starts
<1>3. CASE ~outdated
  <2>1. Starting
    BY <1>1, <1>3 DEF FInv, Starts
  <2>2. QED
    BY <2>1, RefusedFollows, ReconnectedFollows DEF FInv, Follows, Starts
<1>4. QED
  BY <1>2, <1>3

LEMMA EventKeeps ==
  ASSUME IInv, FInv, NEW s \in SlotIds, AccountsChanged(s) \/ ProviderDisconnects(s)
  PROVE  FInv'
<1>1. PICK session \in Runtime : /\ session = NoSession \/ session.connector = runtime[s].connector
                                 /\ ProviderEvent(s, session)
  BY EventSessions
<1>2. UNCHANGED <<verifications, reconcile>>
  BY <1>1 DEF ProviderEvent
<1>3. OneReconciling'
  BY <1>2, SameReconciling DEF FInv
<1>4. CASE outdated'
  BY <1>3, <1>4 DEF FInv, Follows, Starts
<1>5. CASE ~outdated'
  <2>1. ~outdated /\ reconcile.stage # "running"
    BY <1>1, <1>5, StaysOutdated
  <2>2. Following'
    BY <1>1, <2>1, EventFollows DEF FInv, Follows
  <2>3. QED
    BY <1>2, <1>3, <2>1, <2>2 DEF FInv, Starts
<1>6. QED
  BY <1>4, <1>5

LEMMA PageKeeps ==
  ASSUME IInv, FInv,
         \/ Commit \/ EffectsFlush \/ UNCHANGED vars
         \/ \E connector \in Connectors, account \in Accounts \cup {None} :
              WalletSwitches(connector, account)
  PROVE  FInv'
<1>1. UNCHANGED <<verifications, reconcile, outdated>>
  BY DEF Commit, EffectsFlush, vars, WalletSwitches
<1>2. OneReconciling'
  BY <1>1, SameReconciling DEF FInv
<1>3. Follows' => Following'
  BY <1>1, PageFollows DEF FInv, Follows
<1>4. Starts' => Starting'
  BY <1>1, QuietStarting DEF FInv, Starts
<1>5. QED
  BY <1>2, <1>3, <1>4 DEF FInv

LEMMA FollowsInvariance == Spec => []FInv
<1>1. Init => FInv
  <2> SUFFICES ASSUME Init
               PROVE  FInv
    OBVIOUS
  <2>1. /\ Connected(sessionState) = {} /\ Listed(sessionState) = {}
        /\ watchers = {} /\ flow = NoFlow /\ verifications = {} /\ reconcile = NoReconcile
    BY EmptySlots DEF Init, Connected, Listed, Absent
  <2>2. Following
    BY <2>1 DEF Following, Sessions, LiveAreConnected, Exclusive, VerifiedHere, Tradable,
                CheckingIsServed, RefAgrees, FlowIsFree, NoFlow
  <2>3. ~Starts /\ OneReconciling
    BY <2>1, NoReconcileType DEF Starts, OneReconciling
  <2>4. QED
    BY <2>2, <2>3 DEF FInv
<1>2. IInv /\ FInv /\ [Next]_vars => FInv'
  <2> SUFFICES ASSUME IInv, FInv, [Next]_vars
               PROVE  FInv'
    OBVIOUS
  <2>1. CASE Reload
    BY <2>1, ReloadFollows DEF FInv, Follows, Starts
  <2>2. CASE WalletStep
    BY <2>2, EventKeeps, PageKeeps DEF WalletStep
  <2>3. QED
    BY <2>1, <2>2, UserKeeps, FlowKeeps, VerificationKeeps, ReconcileKeeps, PageKeeps DEF Next
<1>3. QED
  BY <1>1, <1>2, Invariance, PTL DEF Spec

-----------------------------------------------------------------------------
(* Every slot has been created *)

\* "new" lists no slot that "old" does not.
NoNew(old, new) == \A t \in SlotIds : old.slots[t] = Absent => new.slots[t] = Absent

BornBy(state, n) == \A t \in SlotIds : t > n => state.slots[t] = Absent

\* A connect is for the next slot, a reconnect for one there has been.
FlowBorn ==
  flow.stage = "wallet" => IF flow.kind = "connect" THEN flow.slot = created + 1
                           ELSE flow.slot <= created

CInv ==
  /\ BornBy(sessionState, created) /\ BornBy(committed, created) /\ BornBy(stateRef, created)
  /\ BornBy(reconcile.previous, created) /\ BornBy(reconcile.next, created)
  /\ FlowBorn

LEMMA LessenedNoNew ==
  ASSUME NEW old, NEW new, \A t \in SlotIds : Lessened(old.slots[t], new.slots[t])
  PROVE  NoNew(old, new)
  BY DEF NoNew, Lessened, Kept

LEMMA NoNewBorn ==
  ASSUME NEW old, NEW new, NEW n, BornBy(old, n), NoNew(old, new)
  PROVE  BornBy(new, n)
  BY DEF BornBy, NoNew

LEMMA WatchNoNew ==
  ASSUME NEW state \in Session, NEW s \in SlotIds, NEW session \in Runtime
  PROVE  NoNew(state, WatchUpdate(state, s, session))
<1> DEFINE new == WatchUpdate(state, s, session)
<1>1. \A t \in SlotIds \ {s} : Kept(state.slots[t], new.slots[t])
  BY WatchSlots
<1>2. state.slots[s] = Absent => Lessened(state.slots[s], new.slots[s])
  BY WatchSlots
<1>3. QED
  BY <1>1, <1>2 DEF NoNew, Lessened, Kept

LEMMA SettleNoNew ==
  ASSUME NEW state \in Session, NEW v \in VerificationCall, NEW eligibility \in Eligibilities
  PROVE  NoNew(state, SettleVerification(state, v, eligibility))
  BY SettleHolds DEF Holds, NoNew, Kept, Absent

LEMMA UpsertBorn ==
  ASSUME NEW state \in Session, NEW s \in SlotIds, NEW session \in Runtime,
         session # NoSession, NEW venue \in Venues, NEW n \in Nat, BornBy(state, n), s <= n
  PROVE  BornBy(UpsertConnectedWallet(state, s, session, venue, "checking"), n)
<1>1. PICK account \in Accounts, connector \in Connectors :
        session = [account |-> account, connector |-> connector]
  BY DEF Runtime
<1>2. "checking" \in Eligibilities
  BY EligibilityNames
<1> DEFINE new == UpsertConnectedWallet(state, s, session, venue, "checking")
<1>3. \A t \in SlotIds \ {s} : Kept(state.slots[t], new.slots[t])
  BY <1>1, <1>2, UpsertSlots
<1> HIDE DEF new
<1>4. \A t \in SlotIds : t > n => t # s
  BY DEF SlotIds
<1>5. BornBy(new, n)
  BY <1>3, <1>4 DEF BornBy, Kept
<1>6. QED
  BY <1>5 DEF new

\* A click lessens the slots it is given: those of the page, or older ones.
LEMMA ClickSlots ==
  ASSUME IInv, UserStep
  PROVE  \E base \in {sessionState, stateRef} :
           /\ \A t \in SlotIds : Lessened(base.slots[t], sessionState'.slots[t])
           /\ ~outdated' => base = sessionState
<1>1. /\ sessionState \in Session /\ stateRef \in Session
      /\ \A t \in SlotIds : Lessened(sessionState.slots[t], sessionState.slots[t])
  BY DEF IInv, TypeOK, Lessened, Kept
<1>2. ReadsRef => (~outdated' => stateRef = sessionState)
  BY DEF ReadsRef
<1>3. CASE UNCHANGED sessionState
  BY <1>1, <1>3
<1>4. ASSUME NEW s \in SlotIds, ClickSetActive(s)
      PROVE  /\ ~outdated' => stateRef = sessionState
             /\ \A t \in SlotIds : Lessened(stateRef.slots[t], sessionState'.slots[t])
  BY <1>1, <1>2, <1>4, TakenAway DEF ClickSetActive, ClickSetsFromRef, SetsFromRef
<1>5. ASSUME NEW s \in SlotIds, ClickDisconnect(s)
      PROVE  \A t \in SlotIds : Lessened(sessionState.slots[t], sessionState'.slots[t])
  BY <1>1, <1>5, MarkSlots DEF ClickDisconnect, MarkWalletSlotStatus
<1>6. ASSUME NEW s \in SlotIds, ClickRemove(s), ~UNCHANGED sessionState
      PROVE  /\ ~outdated' => stateRef = sessionState
             /\ \A t \in SlotIds : Lessened(stateRef.slots[t], sessionState'.slots[t])
  BY <1>1, <1>2, <1>6, TakenAway DEF ClickRemove, ClickSetsFromRef, SetsFromRef
<1>7. ASSUME ClickClearAll
      PROVE  \A t \in SlotIds : Lessened(sessionState.slots[t], sessionState'.slots[t])
  BY <1>7, EmptySlots DEF ClickClearAll, ClickSetsFromRef, SetsFromRef, Lessened, Kept
<1>8. ASSUME NEW s \in SlotIds, ClickReconnect(s)
      PROVE  UNCHANGED sessionState
  BY <1>8 DEF ClickReconnect
<1>9. ASSUME NEW connector \in Connectors, NEW venue \in Venues, ClickConnect(connector, venue)
      PROVE  UNCHANGED sessionState
  BY <1>9 DEF ClickConnect
<1>10. QED
  BY <1>3, <1>4, <1>5, <1>6, <1>7, <1>8, <1>9 DEF UserStep

LEMMA UserBorn ==
  ASSUME IInv, CInv, UserStep
  PROVE  CInv'
<1>1. BornBy(sessionState', created)
  BY ClickSlots, LessenedNoNew, NoNewBorn DEF CInv
<1>2. /\ committed' \in {sessionState, sessionState'} /\ stateRef' = committed'
      /\ UNCHANGED created
      /\ reconcile' = reconcile \/ \E ids : reconcile' = ReconcileWithout(ids)
  BY DEF UserStep, ClickConnect, ClickReconnect, ClickSetActive, ClickDisconnect, ClickRemove,
         ClickClearAll, ClickSetsFromRef, SetsFromRef, ClickCommits, boundVars
<1>3. reconcile'.previous = reconcile.previous /\ reconcile'.next = reconcile.next
  BY <1>2 DEF ReconcileWithout, IInv, TypeOK, Reconciliation
<1>4. FlowBorn'
  <2>1. ASSUME NEW connector \in Connectors, NEW venue \in Venues, ClickConnect(connector, venue)
        PROVE  FlowBorn'
    BY <1>2, <2>1 DEF ClickConnect, FlowBorn
  <2>2. ASSUME NEW s \in SlotIds, ClickReconnect(s)
        PROVE  FlowBorn'
    <3>1. s <= created
      <4>1. stateRef.slots[s] # Absent /\ created \in Nat /\ s \in Nat
        BY <2>2 DEF ClickReconnect, Listed, Absent, IInv, TypeOK, SlotIds
      <4>2. ~(s > created)
        BY <4>1 DEF CInv, BornBy
      <4>3. QED
        BY <4>1, <4>2
    <3>2. QED
      BY <1>2, <2>2, <3>1 DEF ClickReconnect, FlowBorn
  <2>3. UNCHANGED flow => FlowBorn'
    BY <1>2 DEF CInv, FlowBorn
  <2>4. QED
    BY <2>1, <2>2, <2>3 DEF UserStep, ClickSetActive, ClickDisconnect, ClickRemove, ClickClearAll
<1>5. QED
  BY <1>1, <1>2, <1>3, <1>4 DEF CInv, BornBy

\* Steps of the page's state alone.
LEMMA SameBorn ==
  ASSUME CInv, NoNew(sessionState, sessionState') \/ NoNew(stateRef, sessionState'),
         committed' \in {committed, sessionState}, stateRef' \in {stateRef, committed},
         reconcile' \in {reconcile, NoReconcile}, UNCHANGED created,
         flow' = flow \/ flow'.stage # "wallet"
  PROVE  CInv'
<1>1. BornBy(sessionState', created)
  BY NoNewBorn DEF CInv
<1>2. BornBy(reconcile'.previous, created) /\ BornBy(reconcile'.next, created)
  <2>1. BornBy(EmptySession, created)
    BY EmptySlots DEF BornBy
  <2>2. QED
    BY <2>1, NoReconcileType DEF CInv
<1>3. FlowBorn'
  BY DEF CInv, FlowBorn
<1>4. QED
  BY <1>1, <1>2, <1>3 DEF CInv, BornBy

LEMMA AnswerBorn ==
  ASSUME IInv, CInv, FlowConnected
  PROVE  CInv'
<1> DEFINE s == flow.slot
           session == [account |-> walletAccount[flow.connector], connector |-> flow.connector]
           v == Verification("user", s, session.account, flow.venue)
           upserted == IF UpsertChanges(stateRef, s)
                       THEN UpsertConnectedWallet(stateRef, s, session, flow.venue, "checking")
                       ELSE sessionState
           watched == WatchUpdate(upserted, s, session)
           n == IF flow.kind = "connect" THEN s ELSE created
<1>1. /\ flow.stage = "wallet" /\ session.account # None
      /\ sessionState' = SettleVerification(watched, v, "checking")
      /\ created' = n
      /\ flow' = [flow EXCEPT !.stage = "verifying"]
      /\ UNCHANGED <<committed, stateRef, reconcile>>
  BY DEF FlowConnected, SetsFromRef
<1>2. /\ sessionState \in Session /\ stateRef \in Session /\ flow \in Flow
      /\ walletAccount \in [Connectors -> Accounts \cup {None}] /\ created \in Nat
  BY DEF IInv, TypeOK
<1>3. s \in SlotIds /\ flow.connector \in Connectors /\ flow.venue \in Venues
  BY <1>1, <1>2 DEF Flow, NoFlow
<1>4. session \in Runtime /\ session # NoSession /\ session.account \in Accounts
  BY <1>1, <1>2, <1>3 DEF Runtime, NoSession
<1>5. v \in VerificationCall /\ "checking" \in Eligibilities
  BY <1>3, <1>4, EligibilityNames DEF Verification, VerificationCall
<1>6. n \in Nat /\ created <= n /\ s <= n
  BY <1>1, <1>2, <1>3 DEF CInv, FlowBorn, SlotIds
<1>7. flow'.stage # "wallet"
  BY <1>1, <1>2 DEF Flow, NoFlow
<1> HIDE DEF n, session, v, s
<1>8. ASSUME NEW state, BornBy(state, created)
      PROVE  BornBy(state, n)
  BY <1>2, <1>6, <1>8 DEF BornBy, SlotIds
<1>9. upserted \in Session /\ BornBy(upserted, n)
  <2>1. BornBy(stateRef, n) /\ BornBy(sessionState, n)
    BY <1>8 DEF CInv
  <2>2. UpsertConnectedWallet(stateRef, s, session, flow.venue, "checking") \in Session
    <3>1. Vetted(stateRef, confirmed)
      BY DEF IInv, AllVetted
    <3>2. QED
      BY <1>2, <1>3, <1>4, <3>1, UpsertVetted
  <2>3. BornBy(UpsertConnectedWallet(stateRef, s, session, flow.venue, "checking"), n)
    BY <1>2, <1>3, <1>4, <1>6, <2>1, UpsertBorn
  <2>4. QED
    BY <1>2, <2>1, <2>2, <2>3
<1> HIDE DEF upserted
<1>10. watched \in Session /\ BornBy(watched, n)
  BY <1>3, <1>4, <1>9, WatchSlots, WatchNoNew, NoNewBorn
<1> HIDE DEF watched
<1>11. BornBy(sessionState', n)
  BY <1>1, <1>5, <1>10, SettleNoNew, NoNewBorn
<1>12. /\ BornBy(committed, n) /\ BornBy(stateRef, n)
       /\ BornBy(reconcile.previous, n) /\ BornBy(reconcile.next, n)
  BY <1>8 DEF CInv
<1>13. QED
  BY <1>1, <1>7, <1>11, <1>12 DEF CInv, BornBy, FlowBorn

LEMMA RefusalBorn ==
  ASSUME IInv, CInv, FlowRefused
  PROVE  CInv'
<1>1. stateRef \in Session /\ flow \in Flow
  BY DEF IInv, TypeOK
<1>2. /\ flow.stage = "wallet" /\ flow' = [flow EXCEPT !.stage = "ended"]
      /\ sessionState' \in {sessionState, MarkWalletSlots(stateRef, {flow.slot}, "stale")}
      /\ UNCHANGED <<committed, stateRef, reconcile, created>>
  BY DEF FlowRefused, SetsFromRef, MarkWalletSlotStatus, outerVars, boundVars
<1>3. flow'.stage # "wallet"
  BY <1>1, <1>2 DEF Flow, NoFlow
<1>4. NoNew(sessionState, sessionState') \/ NoNew(stateRef, sessionState')
  <2>1. CASE UNCHANGED sessionState
    BY <2>1 DEF NoNew
  <2>2. CASE sessionState' = MarkWalletSlots(stateRef, {flow.slot}, "stale")
    <3>1. \A t \in SlotIds : Lessened(stateRef.slots[t], sessionState'.slots[t])
      BY <1>1, <2>2, MarkSlots
    <3>2. QED
      BY <3>1, LessenedNoNew
  <2>3. QED
    BY <1>2, <2>1, <2>2
<1>5. QED
  BY <1>2, <1>3, <1>4, SameBorn

LEMMA EndsBorn ==
  ASSUME IInv, CInv, NEW v \in verifications, NEW e \in Eligibilities, VerificationEnds(v, e),
         UNCHANGED <<committed, stateRef, created>>
  PROVE  CInv'
<1>1. v \in VerificationCall /\ flow \in Flow
  BY DEF IInv, TypeOK
<1>2. NoNew(sessionState, sessionState')
  <2> SUFFICES ASSUME NEW t \in SlotIds, sessionState.slots[t] = Absent,
                      sessionState'.slots[t].status # "absent"
               PROVE  FALSE
    <3>1. sessionState' \in Session
      BY EndsStep DEF IInv
    <3>2. QED
      BY <3>1, SessionParts, SlotTypes DEF NoNew
  <2> DEFINE s == Follower(v)
  <2>1. LET old == sessionState.slots[t]
            new == sessionState'.slots[t]
        IN \/ new = old
           \/ t = v.slot /\ Settles(old, v.account)
           \/ old.status = "connected"
    BY VerdictSlots
  <2>2. QED
    BY <2>1 DEF Settles, Absent
<1>3. flow' = flow \/ flow'.stage # "wallet"
  <2>1. CASE v.by = "user"
    <3>1. flow' = [flow EXCEPT !.stage = "ended"] /\ flow.stage = "verifying"
      BY <2>1 DEF VerificationEnds, IInv, UserVerification
    <3>2. QED
      BY <1>1, <3>1 DEF Flow, NoFlow
  <2>2. CASE v.by # "user"
    BY <2>2 DEF VerificationEnds
  <2>3. QED
    BY <2>1, <2>2
<1>4. reconcile' \in {reconcile, NoReconcile}
  BY DEF VerificationEnds
<1>5. QED
  BY <1>2, <1>3, <1>4, SameBorn

LEMMA ContinuesBorn ==
  ASSUME IInv, CInv, NEW next \in Session, NEW shown \in Session,
         ReconcileContinues(next, shown), BornBy(next, created), BornBy(shown, created),
         UNCHANGED <<committed, stateRef, created, flow>>
  PROVE  CInv'
<1> DEFINE left == {t \in Connected(reconcile.previous) : t < reconcile.awaiting}
           s == Newest({t \in left :
                          reconcile.previous.slots[t].connector \notin LockedConnectors(next)})
           marked == MarkWalletSlots(next, {t \in left : t > s}, "stale")
           first == Newest(Connected(marked))
           v == Verification("reconcile", first, marked.slots[first].account,
                             marked.slots[first].venue)
<1>1. marked \in Session /\ BornBy(marked, created)
  BY MarkSlots, LessenedNoNew, NoNewBorn
<1>2. BornBy(EmptySession, created)
  BY EmptySlots DEF BornBy
<1>3. /\ BornBy(sessionState', created) /\ BornBy(reconcile'.next, created)
      /\ BornBy(reconcile'.previous, created)
  <2>1. CASE s # 0
    <3>1. /\ sessionState' = shown
          /\ reconcile' = [reconcile EXCEPT !.next = marked, !.awaiting = s, !.detached = FALSE]
      BY <2>1 DEF ReconcileContinues
    <3> HIDE DEF marked, s
    <3>2. reconcile'.next = marked /\ reconcile'.previous = reconcile.previous
      BY <3>1 DEF IInv, TypeOK, Reconciliation
    <3>3. QED
      BY <1>1, <3>1, <3>2 DEF CInv
  <2>2. CASE s = 0 /\ first # 0
    <3>1. first \in Connected(marked)
      BY <2>2, NewestMember
    <3>2. v \in VerificationCall
      BY <1>1, <3>1, NextCallType
    <3>3. /\ sessionState' = SettleVerification(marked, v, "checking")
          /\ reconcile' = [NoReconcile EXCEPT !.stage = "verifying", !.next = marked]
      BY <2>2 DEF ReconcileContinues
    <3> HIDE DEF marked, v
    <3>4. reconcile'.next = marked /\ reconcile'.previous = EmptySession
      BY <3>3 DEF NoReconcile
    <3>5. "checking" \in Eligibilities
      BY EligibilityNames
    <3>6. BornBy(sessionState', created)
      BY <1>1, <3>2, <3>3, <3>5, SettleNoNew, NoNewBorn
    <3>7. QED
      BY <1>1, <1>2, <3>4, <3>6
  <2>3. CASE s = 0 /\ first = 0
    <3>1. sessionState' = marked /\ reconcile' = NoReconcile
      BY <2>3 DEF ReconcileContinues
    <3> HIDE DEF marked
    <3>2. QED
      BY <1>1, <1>2, <3>1, NoReconcileType
  <2>4. QED
    BY <2>1, <2>2, <2>3
<1>4. QED
  BY <1>3 DEF CInv, BornBy, FlowBorn

LEMMA ReconcileBorn ==
  ASSUME IInv, CInv, ReconcileReconnects \/ ReconcileRefused
  PROVE  CInv'
<1>1. /\ sessionState \in Session /\ reconcile.next \in Session /\ created \in Nat
      /\ Vetted(reconcile.next, confirmed)
      /\ runtime \in [SlotIds -> Runtime]
  BY DEF IInv, TypeOK, Reconciliation, AllVetted
<1>2. CASE ReconcileReconnects
  <2> DEFINE s == reconcile.awaiting
             slot == reconcile.previous.slots[s]
             session == [account |-> walletAccount[slot.connector],
                         connector |-> slot.connector]
             next == UpsertConnectedWallet(reconcile.next, s, session, slot.venue, "checking")
             shown == WatchUpdate(sessionState, s, runtime'[s])
  <2>1. /\ reconcile.stage = "running" /\ session.account # None
        /\ runtime' = IF reconcile.detached THEN runtime ELSE [runtime EXCEPT ![s] = session]
        /\ ReconcileContinues(next, shown)
        /\ UNCHANGED <<committed, stateRef, created, flow>>
    BY <1>2 DEF ReconcileReconnects, Reconnected, outerVars, boundVars
  <2>2. /\ s \in SlotIds /\ slot.connector \in Connectors /\ slot.venue \in Venues
        /\ walletAccount[slot.connector] \in Accounts /\ slot.status = "connected"
    BY <2>1, AwaitedSlot DEF IInv
  <2>3. session \in Runtime /\ session # NoSession
    BY <2>1, <2>2 DEF Runtime, NoSession
  <2>4. s <= created
    <3>1. slot # Absent
      BY <2>2 DEF Absent
    <3>2. ~(s > created)
      BY <2>2, <3>1 DEF CInv, BornBy
    <3>3. QED
      BY <1>1, <2>2, <3>2 DEF SlotIds
  <2>5. runtime'[s] \in Runtime
    BY <1>1, <2>1, <2>2, <2>3
  <2> HIDE DEF slot, session, s
  <2>6. next \in Session
    BY <1>1, <2>2, <2>3, UpsertVetted
  <2>7. BornBy(next, created)
    BY <1>1, <2>2, <2>3, <2>4, UpsertBorn DEF CInv
  <2>8. shown \in Session
    BY <1>1, <2>2, <2>5, WatchSlots
  <2>9. BornBy(shown, created)
    BY <1>1, <2>2, <2>5, WatchNoNew, NoNewBorn DEF CInv
  <2> HIDE DEF next, shown
  <2>10. QED
    BY <2>1, <2>6, <2>7, <2>8, <2>9, ContinuesBorn
<1>3. CASE ReconcileRefused
  <2> DEFINE next == MarkWalletSlots(reconcile.next, {reconcile.awaiting}, "stale")
  <2>1. /\ ReconcileContinues(next, sessionState)
        /\ UNCHANGED <<committed, stateRef, created, flow>>
    BY <1>3 DEF ReconcileRefused, MarkWalletSlotStatus, outerVars, boundVars
  <2>2. next \in Session /\ \A t \in SlotIds : Lessened(reconcile.next.slots[t], next.slots[t])
    BY <1>1, MarkSlots
  <2> HIDE DEF next
  <2>3. BornBy(next, created)
    BY <2>2, LessenedNoNew, NoNewBorn DEF CInv
  <2>4. QED
    BY <1>1, <2>1, <2>2, <2>3, ContinuesBorn DEF CInv
<1>4. QED
  BY <1>2, <1>3

LEMMA BornInvariance == Spec => []CInv
<1>1. Init => CInv
  BY EmptySlots, NoReconcileType DEF Init, CInv, BornBy, FlowBorn, NoFlow
<1>2. IInv /\ CInv /\ [Next]_vars => CInv'
  <2> SUFFICES ASSUME IInv, CInv, [Next]_vars
               PROVE  CInv'
    OBVIOUS
  <2>1. NoNew(sessionState, sessionState)
    BY DEF NoNew
  <2>2. CASE VerificationStep
    <3>1. PICK v \in verifications :
            \/ VerificationSigns(v)
            \/ \E eligible \in BOOLEAN : VerificationAnswers(v, eligible)
            \/ VerificationFails(v)
      BY <2>2 DEF VerificationStep
    <3>2. CASE VerificationSigns(v)
      BY <2>1, <3>2, SameBorn DEF VerificationSigns, outerVars, boundVars
    <3>3. ASSUME NEW eligible \in BOOLEAN, VerificationAnswers(v, eligible)
          PROVE  CInv'
      <4> DEFINE e == IF eligible THEN "tradable" ELSE "not-eligible"
      <4>1. e \in Eligibilities
        BY DEF Eligibilities
      <4>2. VerificationEnds(v, e) /\ UNCHANGED <<committed, stateRef, created>>
        BY <3>3 DEF VerificationAnswers
      <4> HIDE DEF e
      <4>3. QED
        BY <4>1, <4>2, EndsBorn
    <3>4. CASE VerificationFails(v)
      <4>1. "error" \in Eligibilities
        BY EligibilityNames
      <4>2. VerificationEnds(v, "error") /\ UNCHANGED <<committed, stateRef, created>>
        BY <3>4 DEF VerificationFails, outerVars, boundVars
      <4>3. QED
        BY <4>1, <4>2, EndsBorn
    <3>5. QED
      BY <3>1, <3>2, <3>3, <3>4
  <2>3. ASSUME NEW s \in SlotIds, AccountsChanged(s) \/ ProviderDisconnects(s)
        PROVE  CInv'
    <3>1. PICK session \in Runtime : ProviderEvent(s, session)
      BY <2>3, EventSessions
    <3>2. NoNew(sessionState, sessionState')
      BY <3>1, WatchNoNew DEF ProviderEvent, IInv, TypeOK
    <3>3. QED
      BY <3>1, <3>2, SameBorn DEF ProviderEvent, outerVars, boundVars
  <2>4. ASSUME \/ Commit \/ EffectsFlush \/ UNCHANGED vars
               \/ \E connector \in Connectors, account \in Accounts \cup {None} :
                    WalletSwitches(connector, account)
        PROVE  CInv'
    <3>1. /\ UNCHANGED <<sessionState, reconcile, created>>
          /\ committed' \in {committed, sessionState} /\ stateRef' \in {stateRef, committed}
          /\ flow' \in {flow, NoFlow}
      BY <2>4 DEF Commit, EffectsFlush, vars, WalletSwitches, outerVars, boundVars
    <3>2. flow' = flow \/ flow'.stage # "wallet"
      BY <3>1 DEF NoFlow
    <3>3. QED
      BY <2>1, <3>1, <3>2, SameBorn
  <2>5. CASE Reload
    <3> DEFINE state == NormalizeState(stateRef)
    <3>1. /\ sessionState' = state /\ committed' = state /\ stateRef' = state
          /\ reconcile' = StartReconcile(state) /\ flow' = NoFlow /\ UNCHANGED created
      BY <2>5 DEF Reload, ClickCommits
    <3>2. \A t \in SlotIds : Lessened(stateRef.slots[t], state.slots[t])
      BY SessionParts, NormalizeSlots DEF IInv, TypeOK, Lessened, Kept
    <3> HIDE DEF state
    <3>3. BornBy(state, created)
      BY <3>2, LessenedNoNew, NoNewBorn DEF CInv
    <3>4. BornBy(EmptySession, created)
      BY EmptySlots DEF BornBy
    <3>5. reconcile'.previous \in {state, EmptySession} /\ reconcile'.next \in {state, EmptySession}
      BY <3>1, NoReconcileType DEF StartReconcile
    <3>6. BornBy(reconcile'.previous, created) /\ BornBy(reconcile'.next, created)
      BY <3>3, <3>4, <3>5
    <3>7. QED
      BY <3>1, <3>3, <3>6 DEF CInv, BornBy, FlowBorn, NoFlow
  <2>6. QED
    BY <2>2, <2>3, <2>4, <2>5, UserBorn, AnswerBorn, RefusalBorn, ReconcileBorn
    DEF Next, WalletStep
<1>3. QED
  BY <1>1, <1>2, Invariance, PTL DEF Spec

-----------------------------------------------------------------------------
(* No slot is revived *)

LEMMA UserRevivesNone ==
  ASSUME IInv, UserStep, ~outdated', NEW t \in SlotIds,
         sessionState'.slots[t].status = "connected"
  PROVE  sessionState.slots[t].status = "connected"
<1>1. \A u \in SlotIds : Lessened(sessionState.slots[u], sessionState'.slots[u])
  BY ClickSlots
<1>2. QED
  BY <1>1, LessenedSame

\* The wallet's answer connects the slot of the dialog only, and a connect
\* that of a new one.
LEMMA AnswerRevives ==
  ASSUME IInv, CInv, FlowConnected, ~outdated', NEW t \in SlotIds,
         sessionState.slots[t].status = "disconnected",
         sessionState'.slots[t].status = "connected"
  PROVE  flow.kind = "reconnect" /\ flow.slot = t
<1>1. stateRef = sessionState /\ flow.stage = "wallet"
  BY DEF FlowConnected, SetsFromRef, ReadsRef
<1>2. flow.slot = t
  BY <1>1, AnsweredSlots DEF Kept, Absent
<1>3. sessionState.slots[t] # Absent
  BY DEF Absent
<1>4. ~(t > created)
  BY <1>3 DEF CInv, BornBy
<1>5. flow.kind # "connect"
  BY <1>1, <1>2, <1>4 DEF CInv, FlowBorn, IInv, TypeOK
<1>6. flow.kind \in {"connect", "reconnect"}
  BY <1>1 DEF IInv, TypeOK, Flow, NoFlow
<1>7. QED
  BY <1>2, <1>5, <1>6

LEMMA EventRevivesNone ==
  ASSUME IInv, Following, NEW s \in SlotIds, NEW session \in Runtime, ProviderEvent(s, session),
         NEW t \in SlotIds, sessionState.slots[t].status = "disconnected",
         sessionState'.slots[t].status = "connected"
  PROVE  FALSE
<1>1. /\ Live(s) /\ sessionState' = WatchUpdate(sessionState, s, session)
      /\ sessionState \in Session
  BY DEF ProviderEvent, Live, IInv, TypeOK
<1>2. t = s
  <2>1. \A u \in SlotIds \ {s} : Kept(sessionState.slots[u], sessionState'.slots[u])
    BY <1>1, WatchSlots
  <2>2. QED
    BY <2>1 DEF Kept, Absent
<1>3. QED
  BY <1>1, <1>2 DEF Following, LiveAreConnected, Listed, Connected

-----------------------------------------------------------------------------
(* Theorems *)

\* While no callback works from an older state, a slot shown connected has a
\* watched runtime session with the account and the wallet it shows.
THEOREM SessionsAreShown == Spec => []ConnectedHasSession
<1>1. FInv => ConnectedHasSession
  BY DEF FInv, Following, Sessions, SessionOf, ConnectedHasSession
<1>2. QED
  BY <1>1, FollowsInvariance, PTL

\* Then no wallet serves two connected slots.
THEOREM WalletsAreExclusive == Spec => []ConnectorExclusive
<1>1. FInv => ConnectorExclusive
  BY DEF FInv, Following, Exclusive, ConnectorExclusive
<1>2. QED
  BY <1>1, FollowsInvariance, PTL

\* Then a slot is offered for trading only on a verdict given since the page
\* was loaded.
THEOREM VerdictsAreOfThisPage == Spec => []TradableVerifiedOnPage
<1>1. FInv => TradableVerifiedOnPage
  BY DEF FInv, Following, VerifiedHere, TradableVerifiedOnPage
<1>2. QED
  BY <1>1, FollowsInvariance, PTL

\* Then every slot shown 'checking' is being verified, or the reconciliation
\* will come to it.
THEOREM CheckingRuns == Spec => []CheckingIsRunning
<1>1. FInv => CheckingIsRunning
  BY DEF FInv, Following, CheckingIsServed, Serves, CheckingIsRunning
<1>2. QED
  BY <1>1, FollowsInvariance, PTL

\* Then a slot that was disconnected is connected again only by the user's
\* reconnect of that slot.
THEOREM NoneIsRevived == Spec => DisconnectedStays
<1>1. IInv /\ FInv /\ CInv /\ [Next]_vars
      => [Follows /\ ~outdated' /\ reloads' = reloads =>
            \A s \in SlotIds :
              /\ sessionState.slots[s].status = "disconnected"
              /\ sessionState'.slots[s].status = "connected"
              => flow.kind = "reconnect" /\ flow.slot = s]_vars
  <2> SUFFICES ASSUME IInv, FInv, CInv, Next, Follows, ~outdated', reloads' = reloads,
                      NEW s \in SlotIds, sessionState.slots[s].status = "disconnected",
                      sessionState'.slots[s].status = "connected"
               PROVE  flow.kind = "reconnect" /\ flow.slot = s
    OBVIOUS
  <2>1. Following /\ reconcile.stage # "running"
    BY DEF FInv, Follows
  <2>2. CASE UserStep
    BY <2>2, UserRevivesNone
  <2>3. CASE FlowConnected
    BY <2>3, AnswerRevives
  <2>4. CASE FlowRefused
    <3>1. /\ stateRef \in Session
          /\ sessionState' \in {sessionState, MarkWalletSlots(stateRef, {flow.slot}, "stale")}
          /\ ~UNCHANGED sessionState => stateRef = sessionState
      BY <2>4 DEF FlowRefused, SetsFromRef, ReadsRef, MarkWalletSlotStatus, IInv, TypeOK
    <3>2. \A u \in SlotIds : Lessened(sessionState.slots[u], sessionState'.slots[u])
      BY <3>1, MarkSlots DEF Lessened, Kept
    <3>3. QED
      BY <3>2, LessenedSame
  <2>5. CASE VerificationStep
    <3>1. NoneRevived(sessionState, sessionState')
      <4>1. ASSUME NEW v \in verifications, NEW e \in Eligibilities, VerificationEnds(v, e)
            PROVE  NoneRevived(sessionState, sessionState')
        BY <4>1, EndsStep DEF IInv
      <4>2. UNCHANGED sessionState => NoneRevived(sessionState, sessionState')
        BY DEF NoneRevived
      <4>3. {"tradable", "not-eligible", "error"} \subseteq Eligibilities
        BY EligibilityNames
      <4>4. QED
        BY <2>5, <4>1, <4>2, <4>3
        DEF VerificationStep, VerificationSigns, VerificationAnswers, VerificationFails
    <3>2. QED
      BY <3>1 DEF NoneRevived
  <2>6. ASSUME NEW t \in SlotIds, AccountsChanged(t) \/ ProviderDisconnects(t)
        PROVE  FALSE
    <3>1. PICK session \in Runtime : ProviderEvent(t, session)
      BY <2>6, EventSessions
    <3>2. QED
      BY <2>1, <3>1, EventRevivesNone
  <2>7. UNCHANGED sessionState => FALSE
    OBVIOUS
  <2>8. Reload => FALSE
    BY DEF Reload, IInv, TypeOK
  <2>9. QED
    BY <2>1, <2>2, <2>3, <2>4, <2>5, <2>6, <2>7, <2>8
    DEF Next, WalletStep, WalletSwitches, Commit, EffectsFlush, ReconcileReconnects,
        ReconcileRefused
<1>2. QED
  BY <1>1, Invariance, FollowsInvariance, BornInvariance, PTL DEF Spec, DisconnectedStays
=============================================================================
