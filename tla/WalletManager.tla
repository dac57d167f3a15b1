---------------------------- MODULE WalletManager ----------------------------
(***************************************************************************)
(* The wallet sessions of the web client: the slots of the session store   *)
(* (lib/wallet/session-store.ts), the wallet manager that changes them     *)
(* (wallet-manager-context.tsx), the runtime session of each slot          *)
(* (multi-session-runtime.ts), the wallet dialog that runs one of the      *)
(* user's actions at a time (wallet-connect-button.tsx), and the wallets,  *)
(* whose selected account changes at any time.                             *)
(*                                                                         *)
(* The React state is the value all enqueued updates produce; the page     *)
(* shows the last commit of it.  The effects of a commit write stateRef    *)
(* and localStorage in one pass, so both are the variable stateRef; they   *)
(* run some time after the commit, at the latest before the next one, and  *)
(* a click is committed with its effects at once.  Watchers and            *)
(* verifications enqueue functions of the state; the user's actions and    *)
(* the start-up reconciliation set a value computed from an older state,   *)
(* which undoes the updates enqueued since.  "outdated" records that a     *)
(* callback worked from such an older state.                               *)
(*                                                                         *)
(* Slots are numbered in the order they are created.  Every later update   *)
(* of a slot keeps its lastConnectedAt, so its number is its recency.      *)
(* The pair (ownershipStatus, eligibilityStatus) is one field: tradable    *)
(* comes with verified, checking and unknown with unverified.  The wallet  *)
(* runtime is enabled, and every connector has a provider.                 *)
(***************************************************************************)
EXTENDS Naturals, FiniteSets

CONSTANTS
  Connectors,
  Accounts,
  Venues,
  MaxWalletSlots,   \* MAX_WALLET_SLOTS (3 in the code)
  MaxSlotIds,       \* bound: slots created in a behaviour
  MaxClicks,        \* bound: actions of the user
  MaxSwitches,      \* bound: account changes in the wallets
  MaxReloads,       \* bound: page reloads
  None              \* no account, no connector, no venue

ASSUME LimitsAssumption ==
  {MaxWalletSlots, MaxSlotIds, MaxClicks, MaxSwitches, MaxReloads} \subseteq Nat
ASSUME NoneAssumption == None \notin Accounts \cup Connectors \cup Venues

VARIABLES
  sessionState,   \* React state: the slots and the active slot's id
  committed,      \* the state the page shows
  stateRef,       \* the ref the manager's callbacks read; also localStorage
  runtime,        \* slotRuntimeById: each slot's connected account and wallet
  watchers,       \* slotWatchers: the slots whose runtime is watched
  flow,           \* the connect or reconnect the dialog is waiting for
  verifications,  \* running calls of verifySlotOwnership
  reconcile,      \* reconcilePersistedSessions
  walletAccount,  \* external: the account selected in each wallet
  created,        \* slots created so far
  clicks,         \* actions of the user so far
  switches,       \* account changes so far
  reloads,        \* page reloads so far
  confirmed,      \* history: (account, venue, page) the BFF found eligible
  outdated        \* history: on this page, a callback worked from an older
                  \* state than the current one, or overlapped the start-up
                  \* reconciliation

vars == <<sessionState, committed, stateRef, runtime, watchers, flow, verifications,
          reconcile, walletAccount, created, clicks, switches, reloads, confirmed, outdated>>

boundVars == <<walletAccount, created, switches, reloads, confirmed>>

outerVars == <<boundVars, clicks>>

SlotIds == 1 .. MaxSlotIds

Eligibilities == {"unknown", "checking", "tradable", "not-eligible", "error"}

Absent == [status |-> "absent", account |-> None, venue |-> None, connector |-> None,
           eligibility |-> "unknown"]

Slot == {Absent} \cup
        [status: {"connected", "disconnected", "stale"}, account: Accounts, venue: Venues,
         connector: Connectors, eligibility: Eligibilities]

Session == [slots: [SlotIds -> Slot], activeSlotId: {0} \cup SlotIds]

NoSession == [account |-> None, connector |-> None]

Runtime == {NoSession} \cup [account: Accounts, connector: Connectors]

-----------------------------------------------------------------------------
(* The session store: pure functions of a session state *)

Listed(state) == {s \in SlotIds : state.slots[s].status # "absent"}

Connected(state) == {s \in SlotIds : state.slots[s].status = "connected"}

IsNewest(s, ids) == s \in ids /\ \A t \in ids : t <= s

Newest(ids) ==
  IF \E s \in ids : IsNewest(s, ids) THEN CHOOSE s \in ids : IsNewest(s, ids) ELSE 0

EmptySession == [slots |-> [s \in SlotIds |-> Absent], activeSlotId |-> 0]

\* The MaxWalletSlots newest slots, and an active one among them.
NormalizeState(state) ==
  LET kept == {s \in Listed(state) :
                 Cardinality({t \in Listed(state) : t > s}) < MaxWalletSlots}
  IN [slots |-> [s \in SlotIds |-> IF s \in kept THEN state.slots[s] ELSE Absent],
      activeSlotId |-> IF state.activeSlotId \in kept THEN state.activeSlotId
                       ELSE Newest(kept)]

WithSlot(state, s, slot) == [state.slots EXCEPT ![s] = slot]

IsFull(state) == Cardinality(Listed(state)) >= MaxWalletSlots

\* Fault: a connector is only taken by a slot that may trade.
LockedByTradableSlot(state, connector, ignored) ==
  \E s \in Connected(state) :
    /\ state.slots[s].eligibility = "tradable"
    /\ state.slots[s].connector = connector
    /\ s # ignored

IsConnectorLocked(state, connector, ignored) ==
  \E s \in Connected(state) : state.slots[s].connector = connector /\ s # ignored

\* An upsert of a listed slot, or with room for a new one, changes the state
\* and makes the slot active.
UpsertChanges(state, s) == s \in Listed(state) \/ ~IsFull(state)

UpsertConnectedWallet(state, s, session, venue, eligibility) ==
  IF UpsertChanges(state, s)
  THEN NormalizeState(
         [slots |-> WithSlot(state, s,
                      [status |-> "connected", account |-> session.account, venue |-> venue,
                       connector |-> session.connector, eligibility |-> eligibility]),
          activeSlotId |-> s])
  ELSE NormalizeState(state)

SetActiveWalletSlot(state, s) ==
  IF s \in Listed(state) THEN NormalizeState([slots |-> state.slots, activeSlotId |-> s])
  ELSE state

MarkWalletSlots(state, ids, status) ==
  NormalizeState(
    [slots |-> [s \in SlotIds |-> IF s \in ids \cap Listed(state)
                                  THEN [state.slots[s] EXCEPT !.status = status]
                                  ELSE state.slots[s]],
     activeSlotId |-> state.activeSlotId])

MarkWalletSlotStatus(state, s, status) == MarkWalletSlots(state, {s}, status)

\* The next active slot is the newest that is left, which is what
\* NormalizeState makes of an active slot that is gone.
RemoveWalletSlot(state, s) ==
  NormalizeState([slots |-> WithSlot(state, s, Absent), activeSlotId |-> state.activeSlotId])

-----------------------------------------------------------------------------
(* Functions of the state that watchers and verifications enqueue *)

\* Fault: a new account inherits the verification of the old one.
WatchUpdateKeepingVerdict(state, s, session) ==
  LET slot == state.slots[s]
  IN IF s \notin Listed(state) THEN state
     ELSE IF session = NoSession THEN MarkWalletSlotStatus(state, s, "stale")
     ELSE UpsertConnectedWallet(state, s, session, slot.venue, slot.eligibility)

\* startWatchingSlot's listener.
WatchUpdate(state, s, session) ==
  LET slot == state.slots[s]
  IN IF s \notin Listed(state) THEN state
     ELSE IF session = NoSession THEN MarkWalletSlotStatus(state, s, "stale")
     ELSE UpsertConnectedWallet(state, s, session, slot.venue,
            IF session.account = slot.account THEN slot.eligibility ELSE "unknown")

\* Fault: the verdict applies whatever the slot's account has become.
SettlesAnyAccount(slot, account) == slot.status = "connected"

\* Fault: the verdict applies to a slot that is not connected any more.
SettlesAnyStatus(slot, account) == slot.status # "absent" /\ slot.account = account

\* A verification only applies to a connected slot that still has its account.
Settles(slot, account) == slot.status = "connected" /\ slot.account = account

\* Fault: a verification that fails says nothing of it.
SettleUnlessFailed(state, v, eligibility) ==
  LET slot == state.slots[v.slot]
  IN IF Settles(slot, v.account) /\ eligibility # "error"
     THEN UpsertConnectedWallet(state, v.slot,
            [account |-> v.account, connector |-> slot.connector], v.venue, eligibility)
     ELSE state

\* The slot is upserted with the account and the venue of the verification.
SettleVerification(state, v, eligibility) ==
  LET slot == state.slots[v.slot]
  IN IF Settles(slot, v.account)
     THEN UpsertConnectedWallet(state, v.slot,
            [account |-> v.account, connector |-> slot.connector], v.venue, eligibility)
     ELSE state

-----------------------------------------------------------------------------
(* The page *)

NoFlow == [kind |-> "none", slot |-> 0, connector |-> None, venue |-> None, stage |-> "none"]

NoReconcile == [stage |-> "off", previous |-> EmptySession, next |-> EmptySession,
                awaiting |-> 0, detached |-> FALSE]

\* Start-up reconciliation of a state: the newest connected slot comes first.
StartReconcile(state) ==
  IF Connected(state) = {} THEN NoReconcile
  ELSE [stage |-> "running", previous |-> state, next |-> state,
        awaiting |-> Newest(Connected(state)), detached |-> FALSE]

Init ==
  /\ sessionState = EmptySession
  /\ committed = EmptySession
  /\ stateRef = EmptySession
  /\ runtime = [s \in SlotIds |-> NoSession]
  /\ watchers = {}
  /\ flow = NoFlow
  /\ verifications = {}
  /\ reconcile = NoReconcile
  /\ walletAccount \in [Connectors -> Accounts]
  /\ created = 0
  /\ clicks = 0
  /\ switches = 0
  /\ reloads = 0
  /\ confirmed = {}
  /\ outdated = FALSE

\* The next commit: the effects of the one before run first, and the dialog
\* sees that its action has ended.
Commit ==
  /\ committed # sessionState \/ flow.stage = "ended"
  /\ stateRef' = committed
  /\ committed' = sessionState
  /\ flow' = IF flow.stage = "ended" THEN NoFlow ELSE flow
  /\ UNCHANGED <<sessionState, runtime, watchers, verifications, reconcile, outerVars, outdated>>

\* The passive effects of the latest commit.
EffectsFlush ==
  /\ stateRef # committed
  /\ stateRef' = committed
  /\ UNCHANGED <<sessionState, committed, runtime, watchers, flow, verifications, reconcile,
                 outerVars, outdated>>

\* Whatever happens before the reconciliation ends is undone by its end.
OverlapsReconcile == reconcile.stage = "running"

\* A callback reads stateRef.
ReadsRef == outdated' = (outdated \/ OverlapsReconcile \/ stateRef # sessionState)

\* A callback sets a value it computed from stateRef.
SetsFromRef(state) == ReadsRef /\ sessionState' = state

\* A click is committed, and its effects are run, before the next event.
ClickCommits(state) == committed' = state /\ stateRef' = state

ClickSetsFromRef(state) == SetsFromRef(state) /\ ClickCommits(state)

\* The dialog's buttons are disabled while an action runs.
UserActs == flow = NoFlow /\ clicks < MaxClicks /\ clicks' = clicks + 1

\* Removing a slot's runtime from the map detaches a reconnect that awaits it.
ReconcileWithout(ids) ==
  IF reconcile.awaiting \in ids THEN [reconcile EXCEPT !.detached = TRUE] ELSE reconcile

-----------------------------------------------------------------------------
(* The user's actions *)

\* connectNewSlot up to the wallet's prompt.
ClickConnect(connector, venue) ==
  /\ UserActs
  /\ created < MaxSlotIds
  /\ \A state \in {committed, stateRef} :
       ~IsFull(state) /\ ~IsConnectorLocked(state, connector, 0)
  /\ flow' = [kind |-> "connect", slot |-> created + 1, connector |-> connector,
              venue |-> venue, stage |-> "wallet"]
  /\ ReadsRef
  /\ ClickCommits(sessionState)
  /\ UNCHANGED <<sessionState, runtime, watchers, verifications, reconcile, boundVars>>

\* reconnectSlot up to the wallet's answer.
ClickReconnect(s) ==
  /\ UserActs
  /\ s \in Listed(committed) \ Connected(committed)
  /\ s \in Listed(stateRef)
  /\ ~IsConnectorLocked(stateRef, stateRef.slots[s].connector, s)
  /\ flow' = [kind |-> "reconnect", slot |-> s, connector |-> stateRef.slots[s].connector,
              venue |-> stateRef.slots[s].venue, stage |-> "wallet"]
  /\ ReadsRef
  /\ ClickCommits(sessionState)
  /\ UNCHANGED <<sessionState, runtime, watchers, verifications, reconcile, boundVars>>

Verification(by, s, account, venue) ==
  [by |-> by, slot |-> s, account |-> account, venue |-> venue, stage |-> "challenge"]

\* The wallet answers with its account: the runtime is set and watched, the
\* slot is upserted into the state the ref holds, and verification begins.
FlowConnected ==
  LET s == flow.slot
      session == [account |-> walletAccount[flow.connector], connector |-> flow.connector]
      v == Verification("user", s, session.account, flow.venue)
      changes == UpsertChanges(stateRef, s)
      upserted == IF changes
                  THEN UpsertConnectedWallet(stateRef, s, session, flow.venue, "checking")
                  ELSE sessionState
  IN /\ flow.stage = "wallet"
     /\ session.account # None
     /\ flow.kind = "connect" => changes
     /\ SetsFromRef(SettleVerification(WatchUpdate(upserted, s, session), v, "checking"))
     /\ runtime' = [runtime EXCEPT ![s] = session]
     /\ watchers' = watchers \cup {s}
     /\ verifications' = verifications \cup {v}
     /\ flow' = [flow EXCEPT !.stage = "verifying"]
     /\ created' = IF flow.kind = "connect" THEN s ELSE created
     /\ UNCHANGED <<committed, stateRef, reconcile, walletAccount, clicks, switches,
                    reloads, confirmed>>

\* The wallet refuses or has no account, or the store has no room any more.
FlowRefused ==
  /\ flow.stage = "wallet"
  /\ flow' = [flow EXCEPT !.stage = "ended"]
  /\ IF /\ flow.kind = "reconnect"
        /\ flow.slot \in Listed(stateRef)
        /\ stateRef.slots[flow.slot].status # "stale"
     THEN SetsFromRef(MarkWalletSlotStatus(stateRef, flow.slot, "stale"))
     ELSE UNCHANGED <<sessionState, outdated>>
  /\ UNCHANGED <<committed, stateRef, runtime, watchers, verifications, reconcile, outerVars>>

ClickSetActive(s) ==
  /\ UserActs
  /\ s \in Listed(committed) \ {committed.activeSlotId}
  /\ s \in Listed(stateRef) \ {stateRef.activeSlotId}
  /\ ClickSetsFromRef(SetActiveWalletSlot(stateRef, s))
  /\ UNCHANGED <<runtime, watchers, flow, verifications, reconcile, boundVars>>

Unwatched(ids) == watchers \ ids

\* The runtime of a slot that is disconnected or removed.
Dropped(ids) == [s \in SlotIds |-> IF s \in ids THEN NoSession ELSE runtime[s]]

\* The click is committed before the await of disconnectRuntimeSlot ends, so
\* the slot is marked in the state the commit left.
ClickDisconnect(s) ==
  /\ UserActs
  /\ s \in Connected(committed)
  /\ s \in Listed(stateRef)
  /\ watchers' = Unwatched({s})
  /\ runtime' = Dropped({s})
  /\ sessionState' = MarkWalletSlotStatus(sessionState, s, "disconnected")
  /\ ClickCommits(sessionState)
  /\ outdated' = (outdated \/ OverlapsReconcile)
  /\ UNCHANGED <<flow, verifications, reconcile, boundVars>>

ClickRemove(s) ==
  /\ UserActs
  /\ s \in Listed(committed)
  /\ watchers' = Unwatched({s})
  /\ runtime' = Dropped({s})
  /\ reconcile' = ReconcileWithout({s})
  /\ ClickSetsFromRef(IF s \in Listed(stateRef) THEN RemoveWalletSlot(stateRef, s)
                      ELSE sessionState)
  /\ UNCHANGED <<flow, verifications, boundVars>>

ClickClearAll ==
  /\ UserActs
  /\ Listed(committed) # {}
  /\ watchers' = {}
  /\ runtime' = Dropped(Listed(stateRef))
  /\ reconcile' = ReconcileWithout(Listed(stateRef))
  /\ ClickSetsFromRef(EmptySession)
  /\ UNCHANGED <<flow, verifications, boundVars>>

-----------------------------------------------------------------------------
(* verifySlotOwnership *)

\* The challenge has arrived, the runtime still has the account, and the wallet
\* signs the message.
VerificationSigns(v) ==
  /\ v.stage = "challenge"
  /\ runtime[v.slot].account = v.account
  /\ verifications' = (verifications \ {v}) \cup {[v EXCEPT !.stage = "signed"]}
  /\ UNCHANGED <<sessionState, committed, stateRef, runtime, watchers, flow, reconcile, outerVars,
                 outdated>>

\* The last update of a verification; a user's ends the dialog's action, one of
\* the reconciliation is followed by that of the next older slot.
VerificationEnds(v, eligibility) ==
  LET settled == SettleVerification(sessionState, v, eligibility)
      s == Newest({t \in Connected(reconcile.next) : t < v.slot})
      slot == reconcile.next.slots[s]
      next == Verification("reconcile", s, slot.account, slot.venue)
  IN IF v.by = "reconcile" /\ s # 0
     THEN /\ sessionState' = SettleVerification(settled, next, "checking")
          /\ verifications' = (verifications \ {v}) \cup {next}
          /\ UNCHANGED <<flow, reconcile>>
     ELSE /\ sessionState' = settled
          /\ verifications' = verifications \ {v}
          /\ flow' = IF v.by = "user" THEN [flow EXCEPT !.stage = "ended"] ELSE flow
          /\ reconcile' = IF v.by = "reconcile" THEN NoReconcile ELSE reconcile

\* The BFF has verified the signature and answers whether the account may trade.
VerificationAnswers(v, eligible) ==
  /\ v.stage = "signed"
  /\ VerificationEnds(v, IF eligible THEN "tradable" ELSE "not-eligible")
  /\ confirmed' = IF eligible THEN confirmed \cup {<<v.account, v.venue, reloads>>}
                  ELSE confirmed
  /\ UNCHANGED <<committed, stateRef, runtime, watchers, walletAccount, created, clicks,
                 switches, reloads, outdated>>

\* The challenge, the runtime's checks, the wallet or the BFF fails.
VerificationFails(v) ==
  /\ VerificationEnds(v, "error")
  /\ UNCHANGED <<committed, stateRef, runtime, watchers, outerVars, outdated>>

-----------------------------------------------------------------------------
(* reconcilePersistedSessions *)

\* Connectors of the slots reconnected so far.
LockedConnectors(next) ==
  {next.slots[t].connector :
     t \in {u \in Connected(reconcile.previous) : /\ u >= reconcile.awaiting
                                                  /\ u \in Connected(next)}}

\* The answer for the awaited slot has made "next" of the new state and
\* "shown" of the React state.  Older slots on a locked connector are marked
\* stale; the next one to reconnect is awaited, or the new state is set and
\* the verifications of its connected slots begin with the newest.
ReconcileContinues(next, shown) ==
  LET left == {t \in Connected(reconcile.previous) : t < reconcile.awaiting}
      s == Newest({t \in left :
                     reconcile.previous.slots[t].connector \notin LockedConnectors(next)})
      marked == MarkWalletSlots(next, {t \in left : t > s}, "stale")
      first == Newest(Connected(marked))
      v == Verification("reconcile", first, marked.slots[first].account,
                        marked.slots[first].venue)
  IN IF s # 0
     THEN /\ sessionState' = shown
          /\ reconcile' = [reconcile EXCEPT !.next = marked, !.awaiting = s, !.detached = FALSE]
          /\ UNCHANGED verifications
     ELSE IF first # 0
     THEN /\ sessionState' = SettleVerification(marked, v, "checking")
          /\ verifications' = verifications \cup {v}
          /\ reconcile' = [NoReconcile EXCEPT !.stage = "verifying", !.next = marked]
     ELSE /\ sessionState' = marked
          /\ reconcile' = NoReconcile
          /\ UNCHANGED verifications

\* Fault: a reconnected slot keeps the verdict it was stored with.
ReconnectedAsStored(slot) == slot.eligibility

Reconnected(slot) == "checking"

ReconcileReconnects ==
  LET s == reconcile.awaiting
      slot == reconcile.previous.slots[s]
      session == [account |-> walletAccount[slot.connector], connector |-> slot.connector]
  IN /\ reconcile.stage = "running"
     /\ session.account # None
     /\ runtime' = IF reconcile.detached THEN runtime ELSE [runtime EXCEPT ![s] = session]
     /\ watchers' = watchers \cup {s}
     /\ ReconcileContinues(
          UpsertConnectedWallet(reconcile.next, s, session, slot.venue, Reconnected(slot)),
          WatchUpdate(sessionState, s, runtime'[s]))
     /\ UNCHANGED <<committed, stateRef, flow, outerVars, outdated>>

ReconcileRefused ==
  /\ reconcile.stage = "running"
  /\ ReconcileContinues(MarkWalletSlotStatus(reconcile.next, reconcile.awaiting, "stale"),
                        sessionState)
  /\ UNCHANGED <<committed, stateRef, runtime, watchers, flow, outerVars, outdated>>

-----------------------------------------------------------------------------
(* The wallets and the page's life *)

WalletSwitches(connector, account) ==
  /\ switches < MaxSwitches
  /\ account # walletAccount[connector]
  /\ walletAccount' = [walletAccount EXCEPT ![connector] = account]
  /\ switches' = switches + 1
  /\ UNCHANGED <<sessionState, committed, stateRef, runtime, watchers, flow, verifications, reconcile,
                 created, clicks, reloads, confirmed, outdated>>

\* An event of the slot's provider; a disconnected runtime has forgotten its
\* connector, so no later event connects it again.
ProviderEvent(s, session) ==
  /\ s \in watchers
  /\ runtime[s] # NoSession
  /\ runtime' = [runtime EXCEPT ![s] = session]
  /\ sessionState' = WatchUpdate(sessionState, s, session)
  /\ outdated' = (outdated \/ OverlapsReconcile)
  /\ UNCHANGED <<committed, stateRef, watchers, flow, verifications, reconcile, outerVars>>

AccountsChanged(s) ==
  LET account == walletAccount[runtime[s].connector]
  IN /\ runtime[s] # NoSession
     /\ account # runtime[s].account
     /\ ProviderEvent(s, IF account = None THEN NoSession
                         ELSE [runtime[s] EXCEPT !.account = account])

ProviderDisconnects(s) == ProviderEvent(s, NoSession)

Reload ==
  /\ reloads < MaxReloads
  /\ reloads' = reloads + 1
  /\ sessionState' = NormalizeState(stateRef)
  /\ ClickCommits(sessionState')
  /\ reconcile' = StartReconcile(sessionState')
  /\ runtime' = [s \in SlotIds |-> NoSession]
  /\ watchers' = {}
  /\ flow' = NoFlow
  /\ verifications' = {}
  /\ outdated' = FALSE
  /\ UNCHANGED <<walletAccount, created, clicks, switches, confirmed>>

-----------------------------------------------------------------------------
UserStep ==
  \/ \E connector \in Connectors, venue \in Venues : ClickConnect(connector, venue)
  \/ \E s \in SlotIds : \/ ClickReconnect(s)
                        \/ ClickSetActive(s)
                        \/ ClickDisconnect(s)
                        \/ ClickRemove(s)
  \/ ClickClearAll

VerificationStep ==
  \E v \in verifications :
    \/ VerificationSigns(v)
    \/ \E eligible \in BOOLEAN : VerificationAnswers(v, eligible)
    \/ VerificationFails(v)

WalletStep ==
  \/ \E connector \in Connectors, account \in Accounts \cup {None} :
       WalletSwitches(connector, account)
  \/ \E s \in SlotIds : AccountsChanged(s) \/ ProviderDisconnects(s)

Next ==
  \/ UserStep
  \/ FlowConnected
  \/ FlowRefused
  \/ VerificationStep
  \/ ReconcileReconnects
  \/ ReconcileRefused
  \/ WalletStep
  \/ Commit
  \/ EffectsFlush
  \/ Reload

Spec == Init /\ [][Next]_vars

-----------------------------------------------------------------------------
(* Properties *)

Flow == {NoFlow} \cup
        [kind: {"connect", "reconnect"}, slot: SlotIds, connector: Connectors, venue: Venues,
         stage: {"wallet", "verifying", "ended"}]

VerificationCall == [by: {"user", "reconcile"}, slot: SlotIds, account: Accounts,
                     venue: Venues, stage: {"challenge", "signed"}]

Reconciliation == [stage: {"off", "running", "verifying"}, previous: Session, next: Session,
                   awaiting: {0} \cup SlotIds, detached: BOOLEAN]

\* Every variable holds a value of its type.
TypeOK ==
  /\ sessionState \in Session
  /\ committed \in Session
  /\ stateRef \in Session
  /\ runtime \in [SlotIds -> Runtime]
  /\ watchers \subseteq SlotIds
  /\ flow \in Flow
  /\ verifications \subseteq VerificationCall
  /\ reconcile \in Reconciliation
  /\ walletAccount \in [Connectors -> Accounts \cup {None}]
  /\ created \in 0 .. MaxSlotIds
  /\ clicks \in 0 .. MaxClicks
  /\ switches \in 0 .. MaxSwitches
  /\ reloads \in 0 .. MaxReloads
  /\ confirmed \subseteq Accounts \X Venues \X (0 .. MaxReloads)
  /\ outdated \in BOOLEAN

Tradable(state) == {s \in Connected(state) : state.slots[s].eligibility = "tradable"}

\* A slot is never offered for trading with an account the BFF has not found
\* eligible at the slot's venue: not when the wallet changes its account during
\* the verification, nor when an older state is set back or read back.
TradableWasConfirmed ==
  \A s \in Tradable(sessionState) :
    \E page \in 0 .. MaxReloads :
      <<sessionState.slots[s].account, sessionState.slots[s].venue, page>> \in confirmed

\* The page follows its wallets: start-up is over, nothing overlapped it, and
\* no callback has worked from an older state.
Follows == reconcile.stage # "running" /\ ~outdated

\* Then a slot shown connected has a watched runtime session with exactly the
\* account and the wallet it shows.
ConnectedHasSession ==
  Follows =>
    \A s \in Connected(sessionState) :
      /\ s \in watchers
      /\ runtime[s] = [account |-> sessionState.slots[s].account,
                       connector |-> sessionState.slots[s].connector]

\* No two connected slots share a connector.
ConnectorExclusive ==
  Follows =>
    \A s, t \in Connected(sessionState) :
      sessionState.slots[s].connector = sessionState.slots[t].connector => s = t

\* A tradable slot was found eligible since the page was loaded: the verdict
\* that localStorage kept is not enough.
TradableVerifiedOnPage ==
  Follows =>
    \A s \in Tradable(sessionState) :
      <<sessionState.slots[s].account, sessionState.slots[s].venue, reloads>> \in confirmed

\* A connected slot shown 'checking' is being verified, or is about to be by
\* the reconciliation: none is left behind without a verdict.
CheckingIsRunning ==
  Follows =>
    \A s \in Connected(sessionState) :
      sessionState.slots[s].eligibility = "checking" =>
        \E v \in verifications :
          \/ v.slot = s /\ v.account = sessionState.slots[s].account
          \/ v.by = "reconcile" /\ s < v.slot /\ s \in Connected(reconcile.next)

\* A slot that is disconnected becomes connected only by the user's reconnect:
\* no late verdict, provider event or other slot's action revives it.
DisconnectedStays ==
  [][Follows /\ ~outdated' /\ reloads' = reloads =>
       \A s \in SlotIds :
         /\ sessionState.slots[s].status = "disconnected"
         /\ sessionState'.slots[s].status = "connected"
         => flow.kind = "reconnect" /\ flow.slot = s]_vars
=============================================================================
