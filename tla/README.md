# Dexera prototype: a TLA+ verification project

TLA+ modules of the parts of the Dexera prototype in which several actors touch
the same state, TLC runs that check them on small instances, and theorems TLAPS
proves for every value of the constants. Paths are relative to the repository
(`src/`); `PROJECT.json` maps every definition to the lines it stands for.

1. [The system](#1-the-system)
2. [Modules and how they correspond to the code](#2-modules-and-how-they-correspond-to-the-code)
3. [Runs](#3-runs)
4. [Fairness](#4-fairness)
5. [Proofs](#5-proofs)
6. [What the models show about the code](#6-what-the-models-show-about-the-code)
7. [Not modelled](#7-not-modelled)
8. [Plan](#8-plan)

## 1. The system

A Next.js web client (`apps/web`) lets a user connect browser wallets, prove
ownership of an account to a Go backend-for-frontend (`apps/bff-go`), preview,
sign and submit perpetual orders through it to a venue (Hyperliquid; the Aster
adapter answers with mock data), and follow those orders. The Rust services are
scaffolds with health routes.

| Component | State | Operations | Interacts with | What is hard |
|---|---|---|---|---|
| Submitted-order tracker (`lib/wallet/use-submitted-perp-actions.ts`) | tracked actions per wallet as React state, a ref that effects copy it to, localStorage, the set of in-flight polls | add an optimistic action, mark submitted / failed / cancel started / submitted / failed, poll tick, poll answer and error, storage restore | panels call the marks; the BFF answers polls | the ref lags behind the state; ticks fire while requests run; answers come in any order; reloads lose continuations |
| Order ticket (`order-entry-panel.tsx`, `order-entry-logic.ts`, `order-entry-panel-state.ts`, `transaction-guardrails.ts`) | draft, preview and its key, `isSubmitting` | edit, preview, sign, post | wallet manager (tradable slot, signature), BFF, tracker | the draft, the instrument or the wallet changes under a running preview or signature; the answer of a post is lost |
| Orders and fills panel (`perp-orders-fills-panel.tsx`) | pending cancellations, fills and their request | cancel, load fills | tracker, runtime, BFF | two cancellations of one row; a cancellation that fails at one of three steps |
| Wallet manager and session store (`wallet-manager-context.tsx`, `session-store.ts`, `wallet-manager-logic.ts`, dialog `wallet-connect-button.tsx`) | slots with status, account, venue, connector, verdict; the active slot; `stateRef`; localStorage; watchers | connect, reconnect, disconnect, remove, clear, set active, verify ownership, reconcile at start-up | runtime sessions, BFF challenge and verification | account switches in the wallet at any time, updates computed from a lagging ref, verdicts that arrive late, reloads |
| Wallet runtime (`multi-session-runtime.ts`) | a session per slot, provider event listeners, the wallet's chain | connect, check the account, switch to the signing chain (adding it if missing, never back), sign, watch, disconnect | the browser's wallet extensions | provider events between any two awaits; the wallet's account between the check and the signature |
| Wallet-challenge store (`apps/bff-go/internal/http/server.go`) | a mutex-protected map of challenges with their expiry | issue (with purge), consume | the challenge and verify routes | racing verify requests; a clock read before the lock; restarts |
| BFF order routes and adapters (`server.go`, `perp_adapters.go`) | none between requests | preview, unsigned action, unsigned cancel, submit, positions, fills, order status, eligibility | the venue's HTTP API | a refused action is posted again, its signature's recovery id in the other encoding; statuses and decimals to normalise |
| Workspace layout (`logic.ts`, `use-workspace-modules.ts`, `layout-serialization.ts`) | modules on a 12-column grid, the drag or resize gesture, localStorage | add, remove, reset, resize, drag by pointer or by the browser, drop, rebalance, pack, save, load, migrate three stored formats | the browser's events, React transitions | presses that become drags that are cancelled; queued resizes; a mount that saves before it has loaded; a row that changes when a module leaves it |
| Market-data loads (`use-workspace-market-data.ts`, the fills effect of `perp-orders-fills-panel.tsx`, `candlestick-chart-panel.tsx`, `lib/chart-data/real-chart-data-provider.ts` and the route `app/api/market/candles`) | positions and fills shown, the candles kept and the series drawn, loading and error flags | load, abort, poll, merge, draw | wallet manager, BFF, venue | an answer for an older set of wallets; polls that overlap and abort each other; the candle in progress |
| Positions and order-book arithmetic (`positions-*`, `order-book-*`) | none | totals, sorting | market data | none: floating-point sums and a random placeholder book |
| Rust services, contracts, generated types, scripts, UI primitives, mock data | - | - | - | none worth a model |

What makes each component correct:

- *Tracker*: a final status is the venue's own and stays; one poll and one
  cancellation per order at a time; a confirmed order is declared failed only
  with every attempt spent; exactly the latest actions are tracked;
  reconciliation ends and gives the venue's verdict when the venue answers.
- *Challenges*: a challenge is granted at most once, to the address it was
  issued to, within its lifetime; a live one is never purged.
- *Wallets*: trading is offered only with an account the BFF confirmed for that
  venue, on this page; a connected slot has the runtime session it shows; a
  wallet serves one slot; a late verdict or event never revives a disconnected
  slot; no slot is left "checking" with nobody checking it.
- *Ticket and submission*: what is signed and posted is the order the form showed
  at the click; an order carries its account's signature; a click makes at most
  one order although the BFF may post twice; what the form reports is what the
  venue did, as far as the venue's answers state it; the form is freed whatever fails.
- *Layout*: ids stay unique through stored layouts of every age; a drag lives as
  long as the press behind it; a mount never overwrites what the browser holds;
  rows pack without overlap, a drop lands beside its target and only the widest
  modules give up columns for it.
- *Market data*: once loaded, positions and fills belong to the wallets of now;
  the page stops loading; the series drawn is what was merged, closed candles are
  complete, and nothing drawn is taken back.

`PROJECT.json` lists the hazards behind these, each at its line.

## 2. Modules and how they correspond to the code

| Module | Role |
|---|---|
| `OrderTracker` | tracker, submission flow, cancellation flow, polls, effects, reload, venue |
| `MCOrderTracker`, `OrderTrackerOne.cfg`, `OrderTrackerPair.cfg` | its instances |
| `OrderTrackerProofs` | its theorems |
| `OrderTicket` | form, preview, signing, the BFF's submission with its second post, venue |
| `SubmissionPromise` | the abstract specification the whole path implements |
| `MCOrderTicket`, `OrderTicketVenues.cfg`, `OrderTicketTwice.cfg`, `OrderTicketProofs` | instances and theorems |
| `WalletManager` | session store, wallet manager, dialog, runtime sessions, wallets, reload |
| `MCWalletManager`, `WalletAccounts.cfg`, `WalletSlots.cfg` | its instances |
| `WalletManagerProofs` | its theorems |
| `WalletChallenge` | the challenge store with its two handlers, the lock, the clock, restarts |
| `OneShotChallenge` | the abstract specification the store implements |
| `MCWalletChallenge`, `WalletChallenge.cfg`, `WalletChallengeProofs` | instance and theorems |
| `WorkspaceGrid` | the grid's arithmetic and the stored formats, as operators |
| `WorkspaceLayout` (extends it) | the hook and the cards: loads, saves, edits, gestures |
| `MCWorkspaceLayout`, `WorkspaceGestures.cfg`, `WorkspaceDrops.cfg`, `WorkspaceSideDrop.cfg` | their instances |
| `WorkspaceGridProofs` | lemmas: what the grid's operators return for lists of any length |
| `WorkspaceLayoutProofs` (extends it) | the theorems |
| `WalletLoads` | positions, fills and reference data loaded for the wallets |
| `MCWalletLoads`, `WalletLoads.cfg`, `WalletLoadsProofs` | instance and theorems |
| `CandleFeed` | the candle chart, its route and its provider |
| `CandleFeedProofs` | its theorems |
| `MCCandleFeed`, `CandleFeed.cfg` | its instance |

A definition whose comment begins with `Fault:` is not part of a model. It is a
plausible bug in the definition it precedes; `PROJECT.json` pairs each property
with one of them, and the run finds the property violated when the fault
replaces the definition.

### How React is modelled

The web client's hazards are in the order of React's steps, so the modules keep
three copies of a component's state: the value all enqueued updates produce
(`actionsByWallet`, `sessionState`), the committed value the page shows
(`committed`, in `WalletManager`), and the ref and localStorage copy that an
effect writes after the commit (`actionsByWalletRef` and `storage`, `stateRef`).
A functional update applies to the first. A callback that reads the ref works
from the last. A click is a discrete event: what it enqueues before its first
`await` is committed and its effects run before the next event. All other
commits and effects are actions of their own (`Commit`, `EffectsFlush`) that
interleave with everything.

### OrderTracker

An action record keeps the status, whether it has a venue order id, the
terminal flag, the attempts and the pending-cancel flag; the id is the action
itself. A submission is `SubmitInWallet` (click, optimistic insert, slice to
the newest `MaxTracked`), `PostSignedAction` (the wallet signed), the venue's
handling (`VenueHandlesOrder`, `RequestLost`), an answer without a status, which
the BFF counts as a success (`VenueAnswersBlank`), the answer or its loss
(`AnswerLost`) and the continuation (`SubmissionSucceeds`, `FlowFails`). A
cancellation has the same stages, with `isCancelPending` set at the click and
reset by its end, whichever it is. `PollOrderStatuses` is one tick of the
interval: it asks for every action the ref shows pollable and not in flight, and
`BffAnswersPoll`, `PollFails`, `PollContinues` are the three halves of a
request. `Reload` keeps localStorage and nothing else. The venue (external)
knows each order's raw status, in the spelling `normalizeHyperliquidOrderStatus`
reads.

### WalletChallenge

Each request is a goroutine. `issue` reads the clock and draws its id before it
takes the lock (`IssueReadsClock`), purges and inserts under it (`IssueStores`);
`consume` is one step under the lock (`Consume`); the rest of the verify
handler is `VerifyAnswers`. The clock is a counter that never goes back (the
code strips the monotonic reading with `.UTC()`, so a wall clock set back is
outside the model), and the 128-bit random ids never repeat.

### WalletManager

A slot has its status (connected, disconnected, stale), account, venue,
connector and verdict. `UpsertConnectedWallet`, `MarkWalletSlots`,
`RemoveWalletSlot`, `SetActiveWalletSlot` and `NormalizeState` are the store's
functions, the normalisation that drops slots beyond the cap included.
`ClickConnect`, `ClickReconnect`, `ClickDisconnect`, `ClickRemove`,
`ClickClearAll`, `ClickSetActive` are the dialog's actions, one at a time as its
`runAsyncAction` makes them; `FlowConnected` and `FlowRefused` are what follows
the wallet's answer. A verification signs (`VerificationSigns`), is answered
(`VerificationAnswers`) or fails (`VerificationFails`). The start-up
reconciliation walks the connected slots newest first
(`ReconcileReconnects`, `ReconcileRefused`, `ReconcileContinues`) and ends by
setting the state it built. `WalletSwitches` is the user choosing another
account in the extension, `AccountsChanged` and `ProviderDisconnects` the events
that reach a slot's watcher.

`outdated` is a history flag: on this page, some callback set a state computed
from a ref that lagged, or overlapped the reconciliation. `Follows` says neither
is so. The code does not defend against those overlaps (section 6), so
`ConnectedHasSession`, `ConnectorExclusive`, `TradableVerifiedOnPage`,
`CheckingIsRunning` and `DisconnectedStays` are stated under `Follows`;
`TradableWasConfirmed`, the one that guards trading, is stated for every state.
What those overlaps do to the other properties (slots that come back or vanish
after the reconciliation, an update undone by a lagging `stateRef`) is covered by
none of them.

### OrderTicket

The form's fields are one value, valid or not (`None`); the preview key is equal
to another exactly when the requests are (`createOrderPreviewKey`). `flow` is the
one running preview or submission, which is what `isSubmitting` says. The fields
that stay enabled and the effects that write instrument and limit price
(`EditFields`), the render of another slot (`SlotRenders`), the wallet's account
and the runtime session (`WalletSwitches`, `SessionChanges`) move at any time.
After the click the wallet runtime checks the account, sees to the chain, checks
the account again and asks for the signature (`AccountMatches`, `ChainSettled`,
`ChainMissing`, `ChainAdded`, `WalletSigns`); an Aster action is sent by the
wallet (`WalletSubmits`). The BFF's handlers outlive the form's interest in them:
`BffPosts`, `BffHears` with the second post, `BffHearsNothing` for an answer
lost or later than the client's 8 seconds. A post stays in `posts` until its
answer is read, and the venue may take or refuse it at any time, which is how a
post the BFF gave up still makes an order. Its reply is `ok`, `err`, `orderError`
(an error in the order's own status, whatever the answer's status) or `blank`: a
2xx answer without a status, such as an empty body, which may come with an order
or without one and which `normalizeHyperliquidSubmissionStatus` counts as a
success. The venue decides before it answers. Two history variables bound what
may be said of a report: `uncertain` holds the submissions one of whose answers
was lost, `unstated` those of which the BFF heard a blank answer. What the
tracker does with a submission is in `OrderTracker`; the two modules share no
state but the order.

`SubmissionPromise` says what all of this comes to for the user: the venue may
take an order for a submission once, until it is reported and afterwards only if
an answer was lost (`Place`); a submission is reported once, `submitted` only
with an order or after an answer that stated nothing, anything else only without
an order, unless an answer was lost (`Report`); answers get lost (`LoseAnswer`)
or state nothing (`HearNothingStated`). `OrderTicket` implements it with the
venue's orders, the reports in `told`, `uncertain` and `unstated`.

### WorkspaceGrid and WorkspaceLayout

A module is its id and its width; labels, kinds, configurations and heights are
carried along unread. `Pack`, `MoveModule`, `Rebalance` with `Distribute`,
`MoveToSharedRow`, `Serialize` and `Restore` are the functions of `logic.ts`,
`layout-serialization.ts` and the legacy parser; their loops are recursive
functions over positions (`RowStarts`, `Distribute`), sums over a row
(`ColumnsBetween`), or the elements of a list at some of its places in order
(`Only`, for `filter` and `sort`). `RowsFit`, `DropLandsBeside` and
`DropNarrowsEvenly` say declaratively what the results have to be.

A resize updates the list in a React transition, which urgent updates overtake,
so the list is kept as shown (`modules`) and with the queued updates applied
(`ahead`); `TransitionCommits` makes them one. Refs that are written together
with their state are one variable with it. The browser's part is `pointer`: up,
down on a card's header, turned into its own drag and drop (`DragStart`, which
cancels the pointer), or dropped with the dragend to come. Window listeners are
`PointerUpElsewhere` and `PointerLost`. `Load` is the mount's effects in React's
order, the load and then the save that still sees the first render;
`Save` is the effect of later changes, whose `setItem` may throw.

### WalletLoads

`Hydrate`, `SlotChanges` and `ActiveSlotChanges` are what the wallet manager
renders; each makes an effect due, which runs before the next render.
`PositionsEffect` and `FillsEffect` start a run, and the answers of earlier runs
are still on their way: those of positions are dropped by the run's `isActive`
(`PositionsSettle`), those of fills by its aborted controller (`FillsAnswer`). A
run's `Promise.allSettled` is one step that names the wallets that answered.
`ReferenceSettles` is the `Promise.all` of instruments and marks.

### CandleFeed

A candle is the minute it opens at and the number of its trades; a list of
candles is a function from minutes. `loadCandles` is cut at its awaits: the call
that aborts the one before (`LoadCandles` in `SetupChart` and `PollTick`), the
route reading its clock (`RouteHandles`), the venue's answer from its trades of
that moment (`VenueAnswers`), and the rest (`Arrives`, `Fails`) with the merge
(`MergePriceCandles`), the updates of the series (`SeriesUpdateCandles`) and the
chart library's refusal of an older candle. `Unmount` and `Mount` take the panel
off the workspace and put it back. `upTo` and `paused` are history: whether
the answers taken so far left out a minute. The provider is the one that asks the
venue (`CHART_MARKET_DATA_SOURCE=hyperliquid`); the default one makes up candles.

## 3. Runs

Deadlock checking is off in every run: a page, a store or a wallet at rest is a
legal end, and the bounds stop the users.

| Run | Instance | Shows |
|---|---|---|
| `tracker_one` | 1 order, 3 attempts, 2 reloads, every raw end status, fair | one order through every way it can end: `OneCancellationPerOrder`, `PendingCancelIsBacked`, `FailedOnlyWhenSpent`, `SettledStatusStays`, `ReconciliationEnds`, `VerdictReached` |
| `tracker_pair` | 2 orders of a wallet that tracks 1, 2 attempts, 1 reload | evictions and interleaved polls: `TerminalStatusIsVenues`, `OnePollPerAction`, `TracksLatestSubmissions` |
| `wallet_challenge` | 2 challenges, 2 addresses, 2 verify requests, lifetime 2 of 4 ticks, 1 restart | `AttemptSpends`, `GrantedAsIssued`, `LiveUntilUsed`, refinement `KeepsPromise` |
| `wallet_accounts` | 1 wallet with 2 accounts, 2 slots, 3 clicks, 1 switch, 1 reload | `TradableWasConfirmed`, `ConnectedHasSession`, `CheckingIsRunning` |
| `wallet_slots` | 2 wallets, 2 slots, 3 clicks, 1 reload | `ConnectorExclusive`, `TradableVerifiedOnPage`, `DisconnectedStays` |
| `ticket_venues` | 2 slots, one on each venue, 2 accounts, 2 orders, 1 submission, 1 switch | `SubmitsWhatWasShown`, `SignedByItsAccount`, refinement `KeepsPromise`, `TypeOK` |
| `ticket_twice` | 1 slot, 1 account, 1 order submitted twice, fair | `OneOrderPerSubmission`, `SubmittedIsTaken`, `FailedMadeNoOrder`, `FormIsFreed` |
| `workspace_gestures` | 2 default modules, 6 stored layouts of every format, 2 gestures, 1 edit, 1 reload | `IdsUnique`, `GestureFollowsPointer`, `StoredIsKept`, `TypeOK` |
| `workspace_drops` | every layout of 4 modules with widths 3, 4, 6, 12 and of 5 with 3, 7; 1 drop | `RowsFit`, `DropLandsBeside`, `DropNarrowsEvenly` |
| `workspace_side_drop` | two rows of the default layout, 1 drop | a violation of `SideDropLandsInRow` (section 6) |
| `wallet_loads` | 2 slots, 2 wallets, 2 changes, fair | `PositionsAreConnectedWallets`, `FillsAreActiveSlots`, `LoadsSettle` |
| `candle_feed` | 3 candles kept, 2 polled, 4 minutes, 2 trades a minute, 3 calls | `SeriesShowsCandles`, `ClosedCandlesAreFinal`, `NeverGoesBack` |

The type invariants of `OrderTracker`, `WalletChallenge`, `WalletManager` and
`WalletLoads` are proved (section 5); the runs leave them out.

Why the bounds are enough to make the cases happen. A poll's attempt is first,
middle or last: 3 attempts have all three, and 2 reloads interrupt a flow and
its recovery. A slice that drops needs one order more than the cap. Two
requests race for one challenge while another one purges; a lifetime of 2 in 4
ticks has a challenge before, at and after its expiry, and an `issue` delayed
across it. An account has to change once under a verification; a second slot on
a wallet takes connect, the wallet's disconnect event, connect, reconnect: 3
clicks. Previews and edits of the ticket are not bounded; a second submission
overlaps the handler and the posts of the first, for which one account is enough:
its changes under a submission are what `ticket_venues` shows. A gesture that overlaps another
takes two presses, and one edit meets each of their states. A row holds four
modules at most: five make rows that join when one leaves, and the widths tell
equal, unequal, least and full apart. Two changes of the wallets leave two runs
of an effect behind the last, whose answers come in any order. The first load
and two polls are the fewest calls of which two polls overlap; a list of 3
candles drops one within 4 minutes, and 2 trades tell a candle in progress from
a closed one. What holds only by such a bound is left to the proofs, which have
none. Symmetry is used over orders, challenges and requests, accounts or
connectors, in runs without liveness only.

## 4. Fairness

Three runs assume fairness. `tracker_one` (`FairSpec` of `OrderTracker`): the effects of a commit run,
the interval's tick fires, and a status request is answered or fails and its
continuation runs. These are weak-fairness conditions on React, the browser's
timer and `fetch`, per order; a reload that cancels them all makes the page
start over. Nothing is assumed of the user, of the venue's orders, of
submissions and cancellations, or of reloads (which are bounded).
`VerdictReached` asks in addition that the BFF answers every poll with a status
the venue knows: an order whose attempts are spent on errors is rightly declared
failed.

`ticket_twice` (`FairSpec` of `OrderTicket`): a preview request is answered or
fails, a wallet's account reading returns, the BFF's handler goes on, an answer
of the venue arrives or the HTTP client's timeout ends the wait, and the form
reads the BFF's answer. A prompt of the wallet may stay open for ever, so
`FormIsFreed` allows it.

`wallet_loads` (`FairSpec` of `WalletLoads`): React runs an effect that is due,
the mount's effect that sets `hasHydrated` among them, and each request is answered
or fails, in whatever order (the BFF gives its venues eight seconds). Nothing is assumed of the wallets,
whose changes are bounded: `LoadsSettle` says that the page stops loading after
the last of them.

## 5. Proofs

TLAPS checks every theorem below from nothing, for every value of the constants
that satisfies the named assumptions of its module. TLC evaluates those
assumptions in the runs.

**`OrderTrackerProofs`** (assumes finite `Orders`, `MaxReconciliationAttempts`
and `MaxTracked` positive). The inductive invariant is `TypeOK`, with: an action
not submitted is in no copy and no flow; the poll's answer and every shown verdict
are the venue's; one poll per action, one submission per order, one
cancellation per order; while a cancellation runs, the row's button is disabled
in the newest state *and* in the older one a render may still show (this is what
makes the cancellation unique, because the user clicks what is shown); a failed
action with an order id has spent its attempts in all three copies; and
localStorage holds what the ref holds. From it: `TypeCorrectness`, `OnePoll`, `TerminalStatusCorrect`,
`OneCancellation`, `FailuresAreSpent`, and the action property `SettledStays`.

Two more theorems of the same module stand on top of that invariant.
`ListIsLatest`: the page tracks, per wallet, exactly the orders with fewer than
`MaxTracked` later ones. Its invariant says the same of localStorage, from which
a reload reads the list back. The marks keep which actions are
tracked (`MarksKeepTracked`), and the slice at an insert drops an order when its
rank, the cardinality of the later ones, reaches the cap; that an insert raises
every rank of its wallet by one is the counting lemma. `PendingIsBacked`: the
invariant adds that a dropped action is not pending and that a cancellation
heard as accepted ended its order unless its answer stated nothing, and drops the exception for final rows.

**`OrderTicketProofs`** (assumes `None` is nothing else). `TypeCorrectness` says
that only complete orders are previewed, signed or posted. `SubmissionsAreShown`
needs that a preview is kept with its key; `OrdersAreSigned` that a signature in
the flow, the BFF or a post is of the account of its order.
`ClicksMakeOneOrder` has the invariant `OneInv`: submissions are numbered, the
running one has no handler or post of an earlier click, a submission has one
handler and one post the venue may still take, and a second post exists only
where the first was refused. `ReportsAreTrue` adds that a success kept anywhere on
the way back is an order the venue has, or rests on an answer without a status; `FailuresAreFinal` that unless an answer was
lost, a submission whose report is a failure has neither an order nor a post
left. `Implements` puts these together: every step of the path is a step of
`SubmissionPromise` or a stutter.

**`WalletChallengeProofs`** (assumes `Ttl \in Nat`). The inductive invariant
adds to `TypeOK` that an id belongs to one challenge ever issued or in issue,
and that an id a request found is no longer in the store. From it:
`TypeCorrectness`, `AttemptSpendsOnce`, `GrantedCorrect`, `LiveKept`, and
`Implements`: every step of the store is a step of `OneShotChallenge` or a
stutter under the refinement mapping.

**`WalletManagerProofs`** (assumes the limits are naturals). `TradableWasConfirmed`
is not inductive: a tradable verdict travels through the state, the committed
copy, the ref, and the two states a reconciliation holds across its awaits, and
each can come back into the shown state. The inductive invariant `IInv` says the
verdict is backed by an answer of the BFF in all five (`AllVetted`), that the
dialog's verification is the one it waits for, and that the reconciliation
awaits a slot it began with. The lemmas about the store's functions say what
each may do to a slot: keep it, drop it, take its connection, or replace it by
the one upserted; the proof of each action uses only those. From it:
`TypeCorrectness` and `TradableCorrect`. That a set of slot numbers has a
newest member is proved from the well-foundedness of `<`.

The second half of the module proves the properties stated under `Follows`. They need
one invariant of the page after its start-up and one of the start-up itself.
`Following` says, besides three of the properties, that a slot that can still
receive an event of its wallet is connected (`LiveAreConnected`, so that no
event revives one), that a running verification serves each slot shown
`checking`, or will hand over to one that does (`CheckingIsServed`), that no
connected slot is offered for a reconnect (`RefAgrees`) and that the wallet the
dialog waits for serves no other slot (`FlowIsFree`). `Starting` says of the state
the reconciliation builds that the slots reached so far have their sessions and
wallets of their own, that the awaited one is apart from them, and that no other
slot is watched; its last step turns that into `Following`. Clicks and events
during the start-up, and callbacks that find an older state, set `outdated` until
the next reload, so `FInv` asks nothing of them. From it: `SessionsAreShown`,
`WalletsAreExclusive`, `VerdictsAreOfThisPage` and `CheckingRuns`. `NoneIsRevived`,
an action property, also needs `CInv`: a connect is for a slot that has never
been listed, in the page's state or in any older copy of it.

**`WalletLoadsProofs`** (assumes `None` is no slot and no wallet).
`TypeCorrectness`, `PositionsAreCurrent` and `FillsAreCurrent`, which say what is
shown once nothing is being loaded: a request of the last run was sent for the
wallets connected now, because a change makes the effect due and it runs before
the next; runs are numbered, so an answer of an earlier run is told apart by its
number.

**`CandleFeedProofs`** (assumes `None` is no call, and
`1 <= PollLimit <= CandleLimit`). The inductive invariant `FeedInv` (TLC has checked it on the instance
of the run) says that only the call the panel waits for is heard (`HeardCall`),
that its range ends no earlier than what was merged before and its answer is no
older than what is drawn, that an answer counts every trade of the closed
minutes in its range (`AnswersAreTrue`), and that the panel still keeps the closed
minutes the next poll may ask for again (`RecentAreKept`): without that last part
the merge, which cuts the oldest candles off, could leave the chart and the list
with different candles. From it: `ChartShowsCandles`, `ChartNeverGoesBack`, and
`SeriesTakesEveryUpdate`, that the chart library never has to refuse an update,
which no run checks. `ClosedCandlesStay` adds `FinalBefore` (every candle drawn
before the last minute asked for is complete) and assumes that a poll asks for
two candles or more: `POLL_LIMIT` is 2 (candlestick-chart-panel.tsx:24), and with
1 the last trades of a minute are lost.

**`WorkspaceGridProofs` and `WorkspaceLayoutProofs`**. The module assumes that
the default widths are the grid's, that the browser holds nothing but layouts as
one of the three formats writes them or unreadable ones (`StoredAssumption`; the
parsers reject a layout with an id or a width that is no positive integer, which is
`unreadable` here), that a resize asks for an integer (`PointerAssumption`,
`Math.round` in `handlePointerMove`), and that `None` is nothing else.

The inductive invariant `WInv` has five parts. `GoodLists`: the list shown and the
one the queued resizes will make of it hold modules with widths of the grid,
different ids, and ids below `nextModuleId`. `HookTypes`: the types of the rest.
`GInv`: a drag lives as long as the press or browser drag behind it, which also
says that nothing is dropped beside itself; the lists need that, since such a drop
would be a different computation, and the gestures need from the lists that no
module's id is `None`. `StoredIsLayout` and `StoredIsKept`: the browser holds a
layout, and reading it gives back what the user last had saved or brought along.
From it: `TypeCorrectness`, `IdsStayUnique`, `GesturesEnd`, `LayoutIsKept`.
`LayoutIsKept` rests on `Restore` undoing `Serialize`: the blocks are written in
the order of their ids and found again by the order of the list.

The other three say that what the grid computes is what the properties ask of it,
for lists and rows of any length. `RowsAlwaysFit`: the rows of a list tile it into
intervals of which the sum of widths is a running total, so that columns do not
overlap, and the row after one begins with a module that did not fit.
`DropsLandBeside`: moving one module permutes the places of the list in a way
`Shifted` states in closed form; the lemmas read off it where the module is and
that the others keep their order. `DropsNarrowEvenly`: with `was` and `now` the
widths of the row, an invariant of the narrowing loop says that a narrowed module
is at most one column narrower than any other and that the row is no narrower
than the grid or than its least width; `Rebalance` writes `now` into the row and
touches nothing else. The last two speak of a list a drop has just left; they last
because every step is a drop, or clears `lastDrop`, or leaves it and the list alone.

The library's induction theorems cannot be used here (they take an operator), so
the lemmas on sums, on the loops and on lists use a least counterexample: a
non-empty set of naturals has a least member, which follows from the
well-foundedness of `<` (`LeastNumber`). That `RowStarts` and `Distribute`, functions
defined by recursion on a position, exist and satisfy their equations is shown the
same way, each from the function one position shorter.

Checked by TLC only: the liveness properties (`ReconciliationEnds`, `VerdictReached`,
`FormIsFreed`, `LoadsSettle`), out of the prover's reach, as is ENABLED. Every
safety property the passing runs check is a theorem.
No module with a theorem reaches a recursive operator.

## 6. What the models show about the code

One contradicts a statement of the repository: `moveModuleToSharedRow`
(`logic.ts:217`) reads the target's row before it takes the dragged module out.
When the dragged module leaves an earlier row, the rows behind it move up, the
target may join another row, and the two end in different ones, although the
test in `tests/workspace-layout-logic.spec.ts:169` "rebalances the target row so a
side drop actually lands in that row". With rows of 8, 4, 8 and 4 columns,
dropping the second module before the third is enough; `workspace_side_drop`
finds such a drop.

The others contradict nothing the repository says; they are what a reader of the
properties has to know.

- A poll started from the older ref can overwrite a verdict with `reconciling`
  or `failed` for a while; `SettledStatusStays` therefore starts where the ref
  has caught up and no poll runs.
- A reload between the venue's answer and the effect that stores the order id
  loses it: the action stays optimistic. An order accepted without an oid is
  never reconciled either. `ReconciliationEnds` starts at the stored id.
- The preview stays current after a submission: the same payload with the same
  nonce can be submitted again, and only the venue's nonce check (external, not
  assumed) refuses it. A failed preview leaves the older one in place.
- A lost answer to the second post is reported as the first refusal although
  the order may be live (`FailedMadeNoOrder` leaves `uncertain` out).
- A 2xx answer without a status, such as an empty body, counts as submitted
  (`perp_adapters.go:1631`), although the venue may have made no order:
  `SubmittedIsTaken` and `SubmissionPromise` leave those submissions out
  (`unstated`). In the tracker such an order stays `submitted` and, without an
  oid, is never polled; a cancellation answered so leaves `isCancelPending` on a
  live order (`orphans`).
- The leverage is part of the preview key but not of the signed action, and the
  price of a market order is fixed when the preview is built.
- A reload during a cancellation keeps `isCancelPending` with nobody left to
  reset it, until a final poll answer (`orphans` in `PendingCancelIsBacked`).
- A submission whose answer is lost is marked failed although the order may be
  live; `TerminalStatusIsVenues` leaves `failed` out for that reason.
- An action whose attempts are all spent on non-final answers stays open and is
  not polled any more. A live order can be dropped by the cap.
- The reconciliation's last `setSessionState(nextState)` undoes whatever changed
  since it began: removed or disconnected slots come back, slots added vanish.
- `connect`, `reconnect`, `setActive`, `remove` set a value computed from
  `stateRef`; when it lags they undo a watcher's or a verification's update,
  which can leave a slot "checking" or two live slots on one wallet.
- Every upsert, a background verdict included, makes its slot the active one.
- When the chart's first load fails or brings no candle, the polls are never
  started (`candlestick-chart-panel.tsx:261`); the chart stays empty until the panel
  is mounted again.
- Every tick aborts the call of the tick before
  (`candlestick-chart-panel.tsx:266`): with answers slower than the interval of
  five seconds no poll is heard. There is no liveness of the chart to state.
- A poll brings two minutes: when the polls were silent for longer, a minute is
  drawn with the trades it had or not at all (`paused` in `ClosedCandlesAreFinal`).
- A resize ends only with a pointerup: after a pointercancel or the window's
  blur it goes on under a pointer that is up.

## 7. Not modelled

- Signing itself: `verifyWalletChallengeSignature` checks the form of a
  signature in this prototype; keys and hashes are no part of the models.
- A second browser tab: both would write the same localStorage keys; the code
  does not listen to storage events.
- The wallet runtime when it is disabled by configuration, and the removal of a
  provider while the page is open.
- Rendering, wording, formatting, prices and sizes; profit and notional
  arithmetic on floating-point numbers; the random placeholder order book.
- The venue adapters' wire formats, and the read-only routes of the BFF apart
  from what their callers make of their answers: each is one request translated
  to another, without state.
- The components marked `not_modelled` in `PROJECT.json`: fixed mock data,
  presentation, Rust services that answer health and ping, generated code and
  build tooling have no state to check.

## 8. Plan

Done: the tracker, the challenge store, the wallet manager, the ticket with its
promise, the workspace, the loads and the chart, each checked and with theorems.
What is left, most useful first:

1. `OrderView`, an abstract specification of what a user is told about an order,
   refined by `OrderTracker`.
