----------------------------- MODULE OrderTicket -----------------------------
(***************************************************************************)
(* From the order ticket to the venue: the form with its preview           *)
(* (order-entry-panel.tsx, order-entry-logic.ts), signing in the wallet    *)
(* (multi-session-runtime.ts), the BFF's handler, which posts a refused     *)
(* action again with the signature's recovery id in its other encoding     *)
(* (server.go, perp_adapters.go), and the venue, which takes or refuses    *)
(* each post it gets, early or late.                                       *)
(*                                                                         *)
(* The form's fields are one value; a preview key is equal to another when *)
(* the requests are.  isSubmitting is set by the click that starts a flow  *)
(* and reset in the finally that ends it, so it says that a flow runs.     *)
(* Checks of a payload's form, which the BFF's own payloads pass, are left *)
(* out, and so is the tracker, which module OrderTracker describes.        *)
(***************************************************************************)
EXTENDS Naturals, FiniteSets

CONSTANTS
  Slots,           \* wallet slots
  Accounts,
  Contents,        \* what the form's fields may hold, when they are valid
  SlotVenue,       \* the venue each slot was connected for
  MaxSubmissions,  \* bound: clicks on submit
  MaxSwitches,     \* bound: account changes in the wallets
  None             \* no slot, no account, no preview; fields that are not valid

Venues == {"hyperliquid", "aster"}

ASSUME SlotVenueAssumption == SlotVenue \in [Slots -> Venues]
ASSUME BoundsAssumption == MaxSubmissions \in Nat /\ MaxSwitches \in Nat
ASSUME NoneAssumption == None \notin Slots \cup Accounts \cup Contents

VARIABLES
  draft,            \* the form
  activeSlot,       \* the active slot as the page shows it
  previewResponse,  \* the payload last built
  previewKey,       \* what it was built for
  flow,             \* the running preview or submission
  session,          \* each slot's account in the wallet runtime
  selected,         \* external: the account selected in each slot's wallet
  switches,         \* account changes so far
  handlers,         \* the BFF's running submissions
  posts,            \* posts to the venue not yet heard of by the BFF
  orders,           \* external: the posts the venue has taken
  submissions,      \* submissions so far
  told,             \* what the form said of each submission
  uncertain,        \* history: submissions one of whose answers was lost
  unstated          \* history: submissions of which the BFF heard a blank answer

walletVars == <<session, selected, switches>>
bffVars == <<handlers, posts, orders>>
userVars == <<submissions, told, uncertain, unstated>>
vars == <<draft, activeSlot, previewResponse, previewKey, flow, walletVars, bffVars, userVars>>

Request == [account: Accounts, venue: Venues, content: Contents]
Draft == [venue: Venues, content: Contents \cup {None}]
ShownSlot == [id: Slots, account: Accounts, venue: Venues, tradable: BOOLEAN]

Idle == [stage |-> "idle"]

\* Stages of a submission before it reaches the BFF.
WalletStages == {"account", "chain", "adding", "switching", "recheck", "signing", "sending"}

Init ==
  /\ \E venue \in Venues : draft = [venue |-> venue, content |-> None]
  /\ activeSlot = None
  /\ previewResponse = None
  /\ previewKey = None
  /\ flow = Idle
  /\ session = [s \in Slots |-> None]
  /\ selected \in [Slots -> Accounts]
  /\ switches = 0
  /\ handlers = {}
  /\ posts = {}
  /\ orders = {}
  /\ submissions = 0
  /\ told = [n \in 1 .. MaxSubmissions |-> "nothing"]
  /\ uncertain = {}
  /\ unstated = {}

-----------------------------------------------------------------------------
(* The form *)

\* Fault: fields that are not valid make a request.
RequestOfAnyForm ==
  IF activeSlot = None THEN None
  ELSE [account |-> activeSlot.account, venue |-> draft.venue, content |-> draft.content]

\* What the form asks for: buildPerpOrderRequest, or nothing.
OrderRequest ==
  IF activeSlot = None \/ draft.content = None THEN None
  ELSE [account |-> activeSlot.account, venue |-> draft.venue, content |-> draft.content]

WalletBlocks ==
  activeSlot = None \/ ~activeSlot.tradable \/ activeSlot.venue # draft.venue

\* The preview is current: the form still asks for what it was built for.
PreviewIsFor(request) == OrderRequest # None /\ OrderRequest = request

CanPreview == flow.stage = "idle" /\ ~WalletBlocks /\ OrderRequest # None

CanSubmit ==
  /\ flow.stage = "idle"
  /\ ~WalletBlocks
  /\ previewResponse # None
  /\ PreviewIsFor(previewKey)

\* The side and the order type stay enabled while a flow runs, and effects
\* write the instrument and the limit price at any time.
EditFields(content) ==
  /\ draft' = [draft EXCEPT !.content = content]
  /\ UNCHANGED <<activeSlot, previewResponse, previewKey, flow, walletVars, bffVars, userVars>>

\* The venue's field is disabled while a flow runs.  Its effect chooses an
\* instrument of the new venue.
EditVenue(venue, content) ==
  /\ flow.stage = "idle"
  /\ draft' = [venue |-> venue, content |-> content]
  /\ UNCHANGED <<activeSlot, previewResponse, previewKey, flow, walletVars, bffVars, userVars>>

ClickPreview ==
  /\ CanPreview
  /\ flow' = [stage |-> "building", request |-> OrderRequest]
  /\ UNCHANGED <<draft, activeSlot, previewResponse, previewKey, walletVars, bffVars, userVars>>

\* Fault: the key is made from the form as it is when the answer arrives.
KeyOfForm(request) == OrderRequest

\* The key is made from the request the preview was asked with.
KeyOf(request) == request

\* The BFF builds the payload of the order it was asked for.
PreviewArrives ==
  /\ flow.stage = "building"
  /\ previewResponse' = flow.request
  /\ previewKey' = KeyOf(flow.request)
  /\ flow' = Idle
  /\ UNCHANGED <<draft, activeSlot, walletVars, bffVars, userVars>>

\* Fault: only a preview that arrives enables the form again.
StaysBusy == [stage |-> "abandoned"]

FormAfterFailure == Idle

\* The request or the BFF's market-data calls fail; the older preview stays.
PreviewFails ==
  /\ flow.stage = "building"
  /\ flow' = FormAfterFailure
  /\ UNCHANGED <<draft, activeSlot, previewResponse, previewKey, walletVars, bffVars, userVars>>

-----------------------------------------------------------------------------
(* Submitting: the click and the wallet *)

EndsWith(n, verdict) ==
  /\ flow' = Idle
  /\ told' = [told EXCEPT ![n] = verdict]

\* The click; the runtime's session is checked before the first await.
ClickSubmit ==
  LET n == submissions + 1 IN
  /\ CanSubmit
  /\ submissions < MaxSubmissions
  /\ submissions' = n
  /\ IF session[activeSlot.id] = activeSlot.account /\ previewResponse.account = activeSlot.account
     THEN /\ flow' = [stage |-> "account", no |-> n, slot |-> activeSlot.id,
                      shown |-> OrderRequest, payload |-> previewResponse]
          /\ UNCHANGED told
     ELSE EndsWith(n, "failed")
  /\ UNCHANGED <<draft, activeSlot, previewResponse, previewKey, walletVars, bffVars, uncertain,
                 unstated>>

WalletMoves(stage) ==
  /\ flow' = [flow EXCEPT !.stage = stage]
  /\ UNCHANGED <<draft, activeSlot, previewResponse, previewKey, walletVars, bffVars, userVars>>

\* ensureProviderAccountMatches, before and after the chain is seen to.
AccountMatches ==
  /\ flow.stage \in {"account", "recheck"}
  /\ selected[flow.slot] = flow.payload.account
  /\ WalletMoves(CASE flow.stage = "recheck" -> "signing"
                   [] flow.payload.venue = "hyperliquid" -> "chain"
                   [] OTHER -> "sending")

\* ensureWalletOnSigningChain: nothing to do, or the user agrees to switch; a
\* chain the wallet does not know is added, and then switched to.
ChainSettled == flow.stage \in {"chain", "switching"} /\ WalletMoves("recheck")
ChainMissing == flow.stage = "chain" /\ WalletMoves("adding")
ChainAdded == flow.stage = "adding" /\ WalletMoves("switching")

\* The user refuses, the wallet fails, or an account does not match.
WalletFails ==
  /\ flow.stage \in WalletStages
  /\ EndsWith(flow.no, "failed")
  /\ UNCHANGED <<draft, activeSlot, previewResponse, previewKey, walletVars, bffVars,
                 submissions, uncertain, unstated>>

\* The user signs.  The request names the account, but a wallet may sign with
\* the one selected by then.  The signed action goes to the BFF.
WalletSigns(signer) ==
  /\ flow.stage = "signing"
  /\ signer \in {flow.payload.account, selected[flow.slot]}
  /\ flow' = [flow EXCEPT !.stage = "posted"]
  /\ handlers' = handlers \cup {[no |-> flow.no, payload |-> flow.payload, signer |-> signer,
                                 stage |-> "received", answer |-> "none"]}
  /\ UNCHANGED <<draft, activeSlot, previewResponse, previewKey, walletVars, posts, orders,
                 userVars>>

\* An Aster action is submitted by the wallet itself, which returns its hash.
WalletSubmits ==
  /\ flow.stage = "sending"
  /\ EndsWith(flow.no, "sentByWallet")
  /\ UNCHANGED <<draft, activeSlot, previewResponse, previewKey, walletVars, bffVars,
                 submissions, uncertain, unstated>>

\* The BFF's answer: only the status "submitted" is a success.
FormHears(h) ==
  /\ flow.stage = "posted" /\ h.no = flow.no /\ h.stage = "answered"
  /\ EndsWith(h.no, IF h.answer = "submitted" THEN "submitted" ELSE "failed")
  /\ handlers' = handlers \ {h}
  /\ UNCHANGED <<draft, activeSlot, previewResponse, previewKey, walletVars, posts, orders,
                 submissions, uncertain, unstated>>

\* The request or its answer is lost; the BFF may go on.
FormHearsNothing ==
  /\ flow.stage = "posted"
  /\ EndsWith(flow.no, "failed")
  /\ uncertain' = uncertain \cup {flow.no}
  /\ UNCHANGED <<draft, activeSlot, previewResponse, previewKey, walletVars, bffVars, submissions,
                 unstated>>

-----------------------------------------------------------------------------
(* The BFF *)

bffOuter == <<draft, activeSlot, previewResponse, previewKey, flow, walletVars, submissions, told>>

\* Fault: the recovered signer is not compared.
AnySigner(h) == TRUE

SignerMatches(h) == h.signer = h.payload.account

Post(h, attempt) == [no |-> h.no, attempt |-> attempt, payload |-> h.payload,
                     signer |-> h.signer, reply |-> "none"]

Becomes(h, stage, answer) ==
  handlers' = (handlers \ {h}) \cup {[h EXCEPT !.stage = stage, !.answer = answer]}

BffPosts(h) ==
  /\ h.stage = "received"
  /\ SignerMatches(h)
  /\ Becomes(h, "primary", "none")
  /\ posts' = posts \cup {Post(h, 1)}
  /\ UNCHANGED <<bffOuter, orders, uncertain, unstated>>

\* The signer does not match, or the request does not pass the checks.
BffRejects(h) ==
  /\ h.stage = "received"
  /\ Becomes(h, "answered", "error")
  /\ UNCHANGED <<bffOuter, posts, orders, uncertain, unstated>>

\* Fault: an error in the order's own status is overlooked.
StatusOfEnvelope(reply) ==
  IF reply \in {"ok", "blank", "orderError"} THEN "submitted" ELSE reply

\* "ok" is a success, and so is an answer without a status, as an empty body
\* is; an error in the order's own status makes either, or any other status, a
\* rejection; any other status stays what it is.
NormalizeSubmissionStatus(reply) ==
  CASE reply \in {"ok", "blank"} -> "submitted"
    [] reply = "orderError" -> "rejected"
    [] OTHER -> reply

\* Fault: the answer to the second post is not used.
FirstAnswer(first, second) == first

\* The answer to the second post counts when it is a success.
CombinedAnswer(first, second) == IF second = "submitted" THEN second ELSE first

\* The venue answered a post: a refusal of the first is followed by the same
\* action and signature, the recovery id written the other way (27 for 0).
BffHears(h, p) ==
  LET status == NormalizeSubmissionStatus(p.reply) IN
  /\ p.no = h.no /\ p.reply # "none"
  /\ \/ /\ h.stage = "primary" /\ p.attempt = 1
        /\ IF status = "submitted"
           THEN Becomes(h, "answered", status) /\ posts' = posts \ {p}
           ELSE Becomes(h, "alternate", status) /\ posts' = (posts \ {p}) \cup {Post(h, 2)}
     \/ /\ h.stage = "alternate" /\ p.attempt = 2
        /\ Becomes(h, "answered", CombinedAnswer(h.answer, status))
        /\ posts' = posts \ {p}
  /\ unstated' = IF p.reply = "blank" THEN unstated \cup {h.no} ELSE unstated
  /\ UNCHANGED <<bffOuter, orders, uncertain>>

\* Fault: a first post without an answer is followed by the second, too.
RetryAfterSilence(h) == IF h.stage = "primary" THEN "alternate" ELSE "answered"

StageAfterSilence(h) == "answered"

\* A post or its answer is lost, or the client has gone: an error for the first
\* post, the first answer for the second.  The venue may still get the post.
BffHearsNothing(h) ==
  LET heard == {p \in posts : p.no = h.no /\ p.reply # "none"} IN
  /\ h.stage \in {"primary", "alternate"}
  /\ Becomes(h, StageAfterSilence(h), IF h.stage = "primary" THEN "error" ELSE h.answer)
  /\ posts' = (posts \ heard) \cup
                (IF StageAfterSilence(h) = "alternate" THEN {Post(h, 2)} ELSE {})
  /\ uncertain' = uncertain \cup {h.no}
  /\ UNCHANGED <<bffOuter, orders, unstated>>

\* Nobody waits for the answer any more.
BffAnswersNobody(h) ==
  /\ h.stage = "answered"
  /\ ~(flow.stage = "posted" /\ flow.no = h.no)
  /\ handlers' = handlers \ {h}
  /\ UNCHANGED <<bffOuter, posts, orders, uncertain, unstated>>

-----------------------------------------------------------------------------
(* The venue and the wallets *)

\* The venue takes the order, and says so or answers without a status.
VenueTakes(p) ==
  /\ p.reply = "none"
  /\ orders' = orders \cup {[no |-> p.no, attempt |-> p.attempt, payload |-> p.payload,
                             signer |-> p.signer]}
  /\ \E reply \in {"ok", "blank"} :
       posts' = (posts \ {p}) \cup {[p EXCEPT !.reply = reply]}
  /\ UNCHANGED <<bffOuter, handlers, uncertain, unstated>>

\* A 2xx answer without a status may stand for no order, too.
VenueRefuses(p) ==
  /\ p.reply = "none"
  /\ \E reply \in {"orderError", "err", "blank"} :
       posts' = (posts \ {p}) \cup {[p EXCEPT !.reply = reply]}
  /\ UNCHANGED <<bffOuter, handlers, orders, uncertain, unstated>>

WalletSwitches(s, account) ==
  /\ switches < MaxSwitches
  /\ account # selected[s]
  /\ switches' = switches + 1
  /\ selected' = [selected EXCEPT ![s] = account]
  /\ UNCHANGED <<draft, activeSlot, previewResponse, previewKey, flow, session, bffVars, userVars>>

\* The provider's events and the wallet dialog set the runtime session.
SessionChanges(s, account) ==
  /\ account \in {selected[s], None}
  /\ session' = [session EXCEPT ![s] = account]
  /\ UNCHANGED <<draft, activeSlot, previewResponse, previewKey, flow, selected, switches, bffVars,
                 userVars>>

\* The wallet manager's state is rendered, some time after the session changed.
SlotRenders ==
  /\ activeSlot' \in {None} \cup
       {[id |-> s, account |-> session[s], venue |-> SlotVenue[s], tradable |-> tradable] :
          s \in {s \in Slots : session[s] # None}, tradable \in BOOLEAN}
  /\ UNCHANGED <<draft, previewResponse, previewKey, flow, walletVars, bffVars, userVars>>

-----------------------------------------------------------------------------
FormStep ==
  \/ \E content \in Contents \cup {None} : EditFields(content)
  \/ \E venue \in Venues, content \in Contents \cup {None} : EditVenue(venue, content)
  \/ ClickPreview
  \/ ClickSubmit
PreviewStep == PreviewArrives \/ PreviewFails
SigningStep ==
  \/ AccountMatches
  \/ ChainSettled
  \/ ChainMissing
  \/ ChainAdded
  \/ WalletFails
  \/ \E signer \in Accounts : WalletSigns(signer)
  \/ WalletSubmits
FormHearsBff == \E h \in handlers : FormHears(h)
AnswerStep == FormHearsBff \/ FormHearsNothing
BffStep ==
  \E h \in handlers :
    \/ BffPosts(h)
    \/ BffRejects(h)
    \/ \E p \in posts : BffHears(h, p)
    \/ BffHearsNothing(h)
    \/ BffAnswersNobody(h)
VenueStep == \E p \in posts : VenueTakes(p) \/ VenueRefuses(p)
WalletStep ==
  \/ \E s \in Slots, account \in Accounts : WalletSwitches(s, account)
  \/ \E s \in Slots, account \in Accounts \cup {None} : SessionChanges(s, account)
  \/ SlotRenders

Next == FormStep \/ PreviewStep \/ SigningStep \/ AnswerStep \/ BffStep \/ VenueStep \/ WalletStep

Spec == Init /\ [][Next]_vars

\* The BFF and the venue's API answer or time out, and so do a wallet's account
\* readings; a prompt of the wallet may stay open for ever.
Fairness ==
  /\ WF_vars(PreviewStep)
  /\ WF_vars(AccountMatches \/ (flow.stage \in {"account", "recheck"} /\ WalletFails))
  /\ \A n \in 1 .. MaxSubmissions :
       /\ WF_vars(\E h \in handlers : h.no = n /\ (BffPosts(h) \/ BffRejects(h)))
       /\ WF_vars(\E h \in handlers : h.no = n /\ (\/ \E p \in posts : BffHears(h, p)
                                                  \/ BffHearsNothing(h)))
  /\ WF_vars(FormHearsBff)

FairSpec == Spec /\ Fairness

-----------------------------------------------------------------------------
(* Properties *)

Prompts == {"chain", "adding", "switching", "signing", "sending"}
Submission == [stage: WalletStages \cup {"posted"}, no: 1 .. MaxSubmissions, slot: Slots,
               shown: Request, payload: Request]

\* Every variable holds a value of its type; in particular only a complete
\* order is ever previewed.
TypeOK ==
  /\ draft \in Draft
  /\ activeSlot \in ShownSlot \cup {None}
  /\ previewResponse \in Request \cup {None}
  /\ previewKey \in Request \cup {None}
  /\ flow \in {Idle} \cup [stage: {"building"}, request: Request] \cup Submission
  /\ session \in [Slots -> Accounts \cup {None}]
  /\ selected \in [Slots -> Accounts]
  /\ switches \in 0 .. MaxSwitches
  /\ handlers \subseteq [no: 1 .. MaxSubmissions, payload: Request, signer: Accounts,
                         stage: {"received", "primary", "alternate", "answered"},
                         answer: {"none", "submitted", "rejected", "err", "error"}]
  /\ posts \subseteq [no: 1 .. MaxSubmissions, attempt: {1, 2}, payload: Request,
                      signer: Accounts, reply: {"none", "ok", "blank", "orderError", "err"}]
  /\ orders \subseteq [no: 1 .. MaxSubmissions, attempt: {1, 2}, payload: Request,
                      signer: Accounts]
  /\ submissions \in 0 .. MaxSubmissions
  /\ told \in [1 .. MaxSubmissions -> {"nothing", "submitted", "sentByWallet", "failed"}]
  /\ uncertain \subseteq 1 .. MaxSubmissions
  /\ unstated \subseteq 1 .. MaxSubmissions

\* What goes to the wallet and the BFF is the order the form showed when the
\* user clicked, for the account the page showed, however the form, the slot
\* and the preview moved while previews were built.
SubmitsWhatWasShown ==
  flow.stage \in WalletStages \cup {"posted"} => flow.payload = flow.shown

\* The venue gets an order only with the signature of the account it was built
\* for, whatever account the wallet has selected when it signs.
SignedByItsAccount == \A o \in orders : o.signer = o.payload.account

\* One click makes at most one order, although the BFF may post the action
\* twice and the venue may handle a post the BFF has given up.
OneOrderPerSubmission ==
  /\ \A o, p \in orders : o.no = p.no => o = p
  /\ \A o \in orders, p \in posts : o.no = p.no => o.attempt = p.attempt

\* The form reports an order posted through the BFF submitted only if the venue
\* has taken it, on the first post or the second, or the BFF heard an answer
\* without a status, which it counts as a success whatever the venue did.
SubmittedIsTaken ==
  \A n \in 1 .. MaxSubmissions :
    told[n] = "submitted" => (\E o \in orders : o.no = n) \/ n \in unstated

\* A submission reported failed with every answer heard has made no order, and
\* none is on its way: the user may submit again.
FailedMadeNoOrder ==
  \A n \in 1 .. MaxSubmissions \ uncertain :
    told[n] = "failed" => \A o \in orders \cup posts : o.no # n

Promise == INSTANCE SubmissionPromise WITH
  Submissions <- 1 .. MaxSubmissions,
  Orders <- [no: 1 .. MaxSubmissions, attempt: {1, 2}, payload: Request, signer: Accounts]

\* The form, the wallet, the BFF with its second post, and the venue, early or
\* late, keep the promise of SubmissionPromise.
KeepsPromise == Promise!Spec

\* Only a prompt the user leaves open keeps the form busy.
FormIsFreed == flow.stage # "idle" ~> flow.stage \in {"idle"} \cup Prompts
=============================================================================
