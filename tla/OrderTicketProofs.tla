--------------------------- MODULE OrderTicketProofs ---------------------------
(***************************************************************************)
(* What becomes of an order from the click to the venue, for any number of *)
(* submissions, accounts and orders.                                       *)
(*                                                                         *)
(* The preview shown is the one its key was made for; a post carries its   *)
(* account's signature; and for each submission there is at most one       *)
(* handler in the BFF and one post under way, the second post existing     *)
(* only after the venue has refused the first.                             *)
(***************************************************************************)
EXTENDS OrderTicket, TLAPS

InFlight == WalletStages \cup {"posted"}

\* The handler h as it goes on with another stage and answer.
GoesOn(h, k, stage, answer) ==
  /\ handlers' = (handlers \ {h}) \cup {k}
  /\ k.no = h.no /\ k.payload = h.payload /\ k.signer = h.signer
  /\ k.stage = stage /\ k.answer = answer

\* The post p with the venue's reply.
Replied(p, q) ==
  /\ posts' = (posts \ {p}) \cup {q}
  /\ q.no = p.no /\ q.attempt = p.attempt /\ q.payload = p.payload /\ q.signer = p.signer

\* The replies the BFF counts as a success; the second states nothing.
Successes == {"ok", "blank"}

Handler == [no: 1 .. MaxSubmissions, payload: Request, signer: Accounts,
            stage: {"received", "primary", "alternate", "answered"},
            answer: {"none", "submitted", "rejected", "err", "error"}]
PostType == [no: 1 .. MaxSubmissions, attempt: {1, 2}, payload: Request, signer: Accounts,
             reply: {"none", "ok", "blank", "orderError", "err"}]

-----------------------------------------------------------------------------
(* Steps in terms of the records they replace. *)

LEMMA SubmissionOf ==
  ASSUME TypeOK, flow.stage \in InFlight PROVE flow \in Submission
<1>1. flow \notin {Idle} /\ flow \notin [stage: {"building"}, request: Request]
  BY DEF InFlight, WalletStages, Idle
<1>2. QED
  BY <1>1 DEF TypeOK

LEMMA MovedFlow ==
  ASSUME TypeOK, flow.stage \in InFlight, NEW stage \in InFlight
  PROVE  LET moved == [flow EXCEPT !.stage = stage] IN
         /\ moved \in Submission
         /\ moved.stage = stage /\ moved.no = flow.no
         /\ moved.payload = flow.payload /\ moved.shown = flow.shown
<1>1. flow \in Submission
  BY SubmissionOf
<1>2. QED
  BY <1>1 DEF Submission, InFlight

LEMMA BecomesIs ==
  ASSUME TypeOK, NEW h \in handlers, NEW stage, NEW answer, Becomes(h, stage, answer)
  PROVE  \E k : GoesOn(h, k, stage, answer)
<1> DEFINE k == [h EXCEPT !.stage = stage, !.answer = answer]
<1>1. h \in Handler
  BY DEF TypeOK, Handler
<1>2. /\ k.no = h.no /\ k.payload = h.payload /\ k.signer = h.signer
      /\ k.stage = stage /\ k.answer = answer
  BY <1>1 DEF Handler
<1>3. handlers' = (handlers \ {h}) \cup {k}
  BY DEF Becomes
<1> HIDE DEF k
<1>4. GoesOn(h, k, stage, answer)
  BY <1>2, <1>3 DEF GoesOn
<1>5. QED
  BY <1>4

LEMMA TakenIs ==
  ASSUME TypeOK, NEW p \in posts, VenueTakes(p)
  PROVE  \E q : Replied(p, q) /\ q.reply \in Successes
<1>1. PICK reply \in Successes : posts' = (posts \ {p}) \cup {[p EXCEPT !.reply = reply]}
  BY DEF VenueTakes, Successes
<1> DEFINE q == [p EXCEPT !.reply = reply]
<1>2. p \in PostType
  BY DEF TypeOK, PostType
<1>3. /\ q.no = p.no /\ q.attempt = p.attempt /\ q.payload = p.payload
      /\ q.signer = p.signer /\ q.reply = reply
  BY <1>2 DEF PostType
<1>4. posts' = (posts \ {p}) \cup {q}
  BY <1>1
<1> HIDE DEF q
<1>5. Replied(p, q)
  BY <1>3, <1>4 DEF Replied
<1>6. QED
  BY <1>3, <1>5

LEMMA RefusedIs ==
  ASSUME TypeOK, NEW p \in posts, VenueRefuses(p)
  PROVE  \E q : Replied(p, q) /\ q.reply \in {"orderError", "err", "blank"}
<1>1. PICK reply \in {"orderError", "err", "blank"} :
        posts' = (posts \ {p}) \cup {[p EXCEPT !.reply = reply]}
  BY DEF VenueRefuses
<1> DEFINE q == [p EXCEPT !.reply = reply]
<1>2. p \in PostType
  BY DEF TypeOK, PostType
<1>3. /\ q.no = p.no /\ q.attempt = p.attempt /\ q.payload = p.payload
      /\ q.signer = p.signer /\ q.reply = reply
  BY <1>2 DEF PostType
<1>4. posts' = (posts \ {p}) \cup {q}
  BY <1>1
<1> HIDE DEF q
<1>5. Replied(p, q)
  BY <1>3, <1>4 DEF Replied
<1>6. QED
  BY <1>3, <1>5

LEMMA NewOrder ==
  ASSUME NEW p, VenueTakes(p)
  PROVE  /\ orders \subseteq orders' /\ \E o \in orders' : o.no = p.no
         /\ \A o \in orders' : o \in orders \/ o.no = p.no
<1> DEFINE taken == [no |-> p.no, attempt |-> p.attempt, payload |-> p.payload,
                     signer |-> p.signer]
<1>1. taken.no = p.no
  OBVIOUS
<1>2. orders' = orders \cup {taken}
  BY DEF VenueTakes
<1> HIDE DEF taken
<1>3. QED
  BY <1>1, <1>2

LEMMA OrderRequestType ==
  ASSUME TypeOK PROVE OrderRequest \in Request \cup {None}
  BY DEF TypeOK, OrderRequest, Draft, ShownSlot, Request

-----------------------------------------------------------------------------
(* Types. *)

LEMMA TypeInit == Init => TypeOK
  BY BoundsAssumption DEF Init, TypeOK, Draft, Idle

LEMMA TypeForm == ASSUME TypeOK, FormStep PROVE TypeOK'
<1>1. ASSUME NEW content \in Contents \cup {None}, EditFields(content)
      PROVE  TypeOK'
  <2>1. draft' \in Draft
    BY <1>1 DEF TypeOK, EditFields, Draft
  <2>2. QED
    BY <1>1, <2>1 DEF TypeOK, EditFields, walletVars, bffVars, userVars
<1>2. ASSUME NEW venue \in Venues, NEW content \in Contents \cup {None},
             EditVenue(venue, content)
      PROVE  TypeOK'
  <2>1. draft' \in Draft
    BY <1>2 DEF EditVenue, Draft
  <2>2. QED
    BY <1>2, <2>1 DEF TypeOK, EditVenue, walletVars, bffVars, userVars
<1>3. CASE ClickPreview
  <2>1. flow' \in [stage: {"building"}, request: Request]
    BY <1>3, OrderRequestType DEF ClickPreview, CanPreview
  <2>2. QED
    BY <1>3, <2>1 DEF TypeOK, ClickPreview, walletVars, bffVars, userVars
<1>4. CASE ClickSubmit
  <2>1. submissions + 1 \in 1 .. MaxSubmissions /\ submissions' = submissions + 1
    BY <1>4, BoundsAssumption DEF TypeOK, ClickSubmit
  <2>2. CASE session[activeSlot.id] = activeSlot.account
             /\ previewResponse.account = activeSlot.account
    <3>1. flow' = [stage |-> "account", no |-> submissions + 1, slot |-> activeSlot.id,
                   shown |-> OrderRequest, payload |-> previewResponse]
          /\ told' = told
      BY <1>4, <2>2 DEF ClickSubmit
    <3>2. OrderRequest \in Request /\ previewResponse \in Request /\ activeSlot.id \in Slots
      BY <1>4, OrderRequestType
      DEF TypeOK, ClickSubmit, CanSubmit, PreviewIsFor, WalletBlocks, ShownSlot
    <3>3. flow' \in Submission
      BY <2>1, <3>1, <3>2 DEF Submission, WalletStages
    <3>4. QED
      BY <1>4, <2>1, <3>1, <3>3 DEF TypeOK, ClickSubmit, walletVars, bffVars
  <2>3. CASE ~(session[activeSlot.id] = activeSlot.account
               /\ previewResponse.account = activeSlot.account)
    <3>1. flow' = Idle /\ told' = [told EXCEPT ![submissions + 1] = "failed"]
      BY <1>4, <2>3 DEF ClickSubmit, EndsWith
    <3>2. QED
      BY <1>4, <2>1, <3>1 DEF TypeOK, ClickSubmit, walletVars, bffVars
  <2>4. QED
    BY <2>2, <2>3
<1>5. QED
  BY <1>1, <1>2, <1>3, <1>4 DEF FormStep

LEMMA TypePreview == ASSUME TypeOK, PreviewStep PROVE TypeOK'
<1>1. CASE PreviewArrives
  <2>1. flow \in [stage: {"building"}, request: Request]
    BY <1>1 DEF TypeOK, PreviewArrives, Idle, Submission, WalletStages
  <2>2. QED
    BY <1>1, <2>1 DEF TypeOK, PreviewArrives, KeyOf, walletVars, bffVars, userVars
<1>2. CASE PreviewFails
  BY <1>2 DEF TypeOK, PreviewFails, FormAfterFailure, walletVars, bffVars, userVars
<1>3. QED
  BY <1>1, <1>2 DEF PreviewStep

LEMMA TypeEnds ==
  ASSUME TypeOK, NEW n \in 1 .. MaxSubmissions,
         NEW verdict \in {"submitted", "sentByWallet", "failed"}, EndsWith(n, verdict)
  PROVE  /\ flow' \in {Idle}
         /\ told' \in [1 .. MaxSubmissions -> {"nothing", "submitted", "sentByWallet", "failed"}]
  BY DEF TypeOK, EndsWith

LEMMA TypeSigning == ASSUME TypeOK, SigningStep PROVE TypeOK'
<1>1. ASSUME NEW stage \in InFlight, flow.stage \in InFlight, WalletMoves(stage)
      PROVE  TypeOK'
  <2>1. flow' \in Submission
    BY <1>1, MovedFlow DEF WalletMoves
  <2>2. QED
    BY <1>1, <2>1 DEF TypeOK, WalletMoves, walletVars, bffVars, userVars
<1>2. CASE AccountMatches \/ ChainSettled \/ ChainMissing \/ ChainAdded
  BY <1>1, <1>2
  DEF AccountMatches, ChainSettled, ChainMissing, ChainAdded, InFlight, WalletStages
<1>3. CASE WalletFails
  <2>1. flow.no \in 1 .. MaxSubmissions
    BY <1>3, SubmissionOf DEF WalletFails, InFlight, Submission
  <2>2. QED
    BY <1>3, <2>1, TypeEnds DEF TypeOK, WalletFails, walletVars, bffVars
<1>4. ASSUME NEW signer \in Accounts, WalletSigns(signer)
      PROVE  TypeOK'
  <2>1. flow \in Submission
    BY <1>4, SubmissionOf DEF WalletSigns, InFlight, WalletStages
  <2>2. flow' \in Submission
    BY <1>4, MovedFlow DEF WalletSigns, InFlight, WalletStages
  <2>3. handlers' \subseteq Handler
    BY <1>4, <2>1 DEF TypeOK, WalletSigns, Handler, Submission
  <2>4. QED
    BY <1>4, <2>2, <2>3 DEF TypeOK, WalletSigns, Handler, walletVars, userVars
<1>5. CASE WalletSubmits
  <2>1. flow.no \in 1 .. MaxSubmissions
    BY <1>5, SubmissionOf DEF WalletSubmits, InFlight, WalletStages, Submission
  <2>2. QED
    BY <1>5, <2>1, TypeEnds DEF TypeOK, WalletSubmits, walletVars, bffVars
<1>6. QED
  BY <1>2, <1>3, <1>4, <1>5 DEF SigningStep

LEMMA TypeAnswer == ASSUME TypeOK, AnswerStep PROVE TypeOK'
<1>1. ASSUME NEW h \in handlers, FormHears(h) PROVE TypeOK'
  <2>1. h.no \in 1 .. MaxSubmissions
    BY DEF TypeOK
  <2>2. flow' \in {Idle}
        /\ told' \in [1 .. MaxSubmissions -> {"nothing", "submitted", "sentByWallet", "failed"}]
    BY <1>1, <2>1, TypeEnds DEF FormHears
  <2>3. QED
    BY <1>1, <2>2 DEF TypeOK, FormHears, walletVars
<1>2. CASE FormHearsNothing
  <2>1. flow.no \in 1 .. MaxSubmissions
    BY <1>2, SubmissionOf DEF FormHearsNothing, InFlight, Submission
  <2>2. QED
    BY <1>2, <2>1, TypeEnds DEF TypeOK, FormHearsNothing, walletVars, bffVars
<1>3. QED
  BY <1>1, <1>2 DEF AnswerStep, FormHearsBff

LEMMA TypeOfPost ==
  ASSUME TypeOK, NEW h \in handlers, NEW attempt \in {1, 2}
  PROVE  Post(h, attempt) \in PostType
  BY DEF TypeOK, Post, PostType

LEMMA TypeGoesOn ==
  ASSUME TypeOK, NEW h \in handlers,
         NEW stage \in {"received", "primary", "alternate", "answered"},
         NEW answer \in {"none", "submitted", "rejected", "err", "error"},
         Becomes(h, stage, answer)
  PROVE  handlers' \subseteq Handler
<1>1. h \in Handler /\ handlers \subseteq Handler
  BY DEF TypeOK, Handler
<1>2. [h EXCEPT !.stage = stage, !.answer = answer] \in Handler
  BY <1>1 DEF Handler
<1>3. QED
  BY <1>1, <1>2 DEF Becomes

LEMMA TypeBff == ASSUME TypeOK, BffStep PROVE TypeOK'
<1>1. /\ posts \subseteq PostType
      /\ \A h \in handlers : h.no \in 1 .. MaxSubmissions
                             /\ h.answer \in {"none", "submitted", "rejected", "err", "error"}
  BY DEF TypeOK, PostType
<1>2. ASSUME NEW h \in handlers, BffPosts(h) PROVE TypeOK'
  <2>1. handlers' \subseteq Handler
    BY <1>2, TypeGoesOn DEF BffPosts
  <2>2. posts' \subseteq PostType
    BY <1>1, <1>2, TypeOfPost DEF BffPosts
  <2>3. QED
    BY <1>2, <2>1, <2>2 DEF TypeOK, BffPosts, Handler, PostType, bffOuter, walletVars
<1>3. ASSUME NEW h \in handlers, BffRejects(h) PROVE TypeOK'
  <2>1. handlers' \subseteq Handler
    BY <1>3, TypeGoesOn DEF BffRejects
  <2>2. QED
    BY <1>3, <2>1 DEF TypeOK, BffRejects, Handler, bffOuter, walletVars
<1>4. ASSUME NEW h \in handlers, NEW p \in posts, BffHears(h, p) PROVE TypeOK'
  <2>1. NormalizeSubmissionStatus(p.reply) \in {"submitted", "rejected", "err"}
    BY <1>4 DEF TypeOK, BffHears, NormalizeSubmissionStatus
  <2>2. CombinedAnswer(h.answer, NormalizeSubmissionStatus(p.reply))
          \in {"none", "submitted", "rejected", "err", "error"}
    BY <1>1, <2>1 DEF CombinedAnswer
  <2>3. handlers' \subseteq Handler
    BY <1>4, <2>1, <2>2, TypeGoesOn DEF BffHears
  <2>4. posts' \subseteq PostType
    BY <1>1, <1>4, TypeOfPost DEF BffHears
  <2>5. unstated' \subseteq 1 .. MaxSubmissions
    BY <1>1, <1>4 DEF TypeOK, BffHears
  <2>6. QED
    BY <1>4, <2>3, <2>4, <2>5 DEF TypeOK, BffHears, Handler, PostType, bffOuter, walletVars
<1>5. ASSUME NEW h \in handlers, BffHearsNothing(h) PROVE TypeOK'
  <2>1. handlers' \subseteq Handler
    BY <1>1, <1>5, TypeGoesOn DEF BffHearsNothing, StageAfterSilence
  <2>2. posts' \subseteq PostType
    BY <1>1, <1>5 DEF BffHearsNothing, StageAfterSilence
  <2>3. uncertain' \subseteq 1 .. MaxSubmissions
    BY <1>1, <1>5 DEF TypeOK, BffHearsNothing
  <2>4. QED
    BY <1>5, <2>1, <2>2, <2>3 DEF TypeOK, BffHearsNothing, Handler, PostType, bffOuter,
                                  walletVars
<1>6. ASSUME NEW h \in handlers, BffAnswersNobody(h) PROVE TypeOK'
  BY <1>6 DEF TypeOK, BffAnswersNobody, bffOuter, walletVars
<1>7. QED
  BY <1>2, <1>3, <1>4, <1>5, <1>6 DEF BffStep

LEMMA TypeVenue == ASSUME TypeOK, VenueStep PROVE TypeOK'
<1>1. ASSUME NEW p \in posts, VenueTakes(p) PROVE TypeOK'
  <2>1. p \in PostType /\ posts \subseteq PostType
    BY DEF TypeOK, PostType
  <2>2. ASSUME NEW reply \in {"ok", "blank"}
        PROVE  [p EXCEPT !.reply = reply] \in PostType
    BY <2>1 DEF PostType
  <2>3. posts' \subseteq PostType
    BY <1>1, <2>1, <2>2 DEF VenueTakes
  <2>4. orders' \subseteq [no: 1 .. MaxSubmissions, attempt: {1, 2}, payload: Request,
                           signer: Accounts]
    BY <1>1, <2>1 DEF TypeOK, VenueTakes, PostType
  <2>5. QED
    BY <1>1, <2>3, <2>4 DEF TypeOK, VenueTakes, PostType, bffOuter, walletVars
<1>2. ASSUME NEW p \in posts, VenueRefuses(p) PROVE TypeOK'
  <2>1. p \in PostType /\ posts \subseteq PostType
    BY DEF TypeOK, PostType
  <2>2. ASSUME NEW reply \in {"orderError", "err", "blank"}
        PROVE  [p EXCEPT !.reply = reply] \in PostType
    BY <2>1 DEF PostType
  <2>3. posts' \subseteq PostType
    BY <1>2, <2>1, <2>2 DEF VenueRefuses
  <2>4. QED
    BY <1>2, <2>3 DEF TypeOK, VenueRefuses, PostType, bffOuter, walletVars
<1>3. QED
  BY <1>1, <1>2 DEF VenueStep

LEMMA TypeWallet == ASSUME TypeOK, WalletStep PROVE TypeOK'
<1>1. ASSUME NEW s \in Slots, NEW account \in Accounts, WalletSwitches(s, account)
      PROVE  TypeOK'
  BY <1>1, BoundsAssumption DEF TypeOK, WalletSwitches, bffVars, userVars
<1>2. ASSUME NEW s \in Slots, NEW account \in Accounts \cup {None}, SessionChanges(s, account)
      PROVE  TypeOK'
  BY <1>2 DEF TypeOK, SessionChanges, bffVars, userVars
<1>3. CASE SlotRenders
  <2>1. \A s \in Slots : session[s] # None => session[s] \in Accounts
    BY DEF TypeOK
  <2>2. activeSlot' \in ShownSlot \cup {None}
    BY <1>3, <2>1, SlotVenueAssumption DEF SlotRenders, ShownSlot
  <2>3. QED
    BY <1>3, <2>2 DEF TypeOK, SlotRenders, walletVars, bffVars, userVars
<1>4. QED
  BY <1>1, <1>2, <1>3 DEF WalletStep

LEMMA TypeStep == TypeOK /\ [Next]_vars => TypeOK'
<1> SUFFICES ASSUME TypeOK, [Next]_vars PROVE TypeOK'
  OBVIOUS
<1>1. CASE UNCHANGED vars
  BY <1>1 DEF TypeOK, vars, walletVars, bffVars, userVars
<1>2. QED
  BY <1>1, TypeForm, TypePreview, TypeSigning, TypeAnswer, TypeBff, TypeVenue, TypeWallet
  DEF Next

\* Every variable keeps its type, and only a complete order is ever previewed,
\* signed or posted.
THEOREM TypeCorrectness == Spec => []TypeOK
  BY TypeInit, TypeStep, PTL DEF Spec

-----------------------------------------------------------------------------
(* The invariants. *)

\* A current preview is the one built for what the form asks.
PreviewHasItsKey == previewKey = previewResponse

\* Only what its account has signed leaves the BFF.
Signed ==
  /\ \A p \in posts : p.signer = p.payload.account
  /\ \A h \in handlers : h.stage \in {"primary", "alternate"} => h.signer = h.payload.account
  /\ SignedByItsAccount

\* Handlers, posts and orders are of submissions made; one that is still with
\* the wallet has none of them.
Numbered ==
  /\ \A h \in handlers : h.no <= submissions
  /\ \A p \in posts : p.no <= submissions
  /\ \A o \in orders : o.no <= submissions
  /\ flow.stage \in InFlight => flow.no <= submissions

Unsent(no) ==
  /\ \A h \in handlers : h.no # no
  /\ \A p \in posts : p.no # no
  /\ \A o \in orders : o.no # no

Fresh == flow.stage \in WalletStages => Unsent(flow.no)

\* A submission has one handler, and one post under way.
OneHandler == \A h, k \in handlers : h.no = k.no => h = k
OnePost == \A p, q \in posts : p.no = q.no => p = q

\* A handler that has not posted has neither post nor order.
Received ==
  \A h \in handlers : h.stage = "received" =>
    /\ \A p \in posts : p.no # h.no
    /\ \A o \in orders : o.no # h.no

\* A post not answered, or answered with a refusal, is of a submission without
\* an order.
Refused == \A p \in posts : p.reply \notin Successes => \A o \in orders : o.no # p.no

OneInv ==
  Numbered /\ Fresh /\ OneHandler /\ OnePost /\ Received /\ Refused /\ OneOrderPerSubmission

\* What counts as a success is an order the venue has, or rests on an answer
\* that states nothing.
Backed(no) == (\E o \in orders : o.no = no) \/ no \in unstated

Taken == \A p \in posts : p.reply = "ok" => \E o \in orders : o.no = p.no
Answered == \A h \in handlers : h.answer = "submitted" => Backed(h.no)

\* A submission under way has been told nothing of, nor has one to come.
Waiting ==
  /\ flow.stage \in InFlight => told[flow.no] = "nothing"
  /\ \A n \in 1 .. MaxSubmissions : n > submissions => told[n] = "nothing"

\* An answered handler all of whose answers were heard has nothing under way.
Heard ==
  \A h \in handlers : h.stage = "answered" /\ h.no \notin uncertain =>
    /\ \A p \in posts : p.no # h.no
    /\ h.answer # "submitted" => \A o \in orders : o.no # h.no

\* A submission told of, with every answer heard, has nothing under way.
Settled ==
  \A n \in 1 .. MaxSubmissions \ uncertain : told[n] # "nothing" =>
    /\ \A h \in handlers : h.no # n
    /\ \A p \in posts : p.no # n

-----------------------------------------------------------------------------
(* What is submitted is what was shown. *)

ShownInv == TypeOK /\ PreviewHasItsKey /\ SubmitsWhatWasShown

LEMMA ShownInit == Init => PreviewHasItsKey /\ SubmitsWhatWasShown
  BY DEF Init, PreviewHasItsKey, SubmitsWhatWasShown, Idle, WalletStages

LEMMA ShownStep == ShownInv /\ [Next]_vars => PreviewHasItsKey' /\ SubmitsWhatWasShown'
<1> SUFFICES ASSUME ShownInv, [Next]_vars PROVE PreviewHasItsKey' /\ SubmitsWhatWasShown'
  OBVIOUS
<1>0. TypeOK /\ PreviewHasItsKey /\ SubmitsWhatWasShown
  BY DEF ShownInv
<1>1. CASE /\ previewKey' = previewKey /\ previewResponse' = previewResponse
           /\ flow' = flow \/ flow' = Idle
  BY <1>0, <1>1 DEF PreviewHasItsKey, SubmitsWhatWasShown, Idle, WalletStages
<1>2. ASSUME NEW stage \in InFlight, flow.stage \in InFlight,
             flow' = [flow EXCEPT !.stage = stage],
             previewKey' = previewKey, previewResponse' = previewResponse
      PROVE  PreviewHasItsKey' /\ SubmitsWhatWasShown'
  BY <1>0, <1>2, MovedFlow DEF PreviewHasItsKey, SubmitsWhatWasShown, InFlight
<1>3. CASE UNCHANGED vars
  BY <1>1, <1>3 DEF vars
<1>4. CASE FormStep
  <2>1. CASE ClickPreview
    BY <1>0, <2>1 DEF ClickPreview, PreviewHasItsKey, SubmitsWhatWasShown, WalletStages
  <2>2. CASE ClickSubmit
    <3>1. OrderRequest = previewResponse
      BY <1>0, <2>2 DEF ClickSubmit, CanSubmit, PreviewIsFor, PreviewHasItsKey
    <3>2. QED
      BY <1>0, <1>1, <2>2, <3>1
      DEF ClickSubmit, EndsWith, PreviewHasItsKey, SubmitsWhatWasShown
  <2>3. QED
    BY <1>1, <1>4, <2>1, <2>2 DEF FormStep, EditFields, EditVenue
<1>5. CASE PreviewStep
  <2>1. CASE PreviewArrives
    BY <2>1 DEF PreviewArrives, KeyOf, PreviewHasItsKey, SubmitsWhatWasShown, Idle, WalletStages
  <2>2. QED
    BY <1>1, <1>5, <2>1 DEF PreviewStep, PreviewFails, FormAfterFailure
<1>6. CASE SigningStep
  <2>1. ASSUME NEW stage \in InFlight, flow.stage \in InFlight, WalletMoves(stage)
        PROVE  PreviewHasItsKey' /\ SubmitsWhatWasShown'
    BY <1>2, <2>1 DEF WalletMoves
  <2>2. CASE AccountMatches \/ ChainSettled \/ ChainMissing \/ ChainAdded
    BY <2>1, <2>2
    DEF AccountMatches, ChainSettled, ChainMissing, ChainAdded, InFlight, WalletStages
  <2>3. ASSUME NEW signer \in Accounts, WalletSigns(signer)
        PROVE  PreviewHasItsKey' /\ SubmitsWhatWasShown'
    BY <1>2, <2>3 DEF WalletSigns, InFlight, WalletStages
  <2>4. CASE WalletFails \/ WalletSubmits
    BY <1>1, <2>4 DEF WalletFails, WalletSubmits, EndsWith
  <2>5. QED
    BY <1>6, <2>2, <2>3, <2>4 DEF SigningStep
<1>7. CASE AnswerStep
  BY <1>1, <1>7 DEF AnswerStep, FormHearsBff, FormHears, FormHearsNothing, EndsWith
<1>8. CASE BffStep
  BY <1>1, <1>8
  DEF BffStep, BffPosts, BffRejects, BffHears, BffHearsNothing, BffAnswersNobody, bffOuter
<1>9. CASE VenueStep \/ WalletStep
  BY <1>1, <1>9
  DEF VenueStep, VenueTakes, VenueRefuses, bffOuter, WalletStep, WalletSwitches,
      SessionChanges, SlotRenders
<1>10. QED
  BY <1>3, <1>4, <1>5, <1>6, <1>7, <1>8, <1>9 DEF Next

\* What the wallet and the BFF get is the order the form showed at the click.
THEOREM SubmissionsAreShown == Spec => []SubmitsWhatWasShown
<1>1. Init => ShownInv
  BY TypeInit, ShownInit DEF ShownInv
<1>2. ShownInv /\ [Next]_vars => ShownInv'
  BY TypeStep, ShownStep DEF ShownInv
<1>3. ShownInv => SubmitsWhatWasShown
  BY DEF ShownInv
<1>4. QED
  BY <1>1, <1>2, <1>3, PTL DEF Spec

-----------------------------------------------------------------------------
(* What leaves the BFF is signed by its account. *)

SignedInv == TypeOK /\ Signed

LEMMA SignedStep == SignedInv /\ [Next]_vars => Signed'
<1> SUFFICES ASSUME SignedInv, [Next]_vars PROVE Signed'
  OBVIOUS
<1>0. TypeOK /\ Signed
  BY DEF SignedInv
<1>1. CASE UNCHANGED bffVars
  BY <1>0, <1>1 DEF Signed, SignedByItsAccount, bffVars
<1>2. CASE /\ posts' = posts /\ orders' = orders
           /\ \A h \in handlers' : h \in handlers \/ h.stage = "received"
  BY <1>0, <1>2 DEF Signed, SignedByItsAccount
<1>3. CASE UNCHANGED vars \/ FormStep \/ PreviewStep \/ WalletStep
  BY <1>1, <1>3
  DEF vars, FormStep, EditFields, EditVenue, ClickPreview, ClickSubmit, PreviewStep,
      PreviewArrives, PreviewFails, WalletStep, WalletSwitches, SessionChanges, SlotRenders
<1>4. CASE SigningStep
  <2>1. CASE \E signer \in Accounts : WalletSigns(signer)
    BY <1>2, <2>1 DEF WalletSigns
  <2>2. QED
    BY <1>1, <1>4, <2>1
    DEF SigningStep, AccountMatches, ChainSettled, ChainMissing, ChainAdded, WalletMoves,
        WalletFails, WalletSubmits
<1>5. CASE AnswerStep
  BY <1>2, <1>5 DEF AnswerStep, FormHearsBff, FormHears, FormHearsNothing, bffVars
<1>6. ASSUME NEW h \in handlers, BffPosts(h) PROVE Signed'
  <2>1. PICK k : GoesOn(h, k, "primary", "none")
    BY <1>0, <1>6, BecomesIs DEF BffPosts
  <2>2. posts' = posts \cup {Post(h, 1)} /\ orders' = orders /\ h.signer = h.payload.account
    BY <1>6 DEF BffPosts, SignerMatches
  <2>3. QED
    BY <1>0, <2>1, <2>2 DEF Signed, SignedByItsAccount, GoesOn, Post
<1>7. ASSUME NEW h \in handlers, BffRejects(h) PROVE Signed'
  <2>1. PICK k : GoesOn(h, k, "answered", "error")
    BY <1>0, <1>7, BecomesIs DEF BffRejects
  <2>2. QED
    BY <1>0, <1>7, <2>1 DEF BffRejects, Signed, SignedByItsAccount, GoesOn
<1>8. ASSUME NEW h \in handlers, NEW p \in posts, BffHears(h, p) PROVE Signed'
  <2>1. h.signer = h.payload.account /\ orders' = orders
    BY <1>0, <1>8 DEF BffHears, Signed
  <2>2. \A q \in posts' : q \in posts \/ q = Post(h, 2)
    BY <1>8 DEF BffHears
  <2>3. \E stage, answer : Becomes(h, stage, answer)
    BY <1>8 DEF BffHears
  <2>4. PICK k, stage, answer : GoesOn(h, k, stage, answer)
    BY <1>0, <2>3, BecomesIs
  <2>5. QED
    BY <1>0, <2>1, <2>2, <2>4 DEF Signed, SignedByItsAccount, GoesOn, Post
<1>9. ASSUME NEW h \in handlers, BffHearsNothing(h) PROVE Signed'
  <2>1. \A q \in posts' : q \in posts
    BY <1>9 DEF BffHearsNothing, StageAfterSilence
  <2>2. \E answer : Becomes(h, "answered", answer)
    BY <1>9 DEF BffHearsNothing, StageAfterSilence
  <2>3. PICK k, answer : GoesOn(h, k, "answered", answer)
    BY <1>0, <2>2, BecomesIs
  <2>4. QED
    BY <1>0, <1>9, <2>1, <2>3 DEF BffHearsNothing, Signed, SignedByItsAccount, GoesOn
<1>10. ASSUME NEW h \in handlers, BffAnswersNobody(h) PROVE Signed'
  BY <1>2, <1>10 DEF BffAnswersNobody
<1>11. ASSUME NEW p \in posts, VenueTakes(p) PROVE Signed'
  <2>1. PICK q : Replied(p, q)
    BY <1>0, <1>11, TakenIs
  <2>2. QED
    BY <1>0, <1>11, <2>1 DEF VenueTakes, Signed, SignedByItsAccount, Replied
<1>12. ASSUME NEW p \in posts, VenueRefuses(p) PROVE Signed'
  <2>1. PICK q : Replied(p, q)
    BY <1>0, <1>12, RefusedIs
  <2>2. QED
    BY <1>0, <1>12, <2>1 DEF VenueRefuses, Signed, SignedByItsAccount, Replied
<1>13. QED
  BY <1>3, <1>4, <1>5, <1>6, <1>7, <1>8, <1>9, <1>10, <1>11, <1>12
  DEF Next, BffStep, VenueStep

\* No order is taken without the signature of the account it was built for.
THEOREM OrdersAreSigned == Spec => []SignedByItsAccount
<1>1. Init => SignedInv
  BY TypeInit DEF Init, SignedInv, Signed, SignedByItsAccount
<1>2. SignedInv /\ [Next]_vars => SignedInv'
  BY TypeStep, SignedStep DEF SignedInv
<1>3. SignedInv => SignedByItsAccount
  BY DEF SignedInv, Signed
<1>4. QED
  BY <1>1, <1>2, <1>3, PTL DEF Spec

-----------------------------------------------------------------------------
(* One order per submission. *)

LEMMA Sendings ==
  ASSUME TypeOK
  PROVE  /\ \A x \in handlers \cup posts \cup orders : x.no \in 1 .. MaxSubmissions
         /\ submissions \in Nat
         /\ flow.stage \in InFlight => flow.no \in 1 .. MaxSubmissions
<1>1. flow.stage \in InFlight => flow.no \in 1 .. MaxSubmissions
  BY SubmissionOf DEF Submission
<1>2. QED
  BY <1>1, BoundsAssumption DEF TypeOK

\* A step that makes no handler, post or order, and keeps the flow's number.
LEMMA OneQuiet ==
  ASSUME OneInv, handlers' \subseteq handlers, posts' \subseteq posts, orders' = orders,
         submissions' = submissions,
         flow'.stage \in InFlight => flow'.no = flow.no /\ flow.stage \in InFlight,
         flow'.stage \in WalletStages => flow.stage \in WalletStages
  PROVE  OneInv'
<1>1. Numbered'
  BY DEF OneInv, Numbered
<1>2. Fresh'
  BY DEF OneInv, Fresh, Unsent, InFlight
<1>3. OneHandler' /\ OnePost' /\ Received' /\ Refused' /\ OneOrderPerSubmission'
  BY DEF OneInv, OneHandler, OnePost, Received, Refused, OneOrderPerSubmission
<1>4. QED
  BY <1>1, <1>2, <1>3 DEF OneInv

\* A handler goes on, without a post of its own being made or taken.
LEMMA OneGoesOn ==
  ASSUME OneInv, NEW h \in handlers, NEW k, NEW stage, NEW answer,
         GoesOn(h, k, stage, answer), stage # "received",
         posts' \subseteq posts, orders' = orders, submissions' = submissions, flow' = flow
  PROVE  OneInv'
<1>1. Numbered'
  BY DEF OneInv, Numbered, GoesOn
<1>2. Fresh'
  BY DEF OneInv, Fresh, Unsent, GoesOn
<1>3. OneHandler'
  BY DEF OneInv, OneHandler, GoesOn
<1>4. Received'
  BY DEF OneInv, Received, GoesOn
<1>5. OnePost' /\ Refused' /\ OneOrderPerSubmission'
  BY DEF OneInv, OnePost, Refused, OneOrderPerSubmission
<1>6. QED
  BY <1>1, <1>2, <1>3, <1>4, <1>5 DEF OneInv

\* A handler goes on with a new post, the only one of its submission, which has
\* no order yet.
LEMMA OnePosts ==
  ASSUME OneInv, NEW h \in handlers, NEW k, NEW stage, NEW answer,
         GoesOn(h, k, stage, answer), stage # "received",
         NEW p, p.no = h.no, p.reply = "none",
         NEW kept \in SUBSET posts, posts' = kept \cup {p},
         \A q \in kept : q.no # h.no,
         \A o \in orders : o.no # h.no,
         orders' = orders, submissions' = submissions, flow' = flow
  PROVE  OneInv'
<1>1. Numbered'
  BY DEF OneInv, Numbered, GoesOn
<1>2. Fresh'
  BY DEF OneInv, Fresh, Unsent, GoesOn
<1>3. OneHandler'
  BY DEF OneInv, OneHandler, GoesOn
<1>4. Received'
  BY DEF OneInv, Received, OneHandler, GoesOn
<1>5. OnePost' /\ Refused' /\ OneOrderPerSubmission'
  BY DEF OneInv, OnePost, Refused, OneOrderPerSubmission
<1>6. QED
  BY <1>1, <1>2, <1>3, <1>4, <1>5 DEF OneInv

LEMMA OneSigning == ASSUME TypeOK, OneInv, SigningStep PROVE OneInv'
<1>1. ASSUME NEW stage \in WalletStages, flow.stage \in WalletStages, WalletMoves(stage)
      PROVE  OneInv'
  <2>1. flow'.no = flow.no
    BY <1>1, MovedFlow DEF WalletMoves, InFlight
  <2>2. QED
    BY <1>1, <2>1, OneQuiet DEF WalletMoves, InFlight, bffVars, userVars
<1>2. CASE AccountMatches \/ ChainSettled \/ ChainMissing \/ ChainAdded
  BY <1>1, <1>2 DEF AccountMatches, ChainSettled, ChainMissing, ChainAdded, WalletStages
<1>3. CASE WalletFails \/ WalletSubmits
  BY <1>3, OneQuiet
  DEF WalletFails, WalletSubmits, EndsWith, Idle, InFlight, WalletStages, bffVars
<1>4. ASSUME NEW signer \in Accounts, WalletSigns(signer) PROVE OneInv'
  <2> DEFINE h == [no |-> flow.no, payload |-> flow.payload, signer |-> signer,
                   stage |-> "received", answer |-> "none"]
  <2>1. h.no = flow.no /\ h.stage = "received"
    OBVIOUS
  <2>2. handlers' = handlers \cup {h}
    BY <1>4 DEF WalletSigns
  <2> HIDE DEF h
  <2>3. flow.stage \in WalletStages /\ flow.stage \in InFlight
    BY <1>4 DEF WalletSigns, WalletStages, InFlight
  <2>4. flow'.stage = "posted" /\ flow'.no = flow.no
    BY <1>4, <2>3, MovedFlow DEF WalletSigns, InFlight
  <2>5. Unsent(flow.no) /\ flow.no <= submissions
    BY <2>3 DEF OneInv, Fresh, Numbered
  <2>6. posts' = posts /\ orders' = orders /\ submissions' = submissions
    BY <1>4 DEF WalletSigns, userVars
  <2>7. Numbered'
    BY <2>1, <2>2, <2>4, <2>5, <2>6 DEF OneInv, Numbered
  <2>8. Fresh'
    BY <2>4 DEF Fresh, WalletStages
  <2>9. OneHandler' /\ Received'
    BY <2>1, <2>2, <2>5, <2>6 DEF OneInv, OneHandler, Received, Unsent
  <2>10. OnePost' /\ Refused' /\ OneOrderPerSubmission'
    BY <2>6 DEF OneInv, OnePost, Refused, OneOrderPerSubmission
  <2>11. QED
    BY <2>7, <2>8, <2>9, <2>10 DEF OneInv
<1>5. QED
  BY <1>2, <1>3, <1>4 DEF SigningStep

LEMMA OneClick == ASSUME TypeOK, OneInv, ClickSubmit PROVE OneInv'
<1>1. submissions' = submissions + 1 /\ UNCHANGED bffVars
  BY DEF ClickSubmit
<1>2. flow'.stage \in InFlight => flow'.no = submissions + 1
  BY DEF ClickSubmit, EndsWith, Idle, InFlight, WalletStages
<1>3. Numbered'
  BY <1>1, <1>2, Sendings DEF OneInv, Numbered, bffVars
<1>4. Unsent(submissions + 1)
  BY Sendings DEF OneInv, Numbered, Unsent
<1>5. Fresh'
  BY <1>1, <1>2, <1>4 DEF Fresh, Unsent, InFlight, bffVars
<1>6. OneHandler' /\ OnePost' /\ Received' /\ Refused' /\ OneOrderPerSubmission'
  BY <1>1 DEF OneInv, OneHandler, OnePost, Received, Refused, OneOrderPerSubmission, bffVars
<1>7. QED
  BY <1>3, <1>5, <1>6 DEF OneInv

LEMMA OneBff == ASSUME TypeOK, OneInv, BffStep PROVE OneInv'
<1>1. ASSUME NEW h \in handlers, BffPosts(h) PROVE OneInv'
  <2>1. PICK k : GoesOn(h, k, "primary", "none")
    BY <1>1, BecomesIs DEF BffPosts
  <2>2. Post(h, 1).no = h.no /\ Post(h, 1).reply = "none"
    BY DEF Post
  <2>3. /\ \A q \in posts : q.no # h.no
        /\ \A o \in orders : o.no # h.no
    BY <1>1 DEF BffPosts, OneInv, Received
  <2>4. QED
    BY <1>1, <2>1, <2>2, <2>3, OnePosts DEF BffPosts, bffOuter
<1>2. ASSUME NEW h \in handlers, BffRejects(h) PROVE OneInv'
  <2>1. PICK k : GoesOn(h, k, "answered", "error")
    BY <1>2, BecomesIs DEF BffRejects
  <2>2. QED
    BY <1>2, <2>1, OneGoesOn DEF BffRejects, bffOuter
<1>3. ASSUME NEW h \in handlers, NEW p \in posts, BffHears(h, p) PROVE OneInv'
  <2>0. p.no = h.no /\ orders' = orders /\ submissions' = submissions /\ flow' = flow
    BY <1>3 DEF BffHears, bffOuter
  <2>1. ASSUME NEW status, NormalizeSubmissionStatus(p.reply) # "submitted",
               Becomes(h, "alternate", status), posts' = (posts \ {p}) \cup {Post(h, 2)}
        PROVE  OneInv'
    <3>1. PICK k : GoesOn(h, k, "alternate", status)
      BY <2>1, BecomesIs
    <3>2. Post(h, 2).no = h.no /\ Post(h, 2).reply = "none"
      BY DEF Post
    <3>3. p.reply \notin Successes
      BY <2>1 DEF NormalizeSubmissionStatus, Successes
    <3>4. /\ \A q \in posts \ {p} : q.no # h.no
          /\ \A o \in orders : o.no # h.no
      BY <2>0, <3>3 DEF OneInv, OnePost, Refused
    <3>5. QED
      BY <2>0, <2>1, <3>1, <3>2, <3>4, OnePosts
  <2>2. ASSUME NEW answer, Becomes(h, "answered", answer), posts' = posts \ {p}
        PROVE  OneInv'
    <3>1. PICK k : GoesOn(h, k, "answered", answer)
      BY <2>2, BecomesIs
    <3>2. QED
      BY <2>0, <2>2, <3>1, OneGoesOn
  <2>3. QED
    BY <1>3, <2>1, <2>2 DEF BffHears
<1>4. ASSUME NEW h \in handlers, BffHearsNothing(h) PROVE OneInv'
  <2>1. \E answer : Becomes(h, "answered", answer)
    BY <1>4 DEF BffHearsNothing, StageAfterSilence
  <2>2. PICK k, answer : GoesOn(h, k, "answered", answer)
    BY <2>1, BecomesIs
  <2>3. posts' \subseteq posts
    BY <1>4 DEF BffHearsNothing, StageAfterSilence
  <2>4. QED
    BY <1>4, <2>2, <2>3, OneGoesOn DEF BffHearsNothing, bffOuter
<1>5. ASSUME NEW h \in handlers, BffAnswersNobody(h) PROVE OneInv'
  BY <1>5, OneQuiet DEF BffAnswersNobody, bffOuter
<1>6. QED
  BY <1>1, <1>2, <1>3, <1>4, <1>5 DEF BffStep

LEMMA OneVenue == ASSUME TypeOK, OneInv, VenueStep PROVE OneInv'
<1>1. ASSUME NEW p \in posts, NEW q, Replied(p, q), p.reply = "none",
             UNCHANGED <<handlers, submissions, flow>>,
             NEW new, orders' = orders \cup new,
             \A o \in new : q.reply \in Successes /\ o.no = p.no /\ o.attempt = p.attempt,
             \A o, r \in new : o = r
      PROVE  OneInv'
  <2>1. /\ orders' = orders \cup new
        /\ \A o \in new : q.reply \in Successes /\ o.no = p.no /\ o.attempt = p.attempt
        /\ \A o, r \in new : o = r
    BY <1>1
  <2>2. \A o \in orders : o.no # p.no
    BY <1>1 DEF OneInv, Refused, Successes
  <2>3. Numbered'
    BY <1>1, <2>1 DEF OneInv, Numbered, Replied
  <2>4. Fresh'
    BY <1>1, <2>1 DEF OneInv, Fresh, Unsent, Replied
  <2>5. OneHandler'
    BY <1>1 DEF OneInv, OneHandler
  <2>6. OnePost'
    BY <1>1 DEF OneInv, OnePost, Replied
  <2>7. Received'
    BY <1>1, <2>1 DEF OneInv, Received, Replied
  <2>8. Refused'
    BY <1>1, <2>1, <2>2 DEF OneInv, Refused, OnePost, Replied
  <2>9. (\A o, r \in orders : o.no = r.no => o = r)'
    BY <2>1, <2>2 DEF OneInv, OneOrderPerSubmission
  <2>10. (\A o \in orders, r \in posts : o.no = r.no => o.attempt = r.attempt)'
    BY <1>1, <2>1, <2>2 DEF OneInv, OneOrderPerSubmission, OnePost, Replied
  <2>11. QED
    BY <2>3, <2>4, <2>5, <2>6, <2>7, <2>8, <2>9, <2>10 DEF OneInv, OneOrderPerSubmission
<1>2. ASSUME NEW p \in posts, VenueTakes(p) PROVE OneInv'
  <2>1. PICK q : Replied(p, q) /\ q.reply \in Successes
    BY <1>2, TakenIs
  <2> DEFINE o == [no |-> p.no, attempt |-> p.attempt, payload |-> p.payload,
                   signer |-> p.signer]
             new == {o}
  <2>2. /\ \A r \in new : q.reply \in Successes /\ r.no = p.no /\ r.attempt = p.attempt
        /\ \A r, t \in new : r = t
    BY <2>1
  <2>3. orders' = orders \cup new
    BY <1>2 DEF VenueTakes
  <2>4. p.reply = "none" /\ UNCHANGED <<handlers, submissions, flow>>
    BY <1>2 DEF VenueTakes, bffOuter
  <2> HIDE DEF new
  <2>5. QED
    BY <1>1, <2>1, <2>2, <2>3, <2>4, Zenon
<1>3. ASSUME NEW p \in posts, VenueRefuses(p) PROVE OneInv'
  <2>1. PICK q : Replied(p, q)
    BY <1>3, RefusedIs
  <2> DEFINE new == {}
  <2>2. p.reply = "none" /\ UNCHANGED <<handlers, submissions, flow>> /\ orders' = orders \cup new
    BY <1>3 DEF VenueRefuses, bffOuter
  <2>3. /\ \A r \in new : q.reply \in Successes /\ r.no = p.no /\ r.attempt = p.attempt
        /\ \A r, t \in new : r = t
    OBVIOUS
  <2> HIDE DEF new
  <2>4. QED
    BY <1>1, <2>1, <2>2, <2>3, Zenon
<1>4. QED
  BY <1>2, <1>3 DEF VenueStep

LEMMA OneInit == Init => OneInv
  BY DEF Init, OneInv, Numbered, Fresh, OneHandler, OnePost, Received, Refused,
         OneOrderPerSubmission, Idle, InFlight, WalletStages

LEMMA OneStep == TypeOK /\ OneInv /\ [Next]_vars => OneInv'
<1> SUFFICES ASSUME TypeOK, OneInv, [Next]_vars PROVE OneInv'
  OBVIOUS
<1>1. CASE UNCHANGED vars
  BY <1>1, OneQuiet DEF vars, bffVars, userVars
<1>2. CASE FormStep
  <2>1. CASE ClickPreview
    BY <2>1, OneQuiet DEF ClickPreview, InFlight, WalletStages, bffVars, userVars
  <2>2. QED
    BY <1>2, <2>1, OneClick, OneQuiet DEF FormStep, EditFields, EditVenue, bffVars, userVars
<1>3. CASE PreviewStep
  BY <1>3, OneQuiet
  DEF PreviewStep, PreviewArrives, PreviewFails, FormAfterFailure, Idle, InFlight, WalletStages,
      bffVars, userVars
<1>4. CASE AnswerStep
  <2>1. handlers' \subseteq handlers /\ UNCHANGED <<posts, orders, submissions>>
    BY <1>4 DEF AnswerStep, FormHearsBff, FormHears, FormHearsNothing, bffVars
  <2>2. flow' = Idle
    BY <1>4 DEF AnswerStep, FormHearsBff, FormHears, FormHearsNothing, EndsWith
  <2>3. QED
    BY <2>1, <2>2, OneQuiet DEF Idle, InFlight, WalletStages
<1>5. CASE WalletStep
  BY <1>5, OneQuiet
  DEF WalletStep, WalletSwitches, SessionChanges, SlotRenders, bffVars, userVars
<1>6. QED
  BY <1>1, <1>2, <1>3, <1>4, <1>5, OneSigning, OneBff, OneVenue DEF Next

LEMMA OneCorrect == Spec => [](TypeOK /\ OneInv)
<1>1. Init => TypeOK /\ OneInv
  BY TypeInit, OneInit
<1>2. TypeOK /\ OneInv /\ [Next]_vars => (TypeOK /\ OneInv)'
  BY TypeStep, OneStep
<1>3. QED
  BY <1>1, <1>2, PTL DEF Spec

\* One click makes at most one order, although a refused action is posted again
\* and the venue may handle a post the BFF has given up.
THEOREM ClicksMakeOneOrder == Spec => []OneOrderPerSubmission
<1>1. TypeOK /\ OneInv => OneOrderPerSubmission
  BY DEF OneInv
<1>2. QED
  BY <1>1, OneCorrect, PTL

-----------------------------------------------------------------------------
(* What the form reports. *)

LEMMA EndsIs ==
  ASSUME TypeOK, NEW n \in 1 .. MaxSubmissions, NEW verdict, EndsWith(n, verdict)
  PROVE  /\ flow' = Idle
         /\ told'[n] = verdict
         /\ \A m \in 1 .. MaxSubmissions : m # n => told'[m] = told[m]
  BY DEF TypeOK, EndsWith

TakenInv == Taken /\ Answered /\ SubmittedIsTaken

\* Answers and verdicts that bring no new success leave the invariant as it is.
LEMMA TakenQuiet ==
  ASSUME TakenInv, orders \subseteq orders', unstated \subseteq unstated',
         \A p \in posts' : p \in posts \/ p.reply # "ok" \/ \E o \in orders' : o.no = p.no,
         \A h \in handlers' : \/ h \in handlers
                              \/ h.answer # "submitted"
                              \/ (\E o \in orders' : o.no = h.no) \/ h.no \in unstated',
         \A n \in 1 .. MaxSubmissions : \/ told'[n] = told[n]
                                        \/ told'[n] # "submitted"
                                        \/ \E o \in orders' : o.no = n
                                        \/ n \in unstated'
  PROVE  TakenInv'
<1>1. Taken'
  BY DEF TakenInv, Taken
<1>2. Answered'
  BY DEF TakenInv, Answered, Backed
<1>3. SubmittedIsTaken'
  BY DEF TakenInv, SubmittedIsTaken
<1>4. QED
  BY <1>1, <1>2, <1>3 DEF TakenInv

LEMMA TakenEnds ==
  ASSUME TypeOK, TakenInv, NEW n \in 1 .. MaxSubmissions, NEW verdict, EndsWith(n, verdict),
         handlers' \subseteq handlers, UNCHANGED <<posts, orders, unstated>>,
         verdict = "submitted" => Backed(n)
  PROVE  TakenInv'
  BY TakenQuiet, EndsIs DEF Backed

LEMMA TakenBff == ASSUME TypeOK, TakenInv, BffStep PROVE TakenInv'
<1>0. orders' = orders /\ told' = told /\ unstated \subseteq unstated'
  BY DEF BffStep, BffPosts, BffRejects, BffHears, BffHearsNothing, BffAnswersNobody, bffOuter
<1>1. ASSUME NEW h \in handlers, NEW stage, NEW answer, Becomes(h, stage, answer),
             answer = "submitted" => Backed(h.no) \/ h.no \in unstated',
             \A p \in posts' : p \in posts \/ p.reply = "none"
      PROVE  TakenInv'
  <2>1. PICK k : GoesOn(h, k, stage, answer)
    BY <1>1, BecomesIs
  <2>2. QED
    BY <1>0, <1>1, <2>1, TakenQuiet DEF GoesOn, Backed
<1>2. ASSUME NEW h \in handlers, BffPosts(h) PROVE TakenInv'
  BY <1>1, <1>2 DEF BffPosts, Post
<1>3. ASSUME NEW h \in handlers, BffRejects(h) PROVE TakenInv'
  BY <1>1, <1>3 DEF BffRejects
<1>4. ASSUME NEW h \in handlers, NEW p \in posts, BffHears(h, p) PROVE TakenInv'
  <2> DEFINE status == NormalizeSubmissionStatus(p.reply)
  <2>1. status = "submitted" => Backed(h.no) \/ h.no \in unstated'
    <3>1. p.reply \in {"ok", "blank", "orderError", "err"} /\ p.no = h.no
      BY <1>4 DEF TypeOK, BffHears
    <3>2. CASE p.reply = "ok"
      BY <3>1, <3>2 DEF TakenInv, Taken, Backed
    <3>3. CASE p.reply = "blank"
      BY <1>4, <3>3 DEF BffHears
    <3>4. CASE p.reply \in {"orderError", "err"}
      BY <3>4 DEF NormalizeSubmissionStatus
    <3>5. QED
      BY <3>1, <3>2, <3>3, <3>4
  <2>2. CombinedAnswer(h.answer, status) = "submitted" => Backed(h.no) \/ h.no \in unstated'
    BY <2>1 DEF CombinedAnswer, TakenInv, Answered
  <2>3. \A q \in posts' : q \in posts \/ q.reply = "none"
    BY <1>4 DEF BffHears, Post
  <2>4. \E stage, answer : /\ Becomes(h, stage, answer)
                           /\ answer = status \/ answer = CombinedAnswer(h.answer, status)
    BY <1>4 DEF BffHears
  <2> HIDE DEF status
  <2>5. QED
    BY <1>1, <2>1, <2>2, <2>3, <2>4
<1>5. ASSUME NEW h \in handlers, BffHearsNothing(h) PROVE TakenInv'
  <2>1. \E answer : /\ Becomes(h, "answered", answer)
                    /\ answer = "error" \/ answer = h.answer
    BY <1>5 DEF BffHearsNothing, StageAfterSilence
  <2>2. PICK answer : /\ Becomes(h, "answered", answer)
                      /\ answer = "error" \/ answer = h.answer
    BY <2>1
  <2>3. \A p \in posts' : p \in posts
    BY <1>5 DEF BffHearsNothing, StageAfterSilence
  <2>4. answer = "submitted" => Backed(h.no)
    BY <2>2 DEF TakenInv, Answered
  <2>5. QED
    BY <1>1, <2>2, <2>3, <2>4
<1>6. ASSUME NEW h \in handlers, BffAnswersNobody(h) PROVE TakenInv'
  BY <1>0, <1>6, TakenQuiet DEF BffAnswersNobody
<1>7. QED
  BY <1>2, <1>3, <1>4, <1>5, <1>6 DEF BffStep

LEMMA TakenVenue == ASSUME TypeOK, TakenInv, VenueStep PROVE TakenInv'
<1>0. UNCHANGED <<handlers, told, unstated>>
  BY DEF VenueStep, VenueTakes, VenueRefuses, bffOuter
<1>1. ASSUME NEW p \in posts, VenueTakes(p) PROVE TakenInv'
  <2>1. PICK q : Replied(p, q)
    BY <1>1, TakenIs
  <2>2. orders \subseteq orders' /\ \E o \in orders' : o.no = p.no
    BY <1>1, NewOrder
  <2>3. QED
    BY <1>0, <2>1, <2>2, TakenQuiet DEF Replied
<1>2. ASSUME NEW p \in posts, VenueRefuses(p) PROVE TakenInv'
  <2>1. PICK q : Replied(p, q) /\ q.reply \in {"orderError", "err", "blank"}
    BY <1>2, RefusedIs
  <2>2. orders' = orders
    BY <1>2 DEF VenueRefuses
  <2>3. QED
    BY <1>0, <2>1, <2>2, TakenQuiet DEF Replied
<1>3. QED
  BY <1>1, <1>2 DEF VenueStep

LEMMA TakenSigning == ASSUME TypeOK, TakenInv, SigningStep PROVE TakenInv'
<1>1. CASE AccountMatches \/ ChainSettled \/ ChainMissing \/ ChainAdded
  BY <1>1, TakenQuiet
  DEF AccountMatches, ChainSettled, ChainMissing, ChainAdded, WalletMoves, bffVars, userVars
<1>2. CASE WalletFails \/ WalletSubmits
  <2>1. flow.no \in 1 .. MaxSubmissions
    BY <1>2, Sendings DEF WalletFails, WalletSubmits, InFlight, WalletStages
  <2>2. QED
    BY <1>2, <2>1, TakenEnds DEF WalletFails, WalletSubmits, bffVars
<1>3. ASSUME NEW signer \in Accounts, WalletSigns(signer) PROVE TakenInv'
  BY <1>3, TakenQuiet DEF WalletSigns, userVars
<1>4. QED
  BY <1>1, <1>2, <1>3 DEF SigningStep

LEMMA TakenAnswer == ASSUME TypeOK, TakenInv, AnswerStep PROVE TakenInv'
<1>1. ASSUME NEW h \in handlers, FormHears(h) PROVE TakenInv'
  <2>1. h.no \in 1 .. MaxSubmissions
    BY DEF TypeOK
  <2> DEFINE verdict == IF h.answer = "submitted" THEN "submitted" ELSE "failed"
  <2>2. verdict = "submitted" => Backed(h.no)
    BY DEF TakenInv, Answered
  <2>3. EndsWith(h.no, verdict)
    BY <1>1 DEF FormHears
  <2> HIDE DEF verdict
  <2>4. QED
    BY <1>1, <2>1, <2>2, <2>3, TakenEnds DEF FormHears
<1>2. CASE FormHearsNothing
  <2>1. flow.no \in 1 .. MaxSubmissions
    BY <1>2, Sendings DEF FormHearsNothing, InFlight
  <2>2. QED
    BY <1>2, <2>1, TakenEnds DEF FormHearsNothing, bffVars
<1>3. QED
  BY <1>1, <1>2 DEF AnswerStep, FormHearsBff

LEMMA TakenStep == TypeOK /\ TakenInv /\ [Next]_vars => TakenInv'
<1> SUFFICES ASSUME TypeOK, TakenInv, [Next]_vars PROVE TakenInv'
  OBVIOUS
<1>1. CASE UNCHANGED vars \/ PreviewStep \/ WalletStep
  BY <1>1, TakenQuiet
  DEF vars, PreviewStep, PreviewArrives, PreviewFails, WalletStep, WalletSwitches,
      SessionChanges, SlotRenders, bffVars, userVars
<1>2. CASE FormStep
  <2>1. CASE ClickSubmit
    <3>1. submissions + 1 \in 1 .. MaxSubmissions
      BY <2>1, BoundsAssumption DEF TypeOK, ClickSubmit
    <3>2. CASE told' = told
      BY <2>1, <3>2, TakenQuiet DEF ClickSubmit, bffVars
    <3>3. CASE EndsWith(submissions + 1, "failed")
      BY <2>1, <3>1, <3>3, TakenEnds DEF ClickSubmit, bffVars
    <3>4. QED
      BY <2>1, <3>2, <3>3 DEF ClickSubmit
  <2>2. QED
    BY <1>2, <2>1, TakenQuiet DEF FormStep, EditFields, EditVenue, ClickPreview, bffVars, userVars
<1>3. QED
  BY <1>1, <1>2, TakenSigning, TakenAnswer, TakenBff, TakenVenue DEF Next

LEMMA TakenInit == Init => TakenInv
  BY DEF Init, TakenInv, Taken, Answered, SubmittedIsTaken

\* Only an order the venue has taken is reported submitted, or one of which the
\* BFF heard an answer that states nothing.
THEOREM ReportsAreTrue == Spec => []SubmittedIsTaken
<1>1. Init => TypeOK /\ TakenInv
  BY TypeInit, TakenInit
<1>2. TypeOK /\ TakenInv /\ [Next]_vars => (TypeOK /\ TakenInv)'
  BY TypeStep, TakenStep
<1>3. TypeOK /\ TakenInv => SubmittedIsTaken
  BY DEF TakenInv
<1>4. QED
  BY <1>1, <1>2, <1>3, PTL DEF Spec

-----------------------------------------------------------------------------
(* A failure all of whose answers were heard has made no order. *)

HeardInv == Waiting /\ Heard /\ Settled /\ FailedMadeNoOrder

\* The handlers, posts and orders under way do not grow, and no verdict is given.
LEMMA HeardQuiet ==
  ASSUME TypeOK, HeardInv, handlers' \subseteq handlers, posts' \subseteq posts,
         orders' = orders, told' = told, uncertain' = uncertain,
         submissions' \in {submissions, submissions + 1},
         flow'.stage \in InFlight => told[flow'.no] = "nothing"
  PROVE  HeardInv'
<1>1. Waiting'
  BY Sendings DEF HeardInv, Waiting
<1>2. Heard'
  BY DEF HeardInv, Heard
<1>3. Settled'
  BY DEF HeardInv, Settled
<1>4. FailedMadeNoOrder'
  BY DEF HeardInv, FailedMadeNoOrder
<1>5. QED
  BY <1>1, <1>2, <1>3, <1>4 DEF HeardInv

\* A flow ends whose submission has nothing under way, or an answer not heard.
LEMMA HeardEnds ==
  ASSUME TypeOK, HeardInv, NEW n \in 1 .. MaxSubmissions, NEW verdict, EndsWith(n, verdict),
         UNCHANGED <<posts, orders>>, handlers' \subseteq handlers,
         submissions' \in {submissions, submissions + 1}, n <= submissions',
         uncertain \subseteq uncertain',
         n \notin uncertain' =>
           /\ \A h \in handlers' : h.no # n
           /\ \A p \in posts : p.no # n
           /\ verdict = "failed" => \A o \in orders : o.no # n
  PROVE  HeardInv'
<1>0. /\ flow' = Idle /\ told'[n] = verdict
      /\ \A m \in 1 .. MaxSubmissions : m # n => told'[m] = told[m]
  BY EndsIs
<1>1. Waiting'
  <2>1. flow'.stage \notin InFlight
    BY <1>0 DEF Idle, InFlight, WalletStages
  <2>2. ASSUME NEW m \in 1 .. MaxSubmissions, m > submissions' PROVE told'[m] = "nothing"
    <3>1. m # n /\ m > submissions
      BY <2>2, Sendings
    <3>2. QED
      BY <1>0, <3>1 DEF HeardInv, Waiting
  <2>3. QED
    BY <2>1, <2>2 DEF Waiting
<1>2. Heard'
  BY DEF HeardInv, Heard
<1>3. Settled'
  BY <1>0 DEF HeardInv, Settled
<1>4. FailedMadeNoOrder'
  BY <1>0 DEF HeardInv, FailedMadeNoOrder
<1>5. QED
  BY <1>1, <1>2, <1>3, <1>4 DEF HeardInv

\* A handler goes on.  When it has its answer and heard every post, nothing of
\* its submission is under way.
LEMMA HeardGoesOn ==
  ASSUME TypeOK, OneInv, HeardInv, NEW h \in handlers, NEW k, NEW stage, NEW answer,
         GoesOn(h, k, stage, answer),
         \A p \in posts' : p \in posts \/ p.no = h.no,
         UNCHANGED <<orders, told, flow, submissions>>, uncertain \subseteq uncertain',
         stage = "answered" /\ h.no \notin uncertain' =>
           /\ \A p \in posts' : p.no # h.no
           /\ answer # "submitted" => \A o \in orders : o.no # h.no
  PROVE  HeardInv'
<1>1. Waiting'
  BY DEF HeardInv, Waiting
<1>2. Heard'
  <2> SUFFICES ASSUME NEW g \in handlers', g.stage = "answered", g.no \notin uncertain'
               PROVE  /\ \A p \in posts' : p.no # g.no
                      /\ g.answer # "submitted" => \A o \in orders : o.no # g.no
    BY DEF Heard
  <2>1. CASE g = k
    BY <2>1 DEF GoesOn
  <2>2. CASE g # k
    <3>1. g \in handlers /\ g # h /\ g.no # h.no
      BY <2>2 DEF GoesOn, OneInv, OneHandler
    <3>2. QED
      BY <3>1 DEF HeardInv, Heard
  <2>3. QED
    BY <2>1, <2>2
<1>3. Settled'
  BY DEF HeardInv, Settled, GoesOn
<1>4. FailedMadeNoOrder'
  BY DEF HeardInv, Settled, FailedMadeNoOrder
<1>5. QED
  BY <1>1, <1>2, <1>3, <1>4 DEF HeardInv

LEMMA HeardBff == ASSUME TypeOK, OneInv, HeardInv, BffStep PROVE HeardInv'
<1>0. UNCHANGED <<orders, told, flow, submissions>>
  BY DEF BffStep, BffPosts, BffRejects, BffHears, BffHearsNothing, BffAnswersNobody, bffOuter
<1>1. ASSUME NEW h \in handlers, BffPosts(h) PROVE HeardInv'
  <2>1. PICK k : GoesOn(h, k, "primary", "none")
    BY <1>1, BecomesIs DEF BffPosts
  <2>2. \A p \in posts' : p \in posts \/ p.no = h.no
    BY <1>1 DEF BffPosts, Post
  <2>3. QED
    BY <1>0, <1>1, <2>1, <2>2, HeardGoesOn DEF BffPosts
<1>2. ASSUME NEW h \in handlers, BffRejects(h) PROVE HeardInv'
  <2>1. PICK k : GoesOn(h, k, "answered", "error")
    BY <1>2, BecomesIs DEF BffRejects
  <2>2. /\ \A p \in posts' : p \in posts /\ p.no # h.no
        /\ \A o \in orders : o.no # h.no
    BY <1>2 DEF BffRejects, OneInv, Received
  <2>3. QED
    BY <1>0, <1>2, <2>1, <2>2, HeardGoesOn DEF BffRejects
<1>3. ASSUME NEW h \in handlers, NEW p \in posts, BffHears(h, p) PROVE HeardInv'
  <2> DEFINE status == NormalizeSubmissionStatus(p.reply)
  <2>0. p.no = h.no /\ uncertain' = uncertain
    BY <1>3 DEF BffHears
  <2>1. status # "submitted" => \A o \in orders : o.no # h.no
    BY <2>0 DEF NormalizeSubmissionStatus, OneInv, Refused, Successes
  <2>2. ASSUME NEW answer, Becomes(h, "answered", answer), posts' = posts \ {p},
               answer # "submitted" => status # "submitted"
        PROVE  HeardInv'
    <3>1. PICK k : GoesOn(h, k, "answered", answer)
      BY <2>2, BecomesIs
    <3>2. \A q \in posts' : q \in posts /\ q.no # h.no
      BY <2>0, <2>2 DEF OneInv, OnePost
    <3> HIDE DEF status
    <3>3. QED
      BY <1>0, <2>0, <2>1, <2>2, <3>1, <3>2, HeardGoesOn
  <2>3. ASSUME Becomes(h, "alternate", status), posts' = (posts \ {p}) \cup {Post(h, 2)}
        PROVE  HeardInv'
    <3> HIDE DEF status
    <3>1. PICK k : GoesOn(h, k, "alternate", status)
      BY <2>3, BecomesIs
    <3>2. \A q \in posts' : q \in posts \/ q.no = h.no
      BY <2>3 DEF Post
    <3>3. QED
      BY <1>0, <2>0, <3>1, <3>2, HeardGoesOn
  <2>4. CombinedAnswer(h.answer, status) # "submitted" => status # "submitted"
    BY DEF CombinedAnswer
  <2>5. \/ Becomes(h, "alternate", status) /\ posts' = (posts \ {p}) \cup {Post(h, 2)}
        \/ /\ posts' = posts \ {p}
           /\ \E answer : /\ Becomes(h, "answered", answer)
                          /\ answer = status \/ answer = CombinedAnswer(h.answer, status)
    BY <1>3 DEF BffHears
  <2> HIDE DEF status
  <2>6. QED
    BY <2>2, <2>3, <2>4, <2>5
<1>4. ASSUME NEW h \in handlers, BffHearsNothing(h) PROVE HeardInv'
  <2>1. \E answer : Becomes(h, "answered", answer)
    BY <1>4 DEF BffHearsNothing, StageAfterSilence
  <2>2. PICK k, answer : GoesOn(h, k, "answered", answer)
    BY <2>1, BecomesIs
  <2>3. posts' \subseteq posts /\ uncertain' = uncertain \cup {h.no}
    BY <1>4 DEF BffHearsNothing, StageAfterSilence
  <2>4. QED
    BY <1>0, <2>2, <2>3, HeardGoesOn
<1>5. ASSUME NEW h \in handlers, BffAnswersNobody(h) PROVE HeardInv'
  BY <1>0, <1>5, HeardQuiet DEF BffAnswersNobody, HeardInv, Waiting
<1>6. QED
  BY <1>1, <1>2, <1>3, <1>4, <1>5 DEF BffStep

LEMMA HeardVenue == ASSUME TypeOK, HeardInv, VenueStep PROVE HeardInv'
<1>0. UNCHANGED <<handlers, told, flow, submissions, uncertain>>
  BY DEF VenueStep, VenueTakes, VenueRefuses, bffOuter
<1>1. ASSUME NEW p \in posts, NEW q, Replied(p, q),
             \A o \in orders' : o \in orders \/ o.no = p.no
      PROVE  HeardInv'
  <2>1. Waiting'
    BY <1>0 DEF HeardInv, Waiting
  <2>2. Heard'
    BY <1>0, <1>1 DEF HeardInv, Heard, Replied
  <2>3. Settled'
    BY <1>0, <1>1 DEF HeardInv, Settled, Replied
  <2>4. FailedMadeNoOrder'
    BY <1>0, <1>1 DEF HeardInv, FailedMadeNoOrder, Replied
  <2>5. QED
    BY <2>1, <2>2, <2>3, <2>4 DEF HeardInv
<1>2. ASSUME NEW p \in posts, VenueTakes(p) PROVE HeardInv'
  <2>1. PICK q : Replied(p, q)
    BY <1>2, TakenIs
  <2>2. \A o \in orders' : o \in orders \/ o.no = p.no
    BY <1>2, NewOrder
  <2>3. QED
    BY <1>1, <2>1, <2>2
<1>3. ASSUME NEW p \in posts, VenueRefuses(p) PROVE HeardInv'
  <2>1. PICK q : Replied(p, q)
    BY <1>3, RefusedIs
  <2>2. orders' = orders
    BY <1>3 DEF VenueRefuses
  <2>3. QED
    BY <1>1, <2>1, <2>2
<1>4. QED
  BY <1>2, <1>3 DEF VenueStep

LEMMA HeardSigning == ASSUME TypeOK, OneInv, HeardInv, SigningStep PROVE HeardInv'
<1>1. ASSUME NEW stage \in InFlight, flow.stage \in InFlight, WalletMoves(stage)
      PROVE  HeardInv'
  <2>1. flow'.no = flow.no
    BY <1>1, MovedFlow DEF WalletMoves
  <2>2. QED
    BY <1>1, <2>1, HeardQuiet DEF WalletMoves, HeardInv, Waiting, bffVars, userVars
<1>2. CASE AccountMatches \/ ChainSettled \/ ChainMissing \/ ChainAdded
  BY <1>1, <1>2
  DEF AccountMatches, ChainSettled, ChainMissing, ChainAdded, InFlight, WalletStages
<1>3. CASE WalletFails \/ WalletSubmits
  <2>1. flow.stage \in WalletStages /\ flow.stage \in InFlight
    BY <1>3 DEF WalletFails, WalletSubmits, InFlight, WalletStages
  <2>2. flow.no \in 1 .. MaxSubmissions /\ flow.no <= submissions /\ Unsent(flow.no)
    BY <2>1, Sendings DEF OneInv, Numbered, Fresh
  <2>3. \E verdict : EndsWith(flow.no, verdict)
    BY <1>3 DEF WalletFails, WalletSubmits
  <2>4. UNCHANGED <<handlers, posts, orders, submissions, uncertain>>
    BY <1>3 DEF WalletFails, WalletSubmits, bffVars
  <2>5. QED
    BY <2>2, <2>3, <2>4, HeardEnds DEF Unsent
<1>4. ASSUME NEW signer \in Accounts, WalletSigns(signer) PROVE HeardInv'
  <2> DEFINE h == [no |-> flow.no, payload |-> flow.payload, signer |-> signer,
                   stage |-> "received", answer |-> "none"]
  <2>1. h.no = flow.no /\ h.stage = "received"
    OBVIOUS
  <2>2. handlers' = handlers \cup {h}
    BY <1>4 DEF WalletSigns
  <2> HIDE DEF h
  <2>3. flow.stage \in InFlight
    BY <1>4 DEF WalletSigns, WalletStages, InFlight
  <2>4. flow'.no = flow.no /\ flow.no \in 1 .. MaxSubmissions
    BY <1>4, <2>3, MovedFlow, Sendings DEF WalletSigns, InFlight
  <2>5. UNCHANGED <<posts, orders, submissions, told, uncertain>>
    BY <1>4 DEF WalletSigns, userVars
  <2>6. told[flow.no] = "nothing"
    BY <2>3 DEF HeardInv, Waiting
  <2>7. Waiting'
    BY <2>4, <2>5, <2>6 DEF HeardInv, Waiting
  <2>8. Heard'
    BY <2>1, <2>2, <2>5 DEF HeardInv, Heard
  <2>9. Settled'
    BY <2>1, <2>2, <2>5, <2>6 DEF HeardInv, Settled
  <2>10. FailedMadeNoOrder'
    BY <2>5 DEF HeardInv, FailedMadeNoOrder
  <2>11. QED
    BY <2>7, <2>8, <2>9, <2>10 DEF HeardInv
<1>5. QED
  BY <1>2, <1>3, <1>4 DEF SigningStep

LEMMA HeardAnswer == ASSUME TypeOK, OneInv, HeardInv, AnswerStep PROVE HeardInv'
<1>1. ASSUME NEW h \in handlers, FormHears(h) PROVE HeardInv'
  <2> DEFINE verdict == IF h.answer = "submitted" THEN "submitted" ELSE "failed"
  <2>1. h.no \in 1 .. MaxSubmissions /\ h.no <= submissions /\ h.stage = "answered"
    BY <1>1, Sendings DEF FormHears, OneInv, Numbered
  <2>2. EndsWith(h.no, verdict) /\ handlers' = handlers \ {h}
        /\ UNCHANGED <<posts, orders, submissions, uncertain>>
    BY <1>1 DEF FormHears
  <2>3. \A g \in handlers' : g.no # h.no
    BY <2>2 DEF OneInv, OneHandler
  <2>4. h.no \notin uncertain =>
          /\ \A p \in posts : p.no # h.no
          /\ verdict = "failed" => \A o \in orders : o.no # h.no
    BY <2>1 DEF HeardInv, Heard
  <2> HIDE DEF verdict
  <2>5. QED
    BY <2>1, <2>2, <2>3, <2>4, HeardEnds
<1>2. CASE FormHearsNothing
  <2>1. flow.no \in 1 .. MaxSubmissions /\ flow.no <= submissions
    BY <1>2, Sendings DEF FormHearsNothing, InFlight, OneInv, Numbered
  <2>2. QED
    BY <1>2, <2>1, HeardEnds DEF FormHearsNothing, bffVars
<1>3. QED
  BY <1>1, <1>2 DEF AnswerStep, FormHearsBff

LEMMA HeardForm == ASSUME TypeOK, OneInv, HeardInv, FormStep PROVE HeardInv'
<1>1. CASE ClickSubmit
  <2>1. /\ submissions + 1 \in 1 .. MaxSubmissions /\ submissions' = submissions + 1
        /\ UNCHANGED <<handlers, posts, orders, uncertain>>
    BY <1>1, BoundsAssumption DEF TypeOK, ClickSubmit, bffVars
  <2>2. Unsent(submissions + 1) /\ told[submissions + 1] = "nothing"
    BY <2>1, Sendings DEF OneInv, Numbered, Unsent, HeardInv, Waiting
  <2>3. CASE told' = told /\ flow'.no = submissions + 1
    BY <2>1, <2>2, <2>3, HeardQuiet
  <2>4. CASE EndsWith(submissions + 1, "failed")
    <3>1. submissions + 1 <= submissions'
      BY <2>1
    <3>2. QED
      BY <2>1, <2>2, <2>4, <3>1, HeardEnds DEF Unsent
  <2>5. QED
    BY <1>1, <2>3, <2>4 DEF ClickSubmit
<1>2. CASE ClickPreview
  BY <1>2, HeardQuiet DEF ClickPreview, InFlight, WalletStages, bffVars, userVars
<1>3. QED
  BY <1>1, <1>2, HeardQuiet
  DEF FormStep, EditFields, EditVenue, HeardInv, Waiting, bffVars, userVars

LEMMA HeardStep == TypeOK /\ OneInv /\ HeardInv /\ [Next]_vars => HeardInv'
<1> SUFFICES ASSUME TypeOK, OneInv, HeardInv, [Next]_vars PROVE HeardInv'
  OBVIOUS
<1>1. CASE UNCHANGED vars \/ WalletStep
  BY <1>1, HeardQuiet
  DEF vars, WalletStep, WalletSwitches, SessionChanges, SlotRenders, HeardInv, Waiting,
      bffVars, userVars
<1>2. CASE PreviewStep
  BY <1>2, HeardQuiet
  DEF PreviewStep, PreviewArrives, PreviewFails, FormAfterFailure, Idle, InFlight, WalletStages,
      bffVars, userVars
<1>3. QED
  BY <1>1, <1>2, HeardForm, HeardSigning, HeardAnswer, HeardBff, HeardVenue DEF Next

LEMMA HeardInit == Init => HeardInv
  BY DEF Init, HeardInv, Waiting, Heard, Settled, FailedMadeNoOrder, Idle, InFlight, WalletStages

\* A submission reported failed after every answer was heard has no order, and
\* none under way, whatever the venue does with the posts it has.
THEOREM FailuresAreFinal == Spec => []FailedMadeNoOrder
<1>1. Init => HeardInv
  BY HeardInit
<1>2. TypeOK /\ OneInv /\ HeardInv /\ [Next]_vars => HeardInv'
  BY HeardStep
<1>3. HeardInv => FailedMadeNoOrder
  BY DEF HeardInv
<1>4. QED
  BY <1>1, <1>2, <1>3, OneCorrect, PTL DEF Spec

-----------------------------------------------------------------------------
(* The refinement. *)

PInv == TypeOK /\ OneInv /\ TakenInv /\ HeardInv

\* A flow ends: a report of the abstract specification.
LEMMA EndsReports ==
  ASSUME PInv, NEW n \in 1 .. MaxSubmissions, NEW verdict \in Promise!Verdicts,
         EndsWith(n, verdict), UNCHANGED <<orders, unstated>>,
         uncertain' \in {uncertain, uncertain \cup {n}}, told[n] = "nothing",
         verdict = "submitted" => Backed(n),
         verdict # "submitted" /\ n \notin uncertain' => \A o \in orders : o.no # n
  PROVE  Promise!Next
<1>1. Promise!Report(n, verdict)
  BY DEF Promise!Report, Promise!OrdersOf, EndsWith, Backed
<1>2. QED
  BY <1>1 DEF Promise!Next

LEMMA TakesPlaces ==
  ASSUME PInv, NEW p \in posts, VenueTakes(p) PROVE Promise!Next
<1> DEFINE o == [no |-> p.no, attempt |-> p.attempt, payload |-> p.payload,
                 signer |-> p.signer]
<1>1. p \in PostType
  BY DEF PInv, TypeOK, PostType
<1>2. o \in [no: 1 .. MaxSubmissions, attempt: {1, 2}, payload: Request, signer: Accounts]
  BY <1>1 DEF PostType
<1>3. o.no = p.no /\ p.no \in 1 .. MaxSubmissions
  BY <1>1 DEF PostType
<1>4. \A x \in orders : x.no # o.no
  BY <1>3 DEF VenueTakes, PInv, OneInv, Refused, Successes
<1>5. told[o.no] = "nothing" \/ o.no \in uncertain
  BY <1>3 DEF PInv, HeardInv, Settled
<1>6. orders' = orders \cup {o} /\ UNCHANGED <<told, uncertain, unstated>>
  BY DEF VenueTakes, bffOuter
<1> HIDE DEF o
<1>7. Promise!Place(o)
  BY <1>4, <1>5, <1>6 DEF Promise!Place, Promise!OrdersOf
<1>8. QED
  BY <1>2, <1>7 DEF Promise!Next

LEMMA FlowReports ==
  ASSUME PInv, WalletFails \/ WalletSubmits \/ AnswerStep PROVE Promise!Next
<1>1. CASE WalletFails \/ WalletSubmits
  <2>1. flow.stage \in WalletStages /\ flow.stage \in InFlight
    BY <1>1 DEF WalletFails, WalletSubmits, InFlight, WalletStages
  <2>2. flow.no \in 1 .. MaxSubmissions /\ told[flow.no] = "nothing" /\ Unsent(flow.no)
    BY <2>1, Sendings DEF PInv, OneInv, Fresh, HeardInv, Waiting
  <2>3. \E verdict \in {"sentByWallet", "failed"} : EndsWith(flow.no, verdict)
    BY <1>1 DEF WalletFails, WalletSubmits
  <2>4. UNCHANGED <<orders, uncertain, unstated>>
    BY <1>1 DEF WalletFails, WalletSubmits, bffVars
  <2>5. QED
    BY <2>2, <2>3, <2>4, EndsReports DEF Promise!Verdicts, Unsent
<1>2. ASSUME NEW h \in handlers, FormHears(h) PROVE Promise!Next
  <2> DEFINE verdict == IF h.answer = "submitted" THEN "submitted" ELSE "failed"
  <2>1. h.no = flow.no /\ flow.stage \in InFlight /\ h.stage = "answered"
    BY <1>2 DEF FormHears, InFlight
  <2>2. h.no \in 1 .. MaxSubmissions /\ told[h.no] = "nothing"
    BY <2>1, Sendings DEF PInv, HeardInv, Waiting
  <2>3. EndsWith(h.no, verdict) /\ UNCHANGED <<orders, uncertain, unstated>>
    BY <1>2 DEF FormHears
  <2>4. /\ verdict \in Promise!Verdicts
        /\ verdict = "submitted" => Backed(h.no)
        /\ verdict # "submitted" /\ h.no \notin uncertain => \A o \in orders : o.no # h.no
    BY <2>1 DEF Promise!Verdicts, PInv, TakenInv, Answered, HeardInv, Heard
  <2> HIDE DEF verdict
  <2>5. QED
    BY <2>2, <2>3, <2>4, EndsReports
<1>3. CASE FormHearsNothing
  <2>1. flow.no \in 1 .. MaxSubmissions /\ told[flow.no] = "nothing"
    BY <1>3, Sendings DEF FormHearsNothing, InFlight, PInv, HeardInv, Waiting
  <2>2. /\ EndsWith(flow.no, "failed") /\ UNCHANGED <<orders, unstated>>
        /\ uncertain' = uncertain \cup {flow.no}
    BY <1>3 DEF FormHearsNothing, bffVars
  <2>3. QED
    BY <2>1, <2>2, EndsReports DEF Promise!Verdicts
<1>4. QED
  BY <1>1, <1>2, <1>3 DEF AnswerStep, FormHearsBff

LEMMA PromiseStep == PInv /\ [Next]_vars => [Promise!Next]_(Promise!vars)
<1> SUFFICES ASSUME PInv, [Next]_vars PROVE [Promise!Next]_(Promise!vars)
  OBVIOUS
<1>1. CASE UNCHANGED <<orders, told, uncertain, unstated>>
  BY <1>1 DEF Promise!vars
<1>2. CASE UNCHANGED vars \/ PreviewStep \/ WalletStep
  BY <1>1, <1>2
  DEF vars, PreviewStep, PreviewArrives, PreviewFails, WalletStep, WalletSwitches,
      SessionChanges, SlotRenders, bffVars, userVars
<1>3. CASE FormStep
  <2>1. CASE ClickSubmit
    <3>1. /\ submissions + 1 \in 1 .. MaxSubmissions
          /\ UNCHANGED <<orders, uncertain, unstated>>
      BY <2>1, BoundsAssumption DEF PInv, TypeOK, ClickSubmit, bffVars
    <3>2. /\ told[submissions + 1] = "nothing"
          /\ \A o \in orders : o.no # submissions + 1
      BY <3>1, Sendings DEF PInv, OneInv, Numbered, HeardInv, Waiting
    <3>3. CASE told' = told
      BY <1>1, <3>1, <3>3
    <3>4. CASE EndsWith(submissions + 1, "failed")
      BY <3>1, <3>2, <3>4, EndsReports DEF Promise!Verdicts
    <3>5. QED
      BY <2>1, <3>3, <3>4 DEF ClickSubmit
  <2>2. QED
    BY <1>1, <1>3, <2>1 DEF FormStep, EditFields, EditVenue, ClickPreview, bffVars, userVars
<1>4. CASE SigningStep
  <2>1. CASE WalletFails \/ WalletSubmits
    BY <2>1, FlowReports
  <2>2. QED
    BY <1>1, <1>4, <2>1
    DEF SigningStep, AccountMatches, ChainSettled, ChainMissing, ChainAdded, WalletMoves,
        WalletSigns, bffVars, userVars
<1>5. CASE BffStep
  <2>1. ASSUME NEW h \in handlers, BffHearsNothing(h) PROVE Promise!Next
    <3>1. h.no \in 1 .. MaxSubmissions
      BY Sendings DEF PInv
    <3>2. Promise!LoseAnswer(h.no)
      BY <2>1 DEF BffHearsNothing, bffOuter, Promise!LoseAnswer
    <3>3. QED
      BY <3>1, <3>2 DEF Promise!Next
  <2>2. ASSUME NEW h \in handlers, NEW p \in posts, BffHears(h, p)
        PROVE  [Promise!Next]_(Promise!vars)
    <3>1. CASE p.reply = "blank"
      <4>1. h.no \in 1 .. MaxSubmissions
        BY Sendings DEF PInv
      <4>2. h.no = p.no /\ UNCHANGED <<orders, told, uncertain>>
        BY <2>2 DEF BffHears, bffOuter
      <4>3. told[h.no] = "nothing" \/ h.no \in uncertain
        BY <4>1 DEF PInv, HeardInv, Settled
      <4>4. Promise!HearNothingStated(h.no)
        BY <2>2, <3>1, <4>2, <4>3 DEF BffHears, Promise!HearNothingStated
      <4>5. QED
        BY <4>1, <4>4 DEF Promise!Next
    <3>2. QED
      BY <1>1, <2>2, <3>1 DEF BffHears, bffOuter
  <2>3. QED
    BY <1>1, <1>5, <2>1, <2>2 DEF BffStep, BffPosts, BffRejects, BffAnswersNobody, bffOuter
<1>6. CASE VenueStep
  <2>1. ASSUME NEW p \in posts, VenueTakes(p) PROVE Promise!Next
    BY <2>1, TakesPlaces
  <2>2. QED
    BY <1>1, <1>6, <2>1 DEF VenueStep, VenueRefuses, bffOuter
<1>7. QED
  BY <1>2, <1>3, <1>4, <1>5, <1>6, FlowReports DEF Next

\* From the click to the venue and back, every step is one of the submission's
\* abstract specification, or changes nothing the user was promised.
THEOREM Implements == Spec => KeepsPromise
<1>1. Init => PInv /\ Promise!Init
  BY TypeInit, OneInit, TakenInit, HeardInit DEF Init, PInv, Promise!Init
<1>2. PInv /\ [Next]_vars => PInv'
  BY TypeStep, OneStep, TakenStep, HeardStep DEF PInv
<1>3. PInv /\ [Next]_vars => [Promise!Next]_(Promise!vars)
  BY PromiseStep
<1>4. QED
  BY <1>1, <1>2, <1>3, PTL DEF Spec, KeepsPromise, Promise!Spec
=============================================================================
