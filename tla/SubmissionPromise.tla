------------------------- MODULE SubmissionPromise -------------------------
(***************************************************************************)
(* What the ticket, the BFF and the venue together promise the user of a   *)
(* click on submit: at most one order comes of it, what is reported is     *)
(* reported once and is so, except that an answer stating nothing counts   *)
(* as a success, and after a report none of whose answers was lost no      *)
(* order comes any more.  OrderTicket implements this specification.       *)
(***************************************************************************)
CONSTANTS
  Submissions,
  Orders        \* what the venue may take, each of a submission, its no

VARIABLES
  orders,       \* the orders the venue has taken
  told,         \* submission -> what was reported of it
  uncertain,    \* submissions one of whose answers was lost
  unstated      \* submissions one of whose answers stated nothing

vars == <<orders, told, uncertain, unstated>>

Verdicts == {"submitted", "sentByWallet", "failed"}

OrdersOf(n) == {o \in orders : o.no = n}

Init ==
  /\ orders = {}
  /\ told = [n \in Submissions |-> "nothing"]
  /\ uncertain = {}
  /\ unstated = {}

Place(o) ==
  /\ OrdersOf(o.no) = {}
  /\ told[o.no] = "nothing" \/ o.no \in uncertain
  /\ orders' = orders \cup {o}
  /\ UNCHANGED <<told, uncertain, unstated>>

\* The report and the loss of the last answer may be one.
Report(n, verdict) ==
  /\ told[n] = "nothing"
  /\ told' = [told EXCEPT ![n] = verdict]
  /\ uncertain' \in {uncertain, uncertain \cup {n}}
  /\ verdict = "submitted" => OrdersOf(n) # {} \/ n \in unstated
  /\ verdict # "submitted" /\ n \notin uncertain' => OrdersOf(n) = {}
  /\ UNCHANGED <<orders, unstated>>

LoseAnswer(n) ==
  /\ uncertain' = uncertain \cup {n}
  /\ UNCHANGED <<orders, told, unstated>>

\* An answer comes that states neither an order nor a refusal.
HearNothingStated(n) ==
  /\ told[n] = "nothing" \/ n \in uncertain
  /\ unstated' = unstated \cup {n}
  /\ UNCHANGED <<orders, told, uncertain>>

Next ==
  \/ \E o \in Orders : Place(o)
  \/ \E n \in Submissions, verdict \in Verdicts : Report(n, verdict)
  \/ \E n \in Submissions : LoseAnswer(n) \/ HearNothingStated(n)

Spec == Init /\ [][Next]_vars
=============================================================================
