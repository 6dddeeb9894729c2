---------------------------- MODULE StatusStream ----------------------------
(***************************************************************************)
(* What a session promises a subscriber of its STATUS events (SPEC S12):   *)
(* which status may follow which.  A UI ends on "disconnected", which is   *)
(* the last there is; "error" is a drop on its way to "reconnecting", and  *)
(* a refusal is final; a wait is announced again only for a new reason.    *)
(* A stop() that has waited long enough speaks beside the manager: from    *)
(* then on only this is left, that the session ends once.                  *)
(***************************************************************************)
EXTENDS Naturals, Sequences

CONSTANTS Reasons, NoReason

VARIABLES
  said,       \* the statuses announced, in order
  outlasted   \* a stop() has gone on while the session's thread is still there

Init == said = <<>> /\ outlasted = FALSE

States == {"waiting", "connected", "error", "refused", "reconnecting", "disconnected"}

Last == IF said = <<>> THEN [state |-> "connecting", error |-> NoReason] ELSE said[Len(said)]

Then(froms, tos, reasons) ==
  /\ ~outlasted /\ UNCHANGED outlasted
  /\ Last.state \in froms
  /\ \E state \in tos, reason \in reasons :
       said' = Append(said, [state |-> state, error |-> reason])

\* The source could not be opened.
Waiting ==
  /\ Then({"connecting", "waiting", "reconnecting"}, {"waiting"}, Reasons)
  /\ Last' # Last

\* The server answered, and said no.
Refused == Then({"connecting", "waiting", "reconnecting"}, {"refused"}, Reasons)

Connected == Then({"connecting", "waiting", "reconnecting"}, {"connected"}, {NoReason})

Dropped == Then({"connected"}, {"error"}, Reasons)

Reconnecting == Then({"error"}, {"reconnecting"}, {NoReason})

Ended ==
  Then({"connecting", "waiting", "connected", "error", "refused", "reconnecting"},
       {"disconnected"}, {NoReason})

\* stop() waits no longer,
Outlast == ~outlasted /\ outlasted' = TRUE /\ UNCHANGED said

\* and what is said by two at once comes in any order.
Overlap ==
  /\ outlasted /\ UNCHANGED outlasted
  /\ \E status \in [state : States, error : Reasons \union {NoReason}] :
       /\ status.state = "disconnected" => \A i \in DOMAIN said : said[i].state # "disconnected"
       /\ said' = Append(said, status)

Next == Waiting \/ Refused \/ Connected \/ Dropped \/ Reconnecting \/ Ended \/ Outlast \/ Overlap

Spec == Init /\ [][Next]_<<said, outlasted>>
=============================================================================
