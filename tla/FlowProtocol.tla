----------------------------- MODULE FlowProtocol -----------------------------
(***************************************************************************)
(* What the flow API promises its client: README.md "Flow API" and the     *)
(* exported functions Start, Resume and Cancel, whatever the card does.    *)
(* A flow works, asks and goes on when it is answered; a request for a     *)
(* card is answered by a card, not by the client; and every flow that is   *)
(* not cancelled ends with exactly one result.                             *)
(*                                                                         *)
(* FlowControl and MockedFlow are shown to implement it.                   *)
(***************************************************************************)
VARIABLES
    phase,   \* what the flow is doing
    heard    \* what the client has been told last, and has not acted on

vars == <<phase, heard>>

TypeOK ==
    /\ phase \in {"idle", "working", "asking", "cancelled"}
    /\ heard \in {"nothing", "card", "question", "result"}
    /\ phase = "asking" <=> heard \in {"card", "question"}
    /\ heard = "result" => phase = "idle"

Init == phase = "idle" /\ heard = "nothing"

Becomes(p, h) == phase' = p /\ heard' = h

Start  == phase = "idle" /\ Becomes("working", "nothing")
Resume == phase = "asking" /\ heard = "question" /\ Becomes("working", "nothing")

\* A cancelled flow tells the client nothing more; it may take a while to end.
Cancel == phase = "asking" /\ \E p \in {"cancelled", "idle"} : Becomes(p, "nothing")
Gone   == phase = "cancelled" /\ Becomes("idle", "nothing")

Ask      == phase = "working" /\ Becomes("asking", "question")
AskCard  == phase = "working" /\ Becomes("asking", "card")
Inserted == phase = "asking" /\ heard = "card" /\ Becomes("working", "nothing")

\* While a card is asked for the reader may go, which ends the flow.
End == /\ phase = "working" \/ (phase = "asking" /\ heard = "card")
       /\ Becomes("idle", "result")

Next == Start \/ Resume \/ Cancel \/ Gone \/ Ask \/ AskCard \/ Inserted \/ End

Safety == Init /\ [][Next]_vars

\* A flow that works asks or ends; a flow that is cancelled ends.
Progress ==
    /\ phase = "working" ~> phase # "working"
    /\ phase = "cancelled" ~> phase = "idle"

Spec == Safety /\ Progress
=============================================================================
