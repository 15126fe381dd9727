---- MODULE AguiProtocol ----
(***************************************************************************)
(* What an AG-UI client may rely on in the event stream of one run, with   *)
(* no word about how the server produces it.  The run opens with           *)
(* RUN_STARTED, or is a lone RUN_ERROR.  A reasoning block and a text      *)
(* message come in one piece.  The four events of a tool call come in      *)
(* their order, but calls of one batch may interleave.  The terminal event *)
(* is the last, and nothing is left open by then.  No event comes twice.   *)
(* The stream of a client that disconnects just stops.                     *)
(*                                                                         *)
(* An event is [unit, id, step]: the step-th event of a reasoning block, a *)
(* text message or a tool call, or an event of the run itself.             *)
(***************************************************************************)
EXTENDS Naturals

CONSTANT Ids   \* what identifies a block, a message or a call

VARIABLES
    wire,   \* the events the client has received
    count   \* how many they are

vars == <<wire, count>>

RunEvent(name) == [unit |-> "run", id |-> <<0, 0>>, step |-> name]
Terminals == {RunEvent("finished"), RunEvent("interrupt"), RunEvent("error")}

\* How many events a block, a message or a call consists of.
Length == [reasoning |-> 5, text |-> 3, call |-> 4]

Following(e) == [e EXCEPT !.step = @ + 1]
Previous(e) == [e EXCEPT !.step = @ - 1]

\* The units of which some events, but not all, were received.
Open ==
    {e.unit : e \in {f \in wire : f.unit # "run" /\ f.step < Length[f.unit] /\ Following(f) \notin wire}}

Over == wire \cap Terminals # {}

Init == wire = {} /\ count = 0

Receive(e) ==
    /\ e \notin wire
    /\ wire' = wire \cup {e}
    /\ count' = count + 1

Start == wire = {} /\ Receive(RunEvent("started"))

Refuse == wire = {} /\ Receive(RunEvent("error"))

Terminate ==
    /\ wire # {} /\ ~Over /\ Open = {}
    /\ \E e \in Terminals : Receive(e)

\* The next event of a reasoning block or a text message.
Block(e) ==
    /\ e.unit \in {"reasoning", "text"}
    /\ IF e.step = 1 THEN Open = {} ELSE Previous(e) \in wire

\* The next event of a tool call.
Call(e) ==
    /\ e.unit = "call"
    /\ e.step = 1 \/ Previous(e) \in wire
    /\ Open \subseteq {"call"}

Content ==
    /\ wire # {} /\ ~Over
    /\ \E unit \in DOMAIN Length, id \in Ids : \E step \in 1..Length[unit] :
          LET e == [unit |-> unit, id |-> id, step |-> step]
          IN  (Block(e) \/ Call(e)) /\ Receive(e)

Next == Start \/ Refuse \/ Terminate \/ Content
Spec == Init /\ [][Next]_vars
====
