---- MODULE TurnLedger ----
(***************************************************************************)
(* What Chat promises its caller and the readers of history_turns, with no *)
(* word about messages, LLM calls or tools.  A turn is recorded at most    *)
(* once, in the very step that ends it: a caller that gets the answer      *)
(* finds the turn recorded as complete, one that gets                      *)
(* ErrMaxToolIterations finds it recorded as incomplete or (the store      *)
(* failed) not at all, and one that gets any other error finds it not      *)
(* recorded, unless recording the answer was the step that failed.         *)
(***************************************************************************)
CONSTANT Turns

VARIABLES
    phase,   \* where each turn is, as its caller sees it
    ledger   \* what is recorded of each turn

vars == <<phase, ledger>>

Init ==
    /\ phase = [t \in Turns |-> "new"]
    /\ ledger = [t \in Turns |-> "none"]

Step(t, from, to, record) ==
    /\ phase[t] = from
    /\ phase' = [phase EXCEPT ![t] = to]
    /\ ledger' = [ledger EXCEPT ![t] = record]

Open(t) == Step(t, "new", "open", "none")
Refuse(t) == Step(t, "new", "failed", "none")
Answer(t) == Step(t, "open", "answered", "complete")
GiveUp(t) == \E record \in {"none", "incomplete"} : Step(t, "open", "exhausted", record)
Fail(t) == \E record \in {"none", "complete"} : Step(t, "open", "failed", record)

Close(t) == Answer(t) \/ GiveUp(t) \/ Fail(t)

Next == \E t \in Turns : Open(t) \/ Refuse(t) \/ Close(t)

\* Every turn that was opened is closed.
Spec == Init /\ [][Next]_vars /\ \A t \in Turns : WF_vars(Close(t))
====
