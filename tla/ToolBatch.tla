---- MODULE ToolBatch ----
(***************************************************************************)
(* What ToolExecutor.Execute promises Chat: one step, after which the      *)
(* caller has either one result per call, in the order of the calls, or an *)
(* error and no result at all.  Conversation's Execute and FailExecute are *)
(* this step.                                                              *)
(***************************************************************************)
EXTENDS Naturals, Sequences

CONSTANT MaxCalls   \* the calls a batch may hold

VARIABLES
    calls,    \* how many calls the batch holds
    outcome,  \* "pending", "ok" or "error"
    answers   \* the call each returned result answers

vars == <<calls, outcome, answers>>

Init == calls \in 1..MaxCalls /\ outcome = "pending" /\ answers = <<>>

Return ==
    /\ outcome = "pending"
    /\ \/ outcome' = "ok" /\ answers' = [i \in 1..calls |-> i]
       \/ outcome' = "error" /\ answers' = <<>>
    /\ UNCHANGED calls

Spec == Init /\ [][Return]_vars /\ WF_vars(Return)
====
