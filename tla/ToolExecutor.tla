---- MODULE ToolExecutor ----
(***************************************************************************)
(* ToolExecutor.Execute (talk/internal/domain/tool_executor.go): one batch *)
(* of tool calls, run one after the other or by one goroutine per call     *)
(* behind a semaphore, while MCP servers come and go in the tool registry  *)
(* the executor reads again for every call.                                *)
(***************************************************************************)
EXTENDS Integers, FiniteSets, ToolPayload

CONSTANTS
    MaxCalls,      \* bound: calls in the batch
    Limits,        \* the values TOOLS_MAX_CONCURRENT may have
    Tools,         \* tool names
    HandlerFails   \* may a tool-call event handler return an error?

ASSUME MaxCallsAssumption == MaxCalls \in Nat \ {0}
ASSUME LimitsAssumption == Limits \subseteq Int
ASSUME HandlerAssumption == HandlerFails \in BOOLEAN

VARIABLES
    calls,       \* the number of calls in the batch
    toolOf,      \* the tool each call names
    limit,       \* the executor's maxConcurrent
    registered,  \* the tools toolsProvider returns
    outcome,     \* of Execute: "called", "running", "ok", "error"
    returned,    \* the results Execute returned
    pc,          \* where executeSingleTool is for each call
    slots,       \* buffered sends on the semaphore channel
    executions,  \* the result slot of each call
    errs,        \* the error slot of each call
    started,     \* calls whose start event was delivered
    ended,       \* calls whose end event was delivered
    refused      \* history: calls for which an event handler returned an error

batchVars == <<calls, toolOf, limit>>
slotVars == <<executions, errs>>
eventVars == <<started, ended, refused>>
vars == <<batchVars, registered, outcome, returned, pc, slots, slotVars, eventVars>>

Call == 1..calls
Sequential == calls = 1 \/ limit <= 1

\* An empty result slot.
None == [call |-> 0, kind |-> "none"]

Init ==
    /\ calls \in 1..MaxCalls
    /\ toolOf \in [Call -> Tools]
    /\ limit \in Limits
    /\ registered \in SUBSET Tools
    /\ outcome = "called"
    /\ returned = <<>>
    /\ pc = [i \in Call |-> "queued"]
    /\ slots = 0
    /\ executions = [i \in Call |-> None]
    /\ errs = [i \in Call |-> FALSE]
    /\ started = {}
    /\ ended = {}
    /\ refused = {}

----
Goto(i, label) == pc' = [pc EXCEPT ![i] = label]

\* Execute reads the provider: with no tool at all it returns an error.
Enter ==
    /\ outcome = "called"
    /\ outcome' = IF registered = {} THEN "error" ELSE "running"
    /\ UNCHANGED <<batchVars, registered, returned, pc, slots, slotVars, eventVars>>

\* executeSequential's loop: a call starts when the ones before it succeeded.
StartNext(i) ==
    /\ outcome = "running" /\ Sequential
    /\ pc[i] = "queued"
    /\ \A j \in 1..(i - 1) : pc[j] = "done" /\ ~errs[j]
    /\ Goto(i, "start")
    /\ UNCHANGED <<batchVars, registered, outcome, returned, slots, slotVars, eventVars>>

\* Mutant of Acquire: the channel holds one send too many.
AcquireOneMore(i) ==
    /\ outcome = "running" /\ ~Sequential
    /\ pc[i] = "queued"
    /\ slots <= limit
    /\ slots' = slots + 1
    /\ Goto(i, "start")
    /\ UNCHANGED <<batchVars, registered, outcome, returned, slotVars, eventVars>>

\* executeParallel's goroutines: each sends on the semaphore channel first.
Acquire(i) ==
    /\ outcome = "running" /\ ~Sequential
    /\ pc[i] = "queued"
    /\ slots < limit
    /\ slots' = slots + 1
    /\ Goto(i, "start")
    /\ UNCHANGED <<batchVars, registered, outcome, returned, slotVars, eventVars>>

\* executeSingleTool returns to its goroutine, or to the loop, which keep its
\* result or its error in the call's own slot.
Deliver(i, result, err) ==
    /\ executions' = [executions EXCEPT ![i] = result]
    /\ errs' = [errs EXCEPT ![i] = err]
    /\ Goto(i, IF Sequential THEN "done" ELSE "release")

HandleStart(i) ==
    /\ pc[i] = "start"
    /\ \/ Goto(i, "lookup") /\ started' = started \cup {i} /\ UNCHANGED <<slotVars, refused>>
       \/ /\ HandlerFails
          /\ started' \in {started, started \cup {i}}
          /\ refused' = refused \cup {i}
          /\ Deliver(i, None, TRUE)
    /\ UNCHANGED <<batchVars, registered, outcome, returned, slots, ended>>

\* ExecuteTool looks the tool up in what the provider returns now: a tool that
\* has gone since the LLM was told of it becomes an error result.
Lookup(i) ==
    /\ pc[i] = "lookup"
    /\ IF toolOf[i] \in registered
       THEN Goto(i, "run") /\ UNCHANGED executions
       ELSE /\ Goto(i, "end")
            /\ executions' = [executions EXCEPT ![i] = [call |-> i, kind |-> "error"]]
    /\ UNCHANGED <<batchVars, registered, outcome, returned, slots, errs, eventVars>>

\* Mutant of Run: the goroutine sees the loop variable after the loop.
RunLastCall(i) ==
    /\ pc[i] = "run"
    /\ executions' = [executions EXCEPT ![i] = [call |-> calls, kind |-> "output"]]
    /\ Goto(i, "end")
    /\ UNCHANGED <<batchVars, registered, outcome, returned, slots, errs, eventVars>>

\* The tool returns, with an output or with an error.
Run(i) ==
    /\ pc[i] = "run"
    /\ \E kind \in {"output", "error"} :
          executions' = [executions EXCEPT ![i] = [call |-> i, kind |-> kind]]
    /\ Goto(i, "end")
    /\ UNCHANGED <<batchVars, registered, outcome, returned, slots, errs, eventVars>>

\* Mutant of HandleEnd: once its end is told, the error of a tool is returned
\* as that of a handler is.
HandleEndFailing(i) ==
    /\ pc[i] = "end"
    /\ ended' = ended \cup {i}
    /\ IF executions[i].kind = "error" THEN Deliver(i, None, TRUE) ELSE Deliver(i, executions[i], FALSE)
    /\ UNCHANGED <<batchVars, registered, outcome, returned, slots, started, refused>>

HandleEnd(i) ==
    /\ pc[i] = "end"
    /\ \/ ended' = ended \cup {i} /\ Deliver(i, executions[i], FALSE) /\ UNCHANGED refused
       \/ /\ HandlerFails
          /\ ended' \in {ended, ended \cup {i}}
          /\ refused' = refused \cup {i}
          /\ Deliver(i, None, TRUE)
    /\ UNCHANGED <<batchVars, registered, outcome, returned, slots, started>>

\* Mutant of Release: the slot of a failed call is not given back.
ReleaseLeaking(i) ==
    /\ pc[i] = "release"
    /\ slots' = IF errs[i] THEN slots ELSE slots - 1
    /\ Goto(i, "done")
    /\ UNCHANGED <<batchVars, registered, outcome, returned, slotVars, eventVars>>

\* The deferred receive from the semaphore channel.
Release(i) ==
    /\ pc[i] = "release"
    /\ slots' = slots - 1
    /\ Goto(i, "done")
    /\ UNCHANGED <<batchVars, registered, outcome, returned, slotVars, eventVars>>

\* Mutant of Return: a failing call is reported without waiting for the others.
ReturnEarly ==
    /\ outcome = "running"
    /\ \/ /\ \A i \in Call : pc[i] = "done" /\ ~errs[i]
          /\ outcome' = "ok" /\ returned' = executions
       \/ /\ \E i \in Call : pc[i] = "done" /\ errs[i]
          /\ outcome' = "error" /\ UNCHANGED returned
    /\ UNCHANGED <<batchVars, registered, pc, slots, slotVars, eventVars>>

\* Mutant of Return: a failed call only leaves its result out.
ReturnPartial ==
    /\ outcome = "running"
    /\ \A i \in Call : pc[i] = "done"
    /\ outcome' = "ok" /\ returned' = executions
    /\ UNCHANGED <<batchVars, registered, pc, slots, slotVars, eventVars>>

\* The loop is over, or wg.Wait returned: one error discards every result.
Return ==
    /\ outcome = "running"
    /\ \/ /\ \A i \in Call : pc[i] = "done" /\ ~errs[i]
          /\ outcome' = "ok" /\ returned' = executions
       \/ /\ \E i \in Call : pc[i] = "done" /\ errs[i]
          /\ Sequential \/ \A i \in Call : pc[i] = "done"
          /\ outcome' = "error" /\ UNCHANGED returned
    /\ UNCHANGED <<batchVars, registered, pc, slots, slotVars, eventVars>>

Single(i) ==
    \/ StartNext(i) \/ Acquire(i) \/ HandleStart(i) \/ Lookup(i) \/ Run(i)
    \/ HandleEnd(i) \/ Release(i)

\* MCP servers connect, disconnect or are removed.
ToolsChange ==
    /\ outcome \in {"called", "running"}
    /\ \E r \in SUBSET Tools : registered' = r
    /\ UNCHANGED <<batchVars, outcome, returned, pc, slots, slotVars, eventVars>>

\* Execute has returned.
Returned ==
    /\ outcome \in {"ok", "error"}
    /\ UNCHANGED vars

Next == Enter \/ (\E i \in Call : Single(i)) \/ Return \/ ToolsChange \/ Returned

\* Goroutines are scheduled, tools and handlers return.
Fairness ==
    /\ WF_vars(Enter \/ Return)
    /\ \A i \in 1..MaxCalls : WF_vars(i \in Call /\ Single(i))

Spec == Init /\ [][Next]_vars /\ Fairness

----
\* Properties.

Kind == {"none", "output", "error"}
Label == {"queued", "start", "lookup", "run", "end", "release", "done"}

TypeOK ==
    /\ calls \in 1..MaxCalls
    /\ toolOf \in [Call -> Tools]
    /\ limit \in Limits
    /\ registered \subseteq Tools
    /\ outcome \in {"called", "running", "ok", "error"}
    /\ returned \in {<<>>} \cup [Call -> [call : 0..MaxCalls, kind : Kind]]
    /\ pc \in [Call -> Label]
    /\ slots \in Nat
    /\ executions \in [Call -> [call : 0..MaxCalls, kind : Kind]]
    /\ errs \in [Call -> BOOLEAN]
    /\ started \subseteq Call
    /\ ended \subseteq Call
    /\ refused \subseteq Call

\* The calls executeSingleTool is working on.
Active == {i \in Call : pc[i] \in {"start", "lookup", "run", "end"}}

\* TOOLS_MAX_CONCURRENT is kept: no more calls are worked on at once than it
\* says, and one at a time when it says less than two.
ConcurrencyBounded == Cardinality(Active) <= (IF limit <= 1 THEN 1 ELSE limit)

\* A batch that succeeds has for every call the result of that very call, and a
\* start and an end event were delivered for each.
ResultsMatchCalls ==
    outcome = "ok" =>
        /\ DOMAIN returned = Call
        /\ \A i \in Call : returned[i].call = i /\ i \in started /\ i \in ended

\* A batch fails for one of two reasons: a handler refused an event of one of
\* its calls, or the registry was empty when Execute was entered and no call of it
\* ever began. So neither a tool that fails nor one that is gone by the time it is
\* looked up fails the batch; and no refusal is lost in one that succeeds.
OnlyHandlersFail ==
    /\ outcome = "error" =>
           refused # {} \/ (registered = {} /\ \A i \in Call : pc[i] = "queued")
    /\ outcome = "ok" => refused = {}

\* Once Execute has returned none of its goroutines is left, so no tool-call
\* event of the batch can reach a listener after the results do.
NothingRunsOn ==
    [][(outcome \in {"ok", "error"}) => (UNCHANGED <<pc, eventVars>>)]_vars

\* Execute returns: no slot of the semaphore is lost, nobody waits for ever.
ExecuteReturns == outcome = "called" ~> outcome \in {"ok", "error"}

CallOf(i) ==
    [ID |-> i, Name |-> toolOf[i], Input |-> IF i = 1 THEN Nil ELSE Object(<<"object">>)]

\* What Execute returns for a call when its tool, if it ran, had this content.
MessageOf(i, content) ==
    ToolMessage(CallOf(i), IF returned[i].kind = "output"
                           THEN Result(returned[i].call, Output(content))
                           ELSE ErrorResult(returned[i].call))

\* Whatever the tools of a batch say, the turn read back from the store has its
\* calls and its results in their order, and every result tells the provider what
\* was addressed to it and nothing else, and the client what was addressed to it.
AudienceKept ==
    outcome = "ok" => \A content \in SeqOf(Block, 2) :
        LET messages == <<[role |-> "user"],
                          [role |-> "assistant", ToolCalls |-> [i \in Call |-> CallOf(i)]]>>
                        \o [i \in Call |-> MessageOf(i, content)]
            read == AllMessages([n \in DOMAIN messages |-> RowOf(messages[n])])
        IN  /\ read = messages
            /\ \A i \in Call : returned[i].kind = "output" =>
                   Addressed(content, read[i + 2].ToolResults[1])

\* Execute implements the one step Chat takes it for.
Batch == INSTANCE ToolBatch WITH
            outcome <- IF outcome \in {"ok", "error"} THEN outcome ELSE "pending",
            answers <- IF outcome = "ok" THEN [i \in Call |-> returned[i].call] ELSE <<>>
ImplementsBatch == Batch!Spec
====
