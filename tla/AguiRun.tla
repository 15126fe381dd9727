---- MODULE AguiRun ----
(***************************************************************************)
(* One POST /agent: agui.Handler (talk/internal/agui/handler.go), the      *)
(* ChatFunc of "talk serve" (talk/cmd/cli/serve.go) and the AGUIEmitter    *)
(* (emitter.go), which turns what Chat does into AG-UI events.  Emitter    *)
(* and message store handle each event in goroutines of their own          *)
(* (MessageEventHandlers.runPhase, domain/usage.go), the calls of a batch  *)
(* run in goroutines too, and the client may disconnect at any time.       *)
(*                                                                         *)
(* Chat is reduced to what the stream can tell: Conversation has the rest. *)
(***************************************************************************)
EXTENDS Integers, Sequences, FiniteSets

CONSTANTS
    MaxToolCalls,  \* the LLM calls a turn may make
    Limits,        \* the values TOOLS_MAX_CONCURRENT may have
    MaxBatch,      \* bound: tool calls in one LLM response
    Faults         \* what may fail

FaultKinds == {"model", "store", "llm", "executor", "disconnect"}

ASSUME AguiBoundsAssumption == MaxToolCalls \in Nat \ {0} /\ MaxBatch \in Nat
ASSUME AguiLimitsAssumption == Limits \subseteq Int
ASSUME AguiFaultsAssumption == Faults \subseteq FaultKinds

VARIABLES
    request,    \* the body of the request
    limit,      \* maxConcurrent
    pc,         \* where ServeHTTP is, or Chat on its behalf
    status,     \* the HTTP status of a refusal, 0 when there is a stream
    wire,       \* the events the client has received
    count,      \* and how many they are
    client,     \* "there", "gone", or "noticed": the request context is cancelled
    round,      \* LLM calls that returned
    reply,      \* the last response
    replies,    \* all of them, by round (a history variable)
    emitting,   \* the events each emitter goroutine has still to write: 0 handles a
                \* message event, i the events of the i-th call of the batch
    storing,    \* the store's goroutine for the same message event
    callPc,     \* where executeSingleTool is for each call
    err,        \* what Chat returned
    recorded    \* the turn's status in history_turns

stream == <<wire, count>>
answers == <<round, reply, replies>>
chatVars == <<answers, callPc, recorded>>
vars == <<request, limit, pc, status, stream, client, emitting, storing, err, chatVars>>

Emitter == 0..MaxBatch
Slot == 1..MaxBatch

\* Roles of the messages a request carries, oldest first.
MessageLists == {<<>>, <<"user">>, <<"user", "assistant">>, <<"assistant">>}

\* What its forwarded properties name as model: none, one of the registry, another.
Aliases == {"", "supported", "unknown"}

\* A body that does not parse; also stands for a request nobody reads any more.
Served == [valid |-> FALSE, messages |-> <<>>, thread |-> FALSE, model |-> "", resume |-> {}]

Requests == [valid : {TRUE}, messages : MessageLists, thread : BOOLEAN, model : Aliases,
             resume : SUBSET {"resolved", "cancelled", "unknown"}]
              \cup {Served}

Nothing == [calls |-> 0, text |-> FALSE, thinking |-> FALSE]

Init ==
    /\ request \in Requests
    /\ limit \in Limits
    /\ pc = "parse"
    /\ status = 0
    /\ wire = {}
    /\ count = 0
    /\ client = "there"
    /\ round = 0
    /\ reply = Nothing
    /\ replies = [n \in 1..MaxToolCalls |-> Nothing]
    /\ emitting = [g \in Emitter |-> <<>>]
    /\ storing = "idle"
    /\ callPc = [i \in Slot |-> "idle"]
    /\ err = "none"
    /\ recorded = "none"

----
\* Events.

RunEvent(name) == [unit |-> "run", id |-> <<0, 0>>, step |-> name]
Steps(unit, id, from, to) ==
    [n \in 1..(to - from + 1) |-> [unit |-> unit, id |-> id, step |-> from + n - 1]]

\* HandleMessageEvent of the emitter, for an assistant message.
MessageEvents(r, n) ==
    (IF r.thinking THEN Steps("reasoning", <<n, 0>>, 1, 5) ELSE <<>>)
      \o (IF r.calls = 0 /\ r.text THEN Steps("text", <<n, 0>>, 1, 3) ELSE <<>>)

\* HandleToolCallStart and HandleToolCallEnd, for the i-th call of a response.
StartEvents(i) == Steps("call", <<round, i>>, 1, 2)
EndEvents(i) == Steps("call", <<round, i>>, 3, 4)

\* WriteEvent, under the writer's mutex: what is written after the client has
\* gone reaches nobody.
WriteEvent(e) ==
    IF client = "there" THEN wire' = wire \cup {e} /\ count' = count + 1 ELSE UNCHANGED stream

----
\* ServeHTTP up to the stream.

Goto(label) == pc' = label
Refuse == status' = 400 /\ Goto("done")

parseRequest ==
    /\ pc = "parse"
    /\ IF ~request.valid \/ (request.messages = <<>> /\ request.resume = {})
       THEN Refuse
       ELSE Goto("resume") /\ UNCHANGED status
    /\ UNCHANGED <<request, limit, stream, client, emitting, storing, err, chatVars>>

lastMessageIsUser ==
    request.messages # <<>> /\ request.messages[Len(request.messages)] = "user"

classifyResumeStatuses(statuses) ==
    [hasResolved |-> "resolved" \in statuses, hasCancelled |-> "cancelled" \in statuses,
     valid |-> statuses \subseteq {"resolved", "cancelled"}]

\* Resolved: the continuation prompt is appended.  Cancelled: an empty run,
\* unless the user said something new.
handleResume ==
    LET c == classifyResumeStatuses(request.resume)
        accepted == request.thread /\ c.valid /\ ~(c.hasResolved /\ c.hasCancelled)
    IN  /\ pc = "resume"
        /\ \/ request.resume = {} /\ Goto("props") /\ UNCHANGED <<request, status>>
           \/ request.resume # {} /\ ~accepted /\ Refuse /\ UNCHANGED request
           \/ /\ accepted /\ c.hasCancelled
              /\ Goto(IF lastMessageIsUser THEN "props" ELSE "empty")
              /\ UNCHANGED <<request, status>>
           \/ /\ accepted /\ c.hasResolved
              /\ request' = [request EXCEPT !.messages = Append(@, "user")]
              /\ Goto("props") /\ UNCHANGED status
        /\ UNCHANGED <<limit, stream, client, emitting, storing, err, chatVars>>

\* handleCancelledResume's empty run.
EmptyRun ==
    /\ \/ pc = "empty" /\ WriteEvent(RunEvent("started")) /\ Goto("emptyEnd")
       \/ pc = "emptyEnd" /\ WriteEvent(RunEvent("finished")) /\ Goto("done")
    /\ UNCHANGED <<request, limit, status, client, emitting, storing, err, chatVars>>

isModelSupported(alias) == alias = "supported"

\* A stream that holds a RUN_ERROR only.
writeSSEError == Goto("done") /\ WriteEvent(RunEvent("error"))

\* Mutant of resolveForwardedProps: nobody is told of the unknown model.
resolveSilently ==
    /\ pc = "props"
    /\ Goto(IF isModelSupported(request.model) THEN "open" ELSE "done")
    /\ UNCHANGED <<request, limit, status, stream, client, emitting, storing, err, chatVars>>

\* A missing model is not in the list of supported ones either.
resolveForwardedProps ==
    /\ pc = "props"
    /\ IF isModelSupported(request.model) THEN Goto("open") /\ UNCHANGED stream
       ELSE writeSSEError
    /\ UNCHANGED <<request, limit, status, client, emitting, storing, err, chatVars>>

\* streamChat begins; it gives up when RUN_STARTED cannot be written.
streamChat ==
    /\ pc = "open"
    /\ WriteEvent(RunEvent("started"))
    /\ Goto("chat") \/ (client # "there" /\ Goto("done"))
    /\ UNCHANGED <<request, limit, status, client, emitting, storing, err, chatVars>>

----
\* The ChatFunc, and Chat.

\* Chat is over.
Leave(e) == err' = e /\ Goto("finish")
Fail(kind) == kind \in Faults /\ Leave("other")

\* buildChatFunc up to Chat: the model is resolved and the input extracted.
Prepare ==
    /\ pc = "chat"
    /\ request' = Served
    /\ \/ "user" \in {request.messages[i] : i \in DOMAIN request.messages}
            /\ Goto("ask") /\ UNCHANGED err
       \/ "user" \notin {request.messages[i] : i \in DOMAIN request.messages} /\ Leave("other")
       \/ Fail("model")
    /\ UNCHANGED <<limit, status, stream, client, emitting, storing, chatVars>>

\* The prompt, and the user message: the emitter has nothing to say of either.
Ask ==
    /\ pc = "ask"
    /\ (Goto("llm") /\ UNCHANGED err) \/ Fail("store")
    /\ UNCHANGED <<request, limit, status, stream, client, emitting, storing, chatVars>>

\* The LLM answers, and runPhase hands the message to emitter and store.
Complete ==
    /\ pc = "llm"
    /\ \E n \in 0..MaxBatch, text, thinking \in BOOLEAN :
          LET r == [calls |-> n, text |-> text, thinking |-> thinking]
          IN  /\ n > 0 => text
              /\ reply' = r
              /\ replies' = [replies EXCEPT ![round + 1] = r]
              /\ emitting' = [emitting EXCEPT ![0] = MessageEvents(r, round + 1)]
    /\ round' = round + 1
    /\ storing' = "busy"
    /\ Goto("reply")
    /\ UNCHANGED <<request, limit, status, stream, client, err, callPc, recorded>>

FailComplete ==
    /\ pc = "llm"
    /\ Fail("llm")
    /\ UNCHANGED <<request, limit, status, stream, client, emitting, storing, chatVars>>

\* Mutant of writeEvent: an event is kept until it can be written.
writeEventStubborn(g) ==
    /\ emitting[g] # <<>>
    /\ client # "noticed"
    /\ WriteEvent(Head(emitting[g]))
    /\ emitting' = [emitting EXCEPT ![g] = Tail(@)]
    /\ UNCHANGED <<request, limit, pc, status, client, storing, err, chatVars>>

\* The emitter writes its next event, or skips it once the context is cancelled.
writeEvent(g) ==
    /\ emitting[g] # <<>>
    /\ WriteEvent(Head(emitting[g]))
    /\ emitting' = [emitting EXCEPT ![g] = Tail(@)]
    /\ UNCHANGED <<request, limit, pc, status, client, storing, err, chatVars>>

StoreReply ==
    /\ storing = "busy"
    /\ storing' \in {"ok"} \cup (IF "store" \in Faults THEN {"failed"} ELSE {})
    /\ UNCHANGED <<request, limit, pc, status, stream, client, emitting, err, chatVars>>

\* Mutant of ReplyHandled: a failing handler is not waited for with the others.
ReplyHandledEarly ==
    /\ pc = "reply" /\ storing \in {"ok", "failed"}
    /\ storing = "ok" => emitting[0] = <<>>
    /\ storing' = "idle"
    /\ IF storing = "failed" THEN Leave("other")
       ELSE Goto(IF reply.calls = 0 THEN "record" ELSE "execute") /\ UNCHANGED err
    /\ UNCHANGED <<request, limit, status, stream, client, emitting, chatVars>>

\* runPhase has waited for both: the store's error ends the turn, although the
\* client has already been shown the message.
ReplyHandled ==
    /\ pc = "reply" /\ emitting[0] = <<>> /\ storing \in {"ok", "failed"}
    /\ storing' = "idle"
    /\ IF storing = "failed" THEN Leave("other")
       ELSE Goto(IF reply.calls = 0 THEN "record" ELSE "execute") /\ UNCHANGED err
    /\ UNCHANGED <<request, limit, status, stream, client, emitting, chatVars>>

Batch == 1..reply.calls

\* ToolExecutor.Execute is entered; it fails when no tool is left.
Execute ==
    /\ pc = "execute"
    /\ \/ Goto("calls") /\ callPc' = [i \in Slot |-> IF i \in Batch THEN "queued" ELSE "idle"]
                        /\ UNCHANGED err
       \/ Fail("executor") /\ UNCHANGED callPc
    /\ UNCHANGED <<request, limit, status, stream, client, emitting, storing, answers, recorded>>

Active == {i \in Batch : callPc[i] \in {"start", "end"}}

\* A call's turn has come (see ToolExecutor): its start event goes out.
StartCall(i) ==
    /\ pc = "calls" /\ callPc[i] = "queued"
    /\ IF limit <= 1 THEN \A j \in 1..(i - 1) : callPc[j] = "done" ELSE Cardinality(Active) < limit
    /\ callPc' = [callPc EXCEPT ![i] = "start"]
    /\ emitting' = [emitting EXCEPT ![i] = StartEvents(i)]
    /\ UNCHANGED <<request, limit, pc, status, stream, client, storing, err, answers, recorded>>

\* Mutant of RunCall: the start event is handled in the background.
RunCallEarly(i) ==
    /\ callPc[i] = "start"
    /\ callPc' = [callPc EXCEPT ![i] = "end"]
    /\ emitting' = [emitting EXCEPT ![i] = EndEvents(i) \o @]
    /\ UNCHANGED <<request, limit, pc, status, stream, client, storing, err, answers, recorded>>

\* The tool runs; its end event goes out.
RunCall(i) ==
    /\ callPc[i] = "start" /\ emitting[i] = <<>>
    /\ callPc' = [callPc EXCEPT ![i] = "end"]
    /\ emitting' = [emitting EXCEPT ![i] = EndEvents(i)]
    /\ UNCHANGED <<request, limit, pc, status, stream, client, storing, err, answers, recorded>>

EndCall(i) ==
    /\ callPc[i] = "end" /\ emitting[i] = <<>>
    /\ callPc' = [callPc EXCEPT ![i] = "done"]
    /\ UNCHANGED <<request, limit, pc, status, stream, client, emitting, storing, err, answers,
                   recorded>>

\* Mutant of StoreResults: the other calls are not waited for.
StoreResultsEarly ==
    /\ pc = "calls" /\ \E i \in Batch : callPc[i] = "done"
    /\ callPc' = [i \in Slot |-> "idle"]
    /\ Goto(IF round < MaxToolCalls THEN "llm" ELSE "exhaust")
    /\ UNCHANGED <<request, limit, status, stream, client, emitting, storing, err, answers, recorded>>

\* The batch is over, and its results are stored one after the other.
StoreResults ==
    /\ pc = "calls" /\ \A i \in Batch : callPc[i] = "done"
    /\ callPc' = [i \in Slot |-> "idle"]
    /\ \/ Goto(IF round < MaxToolCalls THEN "llm" ELSE "exhaust") /\ UNCHANGED err
       \/ Fail("store")
    /\ UNCHANGED <<request, limit, status, stream, client, emitting, storing, answers, recorded>>

\* finishTurn.
Record ==
    /\ pc = "record"
    /\ \/ recorded' = "complete" /\ Leave("none")
       \/ recorded' \in {"none", "complete"} /\ Fail("store")
    /\ UNCHANGED <<request, limit, status, stream, client, emitting, storing, answers, callPc>>

\* The budget is spent; a failure to record the turn is only logged.
Exhaust ==
    /\ pc = "exhaust"
    /\ recorded' = "incomplete" \/ ("store" \in Faults /\ UNCHANGED recorded)
    /\ Leave("max")
    /\ UNCHANGED <<request, limit, status, stream, client, emitting, storing, answers, callPc>>

----
\* Back in ServeHTTP.

\* The terminal event for what Chat returned.
Terminal == RunEvent(IF err = "none" THEN "finished" ELSE IF err = "max" THEN "interrupt" ELSE "error")

\* runChat after the ChatFunc returned, and the end of streamChat: nothing is
\* written once the context is cancelled.
runChat ==
    /\ pc = "finish"
    /\ WriteEvent(Terminal)
    /\ Goto("done")
    /\ UNCHANGED <<request, limit, status, client, emitting, storing, err, chatVars>>

ServeHTTP ==
    \/ parseRequest \/ handleResume \/ EmptyRun \/ resolveForwardedProps \/ streamChat
    \/ Prepare \/ Ask \/ Complete \/ FailComplete \/ ReplyHandled \/ Execute \/ StoreResults
    \/ Record \/ Exhaust \/ runChat

CallStep(i) == StartCall(i) \/ RunCall(i) \/ EndCall(i)

\* The client closes the connection, and a little later the context is cancelled.
Disconnect ==
    /\ "disconnect" \in Faults
    /\ pc # "done"
    /\ \/ client = "there" /\ client' = "gone"
       \/ client = "gone" /\ client' = "noticed"
    /\ UNCHANGED <<request, limit, pc, status, stream, emitting, storing, err, chatVars>>

Returned == pc = "done" /\ UNCHANGED vars

Next ==
    \/ ServeHTTP \/ StoreReply \/ Disconnect \/ Returned
    \/ \E g \in Emitter : writeEvent(g)
    \/ \E i \in Slot : CallStep(i)

\* Goroutines are scheduled, and LLM, store and tools answer or fail.
Fairness ==
    /\ WF_vars(ServeHTTP) /\ WF_vars(StoreReply)
    /\ \A g \in Emitter : WF_vars(writeEvent(g))
    /\ \A i \in Slot : WF_vars(CallStep(i))

Spec == Init /\ [][Next]_vars /\ Fairness

----
\* Properties.

EventId == (0..MaxToolCalls) \X (0..MaxBatch)
Event == [unit : {"run"}, id : {<<0, 0>>}, step : {"started", "finished", "interrupt", "error"}]
           \cup [unit : {"reasoning", "text", "call"}, id : EventId, step : 1..5]
Replies == [calls : 0..MaxBatch, text : BOOLEAN, thinking : BOOLEAN]
Label == {"parse", "resume", "empty", "emptyEnd", "props", "open", "chat", "ask", "llm", "reply",
          "execute", "calls", "record", "exhaust", "finish", "done"}

\* Every variable has its type; no run makes more LLM calls than its budget.
TypeOK ==
    /\ limit \in Limits
    /\ pc \in Label
    /\ status \in {0, 400}
    /\ wire \subseteq Event
    /\ count \in Nat
    /\ client \in {"there", "gone", "noticed"}
    /\ round \in 0..MaxToolCalls
    /\ reply \in Replies
    /\ replies \in [1..MaxToolCalls -> Replies]
    /\ emitting \in [Emitter -> Seq(Event)]
    /\ storing \in {"idle", "busy", "ok", "failed"}
    /\ callPc \in [Slot -> {"idle", "queued", "start", "end", "done"}]
    /\ err \in {"none", "max", "other"}
    /\ recorded \in {"none", "complete", "incomplete"}

\* A client that stays is never left waiting: when ServeHTTP returns it has a
\* refusal or a terminal event.
ConnectedGetsEnd ==
    pc = "done" /\ client = "there" =>
        \/ status = 400
        \/ \E name \in {"finished", "interrupt", "error"} : RunEvent(name) \in wire

\* All there is to tell of round n: its message, and each of its calls to the end.
Delivered(n) ==
    /\ \A p \in DOMAIN MessageEvents(replies[n], n) : MessageEvents(replies[n], n)[p] \in wire
    /\ \A i \in 1..replies[n].calls : [unit |-> "call", id |-> <<n, i>>, step |-> 4] \in wire

\* What the client is told of its turn is what the next turn will find.  A run that
\* finished normally is recorded as complete; an interrupted one spent its budget
\* and is not recorded as complete; one that ended in an error is not recorded as
\* incomplete.  Whenever the turn is not lost to an error, every message and every
\* call of all its rounds was delivered: an answer that was streamed although its
\* turn is not recorded is never followed by RUN_FINISHED.
OutcomeMatchesTurn ==
    /\ RunEvent("finished") \in wire /\ round > 0 => recorded = "complete"
    /\ RunEvent("interrupt") \in wire => recorded # "complete" /\ round = MaxToolCalls
    /\ RunEvent("error") \in wire => recorded # "incomplete"
    /\ \/ RunEvent("finished") \in wire \/ RunEvent("interrupt") \in wire
       \/ RunEvent("error") \in wire /\ recorded = "complete"
       => \A n \in 1..round : Delivered(n)

\* When ServeHTTP has returned no goroutine of the run can touch the response
\* writer any more, or the store.
NothingAfterReturn ==
    pc = "done" => /\ \A g \in Emitter : emitting[g] = <<>>
                   /\ storing # "busy"
                   /\ \A i \in Slot : callPc[i] \in {"idle", "done"}

\* Every request ends, whether its client stays or not.
RunEnds == pc = "parse" ~> pc = "done"

\* The stream keeps to the protocol, however the goroutines are scheduled and
\* wherever the run fails or is cut off.
Protocol == INSTANCE AguiProtocol WITH Ids <- EventId
ImplementsProtocol == Protocol!Spec
====
