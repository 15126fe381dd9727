---- MODULE Conversation ----
(***************************************************************************)
(* ConversationManager.Chat (talk/internal/domain/conversation.go) over    *)
(* the SQLite message store, for the turns of one session.                 *)
(*                                                                         *)
(* Every turn is one call of Chat.  The CLI runs them one after the other; *)
(* the AG-UI server runs one per HTTP request, so turns of one thread may  *)
(* overlap: Concurrent tells the two apart.  A step is one call Chat makes *)
(* on a collaborator (prompt provider, store, LLM client, tool executor),  *)
(* and the kinds of call that may fail are in Faults: a cancelled request  *)
(* context shows as a failure of the next call.                            *)
(***************************************************************************)
EXTENDS ContextBuilder, LlmRequest

CONSTANTS
    Turns,         \* turn ids; random in the code, here numbers any turn may draw
    MaxToolCalls,  \* the LLM calls a turn may make (the code's maxToolCalls)
    ContextModes,  \* the values CONTEXT_FULL_TURNS may have: -1 full, 0 lean, N hybrid
    Concurrent,    \* may two turns of the session overlap?
    Faults,        \* the calls that may fail
    MaxBatch,      \* bound: tool calls in one LLM response
    MaxClock       \* bound: seconds that pass

FaultKinds == {"prompt", "store", "read", "history", "llm", "executor"}

ASSUME TurnsAssumption == Turns \subseteq Nat \ {NoTurn}
ASSUME MaxToolCallsAssumption == MaxToolCalls \in Nat \ {0}
ASSUME ContextModesAssumption == ContextModes \subseteq Int
ASSUME ConcurrentAssumption == Concurrent \in BOOLEAN
ASSUME FaultsAssumption == Faults \subseteq FaultKinds
ASSUME BoundsAssumption == MaxBatch \in Nat /\ MaxClock \in Nat

VARIABLES
    contextFull, \* the context mode this process was started with
    pc,         \* where each turn's Chat is
    startedAt,  \* the second each turn started in
    round,      \* LLM calls that returned, per turn (callCount)
    reply,      \* the last response per turn: its tool calls, has it text?
    done,       \* results of those tool calls already handed to the store
    snapshot,   \* the slice BuildContextMessages has read, while it is needed
    context,    \* the context of the LLM call under way, per turn
    session,    \* is the session row in the store?
    messages,   \* the session's message rows, by id
    history,    \* the session's history_turns rows
    clock       \* the store's clock, in seconds

turnVars == <<startedAt, round, reply, done>>
viewVars == <<snapshot, context>>
storeVars == <<session, messages, history>>
ambientVars == <<contextFull, clock>>
vars == <<pc, turnVars, viewVars, storeVars, ambientVars>>

Ended == {"answered", "exhausted", "failed"}
Idle(t) == pc[t] = "idle"
Running(t) == pc[t] \notin {"idle"} \cup Ended

Init ==
    /\ contextFull \in ContextModes
    /\ pc = [t \in Turns |-> "idle"]
    /\ startedAt = [t \in Turns |-> 0]
    /\ round = [t \in Turns |-> 0]
    /\ reply = [t \in Turns |-> [calls |-> <<>>, text |-> FALSE]]
    /\ done = [t \in Turns |-> 0]
    /\ snapshot = [t \in Turns |-> <<>>]
    /\ context = [t \in Turns |-> <<>>]
    /\ session = FALSE
    /\ messages = <<>>
    /\ history = {}
    /\ clock = 0

----
\* What the store and the handler pipeline do with one event.

\* HandleMessageEvent, succeeding: only a user message materialises the
\* session, and without a session row the message is silently dropped.
Store(m) ==
    /\ session' = IF m.role = "user" THEN TRUE ELSE session
    /\ messages' = IF session' THEN Append(messages, m) ELSE messages

\* HandleMessageEvent, failing: before or between its statements, or after
\* them (a later handler of the pipeline fails, a commit reported as cancelled).
FailToStore(m) ==
    /\ "store" \in Faults
    /\ \/ UNCHANGED <<session, messages>>
       \/ session' = (IF m.role = "user" THEN TRUE ELSE session) /\ UNCHANGED messages
       \/ Store(m)

\* HandleTurnEvent's upsert: an empty answer keeps the one already recorded.
Upsert(row) ==
    LET same == {r \in history : r.turn = row.turn}
    IN  history' = (history \ same)
                     \cup {[row EXCEPT !.answer = @ \/ \E r \in same : r.answer]}

FailToUpsert(row) == "store" \in Faults /\ (UNCHANGED history \/ Upsert(row))

\* Mutant of HistoryTurns: by turn id alone.
HistoryTurnsById ==
    {rows \in SetToSeqs(history) :
        \A i, j \in DOMAIN rows : i < j => rows[i].turn < rows[j].turn}

\* LoadHistoryTurnsFromSession: the rows by second of the question, then by turn
\* id; there is one such order.
HistoryTurns ==
    {rows \in SetToSeqs(history) :
        \A i, j \in DOMAIN rows : i < j =>
            \/ rows[i].at < rows[j].at
            \/ rows[i].at = rows[j].at /\ rows[i].turn < rows[j].turn}

----
\* The steps of Chat.

Goto(t, label) == pc' = [pc EXCEPT ![t] = label]

\* The LLM call is over, and nothing refers to its context any more.
DropContext(t) ==
    /\ snapshot' = [snapshot EXCEPT ![t] = <<>>]
    /\ context' = [context EXCEPT ![t] = <<>>]

\* Chat is called and the system prompt resolved.
Begin(t) ==
    /\ Idle(t)
    /\ Concurrent \/ \A u \in Turns : ~Running(u)
    /\ startedAt' = [startedAt EXCEPT ![t] = clock]
    /\ Goto(t, "ask")
    /\ UNCHANGED <<round, reply, done, viewVars, storeVars, ambientVars>>

\* The prompt provider fails: nothing was sent to the store yet.
FailPrompt(t) ==
    /\ Idle(t)
    /\ Concurrent \/ \A u \in Turns : ~Running(u)
    /\ "prompt" \in Faults
    /\ Goto(t, "failed")
    /\ UNCHANGED <<turnVars, viewVars, storeVars, ambientVars>>

StoreQuestion(t) ==
    /\ pc[t] = "ask"
    /\ \/ Store(UserMessage(t)) /\ Goto(t, "read")
       \/ FailToStore(UserMessage(t)) /\ Goto(t, "failed")
    /\ UNCHANGED <<turnVars, viewVars, history, ambientVars>>

\* BuildContextMessages' first read.  When it fails the context is empty; in
\* full mode there is no second read.
ReadMessages(t) ==
    /\ pc[t] = "read"
    /\ \/ /\ contextFull < 0
          /\ context' = [context EXCEPT ![t] = messages]
          /\ Goto(t, "complete")
          /\ UNCHANGED snapshot
       \/ /\ contextFull >= 0
          /\ snapshot' = [snapshot EXCEPT ![t] = messages]
          /\ Goto(t, "history")
          /\ UNCHANGED context
       \/ /\ "read" \in Faults
          /\ Goto(t, "complete")
          /\ UNCHANGED viewVars
    /\ UNCHANGED <<turnVars, storeVars, ambientVars>>

\* Mutant of ReadHistory: the lock of the first read is still held, and the
\* second wants it alone.
ReadHistoryLocked(t) ==
    /\ pc[t] = "history"
    /\ \A u \in Turns \ {t} : pc[u] # "history"
    /\ Goto(t, "complete")
    /\ UNCHANGED <<turnVars, viewVars, storeVars, ambientVars>>

\* Its second read, after the store's lock was released and taken again.  When
\* it fails the context is the slice of the first read.
ReadHistory(t) ==
    /\ pc[t] = "history"
    /\ \/ /\ \E rows \in HistoryTurns :
                \E c \in BuildContextMessages(snapshot[t], rows, t, contextFull) :
                    context' = [context EXCEPT ![t] = c]
          /\ snapshot' = [snapshot EXCEPT ![t] = <<>>]
       \/ /\ "history" \in Faults
          /\ context' = [context EXCEPT ![t] = snapshot[t]]
          /\ UNCHANGED snapshot
    /\ Goto(t, "complete")
    /\ UNCHANGED <<turnVars, storeVars, ambientVars>>

\* The ids of the n tool calls a turn's r-th response makes.
CallIds(t, r, n) == [i \in 1..n |-> <<t, r, i>>]

\* The LLM answers: with text, with nothing, or with tool calls (whose own text,
\* or the summary storeAssistantResponse puts in its place, nothing depends on).
Complete(t) ==
    /\ pc[t] = "complete"
    /\ \E n \in 0..MaxBatch, text \in BOOLEAN :
          /\ n > 0 => text
          /\ reply' = [reply EXCEPT ![t] = [calls |-> CallIds(t, round[t] + 1, n), text |-> text]]
    /\ round' = [round EXCEPT ![t] = @ + 1]
    /\ done' = [done EXCEPT ![t] = 0]
    /\ DropContext(t)
    /\ Goto(t, "reply")
    /\ UNCHANGED <<startedAt, storeVars, ambientVars>>

FailComplete(t) ==
    /\ pc[t] = "complete"
    /\ "llm" \in Faults
    /\ DropContext(t)
    /\ Goto(t, "failed")
    /\ UNCHANGED <<turnVars, storeVars, ambientVars>>

StoreReply(t) ==
    LET m == AssistantMessage(t, reply[t].calls)
    IN  /\ pc[t] = "reply"
        /\ \/ Store(m) /\ Goto(t, IF reply[t].calls = <<>> THEN "finish" ELSE "execute")
           \/ FailToStore(m) /\ Goto(t, "failed")
        /\ UNCHANGED <<turnVars, viewVars, history, ambientVars>>

\* ToolExecutor.Execute: one result per call, in the order of the calls.
Execute(t) ==
    /\ pc[t] = "execute"
    /\ Goto(t, "results")
    /\ UNCHANGED <<turnVars, viewVars, storeVars, ambientVars>>

\* Mutant of FailExecute: the failed turn is recorded as incomplete.
FailExecuteRecorded(t) ==
    /\ pc[t] = "execute"
    /\ "executor" \in Faults
    /\ Upsert([turn |-> t, at |-> startedAt[t], status |-> "incomplete", answer |-> FALSE])
    /\ Goto(t, "failed")
    /\ UNCHANGED <<turnVars, viewVars, session, messages, ambientVars>>

\* Mutant of FailExecute: the error is only logged and the loop goes round.
FailExecuteLogged(t) ==
    /\ pc[t] = "execute"
    /\ "executor" \in Faults
    /\ round[t] < MaxToolCalls
    /\ Goto(t, "read")
    /\ UNCHANGED <<turnVars, viewVars, storeVars, ambientVars>>

\* It fails when no tool is registered any more or an event handler fails, and
\* the results of the whole batch are lost.
FailExecute(t) ==
    /\ pc[t] = "execute"
    /\ "executor" \in Faults
    /\ Goto(t, "failed")
    /\ UNCHANGED <<turnVars, viewVars, storeVars, ambientVars>>

\* Mutant of AfterResult: one iteration too many.
AfterResultOneMore(t, k) ==
    IF k < Len(reply[t].calls) THEN "results"
    ELSE IF round[t] <= MaxToolCalls THEN "read" ELSE "exhaust"

\* Where Chat goes on after the k-th result of a response: to the next result,
\* once round the loop, or out of it.
AfterResult(t, k) ==
    IF k < Len(reply[t].calls) THEN "results"
    ELSE IF round[t] < MaxToolCalls THEN "read" ELSE "exhaust"

\* Mutant of StoreResult: the results are stored last call first.
StoreResultReversed(t) ==
    LET k == done[t] + 1
        m == ToolMessage(t, Reverse(reply[t].calls)[k])
    IN  /\ pc[t] = "results"
        /\ Store(m)
        /\ done' = [done EXCEPT ![t] = k]
        /\ Goto(t, AfterResult(t, k))
        /\ UNCHANGED <<startedAt, round, reply, viewVars, history, ambientVars>>

\* One iteration of storeToolResultEvents.
StoreResult(t) ==
    LET k == done[t] + 1
        m == ToolMessage(t, reply[t].calls[k])
    IN  /\ pc[t] = "results"
        /\ \/ /\ Store(m)
              /\ done' = [done EXCEPT ![t] = k]
              /\ Goto(t, AfterResult(t, k))
           \/ FailToStore(m) /\ Goto(t, "failed") /\ UNCHANGED done
        /\ UNCHANGED <<startedAt, round, reply, viewVars, history, ambientVars>>

\* Mutant of Finish: an error of HandleTurnEvent is only logged.
FinishLoggingError(t) ==
    LET row == [turn |-> t, at |-> startedAt[t], status |-> "complete", answer |-> reply[t].text]
    IN  /\ pc[t] = "finish"
        /\ Upsert(row) \/ FailToUpsert(row)
        /\ Goto(t, "answered")
        /\ UNCHANGED <<turnVars, viewVars, session, messages, ambientVars>>

\* finishTurn: the caller gets the answer only once the turn is recorded.
Finish(t) ==
    LET row == [turn |-> t, at |-> startedAt[t], status |-> "complete", answer |-> reply[t].text]
    IN  /\ pc[t] = "finish"
        /\ \/ Upsert(row) /\ Goto(t, "answered")
           \/ FailToUpsert(row) /\ Goto(t, "failed")
        /\ UNCHANGED <<turnVars, viewVars, session, messages, ambientVars>>

\* The budget is spent: the turn is recorded as incomplete and Chat returns
\* ErrMaxToolIterations; a failure to record it is only logged.
Exhaust(t) ==
    LET row == [turn |-> t, at |-> startedAt[t], status |-> "incomplete", answer |-> FALSE]
    IN  /\ pc[t] = "exhaust"
        /\ Upsert(row) \/ FailToUpsert(row)
        /\ Goto(t, "exhausted")
        /\ UNCHANGED <<turnVars, viewVars, session, messages, ambientVars>>

Chat(t) ==
    \/ StoreQuestion(t) \/ ReadMessages(t) \/ ReadHistory(t)
    \/ Complete(t) \/ FailComplete(t) \/ StoreReply(t)
    \/ Execute(t) \/ FailExecute(t) \/ StoreResult(t)
    \/ Finish(t) \/ Exhaust(t)

\* A second passes.
Tick ==
    /\ clock < MaxClock
    /\ clock' = clock + 1
    /\ UNCHANGED <<contextFull, pc, turnVars, viewVars, storeVars>>

\* Every turn has been asked and has ended.
Quiet ==
    /\ \A t \in Turns : pc[t] \in Ended
    /\ UNCHANGED vars

Next ==
    \/ \E t \in Turns : Begin(t) \/ FailPrompt(t) \/ Chat(t)
    \/ Tick
    \/ Quiet

\* The Go scheduler runs every started Chat on, and each call it makes returns.
Fairness == \A t \in Turns : WF_vars(Chat(t))

Spec == Init /\ [][Next]_vars /\ Fairness

----
\* Properties.

\* Every variable has its type; in particular no turn makes more LLM calls than
\* its budget, and the results stored of a response never outnumber its calls.
CallId == Turns \X (1..MaxToolCalls) \X (1..MaxBatch)
Message == [role : {"user", "assistant", "tool"}, turn : Turns, calls : Seq(CallId)]
Row == [turn : Turns, at : 0..MaxClock, status : {"complete", "incomplete"}, answer : BOOLEAN]
Label == {"idle", "ask", "read", "history", "complete", "reply", "execute", "results",
          "finish", "exhaust"} \cup Ended

TypeOK ==
    /\ pc \in [Turns -> Label]
    /\ startedAt \in [Turns -> 0..MaxClock]
    /\ round \in [Turns -> 0..MaxToolCalls]
    /\ reply \in [Turns -> [calls : Seq(CallId), text : BOOLEAN]]
    /\ done \in [Turns -> 0..MaxBatch]
    /\ \A t \in Turns : done[t] <= Len(reply[t].calls) /\ Len(reply[t].calls) <= MaxBatch
    /\ snapshot \in [Turns -> Seq(Message)]
    /\ DOMAIN context = Turns
    /\ session \in BOOLEAN
    /\ messages \in Seq(Message)
    /\ history \subseteq Row
    /\ clock \in 0..MaxClock
    /\ contextFull \in ContextModes

\* Does message m hold the answer to call c?
Answers(m, c) == m.role = "tool" /\ m.calls[1] = c

\* The results of a response are stored in the order of its calls, right behind
\* it: however turns interleave and wherever one breaks off, the message before a
\* tool result in its own turn is the response that makes the call, if the call
\* is the response's first, and the previous call's result otherwise.  Providers
\* reject a history where this does not hold.
InPlace(i) ==
    LET c == messages[i].calls[1]
    IN  \E j \in 1..(i - 1) :
           /\ messages[j].turn = messages[i].turn
           /\ \A k \in (j + 1)..(i - 1) : messages[k].turn # messages[i].turn
           /\ \/ messages[j].role = "assistant" /\ messages[j].calls[1] = c
              \/ Answers(messages[j], <<c[1], c[2], c[3] - 1>>)

AnswersInOrder == \A i \in DOMAIN messages : messages[i].role = "tool" => InPlace(i)

\* Every call a stored response of turn t makes is answered in the store.
AllAnswered(t) ==
    \A i \in DOMAIN messages :
        messages[i].turn = t /\ messages[i].role = "assistant" =>
            \A k \in DOMAIN messages[i].calls :
                \E j \in DOMAIN messages : Answers(messages[j], messages[i].calls[k])

\* Has turn t a stored response that makes no call?
HasAnswer(t) ==
    \E i \in DOMAIN messages :
        messages[i].turn = t /\ messages[i].role = "assistant" /\ messages[i].calls = <<>>

\* Between the LLM calls of a turn every tool result is in the store: the next
\* call never goes out with a result still missing (docs/mcp-protocol.md, "all
\* tool results must be available before the next LLM call").
AnsweredBeforeNextCall ==
    \A t \in Turns : pc[t] \in {"read", "history", "complete"} => AllAnswered(t)

\* The history rows, the messages and what Chat returned agree: an answered turn
\* is recorded as complete; a turn recorded as complete has its answer stored and
\* all its calls answered; one recorded as incomplete spent the whole budget on
\* calls that are all answered, and returned ErrMaxToolIterations.
LedgerMatchesMessages ==
    /\ \A t \in Turns : pc[t] = "answered" =>
          \E r \in history : r.turn = t /\ r.status = "complete"
    /\ \A r \in history :
          /\ AllAnswered(r.turn)
          /\ r.status = "complete" => HasAnswer(r.turn) /\ pc[r.turn] \in {"answered", "failed"}
          /\ r.status = "incomplete" =>
                /\ ~HasAnswer(r.turn)
                /\ round[r.turn] = MaxToolCalls
                /\ pc[r.turn] = "exhausted"

\* Did a read of the store fail on the way to the context of turn t?
Blind(t) == context[t] = <<>>

\* The LLM is shown its own turn exactly as stored, question first, whatever is
\* selected of the others (unless reading the messages failed: then nothing).
ContextHoldsTurn ==
    \A t \in Turns : pc[t] = "complete" =>
        Blind(t) \/ OfTurn(context[t], t) = OfTurn(messages, t)

\* Is the context of turn t one that BuildContextMessages selected, after both
\* reads succeeded?
Selected(t) == snapshot[t] = <<>> /\ ~Blind(t)

\* The responses of a context that may turn out to have no text.
Wordless(c) == {m \in ToSet(c) : m.role = "assistant" /\ m.calls = <<>>}

\* What the clients make of a context is a request both APIs accept: roles
\* alternate, every tool call is answered right behind the response that makes it,
\* whichever responses are empty, and a thinking budget fits the output limit.  A
\* selected lean context is accepted whatever failed; if turns overlap, only without
\* an incomplete turn, whose messages may have others between them.  Any other
\* context takes turns that do not overlap and no failed turn so far: one that fails
\* between a response and its results leaves calls in the store that stay unanswered.
RequestAccepted ==
    /\ EveryModelServed
    /\ \A t \in Turns :
        /\ pc[t] = "complete" /\ ~Blind(t)
        /\ \/ /\ contextFull = 0 /\ Selected(t)
              /\ Concurrent => \A r \in history : r.status = "complete"
           \/ ~Concurrent /\ \A u \in Turns : pc[u] # "failed"
        => /\ OpenAIAccepts(toOpenAIMessages(context[t]))
           /\ \A empty \in SUBSET Wordless(context[t]) :
                AnthropicAccepts(toAnthropicMessages(context[t], empty))

\* With turns that do not overlap, every recorded turn other than the current one
\* is in the context once: as its summary, or as its stored messages.
HistoryCovered ==
    \A t \in Turns : pc[t] = "complete" /\ ~Blind(t) =>
        \A r \in history : r.turn # t =>
            OfTurn(context[t], r.turn) \in {Summary(r), OfTurn(messages, r.turn)}

\* The completed turns of a context follow the clock, as summaries or in full: of
\* two of them the one asked in an earlier second comes first.  (Within a second
\* the order of summaries is that of the random turn ids, and an incomplete turn
\* comes after every summary, even of a later turn.)
CompletedInOrder ==
    \A t \in Turns : pc[t] = "complete" =>
        \A i, j \in DOMAIN context[t] :
            LET completed(k) == \E r \in history : r.status = "complete" /\ r.turn = context[t][k].turn
            IN  i < j /\ completed(i) /\ completed(j) =>
                  startedAt[context[t][i].turn] <= startedAt[context[t][j].turn]

\* In lean mode a context shows nothing of a turn that is not recorded, be it one
\* that failed or one that another request is running on the same thread, unless
\* the history could not be read.
ContextIsolated ==
    \A t \in Turns : pc[t] = "complete" /\ contextFull = 0 /\ Selected(t) =>
        \A i \in DOMAIN context[t] :
            context[t][i].turn = t \/ \E r \in history : r.turn = context[t][i].turn

\* Every turn that was begun ends.
Terminates == \A t \in Turns : pc[t] = "ask" ~> pc[t] \in Ended

\* Chat implements what TurnLedger promises of it.
Phase(t) == IF pc[t] \in Ended THEN pc[t] ELSE IF Idle(t) THEN "new" ELSE "open"
Recorded(t) == IF \E r \in history : r.turn = t
               THEN (CHOOSE r \in history : r.turn = t).status ELSE "none"

Ledger == INSTANCE TurnLedger WITH phase <- [t \in Turns |-> Phase(t)],
                                   ledger <- [t \in Turns |-> Recorded(t)]
ImplementsLedger == Ledger!Spec

\* The tool-call rounds turn t has made: its stored responses that make calls.
ToolRounds(t) ==
    {i \in DOMAIN messages : messages[i].turn = t /\ messages[i].role = "assistant"
                               /\ messages[i].calls # <<>>}

\* docs/mcp-protocol.md:374 promises a hard limit of two tool-call rounds per turn.
DocumentedRoundLimit == \A t \in Turns : Cardinality(ToolRounds(t)) <= 2
====
