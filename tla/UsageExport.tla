---- MODULE UsageExport ----
(***************************************************************************)
(* What a turn's usage goes through: Chat adds it up (talk/internal/domain *)
(* /conversation.go), the handler pipeline stores each event and then      *)
(* reports it (domain/usage.go), and the Langfuse reporter (talk/internal/ *)
(* usage/langfuse.go, otlp.go) queues it for a worker that posts one span  *)
(* per event.                                                              *)
(*                                                                         *)
(* Only the REPL has reporters: its turns run one after the other, all with *)
(* one conversation manager, while the worker sends and the owner of the   *)
(* reporter may close it (no command of the program does).  Of a usage one *)
(* count of tokens is kept.                                                *)
(***************************************************************************)
EXTENDS Integers, FiniteSetsExt, SequencesExt

CONSTANTS
    Turns,     \* calls of Chat
    Models,    \* of the registry: [Name, OLTPProvider, APIModelID]
    Tokens,    \* what one LLM call may use
    MaxCalls,  \* the LLM calls of a turn (the code's maxToolCalls)
    Capacity,  \* of the reporter's queue (1000 in the code)
    None       \* not an event

ASSUME CapacityAssumption == Capacity \in Nat \ {0}
ASSUME MaxCallsAssumption == MaxCalls \in Nat \ {0}
ASSUME TokensAssumption == Tokens \subseteq Nat

VARIABLES
    manager,     \* the model of its client, and the provider it reports
    alive,       \* is the process running?
    pc,          \* where Chat is for each turn
    reported,    \* the Model that each turn's events carry
    total,       \* totalUsage
    count,       \* callCount
    event,       \* the event the pipeline handles
    stored,      \* ghost: the events whose store phase succeeded
    queue,       \* eventBuffer
    inHand,      \* the event the worker sends
    closing,     \* Close: "open", "cancelled", "closed" or "returned"
    sent         \* the spans Langfuse has, in the order of their requests

chatVars == <<reported, total, count>>
reporterVars == <<queue, inHand, closing, sent>>
processVars == <<manager, alive>>
vars == <<processVars, pc, chatVars, event, stored, reporterVars>>

Running(t) == pc[t] \notin {"idle", "ended"}

\* The manager for a model, as run builds it.
NewManager(m) == [client |-> m, oltpProvider |-> m.OLTPProvider]

\* The Model of an event is built from the manager's alias and provider.
EventModel(mgr) ==
    [Name |-> mgr.client.Name, OLTPProvider |-> mgr.oltpProvider, APIModelID |-> ""]

Init ==
    /\ manager = NewManager(CHOOSE m \in Models : TRUE)
    /\ alive = TRUE
    /\ pc = [t \in Turns |-> "idle"]
    /\ reported = [t \in Turns |-> EventModel(manager)]
    /\ total = [t \in Turns |-> 0]
    /\ count = [t \in Turns |-> 0]
    /\ event = [t \in Turns |-> None]
    /\ stored = {}
    /\ queue = <<>> /\ inHand = None /\ closing = "open" /\ sent = <<>>

----
\* The REPL between turns.

AtPrompt == alive /\ \A t \in Turns : ~Running(t)

\* cmdModel: SetClient replaces the client and the alias, not the provider.
SetClient(m) ==
    /\ AtPrompt
    /\ m # manager.client
    /\ manager' = [manager EXCEPT !.client = m]
    /\ UNCHANGED <<alive, pc, chatVars, event, stored, reporterVars>>

\* The REPL reads EOF: what the queue still holds goes with the process.
Exit ==
    /\ AtPrompt
    /\ alive' = FALSE
    /\ pc' = [t \in Turns |-> "ended"]
    /\ total' = [t \in Turns |-> 0] /\ count' = total'
    /\ event' = [t \in Turns |-> None]
    /\ queue' = <<>> /\ inHand' = None
    /\ UNCHANGED <<manager, reported, stored, closing, sent>>

----
\* Chat, as far as its usage goes.

\* The user message is stored; the reporter ignores it.  (When the prompt or the
\* store fails here, nothing has happened.)
Start(t) ==
    /\ AtPrompt /\ pc[t] = "idle"
    /\ reported' = [reported EXCEPT ![t] = EventModel(manager)]
    /\ pc' = [pc EXCEPT ![t] = "llm"]
    /\ UNCHANGED <<processVars, total, count, event, stored, reporterVars>>

\* Any call Chat makes outside the reporter fails, and Chat with it.
Fail(t) ==
    /\ alive /\ pc[t] \in {"llm", "store", "tools"}
    /\ pc' = [pc EXCEPT ![t] = "ended"]
    /\ event' = [event EXCEPT ![t] = None]
    /\ UNCHANGED <<processVars, chatVars, stored, reporterVars>>

\* Mutant of Add: the last call's usage instead of the sum.
Replace(sum, tokens) == tokens

\* Usage.Add.
Add(sum, tokens) == sum + tokens

\* Complete returns; the response is stored with its usage.
Complete(t) ==
    /\ alive /\ pc[t] = "llm"
    /\ \E tokens \in Tokens, tools \in BOOLEAN :
           /\ total' = [total EXCEPT ![t] = Add(@, tokens)]
           /\ count' = [count EXCEPT ![t] = @ + 1]
           /\ event' = [event EXCEPT ![t] =
                  [kind |-> "message", turn |-> t, n |-> count'[t], tokens |-> tokens,
                   tools |-> tools, model |-> reported[t]]]
    /\ pc' = [pc EXCEPT ![t] = "store"]
    /\ UNCHANGED <<processVars, reported, stored, reporterVars>>

\* The event that ends a turn.
TurnEvent(t) ==
    [kind |-> "turn", turn |-> t, n |-> count[t], tokens |-> total[t],
     tools |-> FALSE, model |-> reported[t]]

\* The tools ran and their results are stored: another call, or the incomplete
\* turn is recorded.
Tools(t) ==
    /\ alive /\ pc[t] = "tools"
    /\ IF count[t] < MaxCalls
       THEN pc' = [pc EXCEPT ![t] = "llm"] /\ UNCHANGED event
       ELSE pc' = [pc EXCEPT ![t] = "store"] /\ event' = [event EXCEPT ![t] = TurnEvent(t)]
    /\ UNCHANGED <<processVars, chatVars, stored, reporterVars>>

\* Where Chat goes after an event: round the loop, to its turn event, or back.
\* finishTurn follows a response without tool calls at once.
AfterEvent(t) ==
    IF event[t].kind = "turn"
    THEN pc' = [pc EXCEPT ![t] = "ended"] /\ event' = [event EXCEPT ![t] = None]
    ELSE IF event[t].tools
    THEN pc' = [pc EXCEPT ![t] = "tools"] /\ event' = [event EXCEPT ![t] = None]
    ELSE pc' = [pc EXCEPT ![t] = "store"] /\ event' = [event EXCEPT ![t] = TurnEvent(t)]

----
\* The handler pipeline: the store's phase, then the reporters'.

\* Mutant of runPhases: the store and the reporters in one phase.
OnePhase(t) ==
    /\ alive /\ pc[t] = "store"
    /\ pc' = [pc EXCEPT ![t] = "report"]
    /\ UNCHANGED <<processVars, chatVars, event, stored, reporterVars>>

\* The store's phase ends without an error (with one: Fail), so the reporters'
\* begins.
runPhases(t) ==
    /\ alive /\ pc[t] = "store"
    /\ stored' = stored \cup {event[t]}
    /\ pc' = [pc EXCEPT ![t] = "report"]
    /\ UNCHANGED <<processVars, chatVars, event, reporterVars>>

Room == closing \in {"open", "cancelled"} /\ Len(queue) < Capacity

\* The select of HandleMessageEvent and HandleTurnEvent, buffering the event.
Enqueue(t) ==
    /\ alive /\ pc[t] = "report" /\ Room
    /\ queue' = Append(queue, event[t])
    /\ AfterEvent(t)
    /\ UNCHANGED <<processVars, chatVars, stored, inHand, closing, sent>>

\* Mutant of MayDrop: the select has no default.
NoDefault == closing # "open"

\* Its other cases are ready: done is closed, or the buffer has no room.
MayDrop == closing # "open" \/ ~Room

Drop(t) ==
    /\ alive /\ pc[t] = "report" /\ MayDrop
    /\ AfterEvent(t)
    /\ UNCHANGED <<processVars, chatVars, stored, reporterVars>>

\* The select takes the send on the closed channel, which panics; runPhase
\* recovers, and Chat returns the error.
Panic(t) ==
    /\ alive /\ pc[t] = "report" /\ closing \in {"closed", "returned"}
    /\ pc' = [pc EXCEPT ![t] = "ended"]
    /\ event' = [event EXCEPT ![t] = None]
    /\ UNCHANGED <<processVars, chatVars, stored, reporterVars>>

----
\* The worker, and Close.

\* apiCallToOTLP.
apiCallToOTLP(e) ==
    [trace |-> e.turn, name |-> "llm", start |-> e.n, tokens |-> e.tokens,
     model |-> e.model.APIModelID, provider |-> e.model.OLTPProvider]

\* conversationTurnToOTLP; it starts before any call of the turn, and its n is
\* the attribute call_count.
conversationTurnToOTLP(e) ==
    [trace |-> e.turn, name |-> "conversation_turn", start |-> e.n, tokens |-> e.tokens,
     model |-> e.model.Name, provider |-> ""]

Take ==
    /\ alive /\ inHand = None /\ queue # <<>>
    /\ inHand' = Head(queue)
    /\ queue' = Tail(queue)
    /\ UNCHANGED <<processVars, pc, chatVars, event, stored, closing, sent>>

\* processEvent; the worker goes on after an error too, and never tries again.
processEvent(e) == IF e.kind = "turn" THEN conversationTurnToOTLP(e) ELSE apiCallToOTLP(e)

SendTrace ==
    /\ alive /\ inHand # None
    /\ sent' \in {sent, Append(sent, processEvent(inHand))}
    /\ inHand' = None
    /\ UNCHANGED <<processVars, pc, chatVars, event, stored, queue, closing>>

\* The worker's range over the closed channel has come to its end.
WorkerDone == queue = <<>> /\ inHand = None

\* Close: cancel, close the channel, wait for the worker.
Close ==
    /\ alive
    /\ \/ closing = "open" /\ closing' = "cancelled"
       \/ closing = "cancelled" /\ closing' = "closed"
       \/ closing = "closed" /\ WorkerDone /\ closing' = "returned"
    /\ UNCHANGED <<processVars, pc, chatVars, event, stored, queue, inHand, sent>>

----
Report(t) == Enqueue(t) \/ Drop(t) \/ Panic(t)
Chat(t) == Start(t) \/ Fail(t) \/ Complete(t) \/ Tools(t) \/ runPhases(t) \/ Report(t)

Next ==
    \/ \E t \in Turns : Chat(t)
    \/ \E m \in Models : SetClient(m)
    \/ Exit
    \/ Take \/ SendTrace
    \/ Close

\* A goroutine that can run does; the worker may wait for Langfuse as long as
\* the HTTP client lets it, so nothing is assumed of it.
Fairness == \A t \in Turns : WF_vars(Running(t) /\ Chat(t))

Spec == Init /\ [][Next]_vars /\ Fairness

----
\* Langfuse never has a span of an event the session store does not have: the
\* reporters' phase comes after the store's, whatever the interleaving.
ExportedWasStored ==
    /\ \A e \in ToSet(queue) \cup ({inHand} \ {None}) : e \in stored
    /\ \A s \in ToSet(sent) : \E e \in stored : s = processEvent(e)

\* The spans of a turn's calls, where the span at i is the turn's own.
CallSpans(i) == {j \in DOMAIN sent : sent[j].trace = sent[i].trace /\ j # i}

\* Whatever is dropped or refused on the way, the span of a turn comes behind the
\* spans of its calls, and there are no more of them than its call_count says.
SpansInOrder ==
    \A i \in DOMAIN sent : sent[i].name = "conversation_turn" =>
        /\ \A j \in CallSpans(i) : j < i
        /\ Cardinality(CallSpans(i)) <= sent[i].start

\* The tokens of the spans at these positions.
TokensOf(S) == MapThenSumSet(LAMBDA j : sent[j].tokens, S)

\* The span of a turn comes behind the spans of its calls, adds up at least
\* their tokens, and exactly those when none of them was dropped or refused.
TurnSpanSumsUp ==
    /\ SpansInOrder
    /\ \A i \in DOMAIN sent : sent[i].name = "conversation_turn" =>
           /\ TokensOf(CallSpans(i)) <= sent[i].tokens
           /\ Cardinality(CallSpans(i)) = sent[i].start =>
                  TokensOf(CallSpans(i)) = sent[i].tokens

\* No turn ever waits for the reporter: with a full queue and a Langfuse that
\* does not answer, Chat still returns, unless the process ends.
TurnsEnd == \A t \in Turns : Running(t) ~> ~Running(t)

\* What docs/langfuse.md says is sent: the model and the provider of a call.
GenerationsNameModel ==
    \A s \in ToSet(sent) : s.name = "llm" =>
        \E m \in Models : s.model = m.APIModelID /\ s.provider = m.OLTPProvider
====
