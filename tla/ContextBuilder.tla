---- MODULE ContextBuilder ----
(***************************************************************************)
(* The pure part of talk/internal/domain/context_builder.go: which stored  *)
(* messages and which history rows make up the context of an LLM call.     *)
(*                                                                         *)
(* A message is [role, turn, calls]: an assistant message lists the tool   *)
(* calls it makes, a tool message the one call it answers.  Its text is    *)
(* abstracted, except for whether an answer is empty, which decides what a *)
(* summary consists of.  A history row is [turn, at, status, answer].      *)
(***************************************************************************)
EXTENDS Integers, SequencesExt

\* The turn id of a message stored without one (the code's "").
NoTurn == 0

UserMessage(t) == [role |-> "user", turn |-> t, calls |-> <<>>]
AssistantMessage(t, calls) == [role |-> "assistant", turn |-> t, calls |-> calls]
ToolMessage(t, call) == [role |-> "tool", turn |-> t, calls |-> <<call>>]

\* The messages that pass a test, in their order: SelectSeq, by a definition that
\* proofs can expand.
Where(messages, Test(_)) ==
    FlattenSeq([i \in DOMAIN messages |-> IF Test(messages[i]) THEN <<messages[i]>> ELSE <<>>])

\* The messages of one turn, in the order of the sequence.
OfTurn(messages, t) == Where(messages, LAMBDA m : m.turn = t)

----
isPreviousUserTurn(m, current) ==
    m.role = "user" /\ m.turn # NoTurn /\ m.turn # current

\* The last n turns, by their first user message, among those before the
\* current one.
lastNTurnIDs(messages, current, n) ==
    LET asked == {i \in DOMAIN messages : isPreviousUserTurn(messages[i], current)}
        opens == {i \in asked : \A j \in asked : messages[j].turn = messages[i].turn => i <= j}
    IN  {messages[i].turn : i \in {k \in opens : Cardinality({j \in opens : j > k}) < n}}

\* Mutant of selectDetailedTurnIDs: the current turn is forgotten.
selectWithoutCurrent(messages, turns, current, contextFull) ==
    (IF contextFull > 0 THEN lastNTurnIDs(messages, current, contextFull) ELSE {})
      \cup {r.turn : r \in {s \in ToSet(turns) : s.status = "incomplete"}}

\* The turns whose messages the context carries in full.
selectDetailedTurnIDs(messages, turns, current, contextFull) ==
    {current}
      \cup (IF contextFull > 0 THEN lastNTurnIDs(messages, current, contextFull) ELSE {})
      \cup {r.turn : r \in {s \in ToSet(turns) : s.status = "incomplete"}}

\* The selected turns of which at least one message is stored.
buildAvailableDetailedSet(messages, detailed) ==
    {m.turn : m \in ToSet(messages)} \cap (detailed \ {NoTurn})

\* A history row as messages: the question, which is never empty, and the answer
\* unless it is.
Summary(row) ==
    <<UserMessage(row.turn)>>
      \o (IF row.answer THEN <<AssistantMessage(row.turn, <<>>)>> ELSE <<>>)

Summaries(rows) == FlattenSeq([i \in DOMAIN rows |-> Summary(rows[i])])

\* Mutant of historyTurnsAsMessages: turns shown in full are summarised too.
historyTurnsTwice(turns, detailed, current) ==
    FlattenSeq([i \in DOMAIN turns |->
                   IF turns[i].turn = current THEN <<>> ELSE Summary(turns[i])])

historyTurnsAsMessages(turns, detailed, current) ==
    FlattenSeq([i \in DOMAIN turns |->
                   IF turns[i].turn \in detailed \cup {current} THEN <<>> ELSE Summary(turns[i])])

\* The possible fallback summaries: selected turns with no stored message, in
\* the order a Go map happens to iterate over them.
appendFallbackSummaries(turns, detailed, available, current) ==
    LET missing == {r \in ToSet(turns) : r.turn \in detailed \ (available \cup {current})}
    IN  {Summaries(order) : order \in SetToSeqs(missing)}

\* Mutant of appendDetailedMessages: no message is left out.
appendAllMessages(messages, detailed) == messages

appendDetailedMessages(messages, detailed) ==
    Where(messages, LAMBDA m : m.turn = NoTurn \/ m.turn \in detailed)

\* Every context BuildContextMessages may return for these two reads.
BuildContextMessages(messages, turns, current, contextFull) ==
    IF contextFull < 0 THEN {messages}
    ELSE LET detailed == selectDetailedTurnIDs(messages, turns, current, contextFull)
             available == buildAvailableDetailedSet(messages, detailed)
         IN  {historyTurnsAsMessages(turns, detailed, current)
                \o fallback \o appendDetailedMessages(messages, detailed) :
              fallback \in appendFallbackSummaries(turns, detailed, available, current)}
====
