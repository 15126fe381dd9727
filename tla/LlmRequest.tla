---- MODULE LlmRequest ----
(***************************************************************************)
(* What an LLM client sends for a context: the pure part of                *)
(* talk/internal/llm/{anthropic,openai} and of the model registry.         *)
(*                                                                         *)
(* A context is a sequence of the messages of ContextBuilder.  A request   *)
(* to Anthropic is a sequence of [role, blocks], a block being a text, the *)
(* use of a tool or the result of one; a request to an OpenAI-compatible   *)
(* API is a sequence of [role, calls].                                     *)
(***************************************************************************)
EXTENDS Integers, SequencesExt

Text == [type |-> "text", call |-> <<>>]
ToolUse(call) == [type |-> "tool_use", call |-> call]
ToolResult(call) == [type |-> "tool_result", call |-> call]

----
\* Anthropic.  The responses in empty have no text: only one that makes no call
\* can, since storeAssistantResponse gives the others a summary of their calls.

toAssistantParam(m, empty) ==
    (IF m \in empty THEN <<>> ELSE <<Text>>)
      \o [k \in DOMAIN m.calls |-> ToolUse(m.calls[k])]

\* A message as [role, blocks]: a tool message speaks for the user.
toSDKMessage(m, empty) ==
    IF m.role = "assistant"
    THEN [role |-> "assistant", blocks |-> toAssistantParam(m, empty)]
    ELSE [role |-> "user", blocks |-> IF m.role = "user" THEN <<Text>>
                                      ELSE <<ToolResult(m.calls[1])>>]

\* Mutant of Merge: every message stays one of its own.
MergeNothing(result, p) ==
    IF p.blocks = <<>> THEN result ELSE Append(result, p)

\* A message without content is skipped; one of the same role as the message
\* before it is merged into that one.
Merge(result, p) ==
    IF p.blocks = <<>> THEN result
    ELSE IF result # <<>> /\ Last(result).role = p.role
         THEN Append(Front(result), [Last(result) EXCEPT !.blocks = @ \o p.blocks])
         ELSE Append(result, p)

toAnthropicMessages(context, empty) ==
    FoldLeft(Merge, <<>>, [i \in DOMAIN context |-> toSDKMessage(context[i], empty)])

\* The calls the blocks of a type speak of.
CallsOf(p, type) == {b.call : b \in {c \in ToSet(p.blocks) : c.type = type}}

\* What the Messages API accepts: the user begins and the roles alternate, and
\* the tools one message uses are those the next brings results of.
AnthropicAccepts(request) ==
    /\ request # <<>>
    /\ \A i \in DOMAIN request :
          LET previous == IF i = 1 THEN {} ELSE CallsOf(request[i - 1], "tool_use")
          IN  /\ request[i].role = (IF i % 2 = 1 THEN "user" ELSE "assistant")
              /\ CallsOf(request[i], "tool_result") = previous
    /\ CallsOf(Last(request), "tool_use") = {}

----
\* OpenAI-compatible APIs.

\* Every message is one of the request; a tool message has one result.
toOpenAIMessages(context) ==
    [i \in DOMAIN context |-> [role |-> context[i].role, calls |-> context[i].calls]]

\* What the chat completions API accepts: right behind a message that calls tools
\* there is one result for each call, and there are no other results.
OpenAIAccepts(request) ==
    /\ request # <<>>
    /\ \A i \in DOMAIN request :
          LET n == Len(request[i].calls)
          IN  CASE request[i].role = "assistant" ->
                     /\ i + n <= Len(request)
                     /\ {request[i + k].calls : k \in 1..n} = {<<c>> : c \in ToSet(request[i].calls)}
                     /\ \A k \in 1..n : request[i + k].role = "tool"
                [] request[i].role = "tool" ->
                     \E j \in 1..(i - 1) : request[i].calls[1] \in ToSet(request[j].calls)
                [] OTHER -> TRUE

----
\* Output limits and thinking.

\* The models of the registry: their client, their limits (0: none documented),
\* how they think and the field an OpenAI-compatible API takes the limit in.
Registry == {
    [api |-> "anthropic", provider |-> 64000, ceiling |-> 8192, style |-> "budget", field |-> "none"],
    [api |-> "anthropic", provider |-> 64000, ceiling |-> 16384, style |-> "budget", field |-> "none"],
    [api |-> "anthropic", provider |-> 128000, ceiling |-> 16384, style |-> "adaptive", field |-> "none"],
    [api |-> "openai", provider |-> 100000, ceiling |-> 16384, style |-> "effort",
     field |-> "max_completion_tokens"],
    [api |-> "openai", provider |-> 16384, ceiling |-> 16384, style |-> "none", field |-> "max_tokens"],
    [api |-> "openai", provider |-> 0, ceiling |-> 8192, style |-> "none", field |-> "max_tokens"]}

EffectiveOutputLimit(m) ==
    IF m.provider > 0
    THEN IF m.ceiling > 0 /\ m.ceiling <= m.provider THEN m.ceiling ELSE m.provider
    ELSE m.ceiling

\* What /thinking offers, and what the server makes of the UI's forwarded
\* property, which may be anything.  A conversation that was told nothing has "".
thinkingLevels == {"off", "low", "medium", "high"}
extractThinkingEffort(value) == IF value \in {"low", "medium", "high"} THEN value ELSE "off"
Efforts ==
    {""} \cup thinkingLevels \cup {extractThinkingEffort(v) : v \in thinkingLevels \cup {"max"}}
Thinks(effort) == effort \notin {"", "off"}

\* The Messages API needs a limit, so without one there is a default.
MaxTokens(m) == IF EffectiveOutputLimit(m) = 0 THEN 4096 ELSE EffectiveOutputLimit(m)

\* A share of the output limit, but at least 1024.
thinkingBudget(effort, maxOutputTokens) ==
    LET share == (maxOutputTokens * (CASE effort = "high" -> 75
                                       [] effort = "medium" -> 50
                                       [] OTHER -> 25)) \div 100
    IN  IF share < 1024 THEN 1024 ELSE share

\* The options of a request to Anthropic; a thinking budget of 0 is none.
AnthropicOptions(m, effort) ==
    [max_tokens |-> MaxTokens(m),
     thinking |-> IF ~Thinks(effort) THEN "none"
                  ELSE CASE m.style = "adaptive" -> "adaptive"
                         [] m.style = "budget" -> "enabled"
                         [] OTHER -> "none",
     budget_tokens |-> IF Thinks(effort) /\ m.style = "budget"
                       THEN thinkingBudget(effort, MaxTokens(m)) ELSE 0]

\* The fields of an OpenAI request that carry the limit, 0 where there is none.
applyOutputLimit(m) ==
    [field \in {"max_tokens", "max_completion_tokens"} |->
        IF field = m.field THEN EffectiveOutputLimit(m) ELSE 0]

reasoning_effort(m, effort) ==
    IF m.style = "effort" /\ Thinks(effort) THEN effort ELSE ""

OpenAIOptions(m, effort) ==
    [limit |-> applyOutputLimit(m), effort |-> reasoning_effort(m, effort)]

\* What the client the router makes for a model sends.
Options(m, effort) ==
    IF m.api = "anthropic" THEN AnthropicOptions(m, effort) ELSE OpenAIOptions(m, effort)

\* What the APIs say of these options: a budget is 1024 at least and leaves room
\* for the answer; a model that reasons takes no max_tokens, others no effort; and
\* nobody is asked for more than it can give.
OptionsAccepted(m, o) ==
    IF m.api = "anthropic"
    THEN /\ o.thinking = "enabled" => o.budget_tokens \in 1024..(o.max_tokens - 1)
         /\ o.max_tokens <= m.provider
    ELSE /\ m.style = "effort" => o.limit["max_tokens"] = 0
         /\ o.effort # "" => m.style = "effort"
         /\ \A f \in DOMAIN o.limit : m.provider > 0 => o.limit[f] <= m.provider

\* Every model of the registry is served at every level of thinking.
EveryModelServed ==
    \A m \in Registry, effort \in Efforts : OptionsAccepted(m, Options(m, effort))
====
