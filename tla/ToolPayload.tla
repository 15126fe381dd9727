---- MODULE ToolPayload ----
(***************************************************************************)
(* What a tool's result says to whom: from the content blocks of the MCP   *)
(* server (talk/internal/mcp/tool_adapter.go) over the executor's result   *)
(* (domain/tool_executor.go) and the row of the session store (memory/     *)
(* sqlite/store.go) to the provider and to the client (domain/message.go). *)
(*                                                                         *)
(* A text is the sequence of the block texts it is joined from.  A payload *)
(* is the object a text was decoded from, or Wrap(text) when the text is   *)
(* no JSON object, or Nil: Go's nil map and JSON's null.  What is stored   *)
(* and sent is a JSON text, or Empty.                                      *)
(***************************************************************************)
EXTENDS SequencesExt

Nil == <<>>
Object(text) == <<"object", text>>
Wrap(text) == <<"content", text>>

JSON(value) == <<value>>
Empty == <<>>

\* The texts of blocks: a JSON object, JSON's null, and plain words.
Texts == {"object", "null", "words"}
Audiences == {"assistant", "user"}
Block == [text : Texts, audience : SUBSET Audiences]

----
\* The adapter.

\* A block without an audience is for everybody.
addressedTo(block, role) == block.audience = {} \/ role \in block.audience

textForAudience(content, role) ==
    LET mine == SelectSeq(content, LAMBDA b : addressedTo(b, role))
    IN  [i \in DOMAIN mine |-> mine[i].text]

\* json.Unmarshal into a map takes an object, and null, which leaves the map nil.
decodeToolText(text) ==
    CASE text = <<"object">> -> Object(text)
      [] text = <<"null">>   -> Nil
      [] OTHER               -> Wrap(text)

\* The end of Execute: Client is set only when it differs.
Output(content) ==
    LET model == textForAudience(content, "assistant")
        client == textForAudience(content, "user")
    IN  [Model |-> decodeToolText(model),
         Client |-> IF client # model THEN decodeToolText(client) ELSE Nil]

----
\* The executor and the store.

\* ExecuteTool: both payloads as JSON texts, Empty for no Client.
Result(call, output) ==
    [ToolCallID |-> call,
     Content |-> JSON(output.Model),
     ClientContent |-> IF output.Client # Nil THEN JSON(output.Client) ELSE Empty]

ClientPayload(result) ==
    IF result.ClientContent # Empty THEN result.ClientContent ELSE result.Content

\* formatToolError, for everybody.
ErrorResult(call) ==
    [ToolCallID |-> call, Content |-> JSON(<<"error">>), ClientContent |-> Empty]

\* The message of executeSingleTool.
ToolMessage(call, result) ==
    [role |-> "tool", ToolCalls |-> <<call>>, ToolResults |-> <<result>>]

\* Mutant of buildToolRoleFields: what the client was shown is what is stored.
clientFields(msg) ==
    [name |-> msg.ToolCalls[1].Name, callID |-> msg.ToolCalls[1].ID,
     input |-> msg.ToolCalls[1].Input, output |-> ClientPayload(msg.ToolResults[1]),
     clientOutput |-> msg.ToolResults[1].ClientContent]

\* The columns of a tool message.
buildToolRoleFields(msg) ==
    [name |-> msg.ToolCalls[1].Name, callID |-> msg.ToolCalls[1].ID,
     input |-> msg.ToolCalls[1].Input, output |-> msg.ToolResults[1].Content,
     clientOutput |-> msg.ToolResults[1].ClientContent]

\* The message read back from them.
buildToolMessage(f) ==
    [role |-> "tool",
     ToolCalls |-> <<[ID |-> f.callID, Name |-> f.name, Input |-> f.input]>>,
     ToolResults |-> <<[ToolCallID |-> f.callID, Content |-> f.output,
                        ClientContent |-> f.clientOutput]>>]

\* AllMessages of the session: each row scanned by its role.  The row of an
\* assistant message holds its calls as JSON, or nothing.
AllMessages(rows) ==
    [i \in DOMAIN rows |->
        CASE rows[i].role = "tool" -> buildToolMessage(rows[i].fields)
          [] rows[i].role = "assistant" ->
                [role |-> "assistant",
                 ToolCalls |-> IF rows[i].fields = Empty THEN <<>> ELSE Head(rows[i].fields)]
          [] OTHER -> [role |-> "user"]]

buildAssistantToolInput(calls) == IF calls = <<>> THEN Empty ELSE JSON(calls)

\* The row HandleMessageEvent inserts.
RowOf(msg) ==
    [role |-> msg.role,
     fields |-> CASE msg.role = "tool" -> buildToolRoleFields(msg)
                  [] msg.role = "assistant" -> buildAssistantToolInput(msg.ToolCalls)
                  [] OTHER -> Empty]

----
\* A tool's result says to the provider what its content addresses to the
\* assistant, and to the client what it addresses to the user (unless that is
\* JSON's null: then the client is shown the assistant's text).
Addressed(content, result) ==
    LET user == textForAudience(content, "user")
    IN  /\ result.Content = JSON(decodeToolText(textForAudience(content, "assistant")))
        /\ user # <<"null">> => ClientPayload(result) = JSON(decodeToolText(user))
====
