---------------------------- MODULE WireProtocols ----------------------------
(***************************************************************************)
(* The four wire protocols the gateway speaks (src/gateway/wire-proxy.ts): *)
(* how a request is read, how an answer is streamed and read back, and how *)
(* a notice is put into a request.  Pure operators.                        *)
(*                                                                         *)
(* A request body is a sequence of messages [role, parts].  A part is a    *)
(* text, a tool call or a tool result:                                     *)
(*     [k, id, name, text, str]                                            *)
(* text is a sequence of tokens; str says that the content is a string     *)
(* (FALSE: a list of text blocks).  "chat-completions" and "responses" put *)
(* every result in an item of its own, the other two group them.           *)
(* A call is [id, name, args]; the JSON of its arguments is a sequence of  *)
(* characters, so that it can be cut.                                      *)
(***************************************************************************)
EXTENDS Integers, Sequences, SequencesExt, FiniteSets

Wires == {"chat-completions", "responses", "anthropic", "gemini"}

\* JavaScript's undefined, for an id or a tool that is not there
Absent == "absent"

NoArgs == "{}"

Map(s, Op(_)) == [i \in 1..Len(s) |-> Op(s[i])]

(***************************************************************************)
(* JSON of arguments.  JSON.stringify of an object has at least the two    *)
(* braces; a text that is not a complete object parses to {}.              *)
(***************************************************************************)
stringify(args) == IF args = NoArgs THEN <<"{", "}">> ELSE <<"{", args, "}">>

safeJsonParse(s) ==
    IF Len(s) = 3 /\ s[1] = "{" /\ s[3] = "}" THEN s[2] ELSE NoArgs

halves(s) ==
    LET mid == (Len(s) + 1) \div 2
    IN  SelectSeq(<<SubSeq(s, 1, mid), SubSeq(s, mid + 1, Len(s))>>, LAMBDA h : h # <<>>)

(***************************************************************************)
(* Requests                                                                *)
(***************************************************************************)
\* Which tool of the request runs a shell command, and by which parameter.
\* A tool is [name, shell (the name matches SHELL_NAME), command (the first of
\* "command", "cmd" that is a string, or Absent), function].
discoverShellTool(tools) ==
    LET fits == {i \in 1..Len(tools) : tools[i].shell /\ tools[i].command # Absent}
    IN  IF fits = {} THEN Absent
        ELSE tools[CHOOSE i \in fits : \A j \in fits : i <= j]

\* The tools a request offers: "responses" keeps the functions only.
ToolsOf(wire, body) ==
    IF wire = "responses" THEN SelectSeq(body.tools, LAMBDA t : t.function) ELSE body.tools

\* Gemini may leave the id out; the name then stands for it.
IdOf(wire, p) == IF wire = "gemini" /\ p.id = Absent THEN p.name ELSE p.id

PartsOf(msgs) == FlattenSeq(Map(msgs, LAMBDA m : m.parts))

CallsIn(wire, msgs) ==
    Map(SelectSeq(PartsOf(msgs), LAMBDA p : p.k = "call"),
        LAMBDA p : [id |-> IdOf(wire, p), name |-> p.name])

ResultsIn(wire, msgs) ==
    Map(SelectSeq(PartsOf(msgs), LAMBDA p : p.k = "result"),
        LAMBDA p : [callId |-> IdOf(wire, p), text |-> p.text])

parseWireRequest(wire, body) ==
    [wire |-> wire, main |-> ToolsOf(wire, body) # <<>>,
     shellTool |-> discoverShellTool(ToolsOf(wire, body)),
     conversation |-> body.msgs,
     toolCalls |-> CallsIn(wire, body.msgs), toolResults |-> ResultsIn(wire, body.msgs)]

(***************************************************************************)
(* Streaming an answer.  An answer is a sequence of operations of the      *)
(* writer, [op |-> "text", text] and [op |-> "call", call]; openWireStream *)
(* turns it into the frames of the protocol.                               *)
(***************************************************************************)
Text(t) == [op |-> "text", text |-> t]
Call(c) == [op |-> "call", call |-> c]

ChatStream(ops) ==
    LET calls(i) == Cardinality({j \in 1..i-1 : ops[j].op = "call"})
        frames(i) ==
            IF ops[i].op = "text" THEN <<[f |-> "delta", text |-> ops[i].text]>>
            ELSE <<[f |-> "tool", index |-> calls(i), id |-> ops[i].call.id,
                    name |-> ops[i].call.name]>>
                 \o Map(halves(stringify(ops[i].call.args)),
                        LAMBDA h : [f |-> "args", index |-> calls(i), piece |-> h])
    IN  <<[f |-> "role"]>> \o FlattenSeq([i \in 1..Len(ops) |-> frames(i)])
        \o <<[f |-> "finish"], [f |-> "usage"]>>

\* output: the items so far; open: the text of the message that is open.
ResponsesStream(ops) ==
    LET Item(c) == [type |-> "function_call", id |-> c.id, name |-> c.name,
                    arguments |-> stringify(c.args)]
        Message(t) == [type |-> "message", text |-> t]
        closeMessage(st) ==
            IF st.open = <<>> THEN st
            ELSE [frames |-> Append(st.frames, [f |-> "item.done", item |-> Message(st.open)]),
                  output |-> Append(st.output, Message(st.open)), open |-> <<>>]
        write(st, o) ==
            IF o.op = "text"
            THEN [st EXCEPT !.frames = @ \o (IF st.open = <<>>
                                             THEN <<[f |-> "item.added"]>> ELSE <<>>)
                                         \o <<[f |-> "text.delta", text |-> o.text]>>,
                            !.open = @ \o o.text]
            ELSE LET c == closeMessage(st)
                 IN  [c EXCEPT !.frames = @ \o <<[f |-> "item.added"]>>
                          \o Map(halves(stringify(o.call.args)), LAMBDA h : [f |-> "args.delta"])
                          \o <<[f |-> "item.done", item |-> Item(o.call)]>>,
                               !.output = Append(@, Item(o.call))]
        last == closeMessage(FoldLeft(write, [frames |-> <<[f |-> "created"]>>,
                                              output |-> <<>>, open |-> <<>>], ops))
    IN  Append(last.frames, [f |-> "completed", output |-> last.output])

AnthropicStream(ops) ==
    LET closeText(st) ==
            IF ~st.textOpen THEN st
            ELSE [frames |-> Append(st.frames, [f |-> "block_stop", index |-> st.index]),
                  index |-> st.index + 1, textOpen |-> FALSE]
        write(st, o) ==
            IF o.op = "text"
            THEN [st EXCEPT !.frames = @ \o (IF st.textOpen THEN <<>>
                                  ELSE <<[f |-> "block_start", index |-> st.index,
                                          type |-> "text", id |-> Absent, name |-> Absent]>>)
                                  \o <<[f |-> "text_delta", index |-> st.index, text |-> o.text]>>,
                            !.textOpen = TRUE]
            ELSE LET c == closeText(st)
                 IN  [c EXCEPT !.frames = @
                          \o <<[f |-> "block_start", index |-> c.index, type |-> "tool_use",
                                id |-> o.call.id, name |-> o.call.name]>>
                          \o Map(halves(stringify(o.call.args)),
                                 LAMBDA h : [f |-> "json_delta", index |-> c.index, piece |-> h])
                          \o <<[f |-> "block_stop", index |-> c.index]>>,
                               !.index = @ + 1]
        last == closeText(FoldLeft(write, [frames |-> <<[f |-> "message_start"]>>,
                                           index |-> 0, textOpen |-> FALSE], ops))
    IN  last.frames \o <<[f |-> "message_delta"], [f |-> "message_stop"]>>

GeminiStream(ops) ==
    Append(Map(ops, LAMBDA o : IF o.op = "text" THEN [f |-> "text", text |-> o.text]
                               ELSE [f |-> "functionCall", call |-> o.call]),
           [f |-> "text", text |-> <<>>])

openWireStream(wire, ops) ==
    CASE wire = "chat-completions" -> ChatStream(ops)
      [] wire = "responses" -> ResponsesStream(ops)
      [] wire = "anthropic" -> AnthropicStream(ops)
      [] wire = "gemini" -> GeminiStream(ops)

(***************************************************************************)
(* Reading an answer back                                                  *)
(***************************************************************************)
TextIn(frames, f) ==
    FlattenSeq(Map(SelectSeq(frames, LAMBDA x : x.f = f), LAMBDA x : x.text))

\* Deltas are joined by their index, and the calls put in its order.
ByIndex(starts, pieces) ==
    LET rank == SetToSortSeq({x.index : x \in ToSet(starts)}, <)
        head(i) == SelectSeq(starts, LAMBDA x : x.index = i)
        json(i) == FlattenSeq(Map(SelectSeq(pieces, LAMBDA x : x.index = i),
                                  LAMBDA x : x.piece))
    IN  Map(rank, LAMBDA i : [id |-> Last(head(i)).id, name |-> Last(head(i)).name,
                              args |-> safeJsonParse(json(i))])

ChatResponse(frames) ==
    [text |-> TextIn(frames, "delta"),
     toolCalls |-> ByIndex(SelectSeq(frames, LAMBDA x : x.f = "tool"),
                           SelectSeq(frames, LAMBDA x : x.f = "args"))]

\* An item arrives when it is done and again in the completed response.
FirstOfEachId(items) ==
    LET firsts == {i \in 1..Len(items) : \A j \in 1..i-1 : items[j].id # items[i].id}
    IN  Map(SetToSortSeq(firsts, <), LAMBDA i : items[i])

ResponsesResponse(frames) ==
    LET itemsOf(x) == CASE x.f = "item.done" -> <<x.item>>
                        [] x.f = "completed" -> x.output
                        [] OTHER -> <<>>
        calls == SelectSeq(FlattenSeq(Map(frames, itemsOf)),
                           LAMBDA i : i.type = "function_call")
    IN  [text |-> TextIn(frames, "text.delta"),
         toolCalls |-> Map(FirstOfEachId(calls),
                           LAMBDA i : [id |-> i.id, name |-> i.name,
                                       args |-> safeJsonParse(i.arguments)])]

AnthropicResponse(frames) ==
    [text |-> TextIn(frames, "text_delta"),
     toolCalls |-> ByIndex(SelectSeq(frames, LAMBDA x : x.f = "block_start" /\ x.type = "tool_use"),
                           SelectSeq(frames, LAMBDA x : x.f = "json_delta"))]

GeminiResponse(frames) ==
    [text |-> TextIn(frames, "text"),
     toolCalls |-> Map(SelectSeq(frames, LAMBDA x : x.f = "functionCall"), LAMBDA x : x.call)]

parseWireResponse(wire, frames) ==
    CASE wire = "chat-completions" -> ChatResponse(frames)
      [] wire = "responses" -> ResponsesResponse(frames)
      [] wire = "anthropic" -> AnthropicResponse(frames)
      [] wire = "gemini" -> GeminiResponse(frames)

(***************************************************************************)
(* Notices                                                                 *)
(***************************************************************************)
\* The account of an interrupted tool call, recognised by its first words.
Recovery == "recovery notice"

Enriched(text) == IF Recovery \in ToSet(text) THEN text ELSE Append(text, Recovery)

CallPart(rec) == [k |-> "call", id |-> rec.callId, name |-> rec.name, text |-> <<>>, str |-> TRUE]
ResultPart(rec) == [k |-> "result", id |-> rec.callId, name |-> rec.name,
                    text |-> <<Recovery>>, str |-> TRUE]

ResultRole(wire) == IF wire \in {"chat-completions", "responses"} THEN "tool" ELSE "user"

\* Mutant: one place too early.
InsertBeforeLastTwo(msgs, new) ==
    LET at == IF Len(msgs) <= 1 THEN 0 ELSE Len(msgs) - 2
    IN  SubSeq(msgs, 1, at) \o new \o SubSeq(msgs, at + 1, Len(msgs))

\* messages.splice(max(0, length - 1), 0, ...): before the latest message
InsertBeforeLast(msgs, new) ==
    LET at == IF Len(msgs) = 0 THEN 0 ELSE Len(msgs) - 1
    IN  SubSeq(msgs, 1, at) \o new \o SubSeq(msgs, at + 1, Len(msgs))

\* Which results are enriched: Gemini's also by the name of the tool.
Answers(wire, p, rec) ==
    /\ p.k = "result"
    /\ p.id = rec.callId \/ (wire = "gemini" /\ p.name = rec.name)

EnrichParts(wire, msgs, rec) ==
    Map(msgs, LAMBDA m : [m EXCEPT !.parts =
        Map(@, LAMBDA p : IF Answers(wire, p, rec)
                          THEN [p EXCEPT !.text = Enriched(@), !.str = TRUE] ELSE p)])

EnrichFirst(results, rec) ==
    LET hits == {i \in 1..Len(results) : results[i].callId = rec.callId}
        first == CHOOSE i \in hits : \A j \in hits : i <= j
    IN  [results EXCEPT ![first].text = Enriched(@)]

\* Gives the body and the parsed request, which the code updates side by side.
injectInterruptedToolAccount(wire, body, parsed, rec) ==
    LET hasCall == \E i \in 1..Len(parsed.toolCalls) : parsed.toolCalls[i].id = rec.callId
        answered == \E i \in 1..Len(parsed.toolResults) :
                        parsed.toolResults[i].callId = rec.callId
        callMsg == [role |-> "assistant", parts |-> <<CallPart(rec)>>]
        resultMsg == [role |-> ResultRole(wire), parts |-> <<ResultPart(rec)>>]
        call == [id |-> rec.callId, name |-> rec.name]
        result == [callId |-> rec.callId, text |-> <<Recovery>>]
        put(msgs, calls, results) ==
            [body |-> [body EXCEPT !.msgs = msgs],
             parsed |-> [parsed EXCEPT !.conversation = msgs, !.toolCalls = calls,
                                       !.toolResults = results]]
    IN  CASE ~hasCall ->
               put(InsertBeforeLast(body.msgs, <<callMsg, resultMsg>>),
                   Append(parsed.toolCalls, call), Append(parsed.toolResults, result))
          [] hasCall /\ ~answered ->
               put(InsertBeforeLast(body.msgs, <<resultMsg>>),
                   parsed.toolCalls, Append(parsed.toolResults, result))
          [] OTHER ->
               put(EnrichParts(wire, body.msgs, rec), parsed.toolCalls,
                   EnrichFirst(parsed.toolResults, rec))

\* Where a notice about stale context can go: the last part of the last message.
TakesNotice(wire, p) ==
    CASE wire \in {"chat-completions", "anthropic"} -> p.k = "text" \/ p.str
      [] wire = "responses" -> p.k = "result" /\ p.str
      [] wire = "gemini" -> p.k \in {"text", "result"}

injectContextNotice(wire, body, notice) ==
    IF body.msgs = <<>> \/ (body.msgs # <<>> /\ Last(body.msgs).parts = <<>>) THEN body
    ELSE LET m == Len(body.msgs)
             p == Len(body.msgs[m].parts)
         IN  IF TakesNotice(wire, body.msgs[m].parts[p])
             THEN [body EXCEPT !.msgs[m].parts[p].text = Append(@, notice)]
             ELSE body

(***************************************************************************)
(* Answers that are not streamed: one JSON document with all the text and  *)
(* calls.  The text of a "responses" document is not read.                 *)
(***************************************************************************)
OpsText(ops) == FlattenSeq(Map(SelectSeq(ops, LAMBDA o : o.op = "text"), LAMBDA o : o.text))
OpsCalls(ops) == Map(SelectSeq(ops, LAMBDA o : o.op = "call"), LAMBDA o : o.call)

parseJsonResponse(wire, ops) ==
    [text |-> IF wire = "responses" THEN <<>> ELSE OpsText(ops),
     toolCalls |-> IF wire = "responses" THEN FirstOfEachId(OpsCalls(ops)) ELSE OpsCalls(ops)]
=============================================================================
