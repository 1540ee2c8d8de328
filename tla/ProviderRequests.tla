--------------------------- MODULE ProviderRequests ---------------------------
(***************************************************************************)
(* The two ends of an exchange with a provider that are pure functions     *)
(* (src/providers): how a history and the tools become a request, and how  *)
(* an answer that comes in one piece is read.                              *)
(*                                                                         *)
(* A text is blank (<<>>) or a sequence of words; an identifier is a       *)
(* sequence of characters, where "/" stands for every character a provider *)
(* does not accept; an identifier that is absent is "none" in a record's   *)
(* has field.                                                              *)
(***************************************************************************)
EXTENDS ProviderStreams

-----------------------------------------------------------------------------
(* Identifiers                                                              *)

TrimBoth(s, chars) ==
    LET kept == {i \in DOMAIN s : s[i] \notin chars}
    IN IF kept = {} THEN <<>>
       ELSE SubSeq(s, CHOOSE i \in kept : \A k \in kept : i <= k,
                      CHOOSE i \in kept : \A k \in kept : k <= i)

SanitizeIdentifier(raw, fallback) ==
    LET mapped == [i \in DOMAIN TrimBoth(raw, {" "}) |->
                      IF TrimBoth(raw, {" "})[i] \in {"/", " "} THEN "_"
                      ELSE TrimBoth(raw, {" "})[i]]
        trimmed == TrimBoth(mapped, {"_"})
    IN IF trimmed = <<>> THEN fallback
       ELSE SubSeq(trimmed, 1, IF Len(trimmed) < IdLimit THEN Len(trimmed) ELSE IdLimit)

CallPrefix == <<"c", "_">>
NoId == [has |-> FALSE]
Present(value) == [has |-> TRUE, value |-> value]
IsBlank(id) == ~id.has \/ TrimBoth(id.value, {" "}) = <<>>

CodexCallId(call) ==
    LET fallback == CallPrefix \o SanitizeIdentifier(call.name, <<"t">>)
    IN SanitizeIdentifier(IF IsBlank(call.id) THEN fallback ELSE call.id.value, fallback)
CodexResultId(result) ==
    LET fallback == CallPrefix \o SanitizeIdentifier(result.name, <<"t">>)
    IN SanitizeIdentifier(IF IsBlank(result.id) THEN fallback ELSE result.id.value, fallback)

MoonshotId(entry) == IF entry.id.has THEN entry.id.value ELSE CallPrefix \o entry.name

-----------------------------------------------------------------------------
(* The history, item by item                                                *)

Item(type, id, text) == [type |-> type, id |-> id, text |-> text]
TextItem(message) == IF message.content = <<>> THEN <<>>
                     ELSE <<Item("text", <<>>, message.content)>>

\* Calls, then results, then the text, each as an item.
BuildInput(history) ==
    FlattenSeq([m \in DOMAIN history |->
        [i \in DOMAIN history[m].calls |->
            Item("call", CodexCallId(history[m].calls[i]), <<>>)]
        \o [i \in DOMAIN history[m].results |->
            Item("result", CodexResultId(history[m].results[i]), <<>>)]
        \o TextItem(history[m])])

\* One message with all its calls (and its text), or one per result.
BuildMessages(history) ==
    FlattenSeq([m \in DOMAIN history |->
        CASE history[m].calls # <<>> ->
                 [i \in DOMAIN history[m].calls |->
                     Item("call", MoonshotId(history[m].calls[i]), <<>>)] \o TextItem(history[m])
          [] history[m].calls = <<>> /\ history[m].results # <<>> ->
                 [i \in DOMAIN history[m].results |->
                     Item("result", MoonshotId(history[m].results[i]), <<>>)]
          [] OTHER -> TextItem(history[m])])

\* Parts: an id is sent only when there is one.
BuildGeminiContents(history) ==
    LET Id(entry) == IF entry.id.has THEN entry.id.value ELSE <<>>
    IN FlattenSeq([m \in DOMAIN history |->
           CASE history[m].calls # <<>> ->
                    [i \in DOMAIN history[m].calls |->
                        Item("call", Id(history[m].calls[i]), <<>>)]
             [] history[m].calls = <<>> /\ history[m].results # <<>> ->
                    [i \in DOMAIN history[m].results |->
                        Item("result", Id(history[m].results[i]), <<>>)]
             [] OTHER -> TextItem(history[m])])

Requests(history) == {BuildInput(history), BuildMessages(history), BuildGeminiContents(history)}

-----------------------------------------------------------------------------
(* Tool schemas                                                             *)

\* A node is [json |-> "object", ...] or some other JSON value; a field holds
\* a sequence of at most one node, the properties a sequence of nodes.  A tool
\* may come with a schema that is no JSON at all.
Garbled == [json |-> "none"]
Scalar == [json |-> "scalar"]
DefaultToolSchema == [json |-> "object", type |-> "object", properties |-> <<>>,
                      items |-> <<>>, additional |-> <<>>, anyOf |-> <<>>]

RECURSIVE NormalizeSchemaNode(_)
NormalizeSchemaNode(node) ==
    IF node.json # "object" THEN DefaultToolSchema
    ELSE LET Each(nodes) == [i \in DOMAIN nodes |-> NormalizeSchemaNode(nodes[i])]
             Objects(nodes) == [i \in DOMAIN nodes |->
                                   IF nodes[i].json = "object" THEN NormalizeSchemaNode(nodes[i])
                                   ELSE nodes[i]]
         IN [node EXCEPT !.properties = Each(@), !.items = Each(@),
                         !.additional = Objects(@), !.anyOf = Objects(@)]

NormalizeToolSchema(schema) ==
    IF schema.json # "object" THEN DefaultToolSchema
    ELSE NormalizeSchemaNode([schema EXCEPT !.type = "object"])

\* A tool whose name has no usable character is left out.
BuildTools(tools) ==
    LET named == SelectSeq(tools, LAMBDA t : SanitizeIdentifier(t.name, <<>>) # <<>>)
    IN [i \in DOMAIN named |-> [name |-> SanitizeIdentifier(named[i].name, <<>>),
                                schema |-> NormalizeToolSchema(named[i].schema)]]

\* Gemini and Moonshot are sent the tools as they are.
ToolsAsTheyAre(tools) ==
    [i \in DOMAIN tools |->
        [name |-> tools[i].name,
         schema |-> IF tools[i].schema = Garbled THEN DefaultToolSchema ELSE tools[i].schema]]

-----------------------------------------------------------------------------
(* An answer in one piece                                                   *)

NonBlank(texts) == SelectSeq(texts, LAMBDA t : t # <<>>)

\* Codex: the answer's own text, or else the texts of its items and of their
\* parts; an item may be a call, and its parts may be.
CodexOutputText(answer) ==
    IF answer.text # <<>> THEN <<answer.text>>
    ELSE NonBlank(FlattenSeq([i \in DOMAIN answer.output |->
             <<answer.output[i].text>>
             \o [k \in DOMAIN answer.output[i].content |-> answer.output[i].content[k].text]]))
CollectToolCalls(answer) ==
    FlattenSeq([i \in DOMAIN answer.output |->
        answer.output[i].call
        \o FlattenSeq([k \in DOMAIN answer.output[i].content |->
                          answer.output[i].content[k].call])])

\* Gemini: the parts of the first candidate (blank ones only add line breaks).
GeminiParsed(parts) ==
    [text |-> NonBlank([i \in DOMAIN parts |-> parts[i].text]),
     calls |-> FlattenSeq([i \in DOMAIN parts |-> parts[i].call])]

\* Moonshot: the first choice's content, one text or several.
ParseContent(parts) == NonBlank([i \in DOMAIN parts |-> parts[i].text])
MoonshotParsed(parts) ==
    [text |-> ParseContent(parts),
     calls |-> FlattenSeq([i \in DOMAIN parts |-> parts[i].call])]

-----------------------------------------------------------------------------
(* Questions                                                                *)

IdCharacters == {"x", "/", " ", "_"}
Identifiers == UNION {[1..n -> IdCharacters] : n \in 0..3}
Entry(id, name) == [id |-> id, name |-> name]
AskHistory ==
    \E raw \in Identifiers, has \in BOOLEAN, name \in {<<"x">>, <<"/">>, <<"x", "/", "x", "x">>},
       other \in {<<"y">>, <<"x", "x">>}, content \in {<<>>, <<"hello">>} :
        Put("history",
            LET id == IF has THEN Present(raw) ELSE NoId
                entries == <<Entry(id, name), Entry(Present(other), name)>>
            IN <<[calls |-> <<>>, results |-> <<>>, content |-> content],
                 [calls |-> entries, results |-> <<>>, content |-> <<>>],
                 [calls |-> <<>>, results |-> entries, content |-> <<>>]>>)

Leaves == {Scalar, [DefaultToolSchema EXCEPT !.type = "string"]}
Optional(nodes) == {<<>>} \cup {<<n>> : n \in nodes}
Nodes(below) ==
    {Scalar} \cup {[json |-> "object", type |-> t, properties |-> p, items |-> i,
                    additional |-> a, anyOf |-> o] :
                       t \in {"object", "string"}, p \in Optional(below), i \in Optional(below),
                       a \in Optional(below), o \in Optional(below)}
AskSchema ==
    \E name \in Identifiers, schema \in {Garbled} \cup Nodes(Leaves) \cup {
           [DefaultToolSchema EXCEPT !.properties = <<n>>] : n \in Nodes(Leaves)} :
        /\ Len(name) = 3 => schema = Scalar
        /\ Put("schema", <<[name |-> name, schema |-> schema]>>)

Part(text, call) == [text |-> text, call |-> call]
Parts == {Part(<<>>, <<>>), Part(<<"hi">>, <<>>), Part(<<>>, <<Call("a", "args")>>),
          Part(<<"ho">>, <<Call("b", "args")>>)}
AskAnswer ==
    \E text \in {<<>>, <<"hi">>}, first, second, third \in Parts :
        Put("answer", [text |-> text, parts |-> <<first, second, third>>,
                       output |-> <<[text |-> first.text, call |-> first.call,
                                     content |-> <<second, third>>]>>])

-----------------------------------------------------------------------------
(* Properties                                                               *)

OfType(items, type) == SelectSeq(items, LAMBDA i : i.type = type)
IdsOfItems(items) == [i \in DOMAIN items |-> items[i].id]

\* An id that Codex accepts as it is.
Acceptable(id) ==
    /\ id.has /\ Len(id.value) \in 1..IdLimit
    /\ \A i \in DOMAIN id.value : id.value[i] \notin {"/", " "}
    /\ id.value[1] # "_" /\ Last(id.value) # "_"

\* In every provider's request each result names the call it answers, in the
\* order of the calls, and no text of the history is lost.  A call keeps the id
\* it has: always with Gemini and Moonshot, with Codex if it accepts it.  One
\* that has none gets one for Codex and Moonshot, and stays without for Gemini.
\* Calls that are apart are so in Codex's request when it accepts both ids;
\* other ids may come to be the same (two calls of one tool without ids do),
\* and then only their order tells the results apart.
ResultsNameTheirCalls ==
    Asked("history") =>
        LET texts == SelectSeq(question.input, LAMBDA m : m.content # <<>>)
            calls == question.input[2].calls
            Ids(items) == IdsOfItems(OfType(items, "call"))
            codex == Ids(BuildInput(question.input))
            moonshot == Ids(BuildMessages(question.input))
            gemini == Ids(BuildGeminiContents(question.input))
        IN /\ \A items \in Requests(question.input) :
                /\ IdsOfItems(OfType(items, "result")) = Ids(items)
                /\ Len(Ids(items)) = Len(calls)
                /\ Len(OfType(items, "text")) = Len(texts)
           /\ \A i \in DOMAIN calls :
                /\ Len(codex[i]) \in 1..(IdLimit + Len(CallPrefix))
                /\ \A k \in DOMAIN codex[i] : codex[i][k] \notin {"/", " "}
                /\ Acceptable(calls[i].id) => codex[i] = calls[i].id.value
                /\ IF calls[i].id.has
                   THEN moonshot[i] = calls[i].id.value /\ gemini[i] = calls[i].id.value
                   ELSE moonshot[i] # <<>> /\ gemini[i] = <<>>
           /\ \A i, k \in DOMAIN calls :
                (calls[i].id # calls[k].id /\ Acceptable(calls[i].id) /\ Acceptable(calls[k].id))
                    => codex[i] # codex[k]

RECURSIVE IsSchema(_)
IsSchema(node) ==
    /\ node.json = "object"
    /\ \A i \in DOMAIN node.properties : IsSchema(node.properties[i])
    /\ \A i \in DOMAIN node.items : IsSchema(node.items[i])

\* A tool that Codex is offered has a name, and a schema that is an object down
\* to its leaves and that normalizing again would not change; only a tool whose
\* name has nothing it accepts is left out.  The other two are offered every
\* tool by its own name, with JSON for a schema, which may be of any form.
ToolsAreWellFormed ==
    Asked("schema") =>
        LET tools == question.input
        IN /\ \A i \in DOMAIN BuildTools(tools) :
                LET tool == BuildTools(tools)[i]
                IN /\ Len(tool.name) \in 1..IdLimit
                   /\ tool.schema.type = "object" /\ IsSchema(tool.schema)
                   /\ NormalizeToolSchema(tool.schema) = tool.schema
           /\ \A i \in DOMAIN tools :
                (\E k \in DOMAIN tools[i].name : tools[i].name[k] \notin {"/", " ", "_"})
                    => Len(BuildTools(tools)) = Len(tools)
           /\ \A i \in DOMAIN tools :
                LET tool == ToolsAsTheyAre(tools)[i]
                IN /\ tool.name = tools[i].name /\ tool.schema.json # "none"
                   /\ tool.schema # tools[i].schema => tool.schema.type = "object"

\* The same parts read by each provider give the same calls, and the same
\* texts unless Codex sums them up itself.
AnswersAgree ==
    Asked("answer") =>
        /\ GeminiParsed(question.input.parts) = MoonshotParsed(question.input.parts)
        /\ CollectToolCalls(question.input) = GeminiParsed(question.input.parts).calls
        /\ question.input.text = <<>> =>
               CodexOutputText(question.input) = GeminiParsed(question.input.parts).text

\* What passes between a turn and its provider (build_input, build_messages,
\* build_gemini_contents, build_tools, push_bytes, finish,
\* generate_provider_response): on the way out results keep their calls and
\* tools their schemas, as far as the provider's ids and names allow; an answer
\* that arrives in full comes back as it was said, streamed or in one piece, and
\* an error with a message, or one of the reading, is never taken for an answer.
ExchangeIsFaithful ==
    StreamIsFaithful /\ ResultsNameTheirCalls /\ ToolsAreWellFormed /\ AnswersAgree

=============================================================================
