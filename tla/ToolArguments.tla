---------------------------- MODULE ToolArguments ----------------------------
(***************************************************************************)
(* How a built-in tool reads the arguments the model wrote, and how it     *)
(* shortens what it answers (src/tools/builtin/common.rs).  Arguments are  *)
(* an object, a JSON string, another JSON value or text that is not JSON;  *)
(* a value of a field is tagged with its JSON type, and texts are numbers  *)
(* (0 for none).                                                           *)
(***************************************************************************)
EXTENDS Integers, Sequences, Questions

Field(type, value) == [type |-> type, value |-> value]
Absent == Field("absent", 0)

\* value.get(a).or_else(value.get(b)): the first name that is present counts,
\* whatever its type.
Lookup(args, names) ==
    LET present == {i \in DOMAIN names : names[i] \in DOMAIN args.fields}
    IN IF args.form # "object" \/ present = {} THEN Absent
       ELSE args.fields[names[CHOOSE i \in present : \A k \in present : i <= k]]

\* as_str, as_u64, as_bool and as_array give nothing for a value of another
\* type, and the default takes its place.
Typed(args, names, type, default) ==
    LET found == Lookup(args, names)
    IN IF found.type = type THEN found.value ELSE default

Has(args, name, type) == Lookup(args, <<name>>).type = type

Clamp(n, low, high) == IF n < low THEN low ELSE IF n > high THEN high ELSE n

-----------------------------------------------------------------------------
(* The tools' argument records                                              *)

\* The text a tool works on: its main field, the whole string, or the
\* arguments verbatim (an object that lacks the field included).
MainText(args, main) ==
    IF Has(args, main, "text") THEN args.fields[main]
    ELSE IF args.form = "string" THEN Field("string", args.value)
    ELSE Field("verbatim", args.value)

ParseSimpleTextArg(args) ==
    IF args.form = "string" THEN Field("string", args.value)
    ELSE LET named == {i \in 1..3 : Has(args, <<"query", "url", "path">>[i], "text")}
         IN IF named = {} THEN Field("verbatim", args.value)
            ELSE args.fields[<<"query", "url", "path">>[
                     CHOOSE i \in named : \A k \in named : i <= k]]

\* The fields beside the main one count only when the main one is there.
With(args, main, type, names, default) ==
    IF Has(args, main, "text") THEN Typed(args, names, type, default) ELSE default

ParseMemoryArgs(args) ==
    IF Has(args, "action", "text") /\ args.fields.action.value = 2
    THEN [action |-> "list", text |-> Absent, kind |-> Typed(args, <<"kind">>, "text", 0),
          limit |-> Typed(args, <<"limit">>, "number", 20),
          topK |-> 0, store |-> 0]
    ELSE [action |-> "query", text |-> MainText(args, "query"), kind |-> 0,
          limit |-> 0,
          topK |-> With(args, "query", "number", <<"top_k">>, 0),
          store |-> With(args, "query", "text", <<"store">>, 0)]

ParseSummonArgs(args) ==
    [agent |-> MainText(args, "agent"),
     summary |-> With(args, "agent", "text", <<"summary">>, 0),
     background |-> With(args, "agent", "bool", <<"background">>, 0)]

ParseTaskArgs(args) ==
    [prompt |-> MainText(args, "prompt"),
     background |-> With(args, "prompt", "bool", <<"background">>, 0)]

ParseReactArgs(args) == MainText(args, "emoji")

ParseMemorizeArgs(args) ==
    [fact |-> MainText(args, "fact"),
     kind |-> With(args, "fact", "text", <<"kind">>, 0),
     importance |-> Clamp(With(args, "fact", "number", <<"importance">>, 3), 1, 5)]

\* The threshold is counted in hundredths.
ParseForgetArgs(args) ==
    [query |-> MainText(args, "query"),
     commit |-> With(args, "query", "bool", <<"commit">>, 0),
     threshold |-> Clamp(With(args, "query", "number",
                              <<"similarity_threshold", "similarityThreshold">>, 82),
                         0, 100),
     maxMatches |-> Clamp(With(args, "query", "number",
                               <<"max_matches", "maxMatches">>, 5), 1, 50),
     kind |-> With(args, "query", "text", <<"kind">>, 0)]

ParseExecArgs(args) ==
    [command |-> MainText(args, "command"),
     background |-> With(args, "command", "bool", <<"background">>, 0),
     workdir |-> With(args, "command", "text", <<"workdir", "cwd">>, 0)]

ParseBackgroundArgs(args) ==
    [action |-> Typed(args, <<"action">>, "text", 1),
     runId |-> Typed(args, <<"run_id", "runId">>, "text", 0)]

\* A wait ends after two minutes at the latest.
LongestWait == 120000
ParseWaitArgs(args) ==
    [runIds |-> Typed(args, <<"run_ids", "runIds">>, "list", 0),
     timeout |-> Clamp(Typed(args, <<"timeout_ms", "timeoutMs">>, "number", 30000),
                       1, LongestWait)]

\* A fifth of the room for the head, the rest for the tail.
TruncateForToolOutput(text, max) ==
    LET head == max \div 5
        tail == max - head
    IN IF Len(text) <= max THEN [head |-> text, dropped |-> 0, tail |-> <<>>]
       ELSE [head |-> SubSeq(text, 1, head),
             dropped |-> Len(text) - head - tail,
             tail |-> SubSeq(text, Len(text) - tail + 1, Len(text))]

-----------------------------------------------------------------------------
(* Questions                                                                *)

\* The fields of two tools that have a second spelling or a default.
FieldNames == {"command", "workdir", "cwd", "timeout_ms", "timeoutMs",
               "query", "max_matches", "maxMatches", "run_id", "runId"}
Values == {Field("text", 1), Field("number", 0), Field("number", 500000),
           Field("bool", 1)}
NoFields == [n \in {} |-> Absent]

AskArguments ==
    \/ \E form \in {"string", "other", "text"} :
           Put("arguments", [form |-> form, value |-> 9, fields |-> NoFields])
    \/ \E a, b \in FieldNames : \E fields \in [{a, b} -> Values] :
           Put("arguments", [form |-> "object", value |-> 9, fields |-> fields])
AskOutput == \E n \in 0..8, max \in 0..6 :
    Put("output", [text |-> [i \in 1..n |-> i], max |-> max])

Respelled(args, from, to) ==
    [args EXCEPT !.fields = [n \in (DOMAIN args.fields \ {from}) \cup {to} |->
        IF n = to THEN args.fields[from] ELSE args.fields[n]]]

\* A field is written under the name from and not under the name to.
Only(args, from, to) == from \in DOMAIN args.fields /\ to \notin DOMAIN args.fields

\* Limits hold whatever the model wrote, either spelling of a field means the
\* same, and text that is no object reaches every tool alike.
ReadWithinLimits(args) ==
    /\ ParseWaitArgs(args).timeout \in 1..LongestWait
    /\ ParseForgetArgs(args).threshold \in 0..100
    /\ ParseForgetArgs(args).maxMatches \in 1..50
    /\ ParseMemorizeArgs(args).importance \in 1..5
SpellingsAgree(args) ==
    /\ Only(args, "cwd", "workdir") =>
           ParseExecArgs(Respelled(args, "cwd", "workdir")) = ParseExecArgs(args)
    /\ Only(args, "timeoutMs", "timeout_ms") =>
           ParseWaitArgs(Respelled(args, "timeoutMs", "timeout_ms")) = ParseWaitArgs(args)
    /\ Only(args, "runId", "run_id") =>
           ParseBackgroundArgs(Respelled(args, "runId", "run_id"))
               = ParseBackgroundArgs(args)
    /\ Only(args, "maxMatches", "max_matches") =>
           ParseForgetArgs(Respelled(args, "maxMatches", "max_matches"))
               = ParseForgetArgs(args)
TextReachesAll(args) ==
    args.form # "object" =>
        {ParseExecArgs(args).command, ParseTaskArgs(args).prompt,
         ParseSummonArgs(args).agent, ParseReactArgs(args),
         ParseMemorizeArgs(args).fact, ParseMemoryArgs(args).text,
         ParseForgetArgs(args).query}
            = {ParseSimpleTextArg(args)}

ArgumentsAreBounded ==
    Asked("arguments") =>
        /\ ReadWithinLimits(question.input)
        /\ SpellingsAgree(question.input)
        /\ TextReachesAll(question.input)

\* A shortened output accounts for every character, and keeps the end.
CutAddsUp(text, max) ==
    LET cut == TruncateForToolOutput(text, max)
    IN /\ Len(cut.head) + cut.dropped + Len(cut.tail) = Len(text)
       /\ Len(cut.head) + Len(cut.tail) <= max
       /\ \A i \in DOMAIN cut.tail :
              cut.tail[i] = text[Len(text) - Len(cut.tail) + i]

OutputAddsUp ==
    Asked("output") => CutAddsUp(question.input.text, question.input.max)

=============================================================================
