---------------------------- MODULE ProviderStreams ----------------------------
(***************************************************************************)
(* One exchange with a model provider (src/providers): the history becomes *)
(* a request, the answer comes back as server-sent events cut into chunks  *)
(* at arbitrary bytes, a task turns the chunks into stream events, and     *)
(* generate_provider_response (src/react.rs) collects those.               *)
(*                                                                         *)
(* The body is a sequence of tokens: "nl", "cr", the "data:" prefix, and   *)
(* the JSON documents the server sends, one token each.  A document with a *)
(* character of several bytes is the two tokens "wide-" and "-wide"; one   *)
(* printed over two data lines is "open" and "close".                      *)
(***************************************************************************)
EXTENDS Integers, Sequences, FiniteSets, SequencesExt, Questions

CONSTANT IdLimit  \* 64 in the code (MAX_IDENTIFIER_LEN)
ASSUME IdLimitAssumption == IdLimit \in Nat \ {0}

VARIABLE exchange

NoExchange == [at |-> "idle"]
ExchangeInit == exchange = NoExchange

-----------------------------------------------------------------------------
(* What a document says                                                     *)

Call(id, args) == [id |-> id, args |-> args]
Document(type, text, calls) == [type |-> type, text |-> text, calls |-> calls]

\* parse_tool_call: arguments that are no object become {}, so an item that
\* was only begun is a call without arguments.
CodexDocument(d) ==
    CASE d = "hi" -> Document("delta", <<"hi">>, <<>>)
      [] d = "ho" -> Document("delta", <<"ho">>, <<>>)
      [] d = "wide" -> Document("delta", <<"wide">>, <<>>)
      [] d = "two lines" -> Document("delta", <<"two lines">>, <<>>)
      [] d = "full text" -> Document("text done", <<"hi">>, <<>>)
      [] d = "a begun" -> Document("item", <<>>, <<Call("a", "{}")>>)
      [] d = "a done" -> Document("item", <<>>, <<Call("a", "args")>>)
      [] d = "b begun" -> Document("item", <<>>, <<Call("b", "{}")>>)
      [] d = "b done" -> Document("item", <<>>, <<Call("b", "args")>>)
      [] d = "completed" -> Document("completed", <<"hi">>, <<Call("a", "args")>>)
      [] d = "failed" -> Document("error", <<"why">>, <<>>)
      [] d = "failed silently" -> Document("error", <<>>, <<>>)
      [] OTHER -> Document("other", <<>>, <<>>)

\* A Gemini document carries parts; a call in it is always whole.
GeminiDocument(d) ==
    CASE d \in {"hi", "ho", "wide", "two lines"} -> CodexDocument(d)
      [] d \in {"a begun", "a done"} -> Document("delta", <<>>, <<Call("a", "args")>>)
      [] d \in {"b begun", "b done"} -> Document("delta", <<>>, <<Call("b", "args")>>)
      [] d = "nameless" -> Document("delta", <<>>, <<Call("none", "args")>>)
      [] OTHER -> Document("other", <<>>, <<>>)

\* serde_json::from_str, of the payload of one event.
AsDocument(payload) ==
    CASE payload = <<"wide-", "-wide">> -> <<"wide">>
      [] payload = <<"open", "nl", "close">> -> <<"two lines">>
      [] Len(payload) = 1 /\ payload[1] \notin {"[DONE]", "wide-", "-wide", "open", "close"} ->
             payload
      [] OTHER -> <<>>

-----------------------------------------------------------------------------
(* The accumulators                                                         *)

Fresh == [line |-> <<>>, data |-> <<>>, calls |-> <<>>, texted |-> FALSE,
          events |-> <<>>, failed |-> FALSE]

RecordToolCall(calls, call) ==
    IF \E i \in DOMAIN calls : calls[i].id = call.id /\ call.id # "none"
    THEN [i \in DOMAIN calls |-> IF calls[i].id = call.id THEN call ELSE calls[i]]
    ELSE Append(calls, call)

RecordAll(calls, reported) ==
    FoldLeft(LAMBDA known, call : RecordToolCall(known, call), calls, reported)

TextEvents(text) == [i \in DOMAIN text |-> [type |-> "text", text |-> text[i]]]
CallEvents(calls) == [i \in DOMAIN calls |-> [type |-> "call", call |-> calls[i]]]
DoneEvent == [type |-> "done"]
ErrorEvent == [type |-> "error"]

\* Only an error event with a message is an error.  The events that repeat
\* the text count only when no text has been passed on.
ProcessCodexEvent(acc, doc) ==
    IF doc.type = "error" /\ doc.text # <<>> THEN [acc EXCEPT !.failed = TRUE]
    ELSE LET said == IF \/ doc.type = "delta"
                        \/ doc.type \in {"text done", "completed"} /\ ~acc.texted
                     THEN doc.text ELSE <<>>
         IN [acc EXCEPT !.events = @ \o TextEvents(said),
                        !.texted = @ \/ said # <<>>,
                        !.calls = RecordAll(@, doc.calls)]

ProcessGeminiParts(acc, doc) ==
    [acc EXCEPT !.events = @ \o TextEvents(doc.text),
                !.calls = RecordAll(@, doc.calls)]

JoinedLines(lines) == FoldLeft(LAMBDA all, l : IF all = <<>> THEN l ELSE all \o <<"nl">> \o l,
                          <<>>, lines)

\* Codex reads a payload that is no document line by line and skips what it
\* cannot read.
FlushCodexEvent(acc) ==
    LET payload == JoinedLines(acc.data)
        documents == IF AsDocument(payload) # <<>> THEN AsDocument(payload)
                     ELSE FlattenSeq([i \in DOMAIN acc.data |-> AsDocument(acc.data[i])])
    IN FoldLeft(LAMBDA a, d : IF a.failed THEN a ELSE ProcessCodexEvent(a, CodexDocument(d)),
                [acc EXCEPT !.data = <<>>], documents)

\* Gemini gives the stream up.
FlushGeminiEvent(acc) ==
    LET payload == JoinedLines(acc.data)
        cleared == [acc EXCEPT !.data = <<>>]
    IN CASE acc.data = <<>> \/ payload = <<"[DONE]">> -> cleared
         [] AsDocument(payload) = <<>> -> [cleared EXCEPT !.failed = TRUE]
         [] OTHER -> ProcessGeminiParts(cleared, GeminiDocument(AsDocument(payload)[1]))

FlushEvent(kind, acc) ==
    IF kind = "codex" THEN FlushCodexEvent(acc) ELSE FlushGeminiEvent(acc)

ProcessLine(kind, acc, line) ==
    CASE line = <<>> -> FlushEvent(kind, acc)
      [] line # <<>> /\ line[1] = "data:" -> [acc EXCEPT !.data = Append(@, Tail(line))]
      [] OTHER -> acc

WithoutReturn(line) == IF line # <<>> /\ Last(line) = "cr" THEN Front(line) ELSE line

\* Whether the bytes of a chunk are UTF-8 by themselves.
IsText(chunk) == chunk[1] # "-wide" /\ Last(chunk) # "wide-"

PushBytes(kind, acc, chunk) ==
    IF ~IsText(chunk) THEN [acc EXCEPT !.failed = TRUE]
    ELSE FoldLeft(LAMBDA a, token :
             CASE a.failed -> a
               [] token = "nl" -> ProcessLine(kind, [a EXCEPT !.line = <<>>],
                                              WithoutReturn(a.line))
               [] OTHER -> [a EXCEPT !.line = Append(@, token)],
             acc, chunk)

\* Slip: an event no blank line ends is left behind.
FinishAtBlankLine(kind, acc) ==
    [acc EXCEPT !.events = @ \o CallEvents(acc.calls) \o <<DoneEvent>>]

\* The last line and the last event may lack their end.
Finish(kind, acc) ==
    LET lined == IF acc.line = <<>> THEN acc
                 ELSE ProcessLine(kind, [acc EXCEPT !.line = <<>>], WithoutReturn(acc.line))
        flushed == IF lined.failed THEN lined ELSE FlushEvent(kind, lined)
    IN IF flushed.failed THEN flushed
       ELSE [flushed EXCEPT !.events = @ \o CallEvents(flushed.calls) \o <<DoneEvent>>]

-----------------------------------------------------------------------------
(* What the server sends                                                    *)

Deltas == {<<>>, <<"hi", "ho">>, <<"wide">>, <<"two lines">>}
CodexItems == {<<>>, <<"a begun", "b begun", "b done", "a done">>}
CodexEnds == {<<>>, <<"completed">>, <<"failed">>, <<"failed silently", "[DONE]">>}
Scripts(kind) ==
    IF kind = "codex"
    THEN {d \o repeated \o items \o end : d \in Deltas, items \in CodexItems,
            repeated \in {<<>>, <<"full text">>}, end \in CodexEnds}
    ELSE {d \o items \o end : d \in Deltas,
            items \in {<<>>, <<"a done", "nameless", "a done", "nameless">>},
            end \in {<<>>, <<"[DONE]">>}}

Eol(crlf) == IF crlf THEN <<"cr", "nl">> ELSE <<"nl">>
EventLines(d, crlf) ==
    CASE d = "wide" -> <<"data:", "wide-", "-wide">> \o Eol(crlf)
      [] d = "two lines" -> <<"data:", "open">> \o Eol(crlf) \o <<"data:", "close">> \o Eol(crlf)
      [] d = "completed" -> <<"event:">> \o Eol(crlf) \o <<"data:", d>> \o Eol(crlf)
      [] OTHER -> <<"data:", d>> \o Eol(crlf)
Body(script, crlf, ended) ==
    LET whole == FlattenSeq([i \in DOMAIN script |-> EventLines(script[i], crlf) \o Eol(crlf)])
    IN IF ended \/ whole = <<>> THEN whole
       ELSE SubSeq(whole, 1, Len(whole) - 2 * Len(Eol(crlf)))

-----------------------------------------------------------------------------
(* The exchange                                                             *)

\* generate_stream: the token or key is looked up, the request is sent, and
\* a task starts reading the body.
GenerateStream(kind) ==
    /\ exchange = NoExchange
    /\ \E script \in Scripts(kind), crlf, ended \in BOOLEAN :
         exchange' = [at |-> "open", kind |-> kind, script |-> script,
                      body |-> Body(script, crlf, ended), acc |-> Fresh,
                      channel |-> <<>>, text |-> <<>>, calls |-> <<>>, outcome |-> "none",
                      cause |-> "none"]

\* No profile or key, no connection, or a status that is not success.
RequestFails(kind) ==
    /\ exchange = NoExchange
    /\ exchange' = [at |-> "closed", kind |-> kind, script |-> <<>>, body |-> <<>>,
                    acc |-> Fresh, channel |-> <<>>, text |-> <<>>, calls |-> <<>>,
                    outcome |-> "error", cause |-> "request"]

\* What the task sends after a step of the accumulator: the events of a
\* failing step are dropped.
Sent(acc) == IF acc.failed THEN <<ErrorEvent>> ELSE acc.events

ChunkArrives(n) ==
    LET chunk == SubSeq(exchange.body, 1, n)
        acc == PushBytes(exchange.kind, exchange.acc, chunk)
    IN /\ exchange.at = "open" /\ n \in 1..Len(exchange.body)
       /\ exchange' = [exchange EXCEPT
              !.body = SubSeq(@, n + 1, Len(@)),
              !.acc = [acc EXCEPT !.events = <<>>],
              !.channel = @ \o Sent(acc),
              !.cause = IF IsText(chunk) THEN @ ELSE "cut",
              !.at = IF acc.failed THEN "closed" ELSE @]

\* The body ends, complete or not: the two look the same.
StreamEnds ==
    LET acc == Finish(exchange.kind, exchange.acc)
    IN /\ exchange.at = "open"
       /\ exchange' = [exchange EXCEPT !.at = "closed", !.channel = @ \o Sent(acc),
                                       !.cause = IF exchange.body = <<>> THEN @ ELSE "early"]

ReadFails ==
    /\ exchange.at = "open"
    /\ exchange' = [exchange EXCEPT !.at = "closed", !.cause = "read",
                                    !.channel = Append(@, ErrorEvent)]

\* generate_provider_response: the turn takes the next event.
Receive ==
    LET event == Head(exchange.channel)
    IN /\ exchange.at # "idle" /\ exchange.outcome = "none" /\ exchange.channel # <<>>
       /\ exchange' = [exchange EXCEPT
              !.channel = Tail(@),
              !.text = IF event.type = "text" THEN Append(@, event.text) ELSE @,
              !.calls = IF event.type = "call" THEN Append(@, event.call) ELSE @,
              !.outcome = CASE event.type = "done" -> "ok"
                            [] event.type = "error" -> "error"
                            [] OTHER -> @]

\* The bytes of a chunk are handled one line at a time whatever its length:
\* short chunks and the whole rest show every cut.
ExchangeNext ==
    \/ \E kind \in {"codex", "gemini"} : GenerateStream(kind) \/ RequestFails(kind)
    \/ exchange.at = "open" /\ \E n \in {1, 2, Len(exchange.body)} : ChunkArrives(n)
    \/ StreamEnds \/ ReadFails \/ Receive

-----------------------------------------------------------------------------
(* Properties                                                               *)

\* Why an exchange did not come to its end: the request or a read failed, a
\* character was cut by a chunk's end, or the body was over too early.
Causes == {"none", "request", "read", "cut", "early"}

Documents(kind, script) ==
    [i \in DOMAIN script |-> IF kind = "codex" THEN CodexDocument(script[i])
                             ELSE GeminiDocument(script[i])]

\* The text: what was streamed, or else the one text that sums it up.
MeantText(kind, script) ==
    LET docs == Documents(kind, script)
        deltas == SelectSeq(docs, LAMBDA d : d.type = "delta" /\ d.text # <<>>)
        summaries == SelectSeq(docs, LAMBDA d : d.type \in {"text done", "completed"})
    IN CASE deltas # <<>> -> FlattenSeq([i \in DOMAIN deltas |-> deltas[i].text])
         [] deltas = <<>> /\ summaries # <<>> -> summaries[1].text
         [] OTHER -> <<>>

\* The calls: each id once, where it was first seen, as it was last seen.
MeantCalls(kind, script) ==
    LET docs == Documents(kind, script)
        reports == FlattenSeq([i \in DOMAIN docs |-> docs[i].calls])
        Same(i, k) == i = k \/ (reports[i].id = reports[k].id /\ reports[i].id # "none")
        firsts == {i \in DOMAIN reports : \A k \in 1..(i - 1) : ~Same(i, k)}
        order == SetToSortSeq(firsts, <)
    IN [n \in DOMAIN order |->
           reports[CHOOSE k \in DOMAIN reports :
                       /\ Same(order[n], k)
                       /\ \A l \in (k + 1)..Len(reports) : ~Same(order[n], l)]]

\* An error event that has a message.
MeantFailure(kind, script) ==
    \E i \in DOMAIN script : LET d == Documents(kind, script)[i]
                             IN d.type = "error" /\ d.text # <<>>

\* However the body is cut into chunks, and however its lines and its last
\* event end, a turn that is given an answer to a body that came whole is given
\* what the provider said: each text once and in order, each call once and with
\* its final arguments.  It fails when the provider sent an error with a message
\* and when its own side did: no connection, a failed read, or a chunk that ends
\* inside a character, which is an error although the provider said all of it
\* (openai_codex.rs:434, gemini.rs:277).  An error event without a message is
\* passed over (openai_codex.rs:390-416): the turn is given what was said
\* besides as the answer.  A body that ends early looks like a whole one; what
\* is given then is a beginning of the text, and calls the provider began.
StreamIsFaithful ==
    exchange.at # "idle" /\ exchange.outcome # "none" =>
        LET meant == MeantText(exchange.kind, exchange.script)
            failure == MeantFailure(exchange.kind, exchange.script)
            reports == Documents(exchange.kind, exchange.script)
        IN /\ exchange.cause \in Causes
           /\ IsPrefix(exchange.text, meant)
           /\ \A i \in DOMAIN exchange.calls : \E k \in DOMAIN reports :
                  exchange.calls[i] \in Range(reports[k].calls)
           /\ exchange.cause \in {"request", "read", "cut"} => exchange.outcome = "error"
           /\ exchange.cause = "none" =>
                  IF failure THEN exchange.outcome = "error"
                  ELSE /\ exchange.outcome = "ok"
                       /\ exchange.text = meant
                       /\ exchange.calls = MeantCalls(exchange.kind, exchange.script)

=============================================================================
