------------------------------- MODULE WebSearch -------------------------------
(***************************************************************************)
(* The web_search tool (src/tools/builtin/web_search.rs, with the copy of  *)
(* its code in sandbox/web_search_tool) and the footer that tells what a   *)
(* reply rests on (src/run/transparency.rs).                               *)
(*                                                                         *)
(* A text is a sequence of words, blank when empty; "-" is the separator   *)
(* " - ".                                                                  *)
(***************************************************************************)
EXTENDS Integers, Sequences, FiniteSets, SequencesExt, Questions

CONSTANT SearchLimit  \* 5 in the code
ASSUME SearchLimitAssumption == SearchLimit \in Nat \ {0}

-----------------------------------------------------------------------------
(* web_search                                                               *)

SearchResult(title, url, description) ==
    [title |-> title, url |-> url, description |-> description]

\* split_once(" - ")
ParseDuckduckgoText(text) ==
    IF \E i \in DOMAIN text : text[i] = "-"
    THEN LET at == CHOOSE i \in DOMAIN text :
                       text[i] = "-" /\ \A k \in 1..(i - 1) : text[k] # "-"
         IN <<SubSeq(text, 1, at - 1), SubSeq(text, at + 1, Len(text))>>
    ELSE <<text, text>>

PushResult(results, candidate) ==
    IF \/ Len(results) >= SearchLimit
       \/ \E i \in DOMAIN results :
             \/ candidate.url # <<>> /\ results[i].url = candidate.url
             \/ /\ candidate.description # <<>>
                /\ results[i].description = candidate.description
    THEN results ELSE Append(results, candidate)

PushText(results, entry) ==
    LET parsed == ParseDuckduckgoText(entry.text)
    IN PushResult(results, SearchResult(parsed[1], entry.url, parsed[2]))

\* A topic has a text, or else topics of its own (one level of them is read).
CollectRelatedTopics(results, related) ==
    FoldLeft(LAMBDA found, topic :
                 IF topic.hasText THEN PushText(found, topic)
                 ELSE FoldLeft(PushText, found, topic.topics),
             results, related)

MapDuckduckgoResults(query, reply) ==
    LET abstract == IF reply.abstract = <<>> THEN <<>>
                    ELSE PushResult(<<>>, SearchResult(
                             IF reply.heading = <<>> THEN query ELSE reply.heading,
                             reply.abstractUrl, reply.abstract))
    IN CollectRelatedTopics(FoldLeft(PushText, abstract, reply.results), reply.related)

\* Brave's own list, without the entries that have no address.
MapBraveResults(results) ==
    LET addressed == SelectSeq(results, LAMBDA r : r.url # <<>>)
    IN SubSeq(addressed, 1, IF Len(addressed) < SearchLimit THEN Len(addressed)
                            ELSE SearchLimit)

Failed(why) == [status |-> "failed", why |-> why, results |-> <<>>]

\* search_brave, search_duckduckgo: what a response means.
Search(provider, query, response) ==
    CASE response.status = "timeout" -> Failed("timed out")
      [] response.status = "unauthorized" ->
             Failed(IF provider = "brave" THEN "authentication" ELSE "response")
      [] response.status = "error" -> Failed("response")
      [] response.status = "garbled" -> Failed("decode")
      [] OTHER -> [status |-> "ok", why |-> "",
                   results |-> IF provider = "brave" THEN MapBraveResults(response.reply.results)
                               ELSE MapDuckduckgoResults(query, response.reply)]

ExecuteDirect(config, query, response) ==
    CASE query = <<>> -> Failed("query")
      [] config.provider = "brave" /\ config.key = <<>> -> Failed("key")
      [] OTHER -> Search(config.provider, query, response)

\* The guest is given the query and the configuration and runs the same
\* search; the host waits for it no longer than the search may take, so that
\* the time runs out on either side.
ExecuteWasm(config, query, response) ==
    CASE query = <<>> -> Failed("query")
      [] config.provider = "brave" /\ config.key = <<>> -> Failed("key")
      [] OTHER -> Search(config.provider, query, response)

-----------------------------------------------------------------------------
(* The transparency footer                                                  *)

Flattened(calls) ==
    FlattenSeq([i \in DOMAIN calls |-> <<calls[i]>> \o calls[i].nested])

ToolSummaryGroups(calls) ==
    LET flat == Flattened(calls)
        names == {flat[i].name : i \in DOMAIN flat}
    IN [n \in names |->
           [s \in {"ok", "accepted", "error"} |->
               Cardinality({i \in DOMAIN flat : flat[i].name = n /\ flat[i].status = s})]]

TransparencySummary(settings, calls, recall) ==
    [tools |-> IF settings.tools /\ calls # <<>> THEN ToolSummaryGroups(calls) ELSE <<>>,
     hits |-> IF settings.memory /\ recall.used THEN <<recall.short, recall.long>> ELSE <<>>]

\* Each group shows only the counts that are not zero.
RenderForStyle(reply, summary) ==
    [reply |-> reply,
     tools |-> [n \in DOMAIN summary.tools |->
                   {<<s, summary.tools[n][s]>> : s \in {t \in {"ok", "accepted", "error"} :
                                                           summary.tools[n][t] > 0}}],
     hits |-> summary.hits]

-----------------------------------------------------------------------------
(* Questions                                                                *)

Texts == {<<>>, <<"a">>, <<"t", "-", "a">>}
Urls == {<<>>, <<"u">>}
Found(text, url) == [hasText |-> TRUE, text |-> text, url |-> url]
Results == {Found(t, u) : t \in Texts, u \in Urls}
Listed(n) == UNION {[1..k -> Results] : k \in 0..n}
Group(topics) == [hasText |-> FALSE, topics |-> topics]

AskWebSearch ==
    \/ \E abstract \in {<<>>, <<"a">>}, heading \in {<<>>, <<"h">>}, url \in Urls,
          results \in Listed(2), nested \in Listed(1),
          related \in {Found(<<"a">>, <<>>), Found(<<"t", "-", "a">>, <<"u">>)} :
        /\ abstract = <<>> => heading = <<>> /\ url = <<>>
        /\ Put("web",
            [config |-> [provider |-> "duckduckgo", key |-> <<>>], query |-> <<"q">>,
             response |-> [status |-> "ok",
                           reply |-> [abstract |-> abstract, heading |-> heading,
                                      abstractUrl |-> url, results |-> results,
                                      related |-> <<Group(nested), related>>]]])
    \/ \E provider \in {"brave", "duckduckgo"}, key \in {<<>>, <<"k">>}, query \in {<<>>, <<"q">>},
          status \in {"ok", "timeout", "unauthorized", "error", "garbled"},
          urls \in [1..3 -> Urls] :
        Put("web",
            [config |-> [provider |-> provider, key |-> key], query |-> query,
             response |-> [status |-> status,
                           reply |-> [abstract |-> <<>>, heading |-> <<>>, abstractUrl |-> <<>>,
                                      results |-> [i \in 1..3 |-> Found(<<"a">>, urls[i])],
                                      related |-> <<>>]]])

Ran(name, status, nested) == [name |-> name, status |-> status, nested |-> nested]
AskFooter ==
    \E tools, memory, used \in BOOLEAN, one, two \in {"ok", "accepted", "error"},
       name \in {"read", "task"}, count \in 0..2 :
        Put("footer",
            [settings |-> [tools |-> tools, memory |-> memory],
             recall |-> [used |-> used, short |-> count, long |-> 1],
             calls |-> SubSeq(<<Ran("task", one, <<Ran(name, two, <<>>)>>),
                                Ran("read", two, <<>>)>>, 1, count)])

-----------------------------------------------------------------------------
(* Properties                                                               *)

\* A search fails or gives at most SearchLimit results; DuckDuckGo's name no
\* address twice and say nothing twice, and an abstract comes first.
SearchIsConcise ==
    Asked("web") =>
        LET in == question.input IN
        \A out \in {ExecuteDirect(in.config, in.query, in.response),
                   ExecuteWasm(in.config, in.query, in.response)} :
           /\ Len(out.results) <= SearchLimit
           /\ in.config.provider = "duckduckgo" =>
                 \A i, k \in DOMAIN out.results : i # k =>
                     /\ out.results[i].url = out.results[k].url => out.results[i].url = <<>>
                     /\ out.results[i].description = out.results[k].description =>
                            out.results[i].description = <<>>
           /\ out.status = "ok" /\ in.response.reply.abstract # <<>> =>
                 out.results[1].description = in.response.reply.abstract

RECURSIVE SumOver(_, _)
SumOver(f, names) ==
    IF names = {} THEN 0
    ELSE LET n == CHOOSE n \in names : TRUE
         IN f[n] + SumOver(f, names \ {n})

\* The counts of the footer add up to the calls that were made, those of a
\* delegated run included, and the reply comes with no footer it was not
\* configured for.
FooterAddsUp ==
    Asked("footer") =>
        LET in == question.input
            shown == RenderForStyle(in.calls, TransparencySummary(in.settings, in.calls, in.recall))
            made == Len(in.calls) + SumOver([i \in DOMAIN in.calls |-> Len(in.calls[i].nested)],
                                            DOMAIN in.calls)
            counts == [n \in DOMAIN shown.tools |->
                          SumOver([p \in shown.tools[n] |-> p[2]], shown.tools[n])]
        IN /\ shown.reply = in.calls
           /\ SumOver(counts, DOMAIN counts) = IF in.settings.tools THEN made ELSE 0
           /\ shown.hits # <<>> => in.settings.memory /\ in.recall.used

=============================================================================
