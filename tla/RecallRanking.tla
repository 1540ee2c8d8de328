----------------------------- MODULE RecallRanking -----------------------------
(***************************************************************************)
(* What a turn is reminded of (src/memory/mod.rs, src/memory/recall.rs,    *)
(* the recall part of src/turn/prepare.rs, src/tools/builtin/memory.rs):   *)
(* the nearest facts and messages are fetched, ranked and put into the     *)
(* system prompt.                                                          *)
(*                                                                         *)
(* A message's position is its row id; likeness to the query is a number,  *)
(* and a text stands for itself after normalize_memory_key (NoWords for    *)
(* one without any word).                                                  *)
(***************************************************************************)
EXTENDS Integers, Sequences, FiniteSets, SequencesExt, FiniteSetsExt, Questions

CONSTANT CandidatesPerHit  \* 5 in the code
ASSUME CandidatesPerHitAssumption == CandidatesPerHit \in Nat \ {0}

Within(n, low, high) == IF n < low THEN low ELSE IF n > high THEN high ELSE n
NormalizedTopK(topK) == Within(topK, 1, 10)
NormalizedRadius(radius) == Within(radius, 0, 5)

NoWords == ""

Conversational(message) == message.role \in {"user", "assistant"}

-----------------------------------------------------------------------------
(* Orders                                                                   *)

\* What sort_by and ORDER BY do to the places of a key: the greatest first,
\* equal ones as they were.
Before(key, i, k) == key[i] > key[k] \/ (key[i] = key[k] /\ i < k)
RankOf(key, i) == Cardinality({k \in DOMAIN key : Before(key, k, i)})
Sorted(key) ==
    [n \in 1..Cardinality(DOMAIN key) |->
        CHOOSE i \in DOMAIN key : RankOf(key, i) = n - 1]
Ascending(ids) == Sorted([i \in ids |-> 0])

-----------------------------------------------------------------------------
(* Candidates                                                               *)

\* The window the turn has anyway: the session's latest messages.
FetchRecentShortTermIds(messages, session, window) ==
    {i \in DOMAIN messages :
        /\ messages[i].session = session /\ Conversational(messages[i])
        /\ Cardinality({k \in (i + 1)..Len(messages) :
               messages[k].session = session /\ Conversational(messages[k])}) < window}

LikenessOf(rows, ids) == [i \in ids |-> rows[i].likeness]

\* The ids of the limit rows closest to the query (external: sqlite-vec).
Nearest(rows, limit) ==
    {i \in DOMAIN rows : RankOf(LikenessOf(rows, DOMAIN rows), i) < limit}

ByLikeness(rows, ids) == Sorted(LikenessOf(rows, ids))

\* A fact's importance and the configured weight raise its score; a message's
\* score is its likeness.
FetchLongTermCandidates(facts, limit, weight) ==
    LET ids == ByLikeness(facts, Nearest(facts, limit))
    IN [n \in DOMAIN ids |->
           [store |-> "long", id |-> ids[n], text |-> facts[ids[n]].text,
            likeness |-> facts[ids[n]].likeness, context |-> {},
            score |-> facts[ids[n]].likeness * weight
                      * (9 + Within(facts[ids[n]].importance, 1, 5))]]

\* Spans of ids around the matches, those that touch merged.
MergeSpan(merged, i, radius) ==
    IF merged # <<>> /\ i - radius <= Last(merged).end + 1
    THEN [merged EXCEPT ![Len(merged)].end = IF @ < i + radius THEN i + radius ELSE @]
    ELSE Append(merged, [start |-> i - radius, end |-> i + radius])
MergeShortTermContextSpans(ids, radius) ==
    FoldLeft(LAMBDA merged, i : MergeSpan(merged, i, radius), <<>>, Ascending(ids))
Covers(span, i) == span.start <= i /\ i <= span.end

\* The messages of a span that the turn does not have yet.
FetchShortTermContextMessages(messages, session, span, excluded) ==
    {i \in span.start..span.end :
        /\ i \in DOMAIN messages /\ i \notin excluded
        /\ messages[i].session = session /\ Conversational(messages[i])}

\* Slip: the window's messages are not left out.
FetchShortTermUnfiltered(messages, session, limit, window, radius) ==
    LET ids == ByLikeness(messages, Nearest(messages, limit))
    IN [n \in DOMAIN ids |->
           [store |-> "short", id |-> ids[n], text |-> messages[ids[n]].text,
            likeness |-> messages[ids[n]].likeness, context |-> {ids[n]},
            score |-> messages[ids[n]].likeness * 10]]
\* The nearest rows of all sessions are taken first, and then those of this
\* session that are not in its window.
FetchShortTermCandidates(messages, session, limit, window, radius) ==
    LET excluded == FetchRecentShortTermIds(messages, session, window)
        matched == {i \in Nearest(messages, limit) :
                       /\ messages[i].session = session /\ Conversational(messages[i])
                       /\ i \notin excluded}
        spans == MergeShortTermContextSpans(matched, radius)
        spanOf(i) == spans[CHOOSE n \in DOMAIN spans : Covers(spans[n], i)]
        ids == ByLikeness(messages, matched)
    IN [n \in DOMAIN ids |->
           [store |-> "short", id |-> ids[n], text |-> messages[ids[n]].text,
            likeness |-> messages[ids[n]].likeness,
            context |-> FetchShortTermContextMessages(messages, session,
                            spanOf(ids[n]), excluded),
            score |-> messages[ids[n]].likeness * 10]]

-----------------------------------------------------------------------------
(* Ranking                                                                  *)

ByScore(hits) ==
    LET order == Sorted([n \in DOMAIN hits |-> hits[n].score])
    IN [n \in DOMAIN order |-> hits[order[n]]]

SelectHit(out, hit, topK, minScore) ==
    IF \/ hit.likeness < minScore \/ hit.text = NoWords \/ Len(out) >= topK
       \/ \E n \in DOMAIN out : out[n].text = hit.text
    THEN out ELSE Append(out, hit)
RankRecallHits(candidates, topK, minScore) ==
    FoldLeft(LAMBDA out, hit : SelectHit(out, hit, topK, minScore), <<>>,
             ByScore(candidates))

\* With long-term memory preferred, facts come first and messages fill up.
QueryRecallHits(messages, facts, session, config, window, scope, preferLong) ==
    LET topK == NormalizedTopK(config.topK)
        limit == topK * CandidatesPerHit
        long == IF scope = "short" THEN <<>>
                ELSE FetchLongTermCandidates(facts, limit, config.weight)
        short == IF scope = "long" THEN <<>>
                 ELSE FetchShortTermCandidates(messages, session, limit, window,
                                               NormalizedRadius(config.radius))
        ranked == RankRecallHits(long, topK, config.minScore)
        rest == RankRecallHits(short, topK, config.minScore)
    IN IF preferLong /\ scope = "combined"
       THEN ranked \o SubSeq(rest, 1, Within(topK - Len(ranked), 0, Len(rest)))
       ELSE RankRecallHits(long \o short, topK, config.minScore)

\* The memory tool's query: every likeness counts, and facts weigh nothing extra.
SemanticQueryCombined(messages, facts, session, topK, window, scope) ==
    QueryRecallHits(messages, facts, session,
        [topK |-> topK, minScore |-> 0, weight |-> 1, radius |-> 2],
        window, scope, FALSE)

NoNumber == -1    \* None: not asked for, or not configured
DefaultTopK == 5
OrElse(number, otherwise) == IF number # NoNumber THEN number ELSE otherwise
ResolveTopK(requested, default, max) ==
    LET wanted == OrElse(requested, OrElse(default, DefaultTopK))
    IN IF max # NoNumber /\ max < wanted THEN max ELSE wanted

\* A number that resolves to zero is refused.
QueryMemory(messages, facts, session, requested, default, max, window, scope) ==
    LET topK == ResolveTopK(requested, default, max)
    IN [refused |-> topK = 0,
        hits |-> IF topK = 0 THEN <<>>
                 ELSE SemanticQueryCombined(messages, facts, session, topK, window, scope)]

-----------------------------------------------------------------------------
(* The prompt                                                               *)

\* Hits of one store as far as they fit, in order; no heading without a hit.
EmptySection == [used |-> 0, full |-> FALSE, hits |-> <<>>]
Heading == [used |-> 1, full |-> FALSE, hits |-> <<>>]
AddHit(section, hit, maxChars) ==
    IF section.full \/ section.used + hit.size > maxChars
    THEN [section EXCEPT !.full = TRUE]
    ELSE [section EXCEPT !.used = @ + hit.size, !.hits = Append(@, hit)]
BuildMemorySection(hits, maxChars) ==
    LET fitted == FoldLeft(LAMBDA section, hit : AddHit(section, hit, maxChars),
                           Heading, hits)
    IN IF maxChars = 0 \/ fitted.hits = <<>> THEN EmptySection ELSE fitted

HitsIn(hits, store) ==
    LET order == Ascending({n \in DOMAIN hits : hits[n].store = store})
    IN [n \in DOMAIN order |-> hits[order[n]]]

FormatRecalledMemory(hits, longMax, shortMax) ==
    [long |-> BuildMemorySection(HitsIn(hits, "long"), longMax),
     short |-> BuildMemorySection(HitsIn(hits, "short"), shortMax)]

-----------------------------------------------------------------------------
(* The query                                                                *)

\* A text is a sequence of words, marks and characters of these many bytes
\* ("wide" is a character of two); the agent's name is "Name", its id "agentid".
Width(token) ==
    IF token = "agentid" THEN 7
    ELSE IF token = "<@id>" THEN 5
    ELSE IF token \in {"Name", "word"} THEN 4
    ELSE IF token = "wide" THEN 2 ELSE 1
Bytes(text) == FoldLeft(LAMBDA n, token : n + Width(token), 0, text)

\* The slice of the first n bytes ends inside a character: it panics.
CutAt(text, n) ==
    \E i \in DOMAIN text : text[i] = "wide" /\ Bytes(SubSeq(text, 1, i - 1)) + 1 = n

Spaces == {" "}
Ends == {":", ","}         \* what may follow a name
Trimmed == Spaces \cup Ends \cup {";"}

TrimStart(text, blanks) ==
    LET solid == {i \in DOMAIN text : text[i] \notin blanks}
    IN IF solid = {} THEN <<>> ELSE SubSeq(text, Min(solid), Len(text))
TrimEnd(text) ==
    LET solid == {i \in DOMAIN text : text[i] \notin Spaces}
    IN IF solid = {} THEN <<>> ELSE SubSeq(text, 1, Max(solid))
Trim(text) == TrimEnd(TrimStart(text, Spaces))

StartsWithNameToken(text, names) ==
    /\ text # <<>> /\ text[1] \in names
    /\ Len(text) > 1 => text[2] \in Spaces \cup Ends

\* How much of the front is an address: a mention, @name, the name or the id.
AddressLength(text) ==
    IF text = <<>> THEN 0
    ELSE IF text[1] = "<@id>" \/ StartsWithNameToken(text, {"Name", "agentid"}) THEN 1
    ELSE IF text[1] = "@" /\ StartsWithNameToken(Tail(text), {"Name"}) THEN 2
    ELSE 0

StripAddress(text) ==
    IF AddressLength(text) = 0 THEN text
    ELSE TrimStart(SubSeq(text, AddressLength(text) + 1, Len(text)), Trimmed)

\* The addresses are tried in turn: a mention, @name, the name, the id.  A name
\* is compared with as many bytes of the text, wherever they end.
Breaks(text) ==
    /\ text # <<>> /\ text[1] # "<@id>"
    /\ \/ text[1] = "@" /\ CutAt(Tail(text), Width("Name"))
       \/ /\ AddressLength(text) # 2
          /\ \/ CutAt(text, Width("Name"))
             \/ /\ ~StartsWithNameToken(text, {"Name"})
                /\ CutAt(text, Width("agentid"))

\* What is left after n addresses, and the query without any; the query panics
\* where some rest cannot be compared.
Rests(text) ==
    LET Rest[n \in 0..Len(text)] == IF n = 0 THEN Trim(text) ELSE StripAddress(Rest[n - 1])
    IN Rest
QueryPanics(text) == \E n \in 0..Len(text) : Breaks(Rests(text)[n])
NormalizeRecallQuery(text) == Trim(Rests(text)[Len(text)])

-----------------------------------------------------------------------------
(* Questions                                                                *)

Row(session, role, likeness, text) ==
    [session |-> session, role |-> role, likeness |-> likeness, text |-> text]
Rows == {Row("s", "user", 1, "x"), Row("s", "user", 2, "y"),
         Row("s", "assistant", 2, NoWords), Row("t", "user", 2, "y"),
         Row("s", "tool", 2, "x")}
Fact(likeness, importance, text) ==
    [likeness |-> likeness, importance |-> importance, text |-> text]
FactLists == {<<>>, <<Fact(1, 5, "x")>>, <<Fact(2, 1, "y"), Fact(1, 3, "z")>>}

AskRecall ==
    \E messages \in [1..3 -> Rows], facts \in FactLists, window \in 0..1,
       topK \in 0..2, radius \in 0..1, preferLong \in BOOLEAN :
        Put("recall", [messages |-> messages, facts |-> facts, window |-> window,
                       config |-> [topK |-> topK, minScore |-> 1, weight |-> 1,
                                   radius |-> radius],
                       preferLong |-> preferLong])

AskMemoryTool ==
    \E messages \in [1..2 -> Rows], facts \in FactLists,
       requested \in {NoNumber, 0, 2}, default \in {NoNumber, 0, 1}, max \in {NoNumber, 0, 1},
       store \in {"short", "long"} :
        Put("memory_tool", [messages |-> messages, facts |-> facts,
                            requested |-> requested, default |-> default, max |-> max,
                            store |-> store])

AskMemoryPrompt ==
    \E hits \in SeqOf([store : {"long", "short"}, size : 1..3], 3),
       longMax \in 0..4, shortMax \in {0, 3} :
        Put("memory_prompt", [hits |-> hits, longMax |-> longMax, shortMax |-> shortMax])

AskRecallQuery ==
    \E text \in SeqOf({"<@id>", "@", "Name", "agentid", ",", ";", " ", "word",
                       "wide"}, 4) :
        Put("recall_query", text)

HitsOf(q, scope) ==
    QueryRecallHits(q.messages, q.facts, "s", q.config, q.window, scope, q.preferLong)

\* The messages that the search can reach, that say something and are alike
\* enough.
Reachable(q, topK, windowIds) ==
    {i \in Nearest(q.messages, topK * CandidatesPerHit) :
        /\ q.messages[i].session = "s" /\ Conversational(q.messages[i])
        /\ i \notin windowIds /\ q.messages[i].text # NoWords
        /\ q.messages[i].likeness >= q.config.minScore}

BestFirst(hits, preferLong) ==
    \A n, m \in DOMAIN hits : n < m =>
        /\ hits[n].text = hits[m].text => preferLong /\ hits[n].store # hits[m].store
        /\ hits[n].store = hits[m].store => hits[n].score >= hits[m].score

ExcerptsAreOwn(hits, messages, windowIds) ==
    \A n \in DOMAIN hits : hits[n].store = "short" =>
        /\ hits[n].id \in hits[n].context
        /\ \A i \in hits[n].context : i \notin windowIds /\ messages[i].session = "s"

RecallIsRight(q) ==
    LET hits == HitsOf(q, "combined")
        topK == NormalizedTopK(q.config.topK)
        windowIds == FetchRecentShortTermIds(q.messages, "s", q.window)
    IN /\ Len(hits) <= topK
       /\ BestFirst(hits, q.preferLong)
       /\ ExcerptsAreOwn(hits, q.messages, windowIds)
       /\ \A i \in Reachable(q, topK, windowIds) :
              \/ \E n \in DOMAIN hits : hits[n].text = q.messages[i].text
              \/ Len(hits) = topK

RecallHoldsWhatItShould == Asked("recall") => RecallIsRight(question.input)

\* The memory tool answers from the store that was named, with no more than was
\* asked for or is allowed, and refuses to answer with nothing.
AnswerIsRight(q) ==
    LET answer == QueryMemory(q.messages, q.facts, "s", q.requested, q.default, q.max,
                              0, q.store)
        wanted == OrElse(q.requested, OrElse(q.default, DefaultTopK))
    IN /\ answer.refused <=> wanted = 0 \/ q.max = 0
       /\ Len(answer.hits) <= wanted
       /\ q.max # NoNumber => Len(answer.hits) <= q.max
       /\ \A n \in DOMAIN answer.hits : answer.hits[n].store = q.store

MemoryToolAnswers == Asked("memory_tool") => AnswerIsRight(question.input)

SectionFits(section, hits, maxChars) ==
    /\ IsPrefix(section.hits, hits)
    /\ section.used <= maxChars
    /\ section.hits # hits /\ section.hits # <<>> =>
           section.used + hits[Len(section.hits) + 1].size > maxChars

PromptIsRight(hits, longMax, shortMax) ==
    LET prompt == FormatRecalledMemory(hits, longMax, shortMax)
    IN /\ SectionFits(prompt.long, HitsIn(hits, "long"), longMax)
       /\ SectionFits(prompt.short, HitsIn(hits, "short"), shortMax)

PromptTakesTheBest ==
    Asked("memory_prompt") =>
        PromptIsRight(question.input.hits, question.input.longMax, question.input.shortMax)

\* A query of one-byte characters is always answered for.
QueryIsRight(query) ==
    LET text == NormalizeRecallQuery(query)
    IN IF QueryPanics(query) THEN \E i \in DOMAIN query : query[i] = "wide"
       ELSE /\ NormalizeRecallQuery(text) = text
            /\ AddressLength(text) = 0
            /\ IsSuffix(text, Trim(query))

QueryHasNoAddress == Asked("recall_query") => QueryIsRight(question.input)

\* A turn is reminded of at most top_k texts, best first and different within
\* a store (a fact and a message may say the same where facts are preferred, as
\* turns do), never of a message it has anyway or of another session's; every
\* excerpt holds the message it was found for; the prompt keeps to its room.
\* The memory tool keeps to the store and the number asked for.  The query that
\* is searched for is free of the agent's own name, unless the comparison with
\* the name ends inside a character, which panics (src/memory/mod.rs:343-588,
\* src/memory/recall.rs:19-60, src/turn/prepare.rs:175-385,
\* src/tools/builtin/memory.rs:100-118).
RecallIsRelevant ==
    /\ RecallHoldsWhatItShould /\ MemoryToolAnswers
    /\ PromptTakesTheBest /\ QueryHasNoAddress

\* The questions about recall by themselves.
RecallAskedNext == AskRecall \/ AskMemoryTool \/ AskMemoryPrompt \/ AskRecallQuery
RecallSpec == QuestionInit /\ [][RecallAskedNext]_question

=============================================================================
