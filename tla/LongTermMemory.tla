---------------------------- MODULE LongTermMemory ----------------------------
(***************************************************************************)
(* The long-term half of an agent's memory (src/memory/mod.rs): facts in   *)
(* one table and their embeddings in a vector index beside it.  The tool   *)
(* calls of one response run at once, and so do the turns of the agent's   *)
(* sessions; memorize and forget each look first and change the tables     *)
(* afterwards, on a connection of their own, with awaits in between.       *)
(*                                                                         *)
(* A fact's content is a topic and a wording: two contents are similar     *)
(* enough to supersede each other, and to be matched by forget, when they  *)
(* have the same topic.  The vector index (external) returns the nearest   *)
(* rows over all kinds; the query's other conditions filter what it        *)
(* returns.                                                                *)
(***************************************************************************)
EXTENDS Naturals, FiniteSets

CONSTANTS
    MemoryCallers,  \* concurrent tool calls
    Topics, Wordings, Kinds,
    MaxFacts,       \* bound: rows ever inserted
    MaxMemoryFaults \* bound: crashes

ASSUME MemoryAssumption == {MaxFacts, MaxMemoryFaults} \subseteq Nat

VARIABLES
    facts,      \* ltm_facts
    vectors,    \* ltm_facts_vec: the content each row's embedding is of
    call,       \* where each tool call is
    halfDone,   \* rows whose insertion was cut short (history)
    memoryFaults

memoryVars == <<facts, vectors, call, halfDone, memoryFaults>>

Contents == [topic : Topics, wording : Wordings]
FactIds == 1..MaxFacts      \* AUTOINCREMENT: never reused
NoRow == [kind |-> "none"]
Vacant == [kind |-> "vacant"]    \* an id not handed out yet
Idling == [at |-> "idle"]
FactRow(content, kind) == [kind |-> kind, content |-> content, recent |-> TRUE]

IsFact(id) == facts[id] \notin {NoRow, Vacant}
IsVector(id) == vectors[id] # NoRow
Related(id) == IsFact(id) /\ IsVector(id)
Similar(a, b) == a.topic = b.topic

MemoryInit ==
    /\ facts = [id \in FactIds |-> Vacant]
    /\ vectors = [id \in FactIds |-> NoRow]
    /\ call = [c \in MemoryCallers |-> Idling]
    /\ halfDone = {}
    /\ memoryFaults = 0

Indexing == {c \in MemoryCallers : call[c].at = "indexing"}
FinishCall(c) == call' = [call EXCEPT ![c] = Idling]

-----------------------------------------------------------------------------
(* memorize                                                                 *)

\* has_recent_long_term_fact: the same words within the last five minutes.
IsDuplicate(content, kind) ==
    \E id \in FactIds : /\ IsFact(id) /\ facts[id].kind = kind
                        /\ facts[id].content = content /\ facts[id].recent

Memorize(c, content, kind) ==
    /\ call[c] = Idling
    /\ ~IsDuplicate(content, kind)
    /\ call' = [call EXCEPT ![c] =
                   [at |-> "embedded", content |-> content, kind |-> kind]]
    /\ UNCHANGED <<facts, vectors, halfDone, memoryFaults>>

\* v.k = 1: the nearest row of the index; the same words are nearer than the
\* same topic, and any two others are as good.
NearestFact(content) ==
    LET exact == {id \in FactIds : IsVector(id) /\ vectors[id].content = content}
        close == {id \in FactIds :
                      IsVector(id) /\ Similar(vectors[id].content, content)}
    IN IF exact # {} THEN exact ELSE close

FindSimilar(c) ==
    /\ call[c].at = "embedded"
    /\ \E id \in NearestFact(call[c].content) \cup {0} :
        /\ id = 0 <=> NearestFact(call[c].content) = {}
        /\ call' = [call EXCEPT ![c] =
               IF id # 0 /\ IsFact(id) /\ facts[id].kind = call[c].kind
               THEN [at |-> "superseding", content |-> @.content,
                     kind |-> @.kind, id |-> id]
               ELSE [at |-> "inserting", content |-> @.content, kind |-> @.kind]]
    /\ UNCHANGED <<facts, vectors, halfDone, memoryFaults>>

\* Slip: the row is updated and its embedding is not.
SupersedeKeepingVector(c) ==
    /\ call[c].at = "superseding"
    /\ LET id == call[c].id IN
        facts' = IF IsFact(id)
                 THEN [facts EXCEPT ![id] = FactRow(call[c].content, @.kind)]
                 ELSE facts
    /\ FinishCall(c)
    /\ UNCHANGED <<vectors, halfDone, memoryFaults>>

\* One transaction.  A row that was deleted meanwhile is not updated; its
\* vector is inserted all the same.
Supersede(c) ==
    /\ call[c].at = "superseding"
    /\ LET id == call[c].id IN
        /\ facts' = IF IsFact(id)
                    THEN [facts EXCEPT ![id] = FactRow(call[c].content, @.kind)]
                    ELSE facts
        /\ vectors' = [vectors EXCEPT ![id] = FactRow(call[c].content, call[c].kind)]
    /\ FinishCall(c)
    /\ UNCHANGED <<halfDone, memoryFaults>>

\* Two statements, each committed by itself.
InsertFact(c) ==
    /\ call[c].at = "inserting"
    /\ \E id \in FactIds :
        /\ facts[id] = Vacant /\ \A i \in 1..(id - 1) : facts[i] # Vacant
        /\ facts' = [facts EXCEPT ![id] = FactRow(call[c].content, call[c].kind)]
        /\ call' = [call EXCEPT ![c] =
                       [at |-> "indexing", content |-> @.content, id |-> id,
                        kind |-> @.kind]]
    /\ UNCHANGED <<vectors, halfDone, memoryFaults>>

InsertVector(c) ==
    /\ call[c].at = "indexing"
    /\ vectors' = [vectors EXCEPT ![call[c].id] =
                      FactRow(call[c].content, call[c].kind)]
    /\ FinishCall(c)
    /\ UNCHANGED <<facts, halfDone, memoryFaults>>

-----------------------------------------------------------------------------
(* forget (a preview changes nothing)                                       *)

\* The limit on matches and the kind asked for may leave out some of them.
Forget(c, content) ==
    /\ call[c] = Idling
    /\ \E found \in SUBSET {id \in FactIds : Related(id)
                                  /\ Similar(vectors[id].content, content)} :
          /\ found # {}
          /\ call' = [call EXCEPT ![c] = [at |-> "deleting", ids |-> found]]
    /\ UNCHANGED <<facts, vectors, halfDone, memoryFaults>>

\* One transaction over the ids found before, whatever they hold by now.
DeleteMatches(c) ==
    /\ call[c].at = "deleting"
    /\ facts' = [id \in FactIds |->
                    IF id \in call[c].ids THEN NoRow ELSE facts[id]]
    /\ vectors' = [id \in FactIds |->
                      IF id \in call[c].ids THEN NoRow ELSE vectors[id]]
    /\ FinishCall(c)
    /\ UNCHANGED <<halfDone, memoryFaults>>

-----------------------------------------------------------------------------
(* Failures and time                                                        *)

\* The embedder or the database fails; only a failure between the two inserts
\* leaves something behind.
CallFails(c) ==
    /\ call[c].at \in {"embedded", "superseding", "inserting", "indexing",
                       "deleting"}
    /\ halfDone' = halfDone \cup {call[d].id : d \in {c} \cap Indexing}
    /\ FinishCall(c)
    /\ UNCHANGED <<facts, vectors, memoryFaults>>

MemoryCrash ==
    /\ memoryFaults < MaxMemoryFaults
    /\ memoryFaults' = memoryFaults + 1
    /\ halfDone' = halfDone \cup {call[c].id : c \in Indexing}
    /\ call' = [c \in MemoryCallers |-> Idling]
    /\ UNCHANGED <<facts, vectors>>

\* The dedupe window passes.
FactsAge ==
    /\ \E id \in FactIds : IsFact(id) /\ facts[id].recent
    /\ facts' = [id \in FactIds |-> IF IsFact(id)
                                    THEN [facts[id] EXCEPT !.recent = FALSE]
                                    ELSE facts[id]]
    /\ UNCHANGED <<vectors, call, halfDone, memoryFaults>>

MemoryNext ==
    \/ \E c \in MemoryCallers :
        \/ \E content \in Contents :
            \/ \E kind \in Kinds : Memorize(c, content, kind)
            \/ Forget(c, content)
        \/ FindSimilar(c) \/ Supersede(c) \/ InsertFact(c) \/ InsertVector(c)
        \/ DeleteMatches(c) \/ CallFails(c)
    \/ MemoryCrash \/ FactsAge

MemorySpec == MemoryInit /\ [][MemoryNext]_memoryVars

-----------------------------------------------------------------------------
(* Properties                                                               *)

\* Every stored fact can be recalled by what it says now (memorize,
\* semantic_forget_long_term): its vector is the embedding of its content,
\* whatever updates and deletions overlapped, unless its insertion is still
\* under way or was cut short between its two statements.
FactsAreIndexed ==
    \A id \in FactIds : IsFact(id) =>
        \/ IsVector(id) /\ vectors[id].content = facts[id].content
        \/ id \in halfDone
        \/ \E c \in Indexing : call[c].id = id

=============================================================================
