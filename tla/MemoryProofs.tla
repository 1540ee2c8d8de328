---------------------------- MODULE MemoryProofs ----------------------------
(***************************************************************************)
(* Proofs about what an agent remembers: the conversation of each session  *)
(* (TurnEngine), what a prompt shows of it, and the facts of its long-term *)
(* memory (LongTermMemory), for any number of sessions, messages, tool     *)
(* calls and facts.                                                        *)
(***************************************************************************)
EXTENDS TurnEngine, LongTermMemory, SequenceTheorems, FiniteSetTheorems, TLAPS

-----------------------------------------------------------------------------
(* The conversation: definitions                                            *)

Rows == [session : TurnSessions, role : {"user", "assistant"}, turn : Nat,
         indexed : BOOLEAN]

Dispositions == {"context", "pending", "failed", "silent", "replied", "lost"}

\* What may have become of a tool call.
Outcomes ==
    [at : {"done"}, status : {"ok", "tool_error", "accepted"}]
    \cup [at : {"running"}]
    \cup [at : {"delegated"}, steps : Nat, depth : Nat]

\* Excerpts of matches.
Excerpts == UNION {[matches -> SUBSET Nat] : matches \in SUBSET Nat}

\* What may be known of a turn at each of its stages.
Turns ==
    [at : {"idle"}]
    \cup [at : {"loading"}, n : Nat]
    \cup [at : {"recalling"}, n : Nat, history : SUBSET Nat]
    \cup [at : {"asking"}, n : Nat, steps : Nat, history : SUBSET Nat,
          recalled : Excerpts]
    \cup [at : {"calling"}, n : Nat, steps : Nat, history : SUBSET Nat,
          recalled : Excerpts,
          calls : UNION {[1..k -> Outcomes] : k \in 1..MaxCalls}]

TurnShape ==
    /\ stored \in Seq(Rows)
    /\ told \in Seq(Dispositions)
    /\ turn \in [TurnSessions -> Turns]
    /\ \A id \in Ids : stored[id].turn \in DOMAIN told

Active(s) == turn[s].at # "idle"

\* Row m is the message turn n answers.
Asks(m, n) == stored[m].turn = n /\ stored[m].role = "user"

\* A turn that is under way has not replied, and its message is the last row of
\* its session: nothing of the session is stored while the turn runs.
Opened(s) ==
    /\ turn[s].n \in DOMAIN told /\ told[turn[s].n] = "pending"
    /\ \A id \in Ids : stored[id].turn = turn[s].n => stored[id].role = "user"
    /\ \E m \in Ids :
           /\ Asks(m, turn[s].n) /\ stored[m].session = s
           /\ \A k \in (m + 1)..Len(stored) : stored[k].session # s

TurnsAreOpened == \A s \in TurnSessions : Active(s) => Opened(s)

TurnsAreDistinct ==
    \A s, t \in TurnSessions :
        Active(s) /\ Active(t) /\ turn[s].n = turn[t].n => s = t

\* What recall excludes is the history the turn has loaded.
HistoryIsRecent ==
    \A s \in TurnSessions : turn[s].at = "recalling" =>
        turn[s].history = RecentIds(s, HistoryMessages)

TurnInv ==
    /\ TurnShape /\ TurnsAreOpened /\ TurnsAreDistinct /\ HistoryIsRecent
    /\ ExcerptsStayApart /\ ConversationIsRemembered

-----------------------------------------------------------------------------
(* Long-term memory: definitions                                            *)

Filled == [kind : Kinds, content : Contents, recent : BOOLEAN]

MemoryCalls ==
    [at : {"idle"}]
    \cup [at : {"embedded", "inserting"}, content : Contents, kind : Kinds]
    \cup [at : {"superseding", "indexing"}, content : Contents, kind : Kinds,
          id : FactIds]
    \cup [at : {"deleting"}, ids : SUBSET FactIds]

MemoryShape ==
    /\ facts \in [FactIds -> Filled \cup {NoRow, Vacant}]
    /\ vectors \in [FactIds -> Filled \cup {NoRow}]
    /\ call \in [MemoryCallers -> MemoryCalls]

BeingIndexed(id) == \E c \in Indexing : call[c].id = id

\* The ids a call will write to, found by an earlier look at the index.
Targets(c) ==
    CASE call[c].at = "superseding" -> {call[c].id}
      [] call[c].at = "deleting" -> call[c].ids
      [] OTHER -> {}

\* What the index holds, and what another call found in it, has been inserted
\* and indexed: no call writes to a row between its two inserts.
FoundIsIndexed ==
    \A id \in FactIds :
        (IsVector(id) \/ \E c \in MemoryCallers : id \in Targets(c)) =>
            facts[id] # Vacant /\ ~BeingIndexed(id)

\* A row between its two inserts is as it was inserted, and is one call's.
RowAwaitsVector ==
    \A c \in Indexing :
        /\ facts[call[c].id] # Vacant
        /\ IsFact(call[c].id) => facts[call[c].id].content = call[c].content
        /\ \A d \in Indexing : call[c].id = call[d].id => c = d

MemoryInv == MemoryShape /\ FoundIsIndexed /\ RowAwaitsVector /\ FactsAreIndexed

-----------------------------------------------------------------------------
(* The conversation: lemmas                                                 *)

\* Row id is turn n's reply, and its message comes right before it.
Reply(id, n) == stored[id].turn = n /\ stored[id].role = "assistant"

Answers(id, n) ==
    \E m \in Ids : /\ Asks(m, n) /\ m < id
                   /\ \A k \in (m + 1)..(id - 1) :
                          stored[k].session # stored[m].session

Remembered(n) ==
    /\ told[n] = "replied" => \E id \in Ids : Reply(id, n)
    /\ \A id \in Ids : Reply(id, n) =>
           /\ told[n] \in {"replied", "failed", "lost"}
           /\ told[n] = "failed" => ~stored[id].indexed
           /\ Answers(id, n)

\* ConversationIsRemembered, one row at a time.
LEMMA RememberedMeans ==
    ConversationIsRemembered <=> \A n \in DOMAIN told : Remembered(n)
<1>1. ASSUME ConversationIsRemembered, NEW n \in DOMAIN told PROVE Remembered(n)
  BY <1>1 DEF ConversationIsRemembered, Remembered, Reply, Answers, Asks
<1>2. ASSUME \A n \in DOMAIN told : Remembered(n) PROVE ConversationIsRemembered
  BY <1>2 DEF ConversationIsRemembered, Remembered, Reply, Answers, Asks
<1> QED
  BY <1>1, <1>2

\* A row is added at the end; the other sessions' rows stay the same.
LEMMA RowAdded ==
    ASSUME stored \in Seq(Rows), NEW row \in Rows, stored' = Append(stored, row)
    PROVE  /\ stored' \in Seq(Rows)
           /\ Len(stored) \in Nat /\ Len(stored') = Len(stored) + 1
           /\ Ids' = Ids \cup {Len(stored) + 1}
           /\ stored'[Len(stored) + 1] = row
           /\ \A id \in Ids : id \in Nat /\ id <= Len(stored) /\ id \in Ids'
                              /\ stored'[id] = stored[id]
           /\ \A s : s # row.session => IdsOf(s)' = IdsOf(s)
<1>1. /\ stored' \in Seq(Rows)
      /\ Len(stored) \in Nat /\ Len(stored') = Len(stored) + 1
      /\ stored'[Len(stored) + 1] = row
      /\ \A id \in 1..Len(stored) : stored'[id] = stored[id]
  BY AppendProperties, LenProperties
<1>2. Ids' = Ids \cup {Len(stored) + 1}
  BY <1>1 DEF Ids
<1>3. \A id \in Ids : id \in Nat /\ id <= Len(stored) /\ id \in Ids'
                              /\ stored'[id] = stored[id]
  BY <1>1, <1>2 DEF Ids
<1>4. \A s : s # row.session => IdsOf(s)' = IdsOf(s)
  BY <1>1, <1>2, <1>3 DEF IdsOf
<1> QED
  BY <1>1, <1>2, <1>3, <1>4

\* What is recent in a session depends on its own rows alone.
LEMMA RecentOfRows ==
    ASSUME NEW s, IdsOf(s)' = IdsOf(s)
    PROVE  RecentIds(s, HistoryMessages)' = RecentIds(s, HistoryMessages)
  BY DEF RecentIds

\* A row is added for turn n of session t, at the end of the table: the rows of
\* the other turns keep their places, and so do the messages of the turns that
\* are under way.
LEMMA OthersKeep ==
    ASSUME TurnInv, NEW row \in Rows, stored' = Append(stored, row)
    PROVE  /\ \A n : n # row.turn => \A id \in Ids' :
                  /\ Reply(id, n)' <=> id \in Ids /\ Reply(id, n)
                  /\ Asks(id, n)' <=> id \in Ids /\ Asks(id, n)
           /\ \A n : \A id \in Ids : Answers(id, n) => Answers(id, n)'
           /\ \A s \in TurnSessions : s # row.session /\ Active(s) =>
                  \E m \in Ids' :
                      /\ stored'[m].turn = turn[s].n /\ stored'[m].role = "user"
                      /\ stored'[m].session = s
                      /\ \A k \in (m + 1)..Len(stored') : stored'[k].session # s
<1>1. /\ stored' \in Seq(Rows)
      /\ Len(stored) \in Nat /\ Len(stored') = Len(stored) + 1
      /\ Ids' = Ids \cup {Len(stored) + 1}
      /\ stored'[Len(stored) + 1] = row
      /\ \A id \in Ids : id \in Nat /\ id <= Len(stored) /\ id \in Ids'
                         /\ stored'[id] = stored[id]
  BY RowAdded DEF TurnInv, TurnShape
<1>2. \A n : n # row.turn => \A id \in Ids' :
          /\ Reply(id, n)' <=> id \in Ids /\ Reply(id, n)
          /\ Asks(id, n)' <=> id \in Ids /\ Asks(id, n)
  BY <1>1 DEF Reply, Asks
<1>3. ASSUME NEW n, NEW id \in Ids, Answers(id, n) PROVE Answers(id, n)'
  <2>1. PICK m \in Ids : /\ Asks(m, n) /\ m < id
                         /\ \A k \in (m + 1)..(id - 1) :
                                stored[k].session # stored[m].session
    BY <1>3 DEF Answers
  <2>2. m \in Ids' /\ stored'[m] = stored[m] /\ id \in Nat /\ id <= Len(stored)
        /\ m \in Nat
    BY <1>1
  <2>3. \A k \in (m + 1)..(id - 1) : k \in Ids
    BY <1>1, <2>1, <2>2 DEF Ids
  <2>4. \A k \in (m + 1)..(id - 1) : stored'[k].session # stored'[m].session
    BY <1>1, <2>1, <2>2, <2>3
  <2> QED
    BY <2>1, <2>2, <2>4 DEF Answers, Asks
<1>4. ASSUME NEW s \in TurnSessions, s # row.session, Active(s)
      PROVE  \E m \in Ids' :
                 /\ stored'[m].turn = turn[s].n /\ stored'[m].role = "user"
                 /\ stored'[m].session = s
                 /\ \A k \in (m + 1)..Len(stored') : stored'[k].session # s
  <2>1. PICK m \in Ids :
            /\ Asks(m, turn[s].n) /\ stored[m].session = s
            /\ \A k \in (m + 1)..Len(stored) : stored[k].session # s
    BY <1>4 DEF TurnInv, TurnsAreOpened, Opened
  <2>2. m \in Ids' /\ stored'[m] = stored[m] /\ m \in Nat
    BY <1>1
  <2>3. ASSUME NEW k \in (m + 1)..Len(stored') PROVE stored'[k].session # s
    <3>1. (k \in Ids /\ k \in (m + 1)..Len(stored)) \/ k = Len(stored) + 1
      BY <1>1, <2>2 DEF Ids
    <3> QED
      BY <1>1, <1>4, <2>1, <3>1
  <2> QED
    BY <2>1, <2>2, <2>3 DEF Asks
<1> QED
  BY <1>2, <1>3, <1>4

\* What is recalled depends on the session's own rows alone.
LEMMA ApartOfRows ==
    ASSUME NEW s, IdsOf(s)' = IdsOf(s),
           Apart(s, turn'[s].history, turn'[s].recalled)
    PROVE  Apart(s, turn[s].history, turn[s].recalled)'
  BY DEF Apart

\* A step that leaves a session without a prompt, and the rows and the turns of
\* the others as they are.
LEMMA ApartOfOthers ==
    ASSUME ExcerptsStayApart, NEW s \in TurnSessions, Preparing(s)',
           \A t \in TurnSessions : t # s => turn'[t] = turn[t] /\ IdsOf(t)' = IdsOf(t)
    PROVE  ExcerptsStayApart'
<1> SUFFICES ASSUME NEW t \in TurnSessions, ~Preparing(t)'
             PROVE  Apart(t, turn[t].history, turn[t].recalled)'
  BY DEF ExcerptsStayApart
<1>1. t # s
  OBVIOUS
<1>2. Apart(t, turn'[t].history, turn'[t].recalled)
  BY <1>1 DEF ExcerptsStayApart, Preparing
<1> QED
  BY <1>1, <1>2, ApartOfRows

\* What is not among the recent rows of a session is older than all of them.
LEMMA RecentIsLatest ==
    ASSUME stored \in Seq(Rows), NEW s, NEW id \in IdsOf(s),
           id \notin RecentIds(s, HistoryMessages),
           NEW h \in RecentIds(s, HistoryMessages)
    PROVE  id < h
<1>1. id \in Nat /\ h \in Nat /\ h \in IdsOf(s) /\ IdsOf(s) \subseteq 1..Len(stored)
      /\ Len(stored) \in Nat
  BY DEF RecentIds, IdsOf, Ids
<1> SUFFICES ASSUME ~(id < h) PROVE FALSE
  OBVIOUS
<1> DEFINE After(i) == {k \in IdsOf(s) : k >= i}
<1>2. After(id) \subseteq After(h)
  BY <1>1
<1>3. IsFiniteSet(After(h))
  <2>1. IsFiniteSet(1..Len(stored))
    BY <1>1, FS_Interval
  <2>2. After(h) \in SUBSET (1..Len(stored))
    BY <1>1
  <2> QED
    BY <2>1, <2>2, FS_Subset
<1>4. /\ Cardinality(After(id)) <= Cardinality(After(h))
      /\ Cardinality(After(id)) \in Nat /\ Cardinality(After(h)) \in Nat
  BY <1>2, <1>3, FS_Subset, FS_CardinalityType
<1>5. Cardinality(After(h)) <= HistoryMessages
  BY DEF RecentIds
<1> QED
  BY <1>4, <1>5, TurnAssumption DEF RecentIds

\* Excerpts are the spans of their matches: two of them that share a message are
\* one and the same.
LEMMA ExcerptsAreSpans ==
    ASSUME stored \in Seq(Rows), NEW s, NEW matches,
           matches \in SUBSET ShortTermCandidates(s, RecentIds(s, HistoryMessages)),
           NEW best \in SUBSET matches, NEW recalled,
           recalled = [m \in best |->
               ContextMessages(s, m, matches, RecentIds(s, HistoryMessages))]
    PROVE  /\ recalled \in Excerpts
           /\ Apart(s, RecentIds(s, HistoryMessages), recalled)
<1> DEFINE excluded == RecentIds(s, HistoryMessages)
<1>1. IdsOf(s) \subseteq Nat
  BY DEF IdsOf, Ids
<1>2. \A m \in best : m \in IdsOf(s) \ excluded /\ m \in matches /\ m \in Nat
  BY <1>1 DEF ShortTermCandidates
<1>3. DOMAIN recalled = best
      /\ \A m \in best : recalled[m] =
            {id \in IdsOf(s) \ excluded : \A i \in Between(id, m) : Near(i, matches)}
  BY DEF ContextMessages
<1>4. recalled \in Excerpts
  <2>1. recalled \in [best -> SUBSET Nat]
    BY <1>1, <1>3
  <2>2. best \in SUBSET Nat
    BY <1>2
  <2> QED
    BY <2>1, <2>2 DEF Excerpts
<1>5. ASSUME NEW m \in best PROVE m \in recalled[m]
  <2>1. ASSUME NEW i \in Between(m, m) PROVE Near(i, matches)
    <3>1. i = m
      BY <1>2 DEF Between
    <3> QED
      BY <1>2, <3>1, TurnAssumption DEF Near
  <2> QED
    BY <1>2, <1>3, <2>1
<1>6. ASSUME NEW m \in best PROVE recalled[m] \subseteq IdsOf(s)
  BY <1>3
<1>7. ASSUME NEW m \in best, NEW id \in recalled[m], NEW h \in excluded PROVE id < h
  BY <1>3, RecentIsLatest
<1>8. ASSUME NEW m \in best, NEW k \in best, NEW id \in recalled[m] \cap recalled[k]
      PROVE  recalled[m] \subseteq recalled[k]
  <2> SUFFICES ASSUME NEW j \in recalled[m] PROVE j \in recalled[k]
    OBVIOUS
  <2>1. j \in IdsOf(s) \ excluded
    BY <1>3
  <2>2. ASSUME NEW i \in Between(j, k) PROVE Near(i, matches)
    <3>1. i \in Between(j, m) \cup Between(id, m) \cup Between(id, k)
      <4>1. {i, j, id, m, k} \subseteq Int
        BY <1>1, <1>2, <1>3, <2>1 DEF Between
      <4> QED
        BY <4>1 DEF Between
    <3> QED
      BY <1>3, <3>1
  <2> QED
    BY <1>3, <2>1, <2>2
<1>9. \A m, k \in best : recalled[m] = recalled[k] \/ recalled[m] \cap recalled[k] = {}
  <2> SUFFICES ASSUME NEW m \in best, NEW k \in best,
                      NEW id \in recalled[m] \cap recalled[k]
               PROVE  recalled[m] = recalled[k]
    OBVIOUS
  <2>1. recalled[m] \subseteq recalled[k]
    BY <1>8
  <2>2. id \in recalled[k] \cap recalled[m]
    OBVIOUS
  <2>3. recalled[k] \subseteq recalled[m]
    BY <1>8, <2>2
  <2> QED
    BY <2>1, <2>3
<1> QED
  BY <1>3, <1>4, <1>5, <1>6, <1>7, <1>9 DEF Apart

-----------------------------------------------------------------------------
(* The conversation: steps                                                  *)

\* A turn moves on without touching the store.
LEMMA TurnMoves ==
    ASSUME TurnInv, NEW s \in TurnSessions, Active(s), NEW next \in Turns,
           turn' = [turn EXCEPT ![s] = next],
           UNCHANGED <<stored, told>>,
           next.at # "idle", next.n = turn[s].n,
           next.at = "recalling" => next.history = RecentIds(s, HistoryMessages),
           next.at \in {"asking", "calling"} => Apart(s, next.history, next.recalled)
    PROVE  TurnInv'
<1>1. /\ turn' \in [TurnSessions -> Turns] /\ turn'[s] = next
      /\ \A t \in TurnSessions : t # s => turn'[t] = turn[t]
  BY DEF TurnInv, TurnShape
<1>2. Ids' = Ids /\ \A t : RecentIds(t, HistoryMessages)' = RecentIds(t, HistoryMessages)
  BY DEF Ids, RecentIds, IdsOf
<1>3. next.at \notin {"idle", "loading", "recalling"} => next.at \in {"asking", "calling"}
  BY DEF Turns
<1>4. TurnShape'
  BY <1>1, <1>2 DEF TurnInv, TurnShape
<1>5. TurnsAreOpened'
  BY <1>1, <1>2 DEF TurnInv, TurnsAreOpened, Active, Opened, Asks
<1>6. TurnsAreDistinct'
  BY <1>1 DEF TurnInv, TurnsAreDistinct, Active
<1>7. HistoryIsRecent'
  BY <1>1, <1>2 DEF TurnInv, HistoryIsRecent
<1>8. ExcerptsStayApart'
  <2>1. \A t : IdsOf(t)' = IdsOf(t)
    BY <1>2 DEF IdsOf
  <2> SUFFICES ASSUME NEW t \in TurnSessions, ~Preparing(t)'
               PROVE  Apart(t, turn[t].history, turn[t].recalled)'
    BY DEF ExcerptsStayApart
  <2>2. Apart(t, turn'[t].history, turn'[t].recalled)
    BY <1>1, <1>3 DEF TurnInv, ExcerptsStayApart, Preparing
  <2> QED
    BY <2>1, <2>2, ApartOfRows
<1>9. ConversationIsRemembered'
  BY <1>2 DEF TurnInv, ConversationIsRemembered
<1> QED
  BY <1>4, <1>5, <1>6, <1>7, <1>8, <1>9 DEF TurnInv

\* A turn ends: with its reply stored, or with nothing stored, or with a reply
\* that was stored although the turn reports a failure.
LEMMA TurnEnds ==
    ASSUME TurnInv, NEW s \in TurnSessions, Active(s), NEW n, n = turn[s].n,
           NEW disposition \in {"failed", "silent", "replied", "lost"},
           End(s, n, disposition),
           \/ UNCHANGED stored /\ disposition # "replied"
           \/ \E embedded \in BOOLEAN :
                 /\ StoreRow(s, "assistant", n, embedded)
                 /\ disposition # "silent"
                 /\ disposition = "failed" => ~embedded
    PROVE  TurnInv'
<1>1. /\ turn' = [turn EXCEPT ![s] = Resting]
      /\ told' = [told EXCEPT ![n] = disposition]
  BY DEF End
<1>2. n \in DOMAIN told /\ told[n] = "pending" /\ n \in Nat
  BY DEF TurnInv, TurnsAreOpened, Opened, TurnShape
<1>3. /\ turn' \in [TurnSessions -> Turns] /\ turn'[s].at = "idle"
      /\ \A t \in TurnSessions : t # s => turn'[t] = turn[t]
  BY <1>1 DEF TurnInv, TurnShape, Turns, Resting
<1>4. /\ told' \in Seq(Dispositions) /\ DOMAIN told' = DOMAIN told
      /\ told'[n] = disposition
      /\ \A k \in DOMAIN told : k # n => told'[k] = told[k]
  BY <1>1, <1>2, ExceptSeq DEF TurnInv, TurnShape, Dispositions
<1>5. \A t \in TurnSessions : t # s /\ Active(t) => turn[t].n # n
  BY DEF TurnInv, TurnsAreDistinct
<1>6. TurnsAreDistinct'
  BY <1>3 DEF TurnInv, TurnsAreDistinct, Active
<1>7. ASSUME \A t \in TurnSessions : t # s => IdsOf(t)' = IdsOf(t)
      PROVE  ExcerptsStayApart'
  BY <1>3, <1>7, ApartOfOthers DEF TurnInv, Preparing, Resting
<1>8. \A id \in Ids : ~Reply(id, n)
  BY DEF TurnInv, TurnsAreOpened, Opened, Reply
<1>9. \A k \in DOMAIN told : Remembered(k)
  BY RememberedMeans DEF TurnInv
<1>10. CASE UNCHANGED stored /\ disposition # "replied"
  <2>1. Ids' = Ids /\ \A t : RecentIds(t, HistoryMessages)' = RecentIds(t, HistoryMessages)
    BY <1>10 DEF Ids, RecentIds, IdsOf
  <2>2. TurnShape'
    BY <1>3, <1>4, <1>10, <2>1 DEF TurnInv, TurnShape
  <2>3. TurnsAreOpened'
    BY <1>3, <1>4, <1>5, <1>10, <2>1 DEF TurnInv, TurnsAreOpened, Active, Opened, Asks
  <2>4. HistoryIsRecent'
    BY <1>3, <2>1 DEF TurnInv, HistoryIsRecent
  <2>5. \A k \in DOMAIN told' : Remembered(k)'
    BY <1>4, <1>8, <1>9, <1>10, <2>1 DEF Remembered, Reply, Answers, Asks
  <2>6. ConversationIsRemembered'
    BY <2>5 DEF ConversationIsRemembered, Remembered, Reply, Answers, Asks
  <2>7. ExcerptsStayApart'
    BY <1>7, <1>10, <2>1 DEF IdsOf
  <2> QED
    BY <1>6, <2>2, <2>3, <2>4, <2>6, <2>7 DEF TurnInv
<1>11. CASE \E embedded \in BOOLEAN :
                 /\ StoreRow(s, "assistant", n, embedded)
                 /\ disposition # "silent"
                 /\ disposition = "failed" => ~embedded
  <2>1. PICK embedded \in BOOLEAN :
                 /\ StoreRow(s, "assistant", n, embedded)
                 /\ disposition # "silent"
                 /\ (disposition = "failed" => ~embedded)
    BY <1>11
  <2> DEFINE row == [session |-> s, role |-> "assistant", turn |-> n,
                     indexed |-> embedded]
  <2>2. /\ row \in Rows /\ stored' = Append(stored, row)
        /\ row.session = s /\ row.role = "assistant" /\ row.turn = n
        /\ row.indexed = embedded
    BY <1>2, <2>1 DEF StoreRow, Rows
  <2> HIDE DEF row
  <2>3. /\ stored' \in Seq(Rows)
        /\ Len(stored) \in Nat /\ Len(stored') = Len(stored) + 1
        /\ Ids' = Ids \cup {Len(stored) + 1}
        /\ stored'[Len(stored) + 1] = row
        /\ \A id \in Ids : id \in Nat /\ id <= Len(stored) /\ id \in Ids'
                           /\ stored'[id] = stored[id]
        /\ \A t : t # row.session => IdsOf(t)' = IdsOf(t)
    BY <2>2, RowAdded DEF TurnInv, TurnShape
  <2>4. TurnShape'
    <3>1. \A id \in Ids : stored[id].turn \in DOMAIN told
      BY DEF TurnInv, TurnShape
    <3>2. \A id \in Ids' : stored'[id].turn \in DOMAIN told
      BY ZenonT(30), <1>2, <2>2, <2>3, <3>1
    <3> QED
      BY <1>3, <1>4, <2>3, <3>2 DEF TurnShape
  <2>5. TurnsAreOpened'
    <3> SUFFICES ASSUME NEW t \in TurnSessions, Active(t)' PROVE Opened(t)'
      BY DEF TurnsAreOpened
    <3>1. t # s /\ turn'[t] = turn[t] /\ Active(t) /\ turn[t].n # n
      BY <1>3, <1>5 DEF Active
    <3>2. Opened(t)
      BY <3>1 DEF TurnInv, TurnsAreOpened
    <3>3. /\ turn'[t].n \in DOMAIN told' /\ told'[turn'[t].n] = "pending"
      BY <1>4, <3>1, <3>2 DEF Opened
    <3>4. \A id \in Ids' : stored'[id].turn = turn'[t].n => stored'[id].role = "user"
      <4> SUFFICES ASSUME NEW id \in Ids', stored'[id].turn = turn'[t].n
                   PROVE  stored'[id].role = "user"
        OBVIOUS
      <4>1. id # Len(stored) + 1
        BY <2>2, <2>3, <3>1
      <4> QED
        BY <2>3, <3>1, <3>2, <4>1 DEF Opened
    <3>5. \E m \in Ids' :
              /\ stored'[m].turn = turn[t].n /\ stored'[m].role = "user"
              /\ stored'[m].session = t
              /\ \A k \in (m + 1)..Len(stored') : stored'[k].session # t
      BY <2>2, <3>1, OthersKeep
    <3> QED
      BY <3>1, <3>3, <3>4, <3>5 DEF Opened, Asks
  <2>6. HistoryIsRecent'
    <3> SUFFICES ASSUME NEW t \in TurnSessions, turn'[t].at = "recalling"
                 PROVE  turn'[t].history = RecentIds(t, HistoryMessages)'
      BY DEF HistoryIsRecent
    <3>1. t # s /\ turn'[t] = turn[t]
      BY <1>3
    <3>2. RecentIds(t, HistoryMessages)' = RecentIds(t, HistoryMessages)
      BY <2>2, <2>3, <3>1, RecentOfRows
    <3> QED
      BY <3>1, <3>2 DEF TurnInv, HistoryIsRecent
  <2>10. PICK last \in Nat : last = Len(stored) + 1
    BY <2>3
  <2>7. Answers(last, n)'
    <3>1. PICK m \in Ids :
            /\ Asks(m, turn[s].n) /\ stored[m].session = s
            /\ \A k \in (m + 1)..Len(stored) : stored[k].session # s
      BY DEF TurnInv, TurnsAreOpened, Opened
    <3>2. m \in Ids' /\ stored'[m] = stored[m] /\ m \in Nat /\ m < last
      BY <2>3, <2>10
    <3>3. \A k \in (m + 1)..Len(stored) : k \in Ids
      BY <2>3, <3>2 DEF Ids
    <3>4. \A k \in (m + 1)..(last - 1) : stored'[k].session # stored'[m].session
      BY <2>3, <2>10, <3>1, <3>2, <3>3
    <3> QED
      BY <3>1, <3>2, <3>4 DEF Answers, Asks
  <2>8. \A k \in DOMAIN told' : Remembered(k)'
    <3>1. ASSUME NEW k \in DOMAIN told, k # n PROVE Remembered(k)'
      <4>1. \A id \in Ids' : Reply(id, k)' <=> id \in Ids /\ Reply(id, k)
        BY <2>2, <3>1, OthersKeep
      <4>2. \A id \in Ids : Answers(id, k) => Answers(id, k)'
        BY <2>2, OthersKeep
      <4> QED
        BY <1>4, <1>9, <2>3, <3>1, <4>1, <4>2 DEF Remembered
    <3>2. Remembered(n)'
      <4>1. \A id \in Ids' : Reply(id, n)' <=> id = last
        BY <1>8, <2>2, <2>3, <2>10 DEF Reply, Ids
      <4> QED
        BY <1>4, <2>1, <2>2, <2>3, <2>10, <2>7, <4>1 DEF Remembered
    <3> QED
      BY <1>4, <3>1, <3>2
  <2>9. ConversationIsRemembered'
    BY <2>8 DEF ConversationIsRemembered, Remembered, Reply, Answers, Asks
  <2>11. ExcerptsStayApart'
    BY <1>7, <2>2, <2>3
  <2> QED
    BY <1>6, <2>4, <2>5, <2>6, <2>9, <2>11 DEF TurnInv
<1> QED
  BY <1>10, <1>11

\* A message arrives at a session with no turn under way, and is stored alone
\* or begins a turn.
LEMMA MessageArrives ==
    ASSUME TurnInv, NEW s \in TurnSessions, turn[s] = Resting,
           NEW n, n = Len(told) + 1, NEW embedded \in BOOLEAN,
           NEW disposition, told' = Append(told, disposition),
           StoreRow(s, "user", n, embedded),
           NEW next, turn' = [turn EXCEPT ![s] = next],
           \/ disposition = "context" /\ next = Resting
           \/ disposition = "pending" /\ next = [at |-> "loading", n |-> n]
    PROVE  TurnInv'
<1> DEFINE row == [session |-> s, role |-> "user", turn |-> n,
                   indexed |-> embedded]
<1>1. /\ told \in Seq(Dispositions) /\ disposition \in Dispositions
      /\ turn \in [TurnSessions -> Turns]
  BY DEF TurnInv, TurnShape, Dispositions
<1>2. /\ n \in Nat /\ told' \in Seq(Dispositions)
      /\ DOMAIN told' = DOMAIN told \cup {n} /\ n \notin DOMAIN told
      /\ told'[n] = disposition
      /\ \A k \in DOMAIN told : told'[k] = told[k]
  BY <1>1, AppendProperties, LenProperties
<1>3. /\ next \in Turns /\ next.at \in {"idle", "loading"}
      /\ next.at = "loading" => (next.n = n /\ disposition = "pending")
  BY <1>2 DEF Turns, Resting
<1>4. /\ turn' \in [TurnSessions -> Turns] /\ turn'[s] = next
      /\ \A t \in TurnSessions : t # s => turn'[t] = turn[t]
  BY <1>1, <1>3
<1>5. /\ row \in Rows /\ stored' = Append(stored, row)
      /\ row.session = s /\ row.role = "user" /\ row.turn = n
  BY <1>2 DEF StoreRow, Rows
<1> HIDE DEF row
<1>6. /\ stored' \in Seq(Rows)
      /\ Len(stored) \in Nat /\ Len(stored') = Len(stored) + 1
      /\ Ids' = Ids \cup {Len(stored) + 1}
      /\ stored'[Len(stored) + 1] = row
      /\ \A id \in Ids : id \in Nat /\ id <= Len(stored) /\ id \in Ids'
                         /\ stored'[id] = stored[id]
      /\ \A t : t # row.session => IdsOf(t)' = IdsOf(t)
  BY <1>5, RowAdded DEF TurnInv, TurnShape
<1>7. \A id \in Ids : stored[id].turn \in DOMAIN told
  BY DEF TurnInv, TurnShape
<1>8. TurnShape'
  <2>1. \A id \in Ids' : stored'[id].turn \in DOMAIN told'
    BY <1>2, <1>5, <1>6, <1>7
  <2> QED
    BY <1>2, <1>4, <1>6, <2>1 DEF TurnShape
<1>9. \A t \in TurnSessions : t # s /\ Active(t) =>
          turn[t].n \in DOMAIN told /\ turn[t].n # n
  BY <1>2 DEF TurnInv, TurnsAreOpened, Opened
<1>10. TurnsAreOpened'
  <2> SUFFICES ASSUME NEW t \in TurnSessions, Active(t)' PROVE Opened(t)'
    BY DEF TurnsAreOpened
  <2>1. CASE t = s
    <3>1. turn'[t].n = n /\ told'[n] = "pending"
      BY <1>2, <1>3, <1>4, <2>1 DEF Active
    <3>2. \A id \in Ids' : stored'[id].turn = n => stored'[id].role = "user"
      BY ZenonT(30), <1>2, <1>5, <1>6, <1>7
    <3>3. PICK m \in Ids' : m = Len(stored) + 1
      BY <1>6
    <3>4. \A k \in (m + 1)..Len(stored') : stored'[k].session # s
      BY <1>6, <3>3
    <3> QED
      BY ZenonT(30), <1>2, <1>5, <1>6, <2>1, <3>1, <3>2, <3>3, <3>4 DEF Opened, Asks
  <2>2. CASE t # s
    <3>1. turn'[t] = turn[t] /\ Active(t) /\ turn[t].n # n
      BY <1>4, <1>9, <2>2 DEF Active
    <3>2. Opened(t)
      BY <3>1 DEF TurnInv, TurnsAreOpened
    <3>3. turn'[t].n \in DOMAIN told' /\ told'[turn'[t].n] = "pending"
      BY <1>2, <3>1, <3>2 DEF Opened
    <3>4. \A id \in Ids' : stored'[id].turn = turn'[t].n => stored'[id].role = "user"
      BY <1>5, <1>6, <3>1, <3>2 DEF Opened
    <3>5. \E m \in Ids' :
              /\ stored'[m].turn = turn[t].n /\ stored'[m].role = "user"
              /\ stored'[m].session = t
              /\ \A k \in (m + 1)..Len(stored') : stored'[k].session # t
      BY <1>5, <2>2, <3>1, OthersKeep
    <3> QED
      BY <3>1, <3>3, <3>4, <3>5 DEF Opened, Asks
  <2> QED
    BY <2>1, <2>2
<1>11. TurnsAreDistinct'
  BY <1>3, <1>4, <1>9 DEF TurnInv, TurnsAreDistinct, Active
<1>12. HistoryIsRecent'
  <2> SUFFICES ASSUME NEW t \in TurnSessions, turn'[t].at = "recalling"
               PROVE  turn'[t].history = RecentIds(t, HistoryMessages)'
    BY DEF HistoryIsRecent
  <2>1. t # s /\ turn'[t] = turn[t]
    BY <1>3, <1>4
  <2>2. RecentIds(t, HistoryMessages)' = RecentIds(t, HistoryMessages)
    BY <1>5, <1>6, <2>1, RecentOfRows
  <2> QED
    BY <2>1, <2>2 DEF TurnInv, HistoryIsRecent
<1>13. ExcerptsStayApart'
  BY <1>3, <1>4, <1>5, <1>6, ApartOfOthers DEF TurnInv, Preparing
<1>14. \A k \in DOMAIN told' : Remembered(k)'
  <2>1. ASSUME NEW k \in DOMAIN told PROVE Remembered(k)'
    <3>1. k # n /\ told'[k] = told[k]
      BY <1>2
    <3>2. \A id \in Ids' : Reply(id, k)' <=> id \in Ids /\ Reply(id, k)
      BY <1>5, <3>1, OthersKeep
    <3>3. \A id \in Ids : Answers(id, k) => Answers(id, k)'
      BY <1>5, OthersKeep
    <3>4. Remembered(k)
      BY RememberedMeans DEF TurnInv
    <3> QED
      BY <1>6, <3>1, <3>2, <3>3, <3>4 DEF Remembered
  <2>2. Remembered(n)'
    <3>1. \A id \in Ids' : ~Reply(id, n)'
      BY <1>2, <1>5, <1>6, <1>7 DEF Reply
    <3>2. told'[n] # "replied"
      BY <1>2
    <3> QED
      BY <3>1, <3>2 DEF Remembered
  <2> QED
    BY <1>2, <2>1, <2>2
<1>15. ConversationIsRemembered'
  BY <1>14 DEF ConversationIsRemembered, Remembered, Reply, Answers, Asks
<1> QED
  BY <1>8, <1>10, <1>11, <1>12, <1>13, <1>15 DEF TurnInv

\* The process ends between two steps or right after a reply was stored, and
\* every turn under way is lost.
LEMMA TurnCrashKeeps ==
    ASSUME TurnInv, TurnCrash PROVE TurnInv'
<1>1. /\ stored \in Seq(Rows) /\ told \in Seq(Dispositions)
      /\ \A id \in Ids : stored[id].turn \in DOMAIN told
  BY DEF TurnInv, TurnShape
<1>2. /\ turn' \in [TurnSessions -> Turns]
      /\ \A s \in TurnSessions : turn'[s].at = "idle"
  BY DEF TurnCrash, Turns, Resting
<1>3. /\ told' \in Seq(Dispositions) /\ DOMAIN told' = DOMAIN told
      /\ \A k \in DOMAIN told :
             told'[k] = IF told[k] = "pending" THEN "lost" ELSE told[k]
  <2>1. told' = [k \in 1..Len(told) |->
                    IF told[k] = "pending" THEN "lost" ELSE told[k]]
    BY <1>1 DEF TurnCrash
  <2>2. \A k \in 1..Len(told) :
            (IF told[k] = "pending" THEN "lost" ELSE told[k]) \in Dispositions
    BY <1>1 DEF Dispositions
  <2> QED
    BY <1>1, <2>1, <2>2
<1>4. /\ TurnsAreOpened' /\ TurnsAreDistinct' /\ HistoryIsRecent'
      /\ ExcerptsStayApart'
  BY <1>2 DEF TurnsAreOpened, TurnsAreDistinct, HistoryIsRecent, Active,
     ExcerptsStayApart, Preparing
<1>5. \A k \in DOMAIN told : Remembered(k)
  BY RememberedMeans DEF TurnInv
<1>6. CASE UNCHANGED stored
  <2>1. TurnShape'
    BY <1>1, <1>2, <1>3, <1>6 DEF TurnShape, Ids
  <2>2. \A k \in DOMAIN told' : Remembered(k)'
    BY <1>3, <1>5, <1>6 DEF Remembered, Reply, Answers, Asks, Ids
  <2>3. ConversationIsRemembered'
    BY <2>2 DEF ConversationIsRemembered, Remembered, Reply, Answers, Asks
  <2> QED
    BY <1>4, <2>1, <2>3 DEF TurnInv
<1>7. ASSUME NEW s \in TurnSessions, CanFinish(s),
             AppendMessage(s, "assistant", turn[s].n)
      PROVE  TurnInv'
  <2>1. PICK n : n = turn[s].n
    OBVIOUS
  <2>2. /\ Active(s) /\ Opened(s)
        /\ n \in DOMAIN told /\ told[n] = "pending" /\ n \in Nat
    BY <1>1, <1>7, <2>1 DEF TurnInv, TurnsAreOpened, Opened, Active, CanFinish
  <2>3. PICK embedded \in BOOLEAN : StoreRow(s, "assistant", n, embedded)
    BY <1>7, <2>1 DEF AppendMessage
  <2> DEFINE row == [session |-> s, role |-> "assistant", turn |-> n,
                     indexed |-> embedded]
  <2>4. /\ row \in Rows /\ stored' = Append(stored, row)
        /\ row.session = s /\ row.role = "assistant" /\ row.turn = n
    BY <2>2, <2>3 DEF StoreRow, Rows
  <2> HIDE DEF row
  <2>5. /\ stored' \in Seq(Rows)
        /\ Len(stored) \in Nat /\ Len(stored') = Len(stored) + 1
        /\ Ids' = Ids \cup {Len(stored) + 1}
        /\ stored'[Len(stored) + 1] = row
        /\ \A id \in Ids : id \in Nat /\ id <= Len(stored) /\ id \in Ids'
                           /\ stored'[id] = stored[id]
    BY <1>1, <2>4, RowAdded
  <2>6. TurnShape'
    <3>1. \A id \in Ids' : stored'[id].turn \in DOMAIN told'
      BY <1>1, <1>3, <2>2, <2>4, <2>5
    <3> QED
      BY <1>2, <1>3, <2>5, <3>1 DEF TurnShape
  <2>7. \A k \in DOMAIN told' : Remembered(k)'
    <3>1. ASSUME NEW k \in DOMAIN told, k # n PROVE Remembered(k)'
      <4>1. \A id \in Ids' : Reply(id, k)' <=> id \in Ids /\ Reply(id, k)
        BY <2>4, <3>1, OthersKeep
      <4>2. \A id \in Ids : Answers(id, k) => Answers(id, k)'
        BY <2>4, OthersKeep
      <4> QED
        BY <1>3, <1>5, <2>5, <3>1, <4>1, <4>2 DEF Remembered
    <3>2. Remembered(n)'
      <4>1. PICK last \in Nat : last = Len(stored) + 1
        BY <2>5
      <4>2. \A id \in Ids' : Reply(id, n)' <=> id = last
        BY <2>1, <2>2, <2>4, <2>5, <4>1 DEF Opened, Reply, Ids
      <4>3. PICK m \in Ids :
            /\ Asks(m, n) /\ stored[m].session = s
            /\ \A k \in (m + 1)..Len(stored) : stored[k].session # s
        BY <2>1, <2>2 DEF Opened
      <4>4. m \in Ids' /\ stored'[m] = stored[m] /\ m \in Nat /\ m < last
        BY <2>5, <4>1
      <4>5. \A k \in (m + 1)..(last - 1) : k \in Ids /\ k \in (m + 1)..Len(stored)
        BY <2>5, <4>1, <4>4 DEF Ids
      <4>6. \A k \in (m + 1)..(last - 1) : stored'[k].session # stored'[m].session
        BY <2>5, <4>3, <4>4, <4>5
      <4>7. Answers(last, n)'
        BY <4>3, <4>4, <4>6 DEF Answers, Asks
      <4>8. told'[n] = "lost"
        BY <1>3, <2>2
      <4> QED
        BY <4>2, <4>7, <4>8 DEF Remembered
    <3> QED
      BY <1>3, <3>1, <3>2
  <2>8. ConversationIsRemembered'
    BY <2>7 DEF ConversationIsRemembered, Remembered, Reply, Answers, Asks
  <2> QED
    BY <1>4, <2>6, <2>8 DEF TurnInv
<1> QED
  BY <1>6, <1>7 DEF TurnCrash

\* The stages of a turn, by what is known of it.
LEMMA StageFields ==
    ASSUME NEW t \in Turns
    PROVE  /\ t.at \in {"idle", "loading", "recalling", "asking", "calling"}
           /\ t.at # "idle" => t.n \in Nat
           /\ t.at = "recalling" => t.history \in SUBSET Nat
           /\ t.at = "asking" =>
                  t \in [at : {"asking"}, n : Nat, steps : Nat,
                         history : SUBSET Nat, recalled : Excerpts]
           /\ t.at = "calling" =>
                  t \in [at : {"calling"}, n : Nat, steps : Nat,
                         history : SUBSET Nat, recalled : Excerpts,
                         calls : UNION {[1..k -> Outcomes] : k \in 1..MaxCalls}]
  BY DEF Turns

\* The result of one call replaces what was known of it.
LEMMA CallMoves ==
    ASSUME TurnInv, NEW s \in TurnSessions, turn[s].at = "calling",
           NEW i \in DOMAIN turn[s].calls, NEW outcome \in Outcomes,
           turn' = [turn EXCEPT ![s].calls[i] = outcome],
           UNCHANGED <<stored, told>>
    PROVE  TurnInv'
<1>1. turn[s] \in Turns
  BY DEF TurnInv, TurnShape
<1>2. turn[s] \in [at : {"calling"}, n : Nat, steps : Nat, history : SUBSET Nat,
                   recalled : Excerpts,
                   calls : UNION {[1..k -> Outcomes] : k \in 1..MaxCalls}]
  BY <1>1, StageFields
<1>3. PICK k \in 1..MaxCalls : turn[s].calls \in [1..k -> Outcomes]
  BY <1>2
<1> DEFINE calls == [turn[s].calls EXCEPT ![i] = outcome]
<1>4. calls \in [1..k -> Outcomes]
  BY <1>3
<1> HIDE DEF calls
<1> DEFINE next == [turn[s] EXCEPT !.calls = calls]
<1>5. /\ next \in [at : {"calling"}, n : Nat, steps : Nat, history : SUBSET Nat,
                   recalled : Excerpts,
                   calls : UNION {[1..j -> Outcomes] : j \in 1..MaxCalls}]
      /\ next.n = turn[s].n /\ next.at = "calling"
      /\ next.history = turn[s].history /\ next.recalled = turn[s].recalled
  <2>1. calls \in UNION {[1..j -> Outcomes] : j \in 1..MaxCalls}
    BY <1>4
  <2> QED
    BY <1>2, <2>1
<1>6. turn' = [turn EXCEPT ![s] = next]
  BY DEF calls
<1> HIDE DEF next
<1>7. next \in Turns
  BY <1>5 DEF Turns
<1>8. Active(s) /\ Apart(s, turn[s].history, turn[s].recalled)
  BY DEF Active, TurnInv, ExcerptsStayApart, Preparing
<1> QED
  BY <1>5, <1>6, <1>7, <1>8, TurnMoves

\* Each step of a session's turn keeps the invariant.
LEMMA TurnStep == TurnInv /\ [TurnNext]_turnVars => TurnInv'
<1> SUFFICES ASSUME TurnInv, [TurnNext]_turnVars PROVE TurnInv'
  OBVIOUS
<1>1. \A s \in TurnSessions : turn[s] \in Turns
  BY DEF TurnInv, TurnShape
<1>2. Len(told) \in Nat
  BY DEF TurnInv, TurnShape
<1>3. ASSUME NEW s \in TurnSessions, RecordContext(s) \/ StartTurn(s) PROVE TurnInv'
  <2>1. Len(told') = Len(told) + 1
    BY <1>2, <1>3, AppendProperties DEF RecordContext, StartTurn, TurnInv,
       TurnShape, Dispositions
  <2>2. PICK n : n = Len(told) + 1
    OBVIOUS
  <2>3. PICK embedded \in BOOLEAN : StoreRow(s, "user", n, embedded)
    BY <1>3, <2>1, <2>2 DEF RecordContext, StartTurn, AppendMessage
  <2>4. CASE RecordContext(s)
    <3>1. turn[s] = Resting /\ told' = Append(told, "context") /\ turn' = turn
      BY <2>4 DEF RecordContext
    <3>2. [turn EXCEPT ![s] = Resting] = turn
      BY <3>1 DEF TurnInv, TurnShape
    <3> QED
      BY <2>2, <2>3, <3>1, <3>2, MessageArrives
  <2>5. CASE StartTurn(s)
    BY <2>1, <2>2, <2>3, <2>5, MessageArrives DEF StartTurn
  <2> QED
    BY <1>3, <2>4, <2>5
<1>4. ASSUME NEW s \in TurnSessions,
             PrepareFails(s) \/ RecallPanics(s) \/ ProviderFails(s) \/ NoReply(s)
      PROVE  TurnInv'
  <2>1. PICK n : n = turn[s].n
    OBVIOUS
  <2>2. Active(s) /\ UNCHANGED stored
    BY <1>4 DEF Active, PrepareFails, RecallPanics, ProviderFails, NoReply, Asking,
       CanFinish
  <2>3. PICK disposition \in {"failed", "silent", "lost"} : End(s, n, disposition)
    BY <1>4, <2>1 DEF PrepareFails, RecallPanics, ProviderFails, NoReply
  <2> QED
    BY <2>1, <2>2, <2>3, TurnEnds
<1>5. ASSUME NEW s \in TurnSessions, Finalize(s) PROVE TurnInv'
  <2>1. PICK n : n = turn[s].n
    OBVIOUS
  <2>2. Active(s)
    BY <1>5 DEF Active, Finalize, CanFinish
  <2>3. CASE AppendMessage(s, "assistant", n) /\ End(s, n, "replied")
    BY <2>1, <2>2, <2>3, TurnEnds DEF AppendMessage
  <2>4. CASE UNCHANGED stored /\ End(s, n, "failed")
    BY <2>1, <2>2, <2>4, TurnEnds
  <2>5. CASE StoreRow(s, "assistant", n, FALSE) /\ End(s, n, "failed")
    BY <2>1, <2>2, <2>5, TurnEnds
  <2> QED
    BY <1>5, <2>1, <2>3, <2>4, <2>5 DEF Finalize
<1>6. \A s : RecentIds(s, HistoryMessages) \in SUBSET Nat
  BY DEF RecentIds, IdsOf, Ids
<1>7. ASSUME NEW s \in TurnSessions, LoadHistory(s) PROVE TurnInv'
  <2> DEFINE next == [at |-> "recalling", n |-> turn[s].n,
                      history |-> RecentIds(s, HistoryMessages)]
  <2>1. /\ turn' = [turn EXCEPT ![s] = next] /\ UNCHANGED <<stored, told>>
        /\ turn[s].at = "loading" /\ Active(s)
    BY <1>7 DEF LoadHistory, Active
  <2>2. turn[s].n \in Nat
    BY <1>1, <2>1, StageFields
  <2>3. /\ next \in Turns /\ next.at = "recalling" /\ next.n = turn[s].n
        /\ next.history = RecentIds(s, HistoryMessages)
    BY <1>6, <2>2 DEF Turns
  <2> HIDE DEF next
  <2> QED
    BY <2>1, <2>3, TurnMoves
<1>8. ASSUME NEW s \in TurnSessions, Recall(s) PROVE TurnInv'
  <2> DEFINE excluded == RecentIds(s, HistoryMessages)
             Recalled(matches, best) ==
                 [m \in best |-> ContextMessages(s, m, matches, excluded)]
  <2>a. PICK matches \in SUBSET ShortTermCandidates(s, excluded) :
            \E best \in SUBSET matches : turn' = [turn EXCEPT ![s] =
                [at |-> "asking", n |-> @.n, steps |-> 0,
                 history |-> @.history, recalled |-> Recalled(matches, best)]]
    BY <1>8 DEF Recall
  <2>1. PICK best \in SUBSET matches : turn' = [turn EXCEPT ![s] =
                [at |-> "asking", n |-> @.n, steps |-> 0,
                 history |-> @.history, recalled |-> Recalled(matches, best)]]
    BY <2>a
  <2>2. PICK recalled : recalled = Recalled(matches, best)
    OBVIOUS
  <2> DEFINE next == [at |-> "asking", n |-> turn[s].n, steps |-> 0,
                      history |-> turn[s].history, recalled |-> recalled]
  <2>3. /\ turn' = [turn EXCEPT ![s] = next] /\ UNCHANGED <<stored, told>>
        /\ turn[s].at = "recalling" /\ Active(s)
    BY <1>8, <2>1, <2>2 DEF Recall, Active
  <2>4. turn[s].n \in Nat /\ turn[s].history \in SUBSET Nat
    BY <1>1, <2>3, StageFields
  <2>5. turn[s].history = excluded
    BY <2>3 DEF TurnInv, HistoryIsRecent
  <2>6. stored \in Seq(Rows)
    BY DEF TurnInv, TurnShape
  <2>7. recalled \in Excerpts /\ Apart(s, excluded, recalled)
    BY <2>2, <2>6, ExcerptsAreSpans
  <2> HIDE DEF excluded
  <2>8. /\ next \in Turns /\ next.at = "asking" /\ next.n = turn[s].n
        /\ next.history = excluded /\ next.recalled = recalled
    BY <2>4, <2>5, <2>7 DEF Turns
  <2> HIDE DEF next
  <2> QED
    BY <2>3, <2>7, <2>8, TurnMoves
<1>9. ASSUME NEW s \in TurnSessions,
             EmptyResponse(s) \/ ToolResponse(s) \/ ToolsDone(s)
      PROVE  TurnInv'
  <2>1. /\ turn[s].at \in {"asking", "calling"} /\ Active(s)
        /\ UNCHANGED <<stored, told>>
    BY <1>9 DEF EmptyResponse, ToolResponse, ToolsDone, Asking, Active
  <2>2. /\ turn[s].n \in Nat /\ turn[s].steps \in Nat
        /\ turn[s].history \in SUBSET Nat /\ turn[s].recalled \in Excerpts
    BY <1>1, <2>1, StageFields
  <2>3. Apart(s, turn[s].history, turn[s].recalled)
    BY <2>1 DEF TurnInv, ExcerptsStayApart, Preparing
  <2>4. ASSUME EmptyResponse(s) \/ ToolsDone(s) PROVE TurnInv'
    <3> DEFINE next == [at |-> "asking", n |-> turn[s].n, steps |-> turn[s].steps + 1,
                        history |-> turn[s].history, recalled |-> turn[s].recalled]
    <3>1. /\ next \in Turns /\ next.at = "asking" /\ next.n = turn[s].n
          /\ next.history = turn[s].history /\ next.recalled = turn[s].recalled
      BY <2>2 DEF Turns
    <3>2. turn' = [turn EXCEPT ![s] = next]
      <4>1. CASE EmptyResponse(s)
        <5>1. turn[s] \in [at : {"asking"}, n : Nat, steps : Nat,
                           history : SUBSET Nat, recalled : Excerpts]
          BY <1>1, <4>1, StageFields DEF EmptyResponse, Asking
        <5>2. [turn[s] EXCEPT !.steps = turn[s].steps + 1] = next
          BY <5>1
        <5> QED
          BY <4>1, <5>2 DEF EmptyResponse
      <4>2. CASE ToolsDone(s)
        BY <4>2 DEF ToolsDone
      <4> QED
        BY <2>4, <4>1, <4>2
    <3> HIDE DEF next
    <3> QED
      BY <2>1, <2>3, <3>1, <3>2, TurnMoves
  <2>5. ASSUME ToolResponse(s) PROVE TurnInv'
    <3>1. PICK k \in 1..MaxCalls : \E tools \in [1..k -> Tools] :
              \E calls \in [1..k -> UNION {Started(t, 0) : t \in Tools}] :
                  turn' = [turn EXCEPT ![s] =
                      [at |-> "calling", n |-> @.n, steps |-> @.steps,
                       history |-> @.history, recalled |-> @.recalled,
                       calls |-> calls]]
      BY <2>5 DEF ToolResponse
    <3>2. PICK calls \in [1..k -> UNION {Started(t, 0) : t \in Tools}] :
              turn' = [turn EXCEPT ![s] =
                  [at |-> "calling", n |-> @.n, steps |-> @.steps,
                   history |-> @.history, recalled |-> @.recalled,
                   calls |-> calls]]
      BY <3>1
    <3>3. \A t \in Tools : Started(t, 0) \subseteq Outcomes
      BY DEF Tools, Started, Registry, Outcomes
    <3>4. calls \in [1..k -> Outcomes]
      BY <3>3
    <3> DEFINE next == [at |-> "calling", n |-> turn[s].n, steps |-> turn[s].steps,
                        history |-> turn[s].history, recalled |-> turn[s].recalled,
                        calls |-> calls]
    <3>5. /\ next \in Turns /\ next.at = "calling" /\ next.n = turn[s].n
          /\ next.history = turn[s].history /\ next.recalled = turn[s].recalled
      BY <2>2, <3>4 DEF Turns
    <3>6. turn' = [turn EXCEPT ![s] = next]
      BY <3>2
    <3> HIDE DEF next
    <3> QED
      BY <2>1, <2>3, <3>5, <3>6, TurnMoves
  <2> QED
    BY <1>9, <2>4, <2>5
<1>10. ASSUME NEW s \in TurnSessions, ToolFinishes(s) \/ DelegatedRunEnds(s)
       PROVE  TurnInv'
  <2>1. PICK i \in DOMAIN turn[s].calls, status \in {"ok", "tool_error"} :
            turn' = [turn EXCEPT ![s].calls[i] = [at |-> "done", status |-> status]]
    BY <1>10 DEF ToolFinishes, DelegatedRunEnds
  <2>2. [at |-> "done", status |-> status] \in Outcomes
    BY DEF Outcomes
  <2> QED
    BY <1>10, <2>1, <2>2, CallMoves DEF ToolFinishes, DelegatedRunEnds
<1>11. ASSUME NEW s \in TurnSessions, DelegatedRunSteps(s) PROVE TurnInv'
  <2>1. PICK i \in DOMAIN turn[s].calls :
            LET run == turn[s].calls[i] IN
            /\ run.at = "delegated" /\ run.steps < MaxSteps
            /\ \E tool \in Tools : \E result \in Started(tool, run.depth) :
                turn' = [turn EXCEPT ![s].calls[i] =
                            IF result.at = "delegated" THEN result
                            ELSE [run EXCEPT !.steps = @ + 1]]
    BY <1>11 DEF DelegatedRunSteps
  <2> DEFINE run == turn[s].calls[i]
  <2>2. run.at = "delegated"
    BY <2>1
  <2>3. PICK tool \in Tools : \E result \in Started(tool, run.depth) :
            turn' = [turn EXCEPT ![s].calls[i] =
                        IF result.at = "delegated" THEN result
                        ELSE [run EXCEPT !.steps = @ + 1]]
    BY <2>1
  <2>4. PICK result \in Started(tool, run.depth) :
            turn' = [turn EXCEPT ![s].calls[i] =
                        IF result.at = "delegated" THEN result
                        ELSE [run EXCEPT !.steps = @ + 1]]
    BY <2>3
  <2>5. run \in Outcomes
    <3>1. turn[s] \in [at : {"calling"}, n : Nat, steps : Nat, history : SUBSET Nat,
                   recalled : Excerpts,
                   calls : UNION {[1..k -> Outcomes] : k \in 1..MaxCalls}]
      BY <1>1, <1>11, StageFields DEF DelegatedRunSteps
    <3> QED
      BY <3>1
  <2> HIDE DEF run
  <2>6. run \in [at : {"delegated"}, steps : Nat, depth : Nat]
    BY <2>2, <2>5 DEF Outcomes
  <2>7. [run EXCEPT !.steps = @ + 1] \in Outcomes
    BY <2>6 DEF Outcomes
  <2>8. result \in Outcomes
    BY <2>6 DEF Started, Registry, Tools, Outcomes
  <2>9. (IF result.at = "delegated" THEN result ELSE [run EXCEPT !.steps = @ + 1])
            \in Outcomes
    BY <2>7, <2>8
  <2> QED
    BY <1>11, <2>4, <2>9, CallMoves DEF DelegatedRunSteps
<1>12. CASE UNCHANGED turnVars
  <2>1. Ids' = Ids /\ \A t : RecentIds(t, HistoryMessages)' = RecentIds(t, HistoryMessages)
    BY <1>12 DEF turnVars, Ids, RecentIds, IdsOf
  <2>2. TurnShape' /\ TurnsAreDistinct' /\ ExcerptsStayApart'
    BY <1>12, <2>1 DEF turnVars, TurnInv, TurnShape, TurnsAreDistinct, Active,
       ExcerptsStayApart, Preparing, Apart, IdsOf
  <2>3. TurnsAreOpened' /\ HistoryIsRecent'
    BY <1>12, <2>1 DEF turnVars, TurnInv, TurnsAreOpened, Opened, Asks, Active,
       HistoryIsRecent
  <2>4. ConversationIsRemembered'
    BY <1>12, <2>1 DEF turnVars, TurnInv, ConversationIsRemembered
  <2> QED
    BY <2>2, <2>3, <2>4 DEF TurnInv
<1> QED
  BY <1>3, <1>4, <1>5, <1>7, <1>8, <1>9, <1>10, <1>11, <1>12, TurnCrashKeeps
  DEF TurnNext

\* The invariant of every execution of an agent's turns.
LEMMA TurnInvariant == TurnSpec => []TurnInv
<1>1. TurnInit => TurnInv
  BY DEF TurnInit, TurnInv, TurnShape, TurnsAreOpened, Active, TurnsAreDistinct,
     HistoryIsRecent, ExcerptsStayApart, Preparing, ConversationIsRemembered,
     Resting, Turns, Ids
<1> QED
  BY <1>1, TurnStep, PTL DEF TurnSpec

\* ConversationIsRemembered for any number of sessions whose turns interleave in
\* one table: no reply is returned that the next turn will not find in the store
\* right after the message it answers (prepare_turn, finalize_turn), whatever
\* fails and wherever the process ends.
THEOREM ConversationStaysRemembered == TurnSpec => []ConversationIsRemembered
<1>1. TurnInv => ConversationIsRemembered
  BY DEF TurnInv
<1> QED
  BY <1>1, TurnInvariant, PTL

\* ExcerptsStayApart for any history length and context radius and any stored
\* messages: every excerpt holds its match and only messages of the session
\* older than its history (recent_messages, fetch_short_term_candidates), and
\* two excerpts are one and the same, or share no message, because a match is
\* given the whole of the merged span it is in (merge_short_term_context_spans).
THEOREM PromptsStayApart == TurnSpec => []ExcerptsStayApart
<1>1. TurnInv => ExcerptsStayApart
  BY DEF TurnInv
<1> QED
  BY <1>1, TurnInvariant, PTL

-----------------------------------------------------------------------------
(* Long-term memory: lemmas                                                 *)

\* A row that holds a fact is told apart from no row and from one that was never
\* inserted.
LEMMA RowsDiffer ==
    /\ \A row \in Filled : row # NoRow /\ row # Vacant
    /\ NoRow # Vacant
<1>1. ASSUME NEW row \in Filled PROVE row # NoRow /\ row # Vacant
  <2>1. "content" \in DOMAIN row
    BY DEF Filled
  <2>2. "content" \notin DOMAIN NoRow /\ "content" \notin DOMAIN Vacant
    BY DEF NoRow, Vacant
  <2> QED
    BY <2>1, <2>2
<1>2. NoRow.kind # Vacant.kind
  BY DEF NoRow, Vacant
<1> QED
  BY <1>1, <1>2

\* What a call knows at each of its stages.
LEMMA CallFields ==
    ASSUME NEW c \in MemoryCalls
    PROVE  /\ c.at \in {"idle", "embedded", "inserting", "superseding", "indexing",
                        "deleting"}
           /\ c.at \in {"embedded", "inserting", "superseding", "indexing"} =>
                  c.content \in Contents /\ c.kind \in Kinds
           /\ c.at \in {"superseding", "indexing"} => c.id \in FactIds
           /\ c.at = "deleting" => c.ids \in SUBSET FactIds
  BY DEF MemoryCalls

\* A call looks at the tables, or ends, and changes neither: what it found to
\* write to is in the index.
LEMMA CallLooks ==
    ASSUME MemoryInv, NEW c \in MemoryCallers, NEW next \in MemoryCalls,
           call' = [call EXCEPT ![c] = next],
           UNCHANGED <<facts, vectors, halfDone>>,
           call[c].at # "indexing", next.at # "indexing",
           next.at = "superseding" => IsVector(next.id),
           next.at = "deleting" => \A id \in next.ids : IsVector(id)
    PROVE  MemoryInv'
<1>1. /\ call' \in [MemoryCallers -> MemoryCalls] /\ call'[c] = next
      /\ \A d \in MemoryCallers : d # c => call'[d] = call[d]
  BY DEF MemoryInv, MemoryShape
<1>2. /\ Indexing' = Indexing /\ c \notin Indexing
      /\ \A d \in Indexing : call'[d] = call[d]
  BY <1>1 DEF Indexing
<1>3. \A id : BeingIndexed(id)' <=> BeingIndexed(id)
  BY <1>2 DEF BeingIndexed
<1>4. \A id \in FactIds : id \in Targets(c)' => IsVector(id)
  BY <1>1 DEF Targets
<1>5. \A d \in MemoryCallers : d # c => Targets(d)' = Targets(d)
  BY <1>1 DEF Targets
<1>6. \A id \in FactIds : IsVector(id)' <=> IsVector(id)
  BY DEF IsVector
<1>7. FoundIsIndexed'
  BY <1>3, <1>4, <1>5, <1>6 DEF MemoryInv, FoundIsIndexed
<1>8. RowAwaitsVector' /\ FactsAreIndexed' /\ MemoryShape'
  BY <1>1, <1>2 DEF MemoryInv, RowAwaitsVector, FactsAreIndexed, MemoryShape,
     IsFact, IsVector
<1> QED
  BY <1>7, <1>8 DEF MemoryInv

\* A call that is ready to write writes, and is over: only rows that are in the
\* tables already, and not between their two inserts, may differ afterwards, and
\* each of them is left without a fact or with its own embedding.
LEMMA CallWrites ==
    ASSUME MemoryInv, NEW c \in MemoryCallers, call[c].at # "indexing",
           call' = [call EXCEPT ![c] = Idling], halfDone' = halfDone,
           facts' \in [FactIds -> Filled \cup {NoRow, Vacant}],
           vectors' \in [FactIds -> Filled \cup {NoRow}],
           \A id \in FactIds \ Targets(c) :
               facts'[id] = facts[id] /\ vectors'[id] = vectors[id],
           \A id \in FactIds : facts[id] # Vacant => facts'[id] # Vacant,
           \A id \in Targets(c) :
               facts'[id] \in Filled => /\ vectors'[id] # NoRow
                                        /\ vectors'[id].content = facts'[id].content
    PROVE  MemoryInv'
<1>1. /\ call' \in [MemoryCallers -> MemoryCalls] /\ call'[c].at = "idle"
      /\ \A d \in MemoryCallers : d # c => call'[d] = call[d]
  BY DEF MemoryInv, MemoryShape, MemoryCalls, Idling
<1>2. /\ Indexing' = Indexing /\ c \notin Indexing
      /\ \A d \in Indexing : call'[d] = call[d] /\ d \in MemoryCallers
  BY <1>1 DEF Indexing
<1>3. \A id : BeingIndexed(id)' <=> BeingIndexed(id)
  BY <1>2 DEF BeingIndexed
<1>4. /\ Targets(c)' = {}
      /\ \A d \in MemoryCallers : d # c => Targets(d)' = Targets(d)
  BY <1>1 DEF Targets
<1>5. \A id \in Targets(c) : id \in FactIds => facts[id] # Vacant /\ ~BeingIndexed(id)
  BY DEF MemoryInv, FoundIsIndexed
<1>6. FoundIsIndexed'
  <2> SUFFICES ASSUME NEW id \in FactIds,
                      IsVector(id)' \/ \E d \in MemoryCallers : id \in Targets(d)'
               PROVE  facts'[id] # Vacant /\ ~BeingIndexed(id)
    BY <1>3 DEF FoundIsIndexed
  <2>1. CASE id \in Targets(c)
    BY <1>5, <2>1
  <2>2. CASE id \notin Targets(c)
    <3>1. IsVector(id) \/ \E d \in MemoryCallers : id \in Targets(d)
      BY <1>4, <2>2 DEF IsVector
    <3> QED
      BY <3>1 DEF MemoryInv, FoundIsIndexed
  <2> QED
    BY <2>1, <2>2
<1>7. \A d \in Indexing : call[d].id \in FactIds /\ call[d].id \notin Targets(c)
  <2> SUFFICES ASSUME NEW d \in Indexing
               PROVE  call[d].id \in FactIds /\ call[d].id \notin Targets(c)
    OBVIOUS
  <2>1. d \in MemoryCallers /\ call[d] \in MemoryCalls /\ call[d].at = "indexing"
    BY DEF Indexing, MemoryInv, MemoryShape
  <2>2. call[d].id \in FactIds
    BY <2>1, CallFields
  <2> QED
    BY <1>5, <2>2 DEF BeingIndexed
<1>8. RowAwaitsVector'
  BY <1>2, <1>7 DEF MemoryInv, RowAwaitsVector, IsFact
<1>9. FactsAreIndexed'
  <2> SUFFICES ASSUME NEW id \in FactIds, IsFact(id)'
               PROVE  \/ IsVector(id)' /\ vectors'[id].content = facts'[id].content
                      \/ id \in halfDone
                      \/ \E d \in Indexing : call[d].id = id
    BY <1>2 DEF FactsAreIndexed
  <2>1. facts'[id] \in Filled
    BY DEF IsFact
  <2>2. CASE id \in Targets(c)
    BY <2>1, <2>2 DEF IsVector
  <2>3. CASE id \notin Targets(c)
    BY <2>3 DEF MemoryInv, FactsAreIndexed, IsFact, IsVector
  <2> QED
    BY <2>2, <2>3
<1>10. MemoryShape'
  BY <1>1 DEF MemoryShape
<1> QED
  BY <1>6, <1>8, <1>9, <1>10 DEF MemoryInv

-----------------------------------------------------------------------------
(* Long-term memory: steps                                                  *)

\* Inserting a fact takes two statements, with the row in between known to its
\* own call only.
LEMMA InsertKeeps ==
    ASSUME MemoryInv, NEW c \in MemoryCallers, InsertFact(c) \/ InsertVector(c)
    PROVE  MemoryInv'
<1>1. /\ facts \in [FactIds -> Filled \cup {NoRow, Vacant}]
      /\ vectors \in [FactIds -> Filled \cup {NoRow}]
      /\ call \in [MemoryCallers -> MemoryCalls] /\ call[c] \in MemoryCalls
  BY DEF MemoryInv, MemoryShape
<1>2. call[c].content \in Contents /\ call[c].kind \in Kinds
  BY <1>1, CallFields DEF InsertFact, InsertVector
<1> DEFINE row == FactRow(call[c].content, call[c].kind)
<1>3. row \in Filled /\ row.content = call[c].content
  BY <1>2 DEF FactRow, Filled
<1>4. row # NoRow /\ row # Vacant
  BY <1>3, RowsDiffer
<1>5. CASE InsertFact(c)
  <2>1. PICK id \in FactIds :
            /\ facts[id] = Vacant
            /\ facts' = [facts EXCEPT ![id] = row]
            /\ call' = [call EXCEPT ![c] =
                           [at |-> "indexing", content |-> @.content, id |-> id,
                            kind |-> @.kind]]
    BY <1>5 DEF InsertFact
  <2> HIDE DEF row
  <2>2. call[c].at = "inserting" /\ UNCHANGED <<vectors, halfDone>>
    BY <1>5 DEF InsertFact
  <2> DEFINE next == [at |-> "indexing", content |-> call[c].content, id |-> id,
                      kind |-> call[c].kind]
  <2>3. /\ next \in MemoryCalls /\ next.at = "indexing" /\ next.id = id
        /\ next.content = call[c].content
    BY <1>2 DEF MemoryCalls
  <2>4. call' = [call EXCEPT ![c] = next]
    BY <2>1
  <2> HIDE DEF next
  <2>5. /\ call' \in [MemoryCallers -> MemoryCalls] /\ call'[c] = next
        /\ \A d \in MemoryCallers : d # c => call'[d] = call[d]
        /\ facts' \in [FactIds -> Filled \cup {NoRow, Vacant}] /\ facts'[id] = row
        /\ \A i \in FactIds : i # id => facts'[i] = facts[i]
    BY <1>1, <1>3, <2>1, <2>3, <2>4
  <2>6. /\ Indexing' = Indexing \cup {c} /\ c \notin Indexing
        /\ \A d \in Indexing : call'[d] = call[d] /\ d \in MemoryCallers
    BY <2>2, <2>3, <2>5 DEF Indexing
  <2>7. \A d \in Indexing : call[d].id # id
    BY <2>1 DEF MemoryInv, RowAwaitsVector
  <2>8. ~IsVector(id) /\ \A d \in MemoryCallers : id \notin Targets(d)
    BY <2>1 DEF MemoryInv, FoundIsIndexed
  <2>9. \A i : BeingIndexed(i)' <=> BeingIndexed(i) \/ i = id
    BY <2>3, <2>5, <2>6 DEF BeingIndexed
  <2>10. \A d \in MemoryCallers : Targets(d)' \subseteq Targets(d)
    BY <2>3, <2>5 DEF Targets
  <2>11. FoundIsIndexed'
    <3> SUFFICES ASSUME NEW i \in FactIds,
                        IsVector(i)' \/ \E d \in MemoryCallers : i \in Targets(d)'
                 PROVE  facts'[i] # Vacant /\ ~BeingIndexed(i)'
      BY DEF FoundIsIndexed
    <3>1. IsVector(i) \/ \E d \in MemoryCallers : i \in Targets(d)
      BY <2>2, <2>10 DEF IsVector
    <3>2. i # id
      BY <2>8, <3>1
    <3> QED
      BY <2>5, <2>9, <3>1, <3>2 DEF MemoryInv, FoundIsIndexed
  <2>12. RowAwaitsVector'
    <3> SUFFICES ASSUME NEW d \in Indexing'
                 PROVE  /\ facts'[call'[d].id] # Vacant
                        /\ IsFact(call[d].id)' =>
                               facts'[call'[d].id].content = call'[d].content
                        /\ \A e \in Indexing' : call'[d].id = call'[e].id => d = e
      BY DEF RowAwaitsVector
    <3>1. CASE d = c
      BY <1>3, <1>4, <2>3, <2>5, <2>6, <2>7, <3>1
    <3>2. CASE d # c
      <4>1. d \in Indexing /\ call'[d] = call[d] /\ call[d].id # id
        BY <2>6, <2>7, <3>2
      <4>2. call[d].id \in FactIds
        BY <1>1, <2>6, <4>1, CallFields DEF Indexing
      <4>3. facts'[call[d].id] = facts[call[d].id]
        BY <2>5, <4>1, <4>2
      <4>4. /\ facts[call[d].id] # Vacant
            /\ IsFact(call[d].id) => facts[call[d].id].content = call[d].content
            /\ \A e \in Indexing : call[d].id = call[e].id => d = e
        BY <4>1 DEF MemoryInv, RowAwaitsVector
      <4> QED
        BY <2>3, <2>5, <2>6, <4>1, <4>3, <4>4 DEF IsFact
    <3> QED
      BY <3>1, <3>2
  <2>13. FactsAreIndexed'
    <3> SUFFICES ASSUME NEW i \in FactIds, IsFact(i)'
                 PROVE  \/ IsVector(i)' /\ vectors'[i].content = facts'[i].content
                        \/ i \in halfDone'
                        \/ \E d \in Indexing' : call'[d].id = i
      BY DEF FactsAreIndexed
    <3>1. CASE i = id
      BY <2>3, <2>5, <2>6, <3>1
    <3>2. CASE i # id
      <4>1. facts'[i] = facts[i] /\ IsFact(i)
        BY <2>5, <3>2 DEF IsFact
      <4> QED
        BY <2>2, <2>6, <4>1 DEF MemoryInv, FactsAreIndexed, IsVector
    <3> QED
      BY <3>1, <3>2
  <2> QED
    BY <1>1, <2>2, <2>5, <2>11, <2>12, <2>13 DEF MemoryInv, MemoryShape
<1>6. CASE InsertVector(c)
  <2> DEFINE id == call[c].id
  <2>1. /\ call[c].at = "indexing" /\ UNCHANGED <<facts, halfDone>>
        /\ vectors' = [vectors EXCEPT ![id] = row]
        /\ call' = [call EXCEPT ![c] = Idling]
    BY <1>6 DEF InsertVector, FinishCall
  <2>2. id \in FactIds /\ c \in Indexing
    BY <1>1, <2>1, CallFields DEF Indexing
  <2> HIDE DEF row
  <2>3. /\ call' \in [MemoryCallers -> MemoryCalls] /\ call'[c].at = "idle"
        /\ \A d \in MemoryCallers : d # c => call'[d] = call[d]
        /\ vectors' \in [FactIds -> Filled \cup {NoRow}] /\ vectors'[id] = row
        /\ \A i \in FactIds : i # id => vectors'[i] = vectors[i]
    BY <1>1, <1>3, <2>1, <2>2 DEF MemoryCalls, Idling
  <2>4. /\ Indexing' = Indexing \ {c}
        /\ \A d \in Indexing' : call'[d] = call[d] /\ call[d].id # id
    BY <2>2, <2>3 DEF Indexing, MemoryInv, RowAwaitsVector
  <2>5. /\ facts[id] # Vacant
        /\ IsFact(id) => facts[id].content = call[c].content
    BY <2>2 DEF MemoryInv, RowAwaitsVector
  <2>6. \A i : BeingIndexed(i)' <=> BeingIndexed(i) /\ i # id
    BY <2>2, <2>4 DEF BeingIndexed
  <2>7. \A d \in MemoryCallers : Targets(d)' \subseteq Targets(d)
    BY <2>3 DEF Targets
  <2> HIDE DEF id
  <2>8. FoundIsIndexed'
    BY <2>1, <2>3, <2>5, <2>6, <2>7 DEF MemoryInv, FoundIsIndexed, IsVector
  <2>9. RowAwaitsVector'
    BY <2>1, <2>4 DEF MemoryInv, RowAwaitsVector, IsFact
  <2>10. FactsAreIndexed'
    <3> SUFFICES ASSUME NEW i \in FactIds, IsFact(i)
                 PROVE  \/ IsVector(i)' /\ vectors'[i].content = facts[i].content
                        \/ i \in halfDone
                        \/ \E d \in Indexing' : call'[d].id = i
      BY <2>1 DEF FactsAreIndexed, IsFact
    <3>1. CASE i = id
      BY <1>3, <1>4, <2>3, <2>5, <3>1 DEF IsVector
    <3>2. CASE i # id
      BY <2>3, <2>4, <3>2 DEF MemoryInv, FactsAreIndexed, IsVector, id
    <3> QED
      BY <3>1, <3>2
  <2> QED
    BY <1>1, <2>1, <2>3, <2>8, <2>9, <2>10 DEF MemoryInv, MemoryShape
<1> QED
  BY <1>5, <1>6

\* A fact is replaced together with its embedding, and forgotten together with
\* it; a row that was forgotten meanwhile is not brought back.
LEMMA WriteKeeps ==
    ASSUME MemoryInv, NEW c \in MemoryCallers, Supersede(c) \/ DeleteMatches(c)
    PROVE  MemoryInv'
<1>1. /\ facts \in [FactIds -> Filled \cup {NoRow, Vacant}]
      /\ vectors \in [FactIds -> Filled \cup {NoRow}]
      /\ call[c] \in MemoryCalls
  BY DEF MemoryInv, MemoryShape
<1>2. /\ call' = [call EXCEPT ![c] = Idling] /\ halfDone' = halfDone
      /\ call[c].at # "indexing"
  BY DEF Supersede, DeleteMatches, FinishCall
<1>3. CASE Supersede(c)
  <2> DEFINE id == call[c].id
             row == FactRow(call[c].content, call[c].kind)
  <2>1. /\ id \in FactIds /\ Targets(c) = {id}
        /\ call[c].content \in Contents /\ call[c].kind \in Kinds
    BY <1>1, <1>3, CallFields DEF Supersede, Targets
  <2>2. /\ row \in Filled /\ row.content = call[c].content
        /\ \A kind \in Kinds : /\ FactRow(call[c].content, kind) \in Filled
                               /\ FactRow(call[c].content, kind).content = row.content
    BY <2>1 DEF FactRow, Filled
  <2>3. /\ facts' = IF IsFact(id)
                    THEN [facts EXCEPT ![id] = FactRow(call[c].content, facts[id].kind)]
                    ELSE facts
        /\ vectors' = [vectors EXCEPT ![id] = row]
    BY <1>3 DEF Supersede
  <2> HIDE DEF row, id
  <2>4. /\ vectors' \in [FactIds -> Filled \cup {NoRow}] /\ vectors'[id] = row
        /\ \A i \in FactIds : i # id => vectors'[i] = vectors[i]
    BY <1>1, <2>1, <2>2, <2>3
  <2>5. CASE IsFact(id)
    <3>1. facts[id] \in Filled /\ facts[id].kind \in Kinds
      BY <1>1, <2>1, <2>5 DEF IsFact, Filled
    <3> DEFINE new == FactRow(call[c].content, facts[id].kind)
    <3>2. new \in Filled /\ new.content = row.content
      BY <2>2, <3>1
    <3>3. facts' = [facts EXCEPT ![id] = new]
      BY <2>3, <2>5
    <3> HIDE DEF new
    <3>4. /\ facts' \in [FactIds -> Filled \cup {NoRow, Vacant}] /\ facts'[id] = new
          /\ \A i \in FactIds : i # id => facts'[i] = facts[i]
      BY <1>1, <2>1, <3>2, <3>3
    <3>5. new # Vacant /\ row # NoRow
      BY <2>2, <3>2, RowsDiffer
    <3>6. \A i \in FactIds : facts[i] # Vacant => facts'[i] # Vacant
      BY <3>4, <3>5
    <3> QED
      BY <1>2, <2>1, <2>4, <3>2, <3>4, <3>5, <3>6, CallWrites
  <2>6. CASE ~IsFact(id)
    <3>1. facts' = facts /\ facts[id] \in {NoRow, Vacant}
      BY <2>3, <2>6 DEF IsFact
    <3>2. facts'[id] \notin Filled
      BY <3>1, RowsDiffer
    <3> QED
      BY <1>1, <1>2, <2>1, <2>4, <3>1, <3>2, CallWrites
  <2> QED
    BY <2>5, <2>6
<1>4. CASE DeleteMatches(c)
  <2>1. /\ call[c].ids \in SUBSET FactIds /\ Targets(c) = call[c].ids
    BY <1>1, <1>4, CallFields DEF DeleteMatches, Targets
  <2>2. /\ facts' = [id \in FactIds |->
                        IF id \in Targets(c) THEN NoRow ELSE facts[id]]
        /\ vectors' = [id \in FactIds |->
                          IF id \in Targets(c) THEN NoRow ELSE vectors[id]]
    BY <1>4, <2>1 DEF DeleteMatches
  <2>3. /\ facts' \in [FactIds -> Filled \cup {NoRow, Vacant}]
        /\ vectors' \in [FactIds -> Filled \cup {NoRow}]
        /\ \A id \in FactIds \ Targets(c) :
               facts'[id] = facts[id] /\ vectors'[id] = vectors[id]
        /\ \A id \in Targets(c) : facts'[id] = NoRow
    BY <1>1, <2>1, <2>2
  <2>4. \A id \in FactIds : facts[id] # Vacant => facts'[id] # Vacant
    BY <2>2, RowsDiffer
  <2>5. \A id \in Targets(c) : facts'[id] \notin Filled
    BY <2>3, RowsDiffer
  <2> QED
    BY <1>2, <2>3, <2>4, <2>5, CallWrites
<1> QED
  BY <1>3, <1>4

\* Calls fail and the process ends: what is cut short between the two inserts is
\* left behind, and named as such.
LEMMA MemoryFailureKeeps ==
    ASSUME MemoryInv, MemoryCrash \/ \E c \in MemoryCallers : CallFails(c)
    PROVE  MemoryInv'
<1>1. PICK gone \in SUBSET MemoryCallers :
          /\ call' = [c \in MemoryCallers |-> IF c \in gone THEN Idling ELSE call[c]]
          /\ halfDone' = halfDone \cup {call[c].id : c \in gone \cap Indexing}
          /\ UNCHANGED <<facts, vectors>>
  <2>1. CASE MemoryCrash
    <3>1. /\ call' = [c \in MemoryCallers |->
                         IF c \in MemoryCallers THEN Idling ELSE call[c]]
          /\ halfDone' = halfDone \cup {call[c].id : c \in MemoryCallers \cap Indexing}
          /\ UNCHANGED <<facts, vectors>>
      BY <2>1 DEF MemoryCrash, Indexing
    <3> QED
      BY <3>1
  <2>2. ASSUME NEW c \in MemoryCallers, CallFails(c)
        PROVE  /\ call' = [d \in MemoryCallers |->
                              IF d \in {c} THEN Idling ELSE call[d]]
               /\ halfDone' = halfDone \cup {call[d].id : d \in {c} \cap Indexing}
               /\ UNCHANGED <<facts, vectors>>
    BY <2>2 DEF CallFails, FinishCall, MemoryInv, MemoryShape
  <2> QED
    BY <2>1, <2>2
<1>2. /\ call' \in [MemoryCallers -> MemoryCalls]
      /\ \A c \in gone : call'[c].at = "idle"
      /\ \A c \in MemoryCallers \ gone : call'[c] = call[c]
  BY <1>1 DEF MemoryInv, MemoryShape, MemoryCalls, Idling
<1>3. /\ Indexing' = Indexing \ gone
      /\ \A c \in Indexing' : call'[c] = call[c]
  BY <1>2 DEF Indexing
<1>4. \A id : BeingIndexed(id)' => BeingIndexed(id)
  BY <1>3 DEF BeingIndexed
<1>5. \A c \in MemoryCallers : Targets(c)' \subseteq Targets(c)
  BY <1>2 DEF Targets
<1>6. FoundIsIndexed'
  BY <1>1, <1>4, <1>5 DEF MemoryInv, FoundIsIndexed, IsVector
<1>7. RowAwaitsVector'
  BY <1>1, <1>3 DEF MemoryInv, RowAwaitsVector, IsFact
<1>8. FactsAreIndexed'
  <2> SUFFICES ASSUME NEW id \in FactIds, IsFact(id)
               PROVE  \/ IsVector(id) /\ vectors[id].content = facts[id].content
                      \/ id \in halfDone'
                      \/ \E c \in Indexing' : call'[c].id = id
    BY <1>1 DEF FactsAreIndexed, IsFact, IsVector
  <2>1. CASE \E c \in Indexing : call[c].id = id
    BY <1>1, <1>3, <2>1
  <2>2. CASE ~\E c \in Indexing : call[c].id = id
    BY <1>1, <2>2 DEF MemoryInv, FactsAreIndexed
  <2> QED
    BY <2>1, <2>2
<1> QED
  BY <1>1, <1>2, <1>6, <1>7, <1>8 DEF MemoryInv, MemoryShape

\* The dedupe window passes: the facts keep their contents.
LEMMA AgeKeeps ==
    ASSUME MemoryInv, FactsAge PROVE MemoryInv'
<1>1. /\ facts \in [FactIds -> Filled \cup {NoRow, Vacant}]
      /\ UNCHANGED <<vectors, call, halfDone>>
      /\ facts' = [id \in FactIds |-> IF IsFact(id)
                                      THEN [facts[id] EXCEPT !.recent = FALSE]
                                      ELSE facts[id]]
  BY DEF MemoryInv, MemoryShape, FactsAge
<1>2. ASSUME NEW id \in FactIds
      PROVE  /\ facts'[id] \in Filled \cup {NoRow, Vacant}
             /\ IsFact(id)' <=> IsFact(id)
             /\ IsFact(id) => facts'[id].content = facts[id].content
             /\ facts'[id] = Vacant <=> facts[id] = Vacant
  <2>1. CASE IsFact(id)
    <3>1. facts[id] \in Filled
      BY <1>1, <2>1 DEF IsFact
    <3> DEFINE new == [facts[id] EXCEPT !.recent = FALSE]
    <3>2. new \in Filled /\ new.content = facts[id].content
      BY <3>1 DEF Filled
    <3>3. facts'[id] = new
      BY <1>1, <2>1
    <3> HIDE DEF new
    <3> QED
      BY <2>1, <3>1, <3>2, <3>3, RowsDiffer DEF IsFact
  <2>2. CASE ~IsFact(id)
    BY <1>1, <2>2 DEF IsFact
  <2> QED
    BY <2>1, <2>2
<1>3. Indexing' = Indexing /\ \A c \in Indexing : call[c].id \in FactIds
  BY <1>1, CallFields DEF Indexing, MemoryInv, MemoryShape
<1>4. MemoryShape'
  BY <1>1, <1>2 DEF MemoryInv, MemoryShape
<1>5. FoundIsIndexed'
  BY <1>1, <1>2, <1>3 DEF MemoryInv, FoundIsIndexed, IsVector, Targets, BeingIndexed
<1>6. RowAwaitsVector'
  <2> SUFFICES ASSUME NEW c \in Indexing
               PROVE  /\ facts'[call[c].id] # Vacant
                      /\ IsFact(call[c].id) =>
                             facts'[call[c].id].content = call[c].content
                      /\ \A d \in Indexing : call[c].id = call[d].id => c = d
    BY <1>1, <1>2, <1>3 DEF RowAwaitsVector, IsFact
  <2> QED
    BY <1>2, <1>3 DEF MemoryInv, RowAwaitsVector
<1>7. FactsAreIndexed'
  BY <1>1, <1>2, <1>3 DEF MemoryInv, FactsAreIndexed, IsVector
<1> QED
  BY <1>4, <1>5, <1>6, <1>7 DEF MemoryInv

\* Each step of the tool calls keeps the invariant.
LEMMA MemoryStep == MemoryInv /\ [MemoryNext]_memoryVars => MemoryInv'
<1> SUFFICES ASSUME MemoryInv, [MemoryNext]_memoryVars PROVE MemoryInv'
  OBVIOUS
<1>1. \A c \in MemoryCallers : call[c] \in MemoryCalls
  BY DEF MemoryInv, MemoryShape
<1>2. ASSUME NEW c \in MemoryCallers, NEW content \in Contents, NEW kind \in Kinds,
             Memorize(c, content, kind)
      PROVE  MemoryInv'
  <2> DEFINE next == [at |-> "embedded", content |-> content, kind |-> kind]
  <2>1. next \in MemoryCalls /\ next.at = "embedded"
    BY DEF MemoryCalls
  <2>2. /\ call' = [call EXCEPT ![c] = next] /\ call[c].at = "idle"
        /\ UNCHANGED <<facts, vectors, halfDone>>
    BY <1>2 DEF Memorize, Idling
  <2> HIDE DEF next
  <2> QED
    BY <2>1, <2>2, CallLooks
<1>3. ASSUME NEW c \in MemoryCallers, NEW content \in Contents, Forget(c, content)
      PROVE  MemoryInv'
  <2>1. PICK found \in SUBSET FactIds :
            /\ \A id \in found : IsVector(id)
            /\ call' = [call EXCEPT ![c] = [at |-> "deleting", ids |-> found]]
    BY <1>3 DEF Forget, Related
  <2> DEFINE next == [at |-> "deleting", ids |-> found]
  <2>2. next \in MemoryCalls /\ next.at = "deleting" /\ next.ids = found
    BY DEF MemoryCalls
  <2>3. call' = [call EXCEPT ![c] = next]
    BY <2>1
  <2>4. call[c] = Idling /\ UNCHANGED <<facts, vectors, halfDone>>
    BY <1>3 DEF Forget
  <2>5. call[c].at = "idle"
    BY <2>4 DEF Idling
  <2> HIDE DEF next
  <2> QED
    BY <2>1, <2>2, <2>3, <2>4, <2>5, CallLooks
<1>4. ASSUME NEW c \in MemoryCallers, FindSimilar(c) PROVE MemoryInv'
  <2>1. /\ call[c].at = "embedded" /\ UNCHANGED <<facts, vectors, halfDone>>
        /\ call[c].content \in Contents /\ call[c].kind \in Kinds
    BY <1>1, <1>4, CallFields DEF FindSimilar
  <2>2. PICK id \in NearestFact(call[c].content) \cup {0} :
            call' = [call EXCEPT ![c] =
               IF id # 0 /\ IsFact(id) /\ facts[id].kind = call[c].kind
               THEN [at |-> "superseding", content |-> @.content,
                     kind |-> @.kind, id |-> id]
               ELSE [at |-> "inserting", content |-> @.content, kind |-> @.kind]]
    BY <1>4 DEF FindSimilar
  <2>3. CASE id # 0 /\ IsFact(id) /\ facts[id].kind = call[c].kind
    <3> DEFINE next == [at |-> "superseding", content |-> call[c].content,
                        kind |-> call[c].kind, id |-> id]
    <3>1. id \in FactIds /\ IsVector(id)
      BY <2>2, <2>3 DEF NearestFact
    <3>2. next \in MemoryCalls /\ next.at = "superseding" /\ next.id = id
      BY <2>1, <3>1 DEF MemoryCalls
    <3>3. call' = [call EXCEPT ![c] = next]
      BY <2>2, <2>3
    <3> HIDE DEF next
    <3> QED
      BY <2>1, <3>1, <3>2, <3>3, CallLooks
  <2>4. CASE ~(id # 0 /\ IsFact(id) /\ facts[id].kind = call[c].kind)
    <3> DEFINE next == [at |-> "inserting", content |-> call[c].content,
                        kind |-> call[c].kind]
    <3>1. next \in MemoryCalls /\ next.at = "inserting"
      BY <2>1 DEF MemoryCalls
    <3>2. call' = [call EXCEPT ![c] = next]
      BY <2>2, <2>4
    <3> HIDE DEF next
    <3> QED
      BY <2>1, <3>1, <3>2, CallLooks
  <2> QED
    BY <2>3, <2>4
<1>5. CASE UNCHANGED memoryVars
  <2>1. /\ Indexing' = Indexing /\ UNCHANGED <<facts, vectors, call, halfDone>>
    BY <1>5 DEF memoryVars, Indexing
  <2> QED
    BY <2>1 DEF MemoryInv, MemoryShape, FoundIsIndexed, RowAwaitsVector,
       FactsAreIndexed, IsFact, IsVector, Targets, BeingIndexed
<1> QED
  BY <1>2, <1>3, <1>4, <1>5, WriteKeeps, InsertKeeps, MemoryFailureKeeps, AgeKeeps
  DEF MemoryNext

\* FactsAreIndexed for any number of concurrent memorize and forget calls: each
\* looks at the index first and writes later, on a connection of its own, and no
\* interleaving leaves a fact with the embedding of something else, or with none
\* but where an insertion was cut short (memorize, semantic_forget_long_term).
THEOREM FactsStayIndexed == MemorySpec => []FactsAreIndexed
<1>1. MemoryInit => MemoryInv
  <2> SUFFICES ASSUME MemoryInit PROVE MemoryInv
    OBVIOUS
  <2>1. /\ Indexing = {} /\ \A c \in MemoryCallers : Targets(c) = {}
        /\ \A id \in FactIds : ~IsFact(id) /\ ~IsVector(id)
    BY DEF MemoryInit, Indexing, Idling, Targets, IsFact, IsVector
  <2>2. MemoryShape
    BY DEF MemoryInit, MemoryShape, MemoryCalls, Idling
  <2> QED
    BY <2>1, <2>2 DEF MemoryInv, FoundIsIndexed, RowAwaitsVector, FactsAreIndexed
<1>2. MemoryInv => FactsAreIndexed
  BY DEF MemoryInv
<1> QED
  BY <1>1, <1>2, MemoryStep, PTL DEF MemorySpec

=============================================================================
