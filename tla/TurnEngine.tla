------------------------------ MODULE TurnEngine ------------------------------
(***************************************************************************)
(* One agent's turns (src/turn, src/react.rs, src/dispatch.rs,             *)
(* src/invoke.rs) over the short-term half of its memory: the message is   *)
(* stored, the recent history is loaded, older messages are recalled, the  *)
(* provider is asked up to max_steps times with tool calls and delegated   *)
(* runs in between, and the reply is stored.  A session's turns follow     *)
(* each other (SessionWorkers); those of different sessions overlap, and   *)
(* their messages share one table and one sequence of ids.                 *)
(***************************************************************************)
EXTENDS Naturals, Sequences, FiniteSets

CONSTANTS
    TurnSessions,
    HistoryMessages,    \* execution.history_messages
    ContextRadius,      \* memory_recall.short_term_context_radius
    MaxSteps,           \* execution.max_steps
    MaxCalls,           \* bound: tool calls of one response
    MaxStored,          \* bound: messages in the store
    MaxTurnFaults       \* bound: crashes

ASSUME TurnAssumption ==
    {HistoryMessages, ContextRadius, MaxSteps, MaxCalls, MaxStored,
     MaxTurnFaults} \subseteq Nat

VARIABLES
    stored,     \* messages, with messages_vec as the flag "indexed"
    turn,       \* each session's turn
    told,       \* what each turn returned to its caller (history)
    turnFaults

turnVars == <<stored, turn, told, turnFaults>>

Resting == [at |-> "idle"]
Ids == 1..Len(stored)
IdsOf(s) == {id \in Ids : stored[id].session = s}

TurnInit ==
    /\ stored = <<>>
    /\ turn = [s \in TurnSessions |-> Resting]
    /\ told = <<>>
    /\ turnFaults = 0

\* The disposition of turn n, returned to the service loop.
End(s, n, disposition) ==
    /\ turn' = [turn EXCEPT ![s] = Resting]
    /\ told' = [told EXCEPT ![n] = disposition]

-----------------------------------------------------------------------------
(* The store                                                                *)

StoreRow(s, role, n, embedded) ==
    stored' = Append(stored, [session |-> s, role |-> role, turn |-> n,
                              indexed |-> embedded])

\* The vector is missing when the text could not be embedded.
AppendMessage(s, role, n) ==
    \E embedded \in BOOLEAN : StoreRow(s, role, n, embedded)

\* The latest limit messages of the session.
RecentIds(s, limit) ==
    {id \in IdsOf(s) : Cardinality({k \in IdsOf(s) : k >= id}) <= limit}

Between(a, b) == (a..b) \cup (b..a)
Near(i, matches) == \E m \in matches : m <= i + ContextRadius /\ i <= m + ContextRadius

\* Slip: the excerpts are not filtered by the excluded ids.
ContextWithoutExclusion(s, m, matches, excluded) ==
    {id \in IdsOf(s) : \A i \in Between(id, m) : Near(i, matches)}

\* Spans of ids around the matches that meet are merged, and a match is given
\* the whole span it is in, whoever else is in it.  Ids are shared by all
\* sessions, so a span may hold fewer of this one's.
ContextMessages(s, m, matches, excluded) ==
    {id \in IdsOf(s) \ excluded : \A i \in Between(id, m) : Near(i, matches)}

ShortTermCandidates(s, excluded) ==
    {id \in IdsOf(s) \ excluded : stored[id].indexed}

-----------------------------------------------------------------------------
(* Preparing                                                                *)

\* A message that does not invoke the agent is stored and nothing else.
RecordContext(s) ==
    /\ turn[s] = Resting /\ Len(stored) < MaxStored
    /\ told' = Append(told, "context")
    /\ AppendMessage(s, "user", Len(told'))
    /\ UNCHANGED <<turn, turnFaults>>

StartTurn(s) ==
    /\ turn[s] = Resting /\ Len(stored) + 1 < MaxStored
    /\ told' = Append(told, "pending")
    /\ AppendMessage(s, "user", Len(told'))
    /\ turn' = [turn EXCEPT ![s] = [at |-> "loading", n |-> Len(told')]]
    /\ UNCHANGED turnFaults

LoadHistory(s) ==
    /\ turn[s].at = "loading"
    /\ turn' = [turn EXCEPT ![s] = [at |-> "recalling", n |-> @.n,
                                    history |-> RecentIds(s, HistoryMessages)]]
    /\ UNCHANGED <<stored, told, turnFaults>>

\* Recall may be off, the query too short, the search may fail or find nothing,
\* or the excerpts may not fit: the turn goes on without.  Otherwise the best
\* matches that fit are shown, each with an excerpt of its own.
Recall(s) ==
    /\ turn[s].at = "recalling"
    /\ LET excluded == RecentIds(s, HistoryMessages)
       IN \E matches \in SUBSET ShortTermCandidates(s, excluded) :
          \E best \in SUBSET matches :
            turn' = [turn EXCEPT ![s] =
                [at |-> "asking", n |-> @.n, steps |-> 0,
                 history |-> @.history,
                 recalled |-> [m \in best |-> ContextMessages(s, m, matches, excluded)]]]
    /\ UNCHANGED <<stored, told, turnFaults>>

\* The text cannot be searched for (Breaks of RecallRanking): the handler
\* panics, and nobody is told.
RecallPanics(s) ==
    /\ turn[s].at = "recalling"
    /\ End(s, turn[s].n, "lost")
    /\ UNCHANGED <<stored, turnFaults>>

-----------------------------------------------------------------------------
(* The react loop                                                           *)

Tools == {"plain", "delegate", "background"}

\* A delegated run has no summon, task or background, and starts no
\* asynchronous run.
Registry(depth) == IF depth = 0 THEN Tools ELSE {"plain"}

\* What becomes of one call: unknown or refused tools and failing ones are
\* results like any other.
Started(tool, depth) ==
    IF tool \notin Registry(depth) THEN {[at |-> "done", status |-> "tool_error"]}
    ELSE CASE tool = "plain" -> {[at |-> "running"]}
           [] tool = "background" -> {[at |-> "done", status |-> "accepted"],
                                      [at |-> "done", status |-> "tool_error"]}
           [] tool = "delegate" -> {[at |-> "delegated", steps |-> 0,
                                     depth |-> depth + 1]}

\* The provider is asked while steps remain; the last step's reply is a notice.
Asking(s) == turn[s].at = "asking" /\ turn[s].steps < MaxSteps

ProviderFails(s) ==
    /\ Asking(s)
    /\ End(s, turn[s].n, "failed")
    /\ UNCHANGED <<stored, turnFaults>>

EmptyResponse(s) ==
    /\ Asking(s)
    /\ turn' = [turn EXCEPT ![s].steps = @ + 1]
    /\ UNCHANGED <<stored, told, turnFaults>>

\* The calls of one response run at once.
ToolResponse(s) ==
    /\ Asking(s)
    /\ \E k \in 1..MaxCalls : \E tools \in [1..k -> Tools] :
        \E calls \in [1..k -> UNION {Started(t, 0) : t \in Tools}] :
            /\ \A i \in 1..k : calls[i] \in Started(tools[i], 0)
            /\ turn' = [turn EXCEPT ![s] =
                   [at |-> "calling", n |-> @.n, steps |-> @.steps,
                    history |-> @.history, recalled |-> @.recalled,
                    calls |-> calls]]
    /\ UNCHANGED <<stored, told, turnFaults>>

ToolFinishes(s) ==
    /\ turn[s].at = "calling"
    /\ \E i \in DOMAIN turn[s].calls, status \in {"ok", "tool_error"} :
        /\ turn[s].calls[i].at = "running"
        /\ turn' = [turn EXCEPT ![s].calls[i] = [at |-> "done", status |-> status]]
    /\ UNCHANGED <<stored, told, turnFaults>>

\* A delegated run is a loop of its own, on its own steps: it ends with its
\* final response, its provider's error, or the notice after the last step.
DelegatedRunEnds(s) ==
    /\ turn[s].at = "calling"
    /\ \E i \in DOMAIN turn[s].calls, status \in {"ok", "tool_error"} :
        /\ turn[s].calls[i].at = "delegated"
        /\ status = "tool_error" => turn[s].calls[i].steps < MaxSteps
        /\ turn' = [turn EXCEPT ![s].calls[i] = [at |-> "done", status |-> status]]
    /\ UNCHANGED <<stored, told, turnFaults>>

DelegatedRunSteps(s) ==
    /\ turn[s].at = "calling"
    /\ \E i \in DOMAIN turn[s].calls : LET run == turn[s].calls[i] IN
        /\ run.at = "delegated" /\ run.steps < MaxSteps
        /\ \E tool \in Tools : \E result \in Started(tool, run.depth) :
            turn' = [turn EXCEPT ![s].calls[i] =
                        IF result.at = "delegated" THEN result
                        ELSE [run EXCEPT !.steps = @ + 1]]
    /\ UNCHANGED <<stored, told, turnFaults>>

\* join_all: the next response is asked for when every call has its result.
ToolsDone(s) ==
    /\ turn[s].at = "calling"
    /\ \A i \in DOMAIN turn[s].calls : turn[s].calls[i].at = "done"
    /\ turn' = [turn EXCEPT ![s] = [at |-> "asking", n |-> @.n,
                                    steps |-> @.steps + 1,
                                    history |-> @.history,
                                    recalled |-> @.recalled]]
    /\ UNCHANGED <<stored, told, turnFaults>>

-----------------------------------------------------------------------------
(* Finishing                                                                *)

\* A final response, or the notice that max_steps was reached.
CanFinish(s) == turn[s].at = "asking"

NoReply(s) ==
    /\ CanFinish(s) /\ turn[s].steps < MaxSteps
    /\ End(s, turn[s].n, "silent")
    /\ UNCHANGED <<stored, turnFaults>>

\* Slip: the reply is returned although it could not be stored.
FinalizeAnyway(s) ==
    /\ CanFinish(s)
    /\ \/ AppendMessage(s, "assistant", turn[s].n)
       \/ UNCHANGED stored
    /\ End(s, turn[s].n, "replied")
    /\ UNCHANGED turnFaults

\* append_message inserts the row and its vector in two statements, in no
\* transaction: when the second fails, the reply is in the store all the same.
Finalize(s) ==
    /\ CanFinish(s)
    /\ \/ /\ AppendMessage(s, "assistant", turn[s].n)
          /\ End(s, turn[s].n, "replied")
       \/ /\ \/ UNCHANGED stored
             \/ StoreRow(s, "assistant", turn[s].n, FALSE)
          /\ End(s, turn[s].n, "failed")
    /\ UNCHANGED turnFaults

\* Loading the history fails.  (A message that cannot be stored leaves no trace.)
PrepareFails(s) ==
    /\ turn[s].at = "loading"
    /\ End(s, turn[s].n, "failed")
    /\ UNCHANGED <<stored, turnFaults>>

\* The process ends and is started again, perhaps with a reply stored that
\* nobody was told.
TurnCrash ==
    /\ turnFaults < MaxTurnFaults
    /\ turnFaults' = turnFaults + 1
    /\ turn' = [s \in TurnSessions |-> Resting]
    /\ told' = [n \in DOMAIN told |->
                   IF told[n] = "pending" THEN "lost" ELSE told[n]]
    /\ \/ UNCHANGED stored
       \/ \E s \in TurnSessions :
             CanFinish(s) /\ AppendMessage(s, "assistant", turn[s].n)

TurnNext ==
    \/ \E s \in TurnSessions :
        \/ RecordContext(s) \/ StartTurn(s) \/ PrepareFails(s)
        \/ LoadHistory(s) \/ Recall(s) \/ RecallPanics(s)
        \/ ProviderFails(s) \/ EmptyResponse(s) \/ ToolResponse(s)
        \/ ToolFinishes(s) \/ DelegatedRunEnds(s) \/ DelegatedRunSteps(s)
        \/ ToolsDone(s) \/ NoReply(s) \/ Finalize(s)
    \/ TurnCrash

TurnSpec == TurnInit /\ [][TurnNext]_turnVars

-----------------------------------------------------------------------------
(* Properties                                                               *)

Preparing(s) == turn[s].at \in {"idle", "loading", "recalling"}

\* The session remembers the conversation the user had (prepare_turn,
\* finalize_turn): a reply that was returned stands in the store right after
\* the message it answers; and a stored reply was returned, unless its vector
\* could not be stored or the process ended there and then.
ConversationIsRemembered ==
    \A n \in DOMAIN told :
        LET mine == {id \in Ids : stored[id].turn = n}
            reply == {id \in mine : stored[id].role = "assistant"}
        IN /\ told[n] = "replied" => reply # {}
           /\ reply # {} => told[n] \in {"replied", "failed", "lost"}
           /\ \A id \in reply : told[n] = "failed" => ~stored[id].indexed
           /\ \A id \in reply : \E m \in mine :
                /\ stored[m].role = "user" /\ m < id
                /\ \A k \in (m + 1)..(id - 1) :
                     stored[k].session # stored[m].session

Apart(s, history, recalled) ==
    \A m, k \in DOMAIN recalled :
        /\ m \in recalled[m] /\ recalled[m] \subseteq IdsOf(s)
        /\ \A id \in recalled[m], h \in history : id < h
        /\ recalled[m] = recalled[k] \/ recalled[m] \cap recalled[k] = {}

\* A prompt shows "older same-session short-term messages outside the recent
\* `history_messages` window" (README): every excerpt holds the match it is for
\* and only messages of the session, older than all of its history, though the
\* history and the excerpts are read at different times and the ids are shared
\* with other sessions (recent_messages, fetch_short_term_candidates).  Matches
\* in one span each show all of it (render_short_term_excerpt), so that a prompt
\* may repeat an excerpt; but only as a whole, and different excerpts share no
\* message.
ExcerptsStayApart ==
    \A s \in TurnSessions :
        ~Preparing(s) => Apart(s, turn[s].history, turn[s].recalled)

=============================================================================
