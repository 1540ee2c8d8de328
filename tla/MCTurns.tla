------------------------------- MODULE MCTurns -------------------------------
(***************************************************************************)
(* What a turn is made of, from the message that is routed to it to the    *)
(* prompt, the provider's answer, the tools, the runs they leave in the    *)
(* background and the memory.  The parts share no state here: each         *)
(* behaviour follows one of them, so that their states add up rather than  *)
(* multiply, and the pure parts are asked one question each.               *)
(***************************************************************************)
EXTENDS TurnEngine, LongTermMemory, ChannelCommands, ProviderRequests,
        ExecPreflight, FileRouting, FileTools, WebSearch, RecallRanking,
        ConfigLoad, MCAsyncToolRuns

CONSTANTS s1, s2, a, b, i1, i2

\* Sessions, tool calls, waiters and interactions are interchangeable, each among
\* themselves; as a behaviour follows one part, exchanging them all at once does
\* for every part.
Swap ==
    (s1 :> s2) @@ (s2 :> s1) @@ (a :> b) @@ (b :> a)
        @@ (w1 :> w2) @@ (w2 :> w1) @@ (i1 :> i2) @@ (i2 :> i1)
Interchanged ==
    {[v \in DOMAIN Swap |-> IF exchanged THEN Swap[v] ELSE v] :
        exchanged \in BOOLEAN}

VARIABLE followed

allVars == <<turnVars, memoryVars, commandVars, asyncVars, exchange,
             question, followed>>

Init ==
    /\ TurnInit /\ MemoryInit /\ CommandsInit /\ AsyncInit /\ ExchangeInit
    /\ QuestionInit
    /\ followed \in {"turns", "memory", "commands", "async", "exchange", "questions"}

FollowTurns ==
    /\ followed = "turns"
    /\ TurnNext
    /\ UNCHANGED <<memoryVars, commandVars, asyncVars, exchange, question,
                   followed>>

FollowMemory ==
    /\ followed = "memory"
    /\ MemoryNext
    /\ UNCHANGED <<turnVars, commandVars, asyncVars, exchange, question,
                   followed>>

FollowCommands ==
    /\ followed = "commands"
    /\ CommandsNext
    /\ UNCHANGED <<turnVars, memoryVars, asyncVars, exchange, question,
                   followed>>

FollowAsync ==
    /\ followed = "async"
    /\ AsyncNext
    /\ UNCHANGED <<turnVars, memoryVars, commandVars, exchange, question,
                   followed>>

FollowExchange ==
    /\ followed = "exchange"
    /\ ExchangeNext
    /\ UNCHANGED <<turnVars, memoryVars, commandVars, asyncVars, question,
                   followed>>

AskOne ==
    /\ followed = "questions" /\ question = NoQuestion
    /\ \/ AskHistory \/ AskSchema \/ AskAnswer
       \/ AskRoute \/ AskDiscord
       \/ AskArguments \/ AskOutput \/ AskWords \/ AskVerdict
       \/ AskFileTool \/ AskRead \/ AskEdit \/ AskList \/ AskSearch
       \/ AskWebSearch \/ AskFooter
       \/ AskRecall \/ AskMemoryPrompt \/ AskRecallQuery \/ AskMemoryTool
       \/ AskConfig \/ AskPath \/ AskSkills
    /\ UNCHANGED <<turnVars, memoryVars, commandVars, asyncVars, exchange,
                   followed>>

\* Every part but the background runs, which say themselves where they stop
\* (Quiescent), may come to rest within the bounds.
MayRest == followed # "async" /\ UNCHANGED allVars

Next ==
    \/ FollowTurns \/ FollowMemory \/ FollowCommands \/ FollowAsync
    \/ FollowExchange \/ AskOne
    \/ MayRest

Spec == Init /\ [][Next]_allVars

\* What a tool tells the model agrees with what its operation found or did: the
\* file tools (render_file_output, apply_edit_at_path, render_dir, run_grep,
\* run_glob; not list outside the sandbox), the web search, which says a thing
\* once (push_result), and the footer that counts the calls of the turn
\* (tool_summary_groups).
ToolsReportExactly == FileToolsAreExact /\ SearchIsConcise /\ FooterAddsUp

=============================================================================
