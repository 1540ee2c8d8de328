--------------------------- MODULE AsyncToolRuns ----------------------------
(***************************************************************************)
(* Background tool runs (src/tools/async_tool_manager.rs): processes and   *)
(* delegated turns that outlive the turn that started them, the watcher    *)
(* task that announces the end of each by sending a system message to its  *)
(* session, and the `wait` tool, which claims runs so that their end is    *)
(* reported by its own result instead.                                     *)
(*                                                                         *)
(* A run id that belongs to another agent or session is treated by every   *)
(* operation exactly like an unknown one, so one session is modelled and   *)
(* foreign ids are unknown ids.  A step is one critical section of the     *)
(* `runs` mutex, or the part of a task between two of them.                *)
(***************************************************************************)
EXTENDS Integers, Sequences, FiniteSets

CONSTANTS
    Runs,          \* run ids
    Delegated,     \* the runs that are delegated turns; the rest are processes
    Waiters,       \* concurrent calls of the wait tool
    WaitLists,     \* the lists of run ids a wait may be called with
    MaxWaits,      \* bound: calls of wait
    MaxCompleted   \* finished entries kept (MAX_COMPLETED, 64 in the code)

ASSUME RunsAssumption ==
    /\ Delegated \subseteq Runs
    /\ \A list \in WaitLists : Len(list) \in Nat
    /\ MaxWaits \in Nat
    /\ MaxCompleted \in Nat

VARIABLES
    status,     \* run -> its entry's status, "unborn" or "evicted" without one
    claimed,    \* runs whose entry has the claimed flag
    finished,   \* the entries that are not Running, oldest finished_at first
    watcher,    \* run -> where its completion watcher is
    wait,       \* waiter -> its call of wait_for_session
    waits,      \* calls of wait so far
    reinjected, \* runs whose end was sent to the session as a message
    reported,   \* runs whose end was in the result of a successful wait
    abandoned   \* runs claimed by a wait that ended with an error

entries == <<status, claimed, finished>>
asyncVars == <<entries, watcher, wait, waits, reinjected, reported, abandoned>>

Finished == {"completed", "killed"}
PresentRuns == {r \in Runs : status[r] \in Finished \cup {"running"}}

ElementsOf(s) == {s[i] : i \in 1 .. Len(s)}

NoWait == [at |-> "idle", list |-> <<>>, next |-> 0, pending |-> {}, still |-> {}, seen |-> {}]

AsyncInit ==
    /\ status = [r \in Runs |-> "unborn"]
    /\ claimed = {}
    /\ finished = <<>>
    /\ watcher = [r \in Runs |-> "off"]
    /\ wait = [w \in Waiters |-> NoWait]
    /\ waits = 0
    /\ reinjected = {}
    /\ reported = {}
    /\ abandoned = {}

-----------------------------------------------------------------------------
(* auto_evict: the oldest finished entries above the limit are dropped,    *)
(* whether or not anyone has been told about them.                         *)
Surplus == IF Len(finished) > MaxCompleted THEN Len(finished) - MaxCompleted ELSE 0

(* Slip: the order of finished_at is the other way round.                  *)
EvictedNewest == {finished[i] : i \in Len(finished) - Surplus + 1 .. Len(finished)}

EvictedNow == {finished[i] : i \in 1 .. Surplus}

(* start_process, start_prepared_process and start_delegated: the entry is *)
(* inserted, old entries are evicted and the watcher is spawned.           *)
Start(r) ==
    /\ status[r] = "unborn"
    /\ status' = [s \in Runs |-> IF s = r THEN "running"
                                 ELSE IF s \in EvictedNow THEN "evicted" ELSE status[s]]
    /\ finished' = SubSeq(finished, Surplus + 1, Len(finished))
    /\ claimed' = claimed \ EvictedNow
    /\ watcher' = [watcher EXCEPT ![r] = "watching"]
    /\ UNCHANGED <<wait, waits, reinjected, reported, abandoned>>

(* The entry of a running run becomes `to`, and every waiter that has      *)
(* registered for the run is woken: notify_waiters reaches no other.       *)
FinishRun(r, to) ==
    /\ status' = [status EXCEPT ![r] = to]
    /\ finished' = Append(finished, r)
    /\ wait' = [w \in Waiters |->
                   IF wait[w].at = "awaiting"
                     THEN [wait[w] EXCEPT !.pending = @ \ {r}] ELSE wait[w]]

(* kill_for_session of the background tool and of /stop.  A delegated run  *)
(* cannot be killed and an entry that is not Running is left alone.        *)
Kill(r) ==
    /\ status[r] = "running"
    /\ r \notin Delegated
    /\ FinishRun(r, "killed")
    /\ UNCHANGED <<claimed, watcher, waits, reinjected, reported, abandoned>>

(* Slip: an entry is marked without a look at its status.                  *)
MarkCompletedAgain(r) ==
    /\ watcher[r] = "watching"
    /\ watcher' = [watcher EXCEPT ![r] = "marked"]
    /\ IF r \in PresentRuns THEN FinishRun(r, "completed")
                        ELSE UNCHANGED <<status, finished, wait>>
    /\ UNCHANGED <<claimed, waits, reinjected, reported, abandoned>>

(* The watcher: the process or the delegated turn has ended, and its entry *)
(* is marked unless it was killed or evicted before.                       *)
MarkCompleted(r) ==
    /\ watcher[r] = "watching"
    /\ watcher' = [watcher EXCEPT ![r] = "marked"]
    /\ IF status[r] = "running" THEN FinishRun(r, "completed")
                                ELSE UNCHANGED <<status, finished, wait>>
    /\ UNCHANGED <<claimed, waits, reinjected, reported, abandoned>>

(* should_reinject: an unclaimed entry is announced; a claimed one and one *)
(* that is gone are not.                                                   *)
DecideReinject(r) ==
    /\ watcher[r] = "marked"
    /\ watcher' = [watcher EXCEPT ![r] =
                      IF r \in PresentRuns /\ r \notin claimed THEN "sending" ELSE "done"]
    /\ UNCHANGED <<entries, wait, waits, reinjected, reported, abandoned>>

(* The completion message enters the inbound queue once there is room.     *)
Reinject(r) ==
    /\ watcher[r] = "sending"
    /\ watcher' = [watcher EXCEPT ![r] = "done"]
    /\ reinjected' = reinjected \cup {r}
    /\ UNCHANGED <<entries, wait, waits, reported, abandoned>>

-----------------------------------------------------------------------------
(* wait_for_session.                                                       *)

(* A wait ends with an error: what it claimed stays claimed.               *)
Fail(w, held) ==
    /\ wait' = [wait EXCEPT ![w] = NoWait]
    /\ abandoned' = abandoned \cup held

(* The ids in front of the first unknown one of a list.                    *)
KnownPrefix(list) ==
    {list[i] : i \in {j \in 1 .. Len(list) : \A h \in 1 .. j : list[h] \in PresentRuns}}

(* claim_runs: ids are claimed in order up to the first unknown one, which *)
(* fails the call.                                                         *)
Claim(w, list) ==
    /\ wait[w].at = "idle"
    /\ waits < MaxWaits
    /\ waits' = waits + 1
    /\ claimed' = claimed \cup KnownPrefix(list)
    /\ IF ElementsOf(list) \subseteq PresentRuns
         THEN /\ wait' = [wait EXCEPT ![w] =
                   [NoWait EXCEPT !.at = "claimed", !.list = list,
                       !.pending = {r \in ElementsOf(list) : status[r] = "running"}]]
              /\ UNCHANGED abandoned
         ELSE Fail(w, KnownPrefix(list))
    /\ UNCHANGED <<status, finished, watcher, reinjected, reported>>

(* The first poll of the notified() futures: from here on a finishing run  *)
(* wakes the waiter; one that finished since the claim does not.           *)
Register(w) ==
    /\ wait[w].at = "claimed"
    /\ wait' = [wait EXCEPT ![w].at = "awaiting"]
    /\ UNCHANGED <<entries, watcher, waits, reinjected, reported, abandoned>>

Woken(w) ==
    /\ wait[w].at = "awaiting"
    /\ wait[w].pending = {}
    /\ wait' = [wait EXCEPT ![w].at = "checking", ![w].next = 1]
    /\ UNCHANGED <<entries, watcher, waits, reinjected, reported, abandoned>>

(* The deadline, at most two minutes after the claim.                      *)
Deadline(w) ==
    /\ wait[w].at = "awaiting"
    /\ wait[w].pending /= {}
    /\ wait' = [wait EXCEPT ![w].at = "checking", ![w].next = 1, ![w].pending = {}]
    /\ UNCHANGED <<entries, watcher, waits, reinjected, reported, abandoned>>

Current(w) == wait[w].list[wait[w].next]

(* The first pass over the list: which runs are still running?             *)
CheckOne(w) ==
    /\ wait[w].at = "checking"
    /\ wait[w].next <= Len(wait[w].list)
    /\ IF Current(w) \in PresentRuns
         THEN /\ wait' = [wait EXCEPT
                   ![w].next = @ + 1,
                   ![w].still = IF status[Current(w)] = "running" THEN @ \cup {Current(w)} ELSE @]
              /\ UNCHANGED abandoned
         ELSE Fail(w, ElementsOf(wait[w].list) \cap claimed)
    /\ UNCHANGED <<entries, watcher, waits, reinjected, reported>>

(* Slip: a wait that timed out keeps its claims.                           *)
UnclaimForgotten(w) ==
    /\ wait[w].at = "checking"
    /\ wait[w].next > Len(wait[w].list)
    /\ wait' = [wait EXCEPT ![w].at = "collecting", ![w].next = 1, ![w].still = {}]
    /\ UNCHANGED <<entries, watcher, waits, reinjected, reported, abandoned>>

(* unclaim_runs: only what is running even now loses its claim.            *)
Unclaim(w) ==
    /\ wait[w].at = "checking"
    /\ wait[w].next > Len(wait[w].list)
    /\ claimed' = claimed \ {r \in wait[w].still : status[r] = "running"}
    /\ wait' = [wait EXCEPT ![w].at = "collecting", ![w].next = 1, ![w].still = {}]
    /\ UNCHANGED <<status, finished, watcher, waits, reinjected, reported, abandoned>>

(* The second pass: the snapshots that will be the result.                 *)
CollectOne(w) ==
    /\ wait[w].at = "collecting"
    /\ wait[w].next <= Len(wait[w].list)
    /\ IF Current(w) \in PresentRuns
         THEN /\ wait' = [wait EXCEPT
                   ![w].next = @ + 1,
                   ![w].seen = IF status[Current(w)] \in Finished THEN @ \cup {Current(w)} ELSE @]
              /\ UNCHANGED abandoned
         ELSE Fail(w, ElementsOf(wait[w].list) \cap claimed)
    /\ UNCHANGED <<entries, watcher, waits, reinjected, reported>>

Return(w) ==
    /\ wait[w].at = "collecting"
    /\ wait[w].next > Len(wait[w].list)
    /\ reported' = reported \cup wait[w].seen
    /\ wait' = [wait EXCEPT ![w] = NoWait]
    /\ UNCHANGED <<entries, watcher, waits, reinjected, abandoned>>

-----------------------------------------------------------------------------
WatcherStep(r) == MarkCompleted(r) \/ DecideReinject(r) \/ Reinject(r)

WaitStep(w) ==
    \/ Register(w) \/ Woken(w) \/ Deadline(w)
    \/ CheckOne(w) \/ Unclaim(w) \/ CollectOne(w) \/ Return(w)

(* The bounds are used up: every run has ended and every wait is over.     *)
Quiescent ==
    /\ \A r \in Runs : watcher[r] = "done"
    /\ \A w \in Waiters : wait[w].at = "idle"
    /\ waits = MaxWaits
    /\ UNCHANGED asyncVars

AsyncNext ==
    \/ \E r \in Runs : Start(r) \/ Kill(r) \/ WatcherStep(r)
    \/ \E w \in Waiters : WaitStep(w) \/ \E list \in WaitLists : Claim(w, list)
    \/ Quiescent

AsyncSpec == AsyncInit /\ [][AsyncNext]_asyncVars

-----------------------------------------------------------------------------
(* Properties.                                                             *)

(* The variables hold what the types of the run manager allow; claims and  *)
(* waits are only ever about runs that exist.                              *)
AsyncTypeOK ==
    /\ status \in [Runs -> {"unborn", "running", "completed", "killed", "evicted"}]
    /\ claimed \subseteq Runs
    /\ finished \in Seq(Runs)
    /\ watcher \in [Runs -> {"off", "watching", "marked", "sending", "done"}]
    /\ \A w \in Waiters :
        /\ wait[w].at \in {"idle", "claimed", "awaiting", "checking", "collecting"}
        /\ wait[w].next \in Nat
        /\ wait[w].pending \subseteq Runs
        /\ wait[w].still \subseteq Runs
        /\ wait[w].seen \subseteq Runs
    /\ waits \in 0 .. MaxWaits
    /\ reinjected \cup reported \cup abandoned \subseteq Runs

(* A wait that will still look at the end of r before it returns.          *)
WillReport(w, r) ==
    \/ wait[w].at \in {"claimed", "awaiting", "checking"} /\ r \in ElementsOf(wait[w].list)
    \/ wait[w].at = "collecting" /\
          (r \in wait[w].seen \/ \E i \in wait[w].next .. Len(wait[w].list) : wait[w].list[i] = r)

(* A claim suppresses the announcement of a finished run only if a wait    *)
(* has reported the run or is about to: the race between the unclaiming at *)
(* the deadline and the end of the run leaves no gap.  The exception is a  *)
(* wait that failed half-way.                                              *)
ClaimIsCovered ==
    \A r \in claimed : status[r] \in Finished =>
        r \in reported \cup abandoned \/ \E w \in Waiters : WillReport(w, r)

(* Eviction on start takes the runs that finished first: what is kept      *)
(* finished after everything that is gone, at least MaxCompleted entries   *)
(* are kept, and no running entry is ever dropped.                         *)
EvictsOldestFinished ==
    [][\A r \in Runs : status[r] /= "evicted" /\ status'[r] = "evicted" =>
          /\ status[r] \in Finished
          /\ Len(finished') = MaxCompleted
          /\ \A i \in 1 .. Len(finished), j \in 1 .. Len(finished) :
                finished[i] = r /\ status'[finished[j]] \in Finished => i < j]_asyncVars

(* What the tool's own code relies on: the list of finished entries and    *)
(* their status agree, without repetition, so a run killed while its       *)
(* process is ending is finished once and keeps its first status.          *)
FinishedOnce ==
    /\ \A r \in Runs : status[r] \in Finished <=> r \in ElementsOf(finished)
    /\ \A i, j \in 1 .. Len(finished) : finished[i] = finished[j] => i = j

(* A run whose watcher has ended has been made known, by a message or by   *)
(* the result of a wait, or a wait in progress will still report it.       *)
MadeKnown(r) == r \in reinjected \cup reported \/ \E w \in Waiters : WillReport(w, r)

(* README: `On completion, watcher sends a synthetic InboundMessage`.  A   *)
(* wait that fails on an unknown id keeps the claims it made before, and   *)
(* the ends of those runs are never made known to anyone.                  *)
EveryEndIsMadeKnown == \A r \in Runs : watcher[r] = "done" => MadeKnown(r)

(* What does hold, whatever kill, the deadlines and two overlapping waits  *)
(* do: only a failed wait or an eviction can swallow the end of a run.     *)
EveryEndIsSettled ==
    \A r \in Runs : watcher[r] = "done" =>
        MadeKnown(r) \/ r \in abandoned \/ status[r] = "evicted"
=============================================================================
