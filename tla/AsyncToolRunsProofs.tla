------------------------- MODULE AsyncToolRunsProofs -------------------------
(***************************************************************************)
(* Proofs about background runs: each ends once, the oldest finished ones  *)
(* are evicted first, and a claim never swallows the end of a run unless a *)
(* wait failed.  The race that matters is between the watcher, which asks  *)
(* whether the run is claimed, and a wait that gives its claims back at    *)
(* its deadline; the invariant says who answers for a claim at each point. *)
(***************************************************************************)
EXTENDS AsyncToolRuns, SequenceTheorems, TLAPS

\* The calls of wait: what each record holds.
Calls ==
    [at : {"idle", "claimed", "awaiting", "checking", "collecting"},
     list : WaitLists \cup {<<>>}, next : Nat, pending : SUBSET Runs,
     still : SUBSET Runs, seen : SUBSET Runs]

Shape ==
    /\ status \in [Runs -> {"unborn", "running", "completed", "killed", "evicted"}]
    /\ watcher \in [Runs -> {"off", "watching", "marked", "sending", "done"}]
    /\ finished \in Seq(Runs)
    /\ wait \in [Waiters -> Calls]
    /\ claimed \subseteq PresentRuns

\* The watcher of a run lives as long as the run: nothing is decided about a
\* run that has not ended, and what was decided is announced, suppressed by
\* a claim or made void by an eviction.
WatcherFollows ==
    \A r \in Runs :
        /\ status[r] = "unborn" <=> watcher[r] = "off"
        /\ status[r] = "running" => watcher[r] = "watching"
        /\ watcher[r] = "done" =>
               \/ r \in reinjected \/ status[r] = "evicted"
               \/ r \in claimed /\ status[r] \in Finished

\* A wait is about runs that were started; what its first pass has gone by and
\* is still running has been noted for unclaiming.
SoundCall(call) ==
    /\ \A i \in 1..Len(call.list) :
           call.list[i] \in Runs /\ status[call.list[i]] # "unborn"
    /\ call.seen \subseteq ElementsOf(call.list)
    /\ call.at \in {"checking", "collecting"} => call.next # 0
    /\ call.at = "checking" =>
           \A i \in 1..Len(call.list) :
               i < call.next /\ status[call.list[i]] = "running" =>
                   call.list[i] \in call.still

\* A wait that has yet to unclaim what is still running of its list.
Holds(w, r) ==
    /\ wait[w].at \in {"claimed", "awaiting", "checking"}
    /\ r \in ElementsOf(wait[w].list)

\* Stronger than ClaimIsCovered: a claim on a run that still runs belongs to a
\* wait that will unclaim it, or was abandoned.
ClaimsAreHeld ==
    \A r \in claimed : status[r] = "running" =>
        r \in abandoned \/ \E w \in Waiters : Holds(w, r)

RunsInv ==
    /\ Shape /\ FinishedOnce /\ WatcherFollows
    /\ \A w \in Waiters : SoundCall(wait[w])
    /\ ClaimsAreHeld /\ ClaimIsCovered

-----------------------------------------------------------------------------
(* Steps of a wait                                                          *)

\* A step of one wait keeps the invariant if what the wait no longer answers
\* for is reported, abandoned or unclaimed.
LEMMA WaiterKeeps ==
    ASSUME RunsInv, NEW w \in Waiters, NEW call \in Calls,
           wait' = [wait EXCEPT ![w] = call],
           UNCHANGED <<status, finished, watcher, reinjected>>,
           claimed' \subseteq PresentRuns,
           \A r \in claimed : status[r] \in Finished => r \in claimed',
           reported \subseteq reported', abandoned \subseteq abandoned',
           SoundCall(call),
           \A r \in claimed' : status[r] = "running" =>
               r \in abandoned' \/ Holds(w, r)' \/ (r \in claimed /\ ~Holds(w, r)),
           \A r \in claimed' : status[r] \in Finished =>
               \/ r \in reported' \cup abandoned' \/ WillReport(w, r)'
               \/ r \in claimed /\ ~WillReport(w, r)
    PROVE  RunsInv'
<1>1. /\ wait' \in [Waiters -> Calls] /\ wait'[w] = call
      /\ \A v \in Waiters : v # w => wait'[v] = wait[v]
  BY DEF RunsInv, Shape
<1>2. PresentRuns' = PresentRuns
  BY DEF PresentRuns
<1>3. Shape' /\ FinishedOnce'
  BY <1>1, <1>2 DEF RunsInv, Shape, FinishedOnce
<1>4. WatcherFollows'
  BY DEF RunsInv, WatcherFollows
<1>5. \A v \in Waiters : SoundCall(wait[v])'
  BY <1>1 DEF RunsInv, SoundCall
<1>6. ClaimsAreHeld'
  <2> SUFFICES ASSUME NEW r \in claimed', status[r] = "running", r \notin abandoned',
                      ~Holds(w, r)'
               PROVE  \E v \in Waiters : Holds(v, r)'
    BY DEF ClaimsAreHeld
  <2>1. r \in claimed /\ ~Holds(w, r) /\ r \notin abandoned
    OBVIOUS
  <2>2. PICK v \in Waiters : Holds(v, r)
    BY <2>1 DEF RunsInv, ClaimsAreHeld
  <2>3. v # w
    BY <2>1, <2>2
  <2>4. Holds(v, r)'
    BY <1>1, <2>2, <2>3 DEF Holds
  <2> QED
    BY <2>4
<1>7. ClaimIsCovered'
  <2> SUFFICES ASSUME NEW r \in claimed', status[r] \in Finished,
                      r \notin reported' \cup abandoned', ~WillReport(w, r)'
               PROVE  \E v \in Waiters : WillReport(v, r)'
    BY DEF ClaimIsCovered
  <2>1. r \in claimed /\ ~WillReport(w, r) /\ r \notin reported \cup abandoned
    OBVIOUS
  <2>2. PICK v \in Waiters : WillReport(v, r)
    BY <2>1 DEF RunsInv, ClaimIsCovered
  <2>3. v # w
    BY <2>1, <2>2
  <2>4. WillReport(v, r)'
    BY <1>1, <2>2, <2>3 DEF WillReport
  <2> QED
    BY <2>4
<1> QED
  BY <1>3, <1>4, <1>5, <1>6, <1>7 DEF RunsInv

\* What the invariant says of one wait.
LEMMA WaitFacts ==
    ASSUME RunsInv, NEW w \in Waiters
    PROVE  /\ wait[w] \in Calls /\ Len(wait[w].list) \in Nat
           /\ SoundCall(wait[w])
           /\ claimed \subseteq PresentRuns
<1>1. wait[w] \in Calls
  BY DEF RunsInv, Shape
<1>2. Len(<<>>) = 0
  OBVIOUS
<1>3. Len(wait[w].list) \in Nat
  BY <1>1, <1>2, RunsAssumption DEF Calls
<1> QED
  BY <1>1, <1>3 DEF RunsInv, Shape, Calls

\* A wait that ends: nothing is left to say of its list.
LEMMA NoWaitFacts ==
    /\ NoWait \in Calls /\ NoWait.at = "idle"
    /\ SoundCall(NoWait)
<1>1. Len(<<>>) = 0
  OBVIOUS
<1> QED
  BY <1>1 DEF NoWait, Calls, SoundCall

\* An unknown id fails the wait: all it had claimed is abandoned.
LEMMA FailKeeps ==
    ASSUME RunsInv, NEW w \in Waiters, NEW held,
           held = ElementsOf(wait[w].list) \cap claimed, Fail(w, held),
           wait[w].at \in {"checking", "collecting"},
           UNCHANGED <<entries, watcher, waits, reinjected, reported>>
    PROVE  RunsInv'
<1>1. \A r \in claimed : Holds(w, r) \/ WillReport(w, r) => r \in held
  <2>1. /\ Len(wait[w].list) \in Nat /\ wait[w].next \in Nat \ {0}
        /\ wait[w].seen \subseteq ElementsOf(wait[w].list)
    BY WaitFacts DEF SoundCall, Calls
  <2> QED
    BY <2>1 DEF Holds, WillReport, ElementsOf
<1>2. wait' = [wait EXCEPT ![w] = NoWait] /\ abandoned' = abandoned \cup held
  BY DEF Fail
<1> QED
  BY <1>1, <1>2, WaiterKeeps, WaitFacts, NoWaitFacts DEF entries

\* claim_runs: the call answers for what it claims, or has abandoned it.
LEMMA ClaimKeeps ==
    ASSUME RunsInv, NEW w \in Waiters, NEW list \in WaitLists, Claim(w, list)
    PROVE  RunsInv'
<1>1. /\ wait[w].at = "idle" /\ claimed' = claimed \cup KnownPrefix(list)
      /\ UNCHANGED <<status, finished, watcher, reinjected, reported>>
  BY DEF Claim
<1>2. KnownPrefix(list) \subseteq PresentRuns /\ KnownPrefix(list) \subseteq ElementsOf(list)
  <2>1. Len(list) \in Nat
    BY RunsAssumption
  <2> QED
    BY <2>1 DEF KnownPrefix, ElementsOf
<1>3. \A r : ~Holds(w, r) /\ ~WillReport(w, r)
  BY <1>1 DEF Holds, WillReport
<1>4. claimed \subseteq PresentRuns
  BY WaitFacts
<1>5. CASE ElementsOf(list) \subseteq PresentRuns
  <2> DEFINE call == [at |-> "claimed", list |-> list, next |-> 0,
                      pending |-> {r \in ElementsOf(list) : status[r] = "running"},
                      still |-> {}, seen |-> {}]
  <2>1. wait' = [wait EXCEPT ![w] = call] /\ UNCHANGED abandoned
    BY <1>5 DEF Claim, NoWait
  <2>2. call \in Calls /\ SoundCall(call)
    BY <1>5 DEF Calls, SoundCall, PresentRuns, ElementsOf, Finished
  <2>3. \A r \in ElementsOf(list) : Holds(w, r)' /\ WillReport(w, r)'
    <3>1. wait'[w] = call
      BY <2>1 DEF RunsInv, Shape
    <3> QED
      BY <3>1 DEF Holds, WillReport
  <2> HIDE DEF call
  <2> QED
    BY <1>1, <1>2, <1>3, <1>4, <2>1, <2>2, <2>3, WaiterKeeps
<1>6. CASE ~(ElementsOf(list) \subseteq PresentRuns)
  <2>1. wait' = [wait EXCEPT ![w] = NoWait]
        /\ abandoned' = abandoned \cup KnownPrefix(list)
    BY <1>6 DEF Claim, Fail
  <2> QED
    BY <1>1, <1>2, <1>3, <1>4, <2>1, WaiterKeeps, NoWaitFacts
<1> QED
  BY <1>5, <1>6

\* From the claim to the first pass: the list does not change.
LEMMA AwaitKeeps ==
    ASSUME RunsInv, NEW w \in Waiters, Register(w) \/ Woken(w) \/ Deadline(w)
    PROVE  RunsInv'
<1>1. wait[w] \in Calls /\ SoundCall(wait[w]) /\ claimed \subseteq PresentRuns
  BY WaitFacts
<1>2. /\ wait[w].at \in {"claimed", "awaiting"}
      /\ UNCHANGED <<entries, watcher, reinjected, reported, abandoned>>
  BY DEF Register, Woken, Deadline
<1>3. ASSUME NEW call \in Calls, wait' = [wait EXCEPT ![w] = call],
             call.list = wait[w].list, call.seen = wait[w].seen,
             call.at = "awaiting" \/ (call.at = "checking" /\ call.next = 1)
      PROVE  RunsInv'
  <2>1. SoundCall(call)
    BY <1>1, <1>3 DEF SoundCall
  <2>2. wait'[w] = call
    BY <1>3 DEF RunsInv, Shape
  <2>3. \A r : /\ Holds(w, r) => Holds(w, r)'
               /\ WillReport(w, r) => WillReport(w, r)'
    BY <1>2, <1>3, <2>2 DEF Holds, WillReport
  <2> QED
    BY <1>1, <1>2, <1>3, <2>1, <2>3, WaiterKeeps DEF entries
<1>4. CASE Register(w)
  <2> DEFINE call == [wait[w] EXCEPT !.at = "awaiting"]
  <2>1. wait' = [wait EXCEPT ![w] = call]
    BY <1>4 DEF Register
  <2>2. /\ call \in Calls /\ call.list = wait[w].list
        /\ call.seen = wait[w].seen /\ call.at = "awaiting"
    BY <1>1 DEF Calls
  <2> HIDE DEF call
  <2> QED
    BY <1>3, <2>1, <2>2
<1>5. CASE Woken(w)
  <2> DEFINE call == [wait[w] EXCEPT !.at = "checking", !.next = 1]
  <2>1. wait' = [wait EXCEPT ![w] = call]
    BY <1>5 DEF Woken
  <2>2. /\ call \in Calls /\ call.list = wait[w].list
        /\ call.seen = wait[w].seen /\ call.at = "checking" /\ call.next = 1
    BY <1>1 DEF Calls
  <2> HIDE DEF call
  <2> QED
    BY <1>3, <2>1, <2>2
<1>6. CASE Deadline(w)
  <2> DEFINE call == [wait[w] EXCEPT !.at = "checking", !.next = 1, !.pending = {}]
  <2>1. wait' = [wait EXCEPT ![w] = call]
    BY <1>6 DEF Deadline
  <2>2. /\ call \in Calls /\ call.list = wait[w].list
        /\ call.seen = wait[w].seen /\ call.at = "checking" /\ call.next = 1
    BY <1>1 DEF Calls
  <2> HIDE DEF call
  <2> QED
    BY <1>3, <2>1, <2>2
<1> QED
  BY <1>4, <1>5, <1>6

\* The first pass notes what is still running.
LEMMA CheckOneKeeps ==
    ASSUME RunsInv, NEW w \in Waiters, CheckOne(w)
    PROVE  RunsInv'
<1>1. /\ wait[w].at = "checking" /\ wait[w].next <= Len(wait[w].list)
      /\ UNCHANGED <<entries, watcher, waits, reinjected, reported>>
  BY DEF CheckOne
<1>2. CASE Current(w) \in PresentRuns
  <2> DEFINE more == IF status[Current(w)] = "running"
                     THEN wait[w].still \cup {Current(w)} ELSE wait[w].still
  <2> DEFINE call == [wait[w] EXCEPT !.next = @ + 1, !.still = more]
  <2>1. wait' = [wait EXCEPT ![w] = call] /\ wait'[w] = call /\ UNCHANGED abandoned
    BY <1>2 DEF CheckOne, RunsInv, Shape
  <2>2. /\ call \in Calls /\ call.list = wait[w].list /\ call.at = wait[w].at
        /\ call.next = wait[w].next + 1 /\ call.seen = wait[w].seen
        /\ call.still = more
    <3>1. wait[w] \in Calls /\ more \in SUBSET Runs /\ wait[w].next + 1 \in Nat
      BY <1>2, WaitFacts DEF Calls, PresentRuns
    <3> DEFINE n == wait[w].next + 1
    <3>2. call = [wait[w] EXCEPT !.next = n, !.still = more]
      OBVIOUS
    <3> HIDE DEF more, n, call
    <3>3. /\ call \in Calls /\ call.list = wait[w].list /\ call.at = wait[w].at
          /\ call.next = n /\ call.seen = wait[w].seen /\ call.still = more
      BY <3>1, <3>2 DEF Calls, n
    <3> QED
      BY <3>3 DEF n
  <2> HIDE DEF call
  <2>3. SoundCall(call)
    <3>1. Len(wait[w].list) \in Nat /\ wait[w].next \in Nat /\ SoundCall(wait[w])
      BY WaitFacts DEF Calls
    <3>2. \A i \in 1..Len(wait[w].list) :
              i < wait[w].next + 1 => i < wait[w].next \/ i = wait[w].next
      BY <3>1
    <3> QED
      BY <1>1, <2>2, <3>1, <3>2 DEF SoundCall, Current
  <2>4. \A r : /\ Holds(w, r) => Holds(w, r)'
               /\ WillReport(w, r) => WillReport(w, r)'
    BY <1>1, <2>1, <2>2 DEF Holds, WillReport
  <2> HIDE DEF more
  <2> QED
    BY <1>1, <2>1, <2>2, <2>3, <2>4, WaiterKeeps, WaitFacts DEF entries
<1>3. CASE Current(w) \notin PresentRuns
  BY <1>1, <1>3, FailKeeps DEF CheckOne
<1> QED
  BY <1>2, <1>3

\* unclaim_runs: the wait gives back its claim on all that still runs, so the
\* claims it keeps are on runs its second pass will see finished.
LEMMA UnclaimKeeps ==
    ASSUME RunsInv, NEW w \in Waiters, Unclaim(w)
    PROVE  RunsInv'
<1> DEFINE call == [wait[w] EXCEPT !.at = "collecting", !.next = 1, !.still = {}]
<1>1. /\ wait[w].at = "checking" /\ wait[w].next > Len(wait[w].list)
      /\ claimed' = claimed \ {r \in wait[w].still : status[r] = "running"}
      /\ wait' = [wait EXCEPT ![w] = call] /\ wait'[w] = call
      /\ UNCHANGED <<status, finished, watcher, reinjected, reported, abandoned>>
  BY DEF Unclaim, RunsInv, Shape
<1>2. /\ call \in Calls /\ call.list = wait[w].list /\ call.at = "collecting"
      /\ call.next = 1 /\ call.seen = wait[w].seen
  BY WaitFacts DEF Calls
<1> HIDE DEF call
<1>3. SoundCall(call)
  <2>1. SoundCall(wait[w])
    BY WaitFacts
  <2> QED
    BY <1>2, <2>1 DEF SoundCall
<1>4. \A r \in claimed' : status[r] = "running" => ~Holds(w, r)
  <2> SUFFICES ASSUME NEW r \in claimed', status[r] = "running", Holds(w, r)
               PROVE  FALSE
    OBVIOUS
  <2>1. PICK i \in 1..Len(wait[w].list) : wait[w].list[i] = r
    BY DEF Holds, ElementsOf
  <2>2. i < wait[w].next
    <3>1. wait[w].next \in Nat /\ Len(wait[w].list) \in Nat
      BY WaitFacts DEF Calls
    <3> QED
      BY <1>1, <3>1
  <2>3. r \in wait[w].still
    BY <1>1, <2>1, <2>2, WaitFacts DEF SoundCall
  <2> QED
    BY <1>1, <2>3
<1>5. \A r : WillReport(w, r) => WillReport(w, r)'
  BY <1>1, <1>2 DEF WillReport, ElementsOf
<1> QED
  BY <1>1, <1>2, <1>3, <1>4, <1>5, WaiterKeeps, WaitFacts DEF Finished

\* The second pass: a finished run of the list is seen when it is passed.
LEMMA CollectOneKeeps ==
    ASSUME RunsInv, NEW w \in Waiters, CollectOne(w)
    PROVE  RunsInv'
<1>1. /\ wait[w].at = "collecting" /\ wait[w].next <= Len(wait[w].list)
      /\ UNCHANGED <<entries, watcher, waits, reinjected, reported>>
  BY DEF CollectOne
<1>2. CASE Current(w) \in PresentRuns
  <2> DEFINE more == IF status[Current(w)] \in Finished
                     THEN wait[w].seen \cup {Current(w)} ELSE wait[w].seen
  <2> DEFINE call == [wait[w] EXCEPT !.next = @ + 1, !.seen = more]
  <2>1. wait' = [wait EXCEPT ![w] = call] /\ wait'[w] = call /\ UNCHANGED abandoned
    BY <1>2 DEF CollectOne, RunsInv, Shape
  <2>2. /\ call \in Calls /\ call.list = wait[w].list /\ call.at = wait[w].at
        /\ call.next = wait[w].next + 1 /\ call.seen = more
    <3>1. wait[w] \in Calls /\ more \in SUBSET Runs /\ wait[w].next + 1 \in Nat
      BY <1>2, WaitFacts DEF Calls, PresentRuns
    <3> DEFINE n == wait[w].next + 1
    <3>2. call = [wait[w] EXCEPT !.next = n, !.seen = more]
      OBVIOUS
    <3> HIDE DEF more, n, call
    <3>3. /\ call \in Calls /\ call.list = wait[w].list /\ call.at = wait[w].at
          /\ call.next = n /\ call.seen = more /\ call.still = wait[w].still
      BY <3>1, <3>2 DEF Calls, n
    <3> QED
      BY <3>3 DEF n
  <2>3. /\ Len(wait[w].list) \in Nat /\ wait[w].next \in Nat \ {0}
        /\ SoundCall(wait[w])
    BY <1>1, WaitFacts DEF Calls, SoundCall
  <2>4. Current(w) \in ElementsOf(wait[w].list)
    BY <1>1, <2>3 DEF Current, ElementsOf
  <2> HIDE DEF call
  <2>5. SoundCall(call)
    BY <1>1, <2>2, <2>3, <2>4 DEF SoundCall
  <2>6. \A r : WillReport(w, r) /\ status[r] \in Finished => WillReport(w, r)'
    <3> SUFFICES ASSUME NEW r, WillReport(w, r), status[r] \in Finished,
                        r \notin call.seen
                 PROVE  \E i \in call.next..Len(call.list) : call.list[i] = r
      BY <1>1, <2>1, <2>2 DEF WillReport
    <3>1. PICK i \in wait[w].next..Len(wait[w].list) : wait[w].list[i] = r
      BY <1>1, <2>2 DEF WillReport
    <3>2. i # wait[w].next
      BY <2>2, <3>1 DEF Current
    <3> QED
      BY <2>2, <2>3, <3>1, <3>2
  <2>7. \A r : ~Holds(w, r)
    BY <1>1 DEF Holds
  <2> HIDE DEF more
  <2> QED
    BY <1>1, <2>1, <2>2, <2>5, <2>6, <2>7, WaiterKeeps, WaitFacts DEF entries
<1>3. CASE Current(w) \notin PresentRuns
  BY <1>1, <1>3, FailKeeps DEF CollectOne
<1> QED
  BY <1>2, <1>3

\* The result reports all the wait has seen finished.
LEMMA ReturnKeeps ==
    ASSUME RunsInv, NEW w \in Waiters, Return(w)
    PROVE  RunsInv'
<1>1. /\ wait[w].at = "collecting" /\ wait[w].next > Len(wait[w].list)
      /\ reported' = reported \cup wait[w].seen
      /\ wait' = [wait EXCEPT ![w] = NoWait]
      /\ UNCHANGED <<entries, watcher, reinjected, abandoned>>
  BY DEF Return
<1>2. \A r : ~Holds(w, r) /\ (WillReport(w, r) => r \in reported')
  <2>1. Len(wait[w].list) \in Nat /\ wait[w].next \in Nat
    BY WaitFacts DEF Calls
  <2> QED
    BY <1>1, <2>1 DEF Holds, WillReport
<1> QED
  BY <1>1, <1>2, WaiterKeeps, WaitFacts, NoWaitFacts DEF entries

-----------------------------------------------------------------------------
(* Steps of a run and of its watcher                                        *)

\* Waits that keep all but the set they are woken by answer for what they did.
LEMMA AnswersStay ==
    ASSUME NEW w, wait'[w].at = wait[w].at, wait'[w].list = wait[w].list,
           wait'[w].next = wait[w].next, wait'[w].seen = wait[w].seen, NEW r
    PROVE  Holds(w, r)' = Holds(w, r) /\ WillReport(w, r)' = WillReport(w, r)
BY DEF Holds, WillReport

\* A running entry is finished once: kill, or the watcher.
LEMMA FinishKeeps ==
    ASSUME RunsInv, NEW r \in Runs, status[r] = "running", NEW to \in Finished,
           FinishRun(r, to), watcher' \in {watcher, [watcher EXCEPT ![r] = "marked"]},
           UNCHANGED <<claimed, reinjected, reported, abandoned>>
    PROVE  RunsInv'
<1>1. /\ status' = [status EXCEPT ![r] = to] /\ finished' = Append(finished, r)
      /\ status'[r] = to /\ \A s \in Runs : s # r => status'[s] = status[s]
  BY DEF FinishRun, RunsInv, Shape
<1>2. /\ wait' \in [Waiters -> Calls]
      /\ \A w \in Waiters :
             /\ wait'[w].at = wait[w].at /\ wait'[w].list = wait[w].list
             /\ wait'[w].next = wait[w].next /\ wait'[w].seen = wait[w].seen
             /\ wait'[w].still = wait[w].still
  <2>1. ASSUME NEW w \in Waiters
        PROVE  /\ wait'[w] \in Calls
               /\ wait'[w].at = wait[w].at /\ wait'[w].list = wait[w].list
               /\ wait'[w].next = wait[w].next /\ wait'[w].seen = wait[w].seen
               /\ wait'[w].still = wait[w].still
    <3>1. wait[w] \in Calls
      BY WaitFacts
    <3>2. wait'[w] = IF wait[w].at = "awaiting"
                     THEN [wait[w] EXCEPT !.pending = @ \ {r}] ELSE wait[w]
      BY DEF FinishRun
    <3> QED
      BY <3>1, <3>2 DEF Calls
  <2>2. wait' = [w \in Waiters |-> wait'[w]]
    BY DEF FinishRun
  <2> QED
    BY <2>1, <2>2
<1>3. /\ Len(finished) \in Nat /\ finished' \in Seq(Runs)
      /\ Len(finished') = Len(finished) + 1 /\ finished'[Len(finished) + 1] = r
      /\ \A i \in 1..Len(finished) : finished'[i] = finished[i] /\ finished[i] # r
  BY <1>1 DEF RunsInv, Shape, FinishedOnce, ElementsOf, Finished
<1>4. ElementsOf(finished') = ElementsOf(finished) \cup {r}
  BY <1>3 DEF ElementsOf
<1>5. FinishedOnce'
  <2>1. \A s \in Runs : status'[s] \in Finished <=> s \in ElementsOf(finished')
    BY <1>1, <1>4 DEF RunsInv, FinishedOnce
  <2>2. \A i, j \in 1..Len(finished') : finished'[i] = finished'[j] => i = j
    BY <1>3 DEF RunsInv, FinishedOnce
  <2> QED
    BY <2>1, <2>2 DEF FinishedOnce
<1>6. PresentRuns' = PresentRuns
  BY <1>1 DEF PresentRuns, Finished
<1>7. Shape'
  BY <1>1, <1>2, <1>3, <1>6 DEF RunsInv, Shape, Finished
<1>8. WatcherFollows'
  BY <1>1 DEF RunsInv, Shape, WatcherFollows, Finished
<1>9. \A w \in Waiters : SoundCall(wait[w])'
  BY <1>1, <1>2 DEF RunsInv, SoundCall, Finished
<1>10. ClaimsAreHeld' /\ ClaimIsCovered'
  <2>1. ASSUME NEW s \in claimed, s \notin reported \cup abandoned
        PROVE  /\ status'[s] = "running" => \E w \in Waiters : Holds(w, s)'
               /\ status'[s] \in Finished => \E w \in Waiters : WillReport(w, s)'
    <3>1. CASE status[s] = "running"
      <4>1. PICK w \in Waiters : Holds(w, s)
        BY <2>1, <3>1 DEF RunsInv, ClaimsAreHeld
      <4>2. Holds(w, s)' /\ WillReport(w, s)'
        BY <1>2, <4>1, AnswersStay DEF Holds, WillReport
      <4> QED
        BY <4>2
    <3>2. CASE status[s] # "running"
      <4>1. s # r /\ s \in Runs /\ status'[s] = status[s]
        BY <1>1, <2>1, <3>2 DEF RunsInv, Shape, PresentRuns
      <4>2. CASE status[s] \in Finished
        <5>1. PICK w \in Waiters : WillReport(w, s)
          BY <2>1, <4>2 DEF RunsInv, ClaimIsCovered
        <5>2. WillReport(w, s)'
          BY <1>2, <5>1 DEF WillReport
        <5> QED
          BY <4>1, <3>2, <5>2
      <4> QED
        BY <3>2, <4>1, <4>2
    <3> QED
      BY <3>1, <3>2
  <2>2. ASSUME NEW s \in claimed, status'[s] = "running", s \notin abandoned
        PROVE  \E w \in Waiters : Holds(w, s)'
    <3>1. status[s] = "running"
      BY <1>1, <2>2 DEF RunsInv, Shape, PresentRuns, Finished
    <3>2. PICK w \in Waiters : Holds(w, s)
      BY <2>2, <3>1 DEF RunsInv, ClaimsAreHeld
    <3>3. Holds(w, s)'
      BY <1>2, <3>2 DEF Holds
    <3> QED
      BY <3>3
  <2>3. ClaimsAreHeld'
    BY <2>2 DEF ClaimsAreHeld
  <2>4. ClaimIsCovered'
    BY <2>1 DEF ClaimIsCovered
  <2> QED
    BY <2>3, <2>4
<1> QED
  BY <1>5, <1>7, <1>8, <1>9, <1>10 DEF RunsInv

\* What auto_evict takes and what it leaves.
LEMMA EvictionFacts ==
    ASSUME RunsInv
    PROVE  /\ Len(finished) \in Nat /\ Surplus \in 0..Len(finished)
           /\ EvictedNow \subseteq {s \in Runs : status[s] \in Finished}
           /\ Surplus # 0 => Len(finished) - Surplus = MaxCompleted
           /\ \A i \in 1..Len(finished) : finished[i] \in EvictedNow <=> i <= Surplus
           /\ LET kept == SubSeq(finished, Surplus + 1, Len(finished)) IN
              /\ kept \in Seq(Runs) /\ Len(kept) = Len(finished) - Surplus
              /\ \A i \in 1..Len(kept) : kept[i] = finished[Surplus + i]
<1>1. finished \in Seq(Runs) /\ Len(finished) \in Nat
  BY DEF RunsInv, Shape
<1>2. Surplus \in 0..Len(finished) /\ (Surplus # 0 => Len(finished) - Surplus = MaxCompleted)
  BY <1>1, RunsAssumption DEF Surplus
<1>3. \A i \in 1..Len(finished) : finished[i] \in Runs /\ status[finished[i]] \in Finished
  BY <1>1 DEF RunsInv, FinishedOnce, ElementsOf
<1>4. EvictedNow \subseteq {s \in Runs : status[s] \in Finished}
  BY <1>1, <1>2, <1>3 DEF EvictedNow
<1>5. \A i \in 1..Len(finished) : finished[i] \in EvictedNow <=> i <= Surplus
  BY <1>1, <1>2 DEF EvictedNow, RunsInv, FinishedOnce
<1>6. LET kept == SubSeq(finished, Surplus + 1, Len(finished)) IN
      /\ kept \in Seq(Runs) /\ Len(kept) = Len(finished) - Surplus
      /\ \A i \in 1..Len(kept) : kept[i] = finished[Surplus + i]
  BY <1>1, <1>2, SubSeqProperties
<1> QED
  BY <1>1, <1>2, <1>4, <1>5, <1>6

\* A new run evicts old entries with their claims; nobody knew of it before.
LEMMA StartKeeps ==
    ASSUME RunsInv, NEW r \in Runs, Start(r)
    PROVE  RunsInv'
<1> DEFINE kept == SubSeq(finished, Surplus + 1, Len(finished))
<1>1. /\ status[r] = "unborn" /\ finished' = kept
      /\ claimed' = claimed \ EvictedNow
      /\ watcher' = [watcher EXCEPT ![r] = "watching"]
      /\ UNCHANGED <<wait, reinjected, reported, abandoned>>
  BY DEF Start
<1>2. /\ Len(finished) \in Nat /\ Surplus \in 0..Len(finished)
      /\ EvictedNow \subseteq {s \in Runs : status[s] \in Finished}
      /\ \A i \in 1..Len(finished) : finished[i] \in EvictedNow <=> i <= Surplus
      /\ kept \in Seq(Runs) /\ Len(kept) = Len(finished) - Surplus
      /\ \A i \in 1..Len(kept) : kept[i] = finished[Surplus + i]
  BY EvictionFacts
<1> HIDE DEF kept
<1>3. /\ status'[r] = "running" /\ r \notin EvictedNow /\ r \notin claimed
      /\ \A s \in Runs : s # r =>
             status'[s] = IF s \in EvictedNow THEN "evicted" ELSE status[s]
      /\ status' \in [Runs -> {"unborn", "running", "completed", "killed", "evicted"}]
  BY <1>1, <1>2 DEF Start, RunsInv, Shape, PresentRuns, Finished
<1>4. \A s \in Runs : status'[s] \in Finished <=>
          status[s] \in Finished /\ s \notin EvictedNow
  BY <1>1, <1>3 DEF Finished
<1>5. FinishedOnce'
  <2>1. \A s \in Runs : s \in ElementsOf(kept) <=>
            s \in ElementsOf(finished) /\ s \notin EvictedNow
    <3>1. ASSUME NEW s \in ElementsOf(kept)
          PROVE  s \in ElementsOf(finished) /\ s \notin EvictedNow
      <4>1. PICK i \in 1..Len(kept) : kept[i] = s
        BY <3>1 DEF ElementsOf
      <4>2. Surplus + i \in 1..Len(finished) /\ ~(Surplus + i <= Surplus)
        BY <1>2
      <4> QED
        BY <1>2, <4>1, <4>2 DEF ElementsOf
    <3>2. ASSUME NEW s \in ElementsOf(finished), s \notin EvictedNow
          PROVE  s \in ElementsOf(kept)
      <4>1. PICK i \in 1..Len(finished) : finished[i] = s
        BY <3>2 DEF ElementsOf
      <4>2. ~(i <= Surplus)
        BY <1>2, <3>2, <4>1
      <4>3. i - Surplus \in 1..Len(kept) /\ Surplus + (i - Surplus) = i
        BY <1>2, <4>2
      <4>4. kept[i - Surplus] = s
        BY <1>2, <4>1, <4>3
      <4> QED
        BY <4>3, <4>4 DEF ElementsOf
    <3> QED
      BY <3>1, <3>2
  <2>2. \A i, j \in 1..Len(kept) : kept[i] = kept[j] => i = j
    <3>1. \A i \in 1..Len(kept) : Surplus + i \in 1..Len(finished)
      BY <1>2
    <3>2. \A i, j \in 1..Len(finished) : finished[i] = finished[j] => i = j
      BY DEF RunsInv, FinishedOnce
    <3> SUFFICES ASSUME NEW i \in 1..Len(kept), NEW j \in 1..Len(kept),
                        kept[i] = kept[j]
                 PROVE  i = j
      OBVIOUS
    <3>3. finished[Surplus + i] = finished[Surplus + j]
      BY <1>2
    <3>4. Surplus + i = Surplus + j
      BY <3>1, <3>2, <3>3
    <3> QED
      BY <1>2, <3>4
  <2>3. \A s \in Runs : status[s] \in Finished <=> s \in ElementsOf(finished)
    BY DEF RunsInv, FinishedOnce
  <2> QED
    BY <1>1, <1>4, <2>1, <2>2, <2>3 DEF FinishedOnce
<1>6. Shape'
  <2>1. claimed' \subseteq PresentRuns'
    BY <1>1, <1>3 DEF RunsInv, Shape, PresentRuns, Finished
  <2> QED
    BY <1>1, <1>2, <1>3, <2>1 DEF RunsInv, Shape
<1>7. WatcherFollows'
  BY <1>1, <1>2, <1>3 DEF RunsInv, Shape, WatcherFollows, Finished
<1>8. \A w \in Waiters : SoundCall(wait[w])'
  <2>1. ASSUME NEW s \in Runs, status[s] # "unborn"
        PROVE  /\ status'[s] # "unborn"
               /\ status'[s] = "running" => status[s] = "running"
    <3>1. s # r
      BY <1>1, <2>1
    <3> QED
      BY <1>3, <2>1, <3>1
  <2> SUFFICES ASSUME NEW w \in Waiters PROVE SoundCall(wait[w])'
    OBVIOUS
  <2>2. SoundCall(wait[w]) /\ wait' = wait
    BY <1>1 DEF RunsInv
  <2> QED
    BY <2>1, <2>2 DEF SoundCall
<1>9. ClaimsAreHeld' /\ ClaimIsCovered'
  <2>1. \A s \in claimed' : s \in claimed /\ s \in Runs /\ s # r /\ status'[s] = status[s]
    BY <1>1, <1>3 DEF RunsInv, Shape, PresentRuns
  <2> QED
    BY <1>1, <2>1 DEF RunsInv, ClaimsAreHeld, ClaimIsCovered, Holds, WillReport
<1> QED
  BY <1>5, <1>6, <1>7, <1>8, <1>9 DEF RunsInv

\* The watcher's own steps: a run that has ended is announced, or its claim is
\* held by someone who answers for it.
LEMMA WatcherKeeps ==
    ASSUME RunsInv, NEW r \in Runs, DecideReinject(r) \/ Reinject(r)
    PROVE  RunsInv'
<1>1. /\ UNCHANGED <<status, claimed, finished, wait, reported, abandoned>>
      /\ PresentRuns' = PresentRuns
  BY DEF DecideReinject, Reinject, entries, PresentRuns
<1>2. Shape' /\ WatcherFollows'
  BY <1>1 DEF DecideReinject, Reinject, RunsInv, Shape, WatcherFollows, PresentRuns,
     Finished
<1> QED
  BY <1>1, <1>2 DEF RunsInv, FinishedOnce, SoundCall, ClaimsAreHeld,
     ClaimIsCovered, Holds, WillReport

\* Every step keeps the invariant, and it holds at the start.
LEMMA RunsStep == RunsInv /\ [AsyncNext]_asyncVars => RunsInv'
<1> SUFFICES ASSUME RunsInv, [AsyncNext]_asyncVars PROVE RunsInv'
  OBVIOUS
<1>1. ASSUME NEW r \in Runs, Kill(r) PROVE RunsInv'
  <2>1. "killed" \in Finished
    BY DEF Finished
  <2> QED
    BY <1>1, <2>1, FinishKeeps DEF Kill
<1>2. ASSUME NEW r \in Runs, MarkCompleted(r) PROVE RunsInv'
  <2>1. CASE status[r] = "running"
    <3>1. "completed" \in Finished
      BY DEF Finished
    <3> QED
      BY <1>2, <2>1, <3>1, FinishKeeps DEF MarkCompleted
  <2>2. CASE status[r] # "running"
    <3>1. /\ UNCHANGED <<status, finished, wait, claimed, reinjected, reported, abandoned>>
          /\ watcher' = [watcher EXCEPT ![r] = "marked"] /\ watcher[r] = "watching"
          /\ PresentRuns' = PresentRuns
      BY <1>2, <2>2 DEF MarkCompleted, PresentRuns
    <3>2. Shape' /\ WatcherFollows'
      BY <2>2, <3>1 DEF RunsInv, Shape, WatcherFollows
    <3> QED
      BY <3>1, <3>2 DEF RunsInv, FinishedOnce, SoundCall, ClaimsAreHeld,
         ClaimIsCovered, Holds, WillReport
  <2> QED
    BY <2>1, <2>2
<1>3. CASE UNCHANGED asyncVars
  BY <1>3 DEF asyncVars, entries, RunsInv, Shape, PresentRuns, FinishedOnce, WatcherFollows,
     SoundCall, ClaimsAreHeld, ClaimIsCovered, Holds, WillReport
<1> QED
  BY <1>1, <1>2, <1>3, StartKeeps, WatcherKeeps, ClaimKeeps, AwaitKeeps,
     CheckOneKeeps, UnclaimKeeps, CollectOneKeeps, ReturnKeeps
     DEF AsyncNext, WatcherStep, WaitStep, Quiescent

\* The invariant holds of every behaviour.
LEMMA RunsInvariant == AsyncSpec => []RunsInv
<1>1. AsyncInit => RunsInv
  <2> SUFFICES ASSUME AsyncInit PROVE RunsInv
    OBVIOUS
  <2>1. Len(finished) = 0 /\ ElementsOf(finished) = {}
    BY DEF AsyncInit, ElementsOf
  <2>2. Shape
    BY NoWaitFacts DEF AsyncInit, Shape
  <2>3. \A w \in Waiters : SoundCall(wait[w])
    BY NoWaitFacts DEF AsyncInit
  <2> QED
    BY <2>1, <2>2, <2>3 DEF AsyncInit, RunsInv, FinishedOnce, WatcherFollows,
       ClaimsAreHeld, ClaimIsCovered, Finished
<1> QED
  BY <1>1, RunsStep, PTL DEF AsyncSpec

-----------------------------------------------------------------------------
(* Theorems                                                                 *)

\* A claim suppresses the announcement of a finished run only if a wait has
\* reported it, will, or failed (claim_runs, unclaim_runs, should_reinject).
THEOREM ClaimsStayCovered == AsyncSpec => []ClaimIsCovered
<1>1. RunsInv => ClaimIsCovered
  BY DEF RunsInv
<1> QED
  BY <1>1, RunsInvariant, PTL

\* A run that is killed while its process ends is finished once.
THEOREM RunsFinishOnce == AsyncSpec => []FinishedOnce
<1>1. RunsInv => FinishedOnce
  BY DEF RunsInv
<1> QED
  BY <1>1, RunsInvariant, PTL

\* Only a failed wait or an eviction can swallow the end of a run, whatever
\* kills, deadlines and overlapping waits do.
THEOREM EndsAreSettled == AsyncSpec => []EveryEndIsSettled
<1>1. RunsInv => EveryEndIsSettled
  <2> SUFFICES ASSUME RunsInv, NEW r \in Runs, watcher[r] = "done"
               PROVE  MadeKnown(r) \/ r \in abandoned \/ status[r] = "evicted"
    BY DEF EveryEndIsSettled
  <2>1. CASE r \in claimed /\ status[r] \in Finished
    BY <2>1 DEF RunsInv, ClaimIsCovered, MadeKnown
  <2> QED
    BY <2>1 DEF RunsInv, WatcherFollows, MadeKnown
<1> QED
  BY <1>1, RunsInvariant, PTL

\* Eviction on start takes the runs that finished first, leaves MaxCompleted of
\* them and never a running one (auto_evict).
THEOREM OldestAreEvicted == AsyncSpec => EvictsOldestFinished
<1> DEFINE Evicts ==
      \A r \in Runs : status[r] /= "evicted" /\ status'[r] = "evicted" =>
          /\ status[r] \in Finished
          /\ Len(finished') = MaxCompleted
          /\ \A i \in 1 .. Len(finished), j \in 1 .. Len(finished) :
                finished[i] = r /\ status'[finished[j]] \in Finished => i < j
<1>1. ASSUME RunsInv, NEW s \in Runs, Start(s) PROVE Evicts
  <2> SUFFICES ASSUME NEW r \in Runs, status[r] /= "evicted", status'[r] = "evicted"
               PROVE  /\ status[r] \in Finished
                      /\ Len(finished') = MaxCompleted
                      /\ \A i \in 1 .. Len(finished), j \in 1 .. Len(finished) :
                            finished[i] = r /\ status'[finished[j]] \in Finished => i < j
    OBVIOUS
  <2>1. r \in EvictedNow
    BY <1>1 DEF Start
  <2>2. /\ Len(finished) \in Nat /\ Surplus \in 0..Len(finished)
        /\ EvictedNow \subseteq {x \in Runs : status[x] \in Finished}
        /\ Surplus # 0 => Len(finished) - Surplus = MaxCompleted
        /\ \A i \in 1..Len(finished) : finished[i] \in EvictedNow <=> i <= Surplus
        /\ Len(SubSeq(finished, Surplus + 1, Len(finished))) = Len(finished) - Surplus
    BY <1>1, EvictionFacts
  <2>3. Surplus # 0 /\ Len(finished') = MaxCompleted
    <3>1. Surplus # 0
      BY <2>1, <2>2 DEF EvictedNow
    <3> QED
      BY <1>1, <2>2, <3>1 DEF Start
  <2>4. ASSUME NEW j \in 1..Len(finished), status'[finished[j]] \in Finished
        PROVE  ~(j <= Surplus)
    <3>1. finished[j] \in Runs /\ finished[j] # s
      BY <1>1 DEF RunsInv, Shape, FinishedOnce, ElementsOf, Start, Finished
    <3> QED
      BY <1>1, <2>2, <2>4, <3>1 DEF Start, Finished
  <2> QED
    BY <2>1, <2>2, <2>3, <2>4
<1>2. ASSUME UNCHANGED status PROVE Evicts
  BY <1>2
<1>3. ASSUME RunsInv, NEW s \in Runs, NEW to \in Finished, FinishRun(s, to) PROVE Evicts
  BY <1>3 DEF RunsInv, Shape, FinishRun, Finished
<1>4. ASSUME RunsInv, [AsyncNext]_asyncVars PROVE [Evicts]_asyncVars
  <2>1. ASSUME NEW s \in Runs, Kill(s) \/ WatcherStep(s) PROVE Evicts
    <3>1. "killed" \in Finished /\ "completed" \in Finished
      BY DEF Finished
    <3> HIDE DEF Evicts
    <3> QED
      BY <1>2, <1>3, <1>4, <2>1, <3>1 DEF Kill, WatcherStep, MarkCompleted,
         DecideReinject, Reinject, entries
  <2>2. ASSUME NEW w \in Waiters, WaitStep(w) \/ \E list \in WaitLists : Claim(w, list)
        PROVE  UNCHANGED status
    BY <2>2 DEF WaitStep, Register, Woken, Deadline, CheckOne, Unclaim,
       CollectOne, Return, Claim, entries
  <2>3. CASE Quiescent \/ UNCHANGED asyncVars
    BY <2>3 DEF Quiescent, asyncVars, entries
  <2> HIDE DEF Evicts
  <2> QED
    BY <1>1, <1>2, <1>4, <2>1, <2>2, <2>3 DEF AsyncNext
<1> QED
  BY <1>4, RunsInvariant, PTL DEF AsyncSpec, EvictsOldestFinished

=============================================================================
