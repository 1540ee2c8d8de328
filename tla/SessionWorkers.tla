--------------------------- MODULE SessionWorkers ---------------------------
(***************************************************************************)
(* The per-session worker coordinator of src/run/session.rs, together with *)
(* its one caller, the service loop of src/run.rs.                         *)
(*                                                                         *)
(* A message is identified by the number of the dispatch call that carries *)
(* it, so the order of the numbers is the order in which the service loop  *)
(* took messages from the inbound queue.  The service loop is one task: it *)
(* makes one dispatch call at a time.  Every worker is a task of its own.  *)
(* A step boundary is a place where another task can run: the release of   *)
(* the `workers` mutex, an await, and the gap between cloning a sender and *)
(* sending on it.                                                          *)
(***************************************************************************)
EXTENDS Integers, Sequences

CONSTANTS
    Keys,         \* session keys
    MaxMessages,  \* bound: dispatch calls made by the service loop
    MaxWorkers,   \* bound: worker tasks ever spawned (the code has a u64)
    MaxPanics     \* bound: handlers that panic

ASSUME ConstantsAssumption ==
    /\ Keys /= {}
    /\ MaxMessages \in Nat
    /\ MaxWorkers \in Nat
    /\ MaxPanics \in Nat

WorkerIds == 1 .. MaxWorkers

(* The map of workers has at most one entry per key, and worker ids start  *)
(* at 1: 0 stands for the absent entry.                                    *)
NoWorker == 0

(* Where a worker task is: not spawned; awaiting its receiver; awaiting    *)
(* the handler; out of its loop but still holding its receiver, before and *)
(* after it took its entry out of the map; its receiver dropped.           *)
Phases == {"unborn", "receiving", "handling", "leaving", "closing", "gone"}

Looping == {"receiving", "handling"}
Receivable == Looping \cup {"leaving", "closing"}

VARIABLES
    workers,       \* key -> id of the registered worker, or NoWorker
    nextWorkerId,  \* the atomic counter
    workerKey,     \* id -> the key the worker was spawned for
    phase,         \* id -> where the worker task is
    queue,         \* id -> the unbounded channel's content
    dispatch,      \* the service loop's dispatch call
    calls,         \* number of dispatch calls made
    panics,        \* number of handler panics
    handled,       \* key -> the messages handed to the handler, in order
    accepted,      \* messages whose dispatch call returned true
    refused,       \* messages whose dispatch call returned false
    lost           \* accepted messages that went down with their receiver

coordinator == <<workers, nextWorkerId>>
tasks == <<workerKey, phase, queue>>
loop  == <<dispatch, calls>>
log   == <<panics, handled, accepted, refused, lost>>
vars  == <<coordinator, tasks, loop, log>>

Messages == 1 .. MaxMessages

DispatchStates ==
    [at : {"idle", "lookup", "send", "sendFirst", "unregister", "ack"},
     key : Keys, worker : WorkerIds \cup {NoWorker}, attempt : {0, 1}]

Idle == [at |-> "idle", key |-> CHOOSE k \in Keys : TRUE, worker |-> NoWorker, attempt |-> 0]

ElementsOf(s) == {s[i] : i \in 1 .. Len(s)}

(* `new` of the coordinator.                                               *)
Init ==
    /\ workers = [k \in Keys |-> NoWorker]
    /\ nextWorkerId = 1
    /\ workerKey = [w \in WorkerIds |-> CHOOSE k \in Keys : TRUE]
    /\ phase = [w \in WorkerIds |-> "unborn"]
    /\ queue = [w \in WorkerIds |-> <<>>]
    /\ dispatch = Idle
    /\ calls = 0
    /\ panics = 0
    /\ handled = [k \in Keys |-> <<>>]
    /\ accepted = {}
    /\ refused = {}
    /\ lost = {}

-----------------------------------------------------------------------------
(* The service loop.                                                       *)

(* The call holds a sender: of a worker it found, or of one it spawned.    *)
Sending == {"send", "sendFirst"}

(* The message of the dispatch call in progress.                           *)
Message == calls

(* The loop received an inbound message for key k and calls dispatch.      *)
DispatchCall(k) ==
    /\ dispatch.at = "idle"
    /\ calls < MaxMessages
    /\ calls' = calls + 1
    /\ dispatch' = [at |-> "lookup", key |-> k, worker |-> NoWorker, attempt |-> 0]
    /\ UNCHANGED <<coordinator, tasks, log>>

(* worker_sender_for_key under the lock: the entry exists.                 *)
ReuseWorker ==
    /\ dispatch.at = "lookup"
    /\ workers[dispatch.key] /= NoWorker
    /\ dispatch' = [dispatch EXCEPT !.at = "send", !.worker = workers[dispatch.key]]
    /\ UNCHANGED <<coordinator, tasks, calls, log>>

(* Slips: the id is read after the increment; a worker is spawned whether  *)
(* or not the key has one.                                                 *)
SpawnWorkerNextId ==
    /\ dispatch.at = "lookup"
    /\ workers[dispatch.key] = NoWorker
    /\ nextWorkerId <= MaxWorkers
    /\ workers' = [workers EXCEPT ![dispatch.key] = nextWorkerId + 1]
    /\ nextWorkerId' = nextWorkerId + 1
    /\ workerKey' = [workerKey EXCEPT ![nextWorkerId + 1] = dispatch.key]
    /\ phase' = [phase EXCEPT ![nextWorkerId + 1] = "receiving"]
    /\ dispatch' = [dispatch EXCEPT !.at = "sendFirst", !.worker = nextWorkerId + 1]
    /\ UNCHANGED <<queue, calls, log>>

SpawnWorkerAlways ==
    /\ dispatch.at = "lookup"
    /\ nextWorkerId <= MaxWorkers
    /\ workers' = [workers EXCEPT ![dispatch.key] = nextWorkerId]
    /\ nextWorkerId' = nextWorkerId + 1
    /\ workerKey' = [workerKey EXCEPT ![nextWorkerId] = dispatch.key]
    /\ phase' = [phase EXCEPT ![nextWorkerId] = "receiving"]
    /\ dispatch' = [dispatch EXCEPT !.at = "sendFirst", !.worker = nextWorkerId]
    /\ UNCHANGED <<queue, calls, log>>

(* worker_sender_for_key: no entry, so a worker is registered and spawned. *)
SpawnWorker ==
    /\ dispatch.at = "lookup"
    /\ workers[dispatch.key] = NoWorker
    /\ nextWorkerId <= MaxWorkers
    /\ workers' = [workers EXCEPT ![dispatch.key] = nextWorkerId]
    /\ nextWorkerId' = nextWorkerId + 1
    /\ workerKey' = [workerKey EXCEPT ![nextWorkerId] = dispatch.key]
    /\ phase' = [phase EXCEPT ![nextWorkerId] = "receiving"]
    /\ dispatch' = [dispatch EXCEPT !.at = "sendFirst", !.worker = nextWorkerId]
    /\ UNCHANGED <<queue, calls, log>>

(* tx.send succeeds as long as the receiver has not been dropped, whether  *)
(* or not the worker will read from it again.                              *)
SendOk ==
    /\ dispatch.at \in Sending
    /\ phase[dispatch.worker] \in Receivable
    /\ queue' = [queue EXCEPT ![dispatch.worker] = Append(@, Message)]
    /\ accepted' = accepted \cup {Message}
    /\ dispatch' = [dispatch EXCEPT !.at = "ack"]
    /\ UNCHANGED <<coordinator, workerKey, phase, calls,
                   panics, handled, refused, lost>>

(* Slip: the error of a send is ignored.                                   *)
SendErrIgnored ==
    /\ dispatch.at \in Sending
    /\ phase[dispatch.worker] = "gone"
    /\ accepted' = accepted \cup {Message}
    /\ dispatch' = [dispatch EXCEPT !.at = "ack"]
    /\ UNCHANGED <<coordinator, tasks, calls, panics, handled, refused, lost>>

(* tx.send hands the message back: the receiver is gone.                   *)
SendErr ==
    /\ dispatch.at \in Sending
    /\ phase[dispatch.worker] = "gone"
    /\ dispatch' = [dispatch EXCEPT !.at = "unregister"]
    /\ UNCHANGED <<coordinator, tasks, calls, log>>

(* remove_worker_if_matches: only the entry that was looked up is removed. *)
UnregisterIfMatches(k, w) ==
    workers' = IF workers[k] = w THEN [workers EXCEPT ![k] = NoWorker] ELSE workers

(* Slip: the entry whose send failed stays in the map.                     *)
RetryWithoutUnregister ==
    /\ dispatch.at = "unregister"
    /\ IF dispatch.attempt = 1
         THEN /\ dispatch' = Idle
              /\ refused' = refused \cup {Message}
         ELSE /\ dispatch' = [dispatch EXCEPT !.at = "lookup", !.attempt = 1]
              /\ UNCHANGED refused
    /\ UNCHANGED <<coordinator, tasks, calls, panics, handled, accepted, lost>>

(* After a failed send: one retry, then the message is dropped.            *)
RetryOrRefuse ==
    /\ dispatch.at = "unregister"
    /\ UnregisterIfMatches(dispatch.key, dispatch.worker)
    /\ IF dispatch.attempt = 1
         THEN /\ dispatch' = Idle
              /\ refused' = refused \cup {Message}
         ELSE /\ dispatch' = [dispatch EXCEPT !.at = "lookup", !.attempt = 1]
              /\ UNCHANGED refused
    /\ UNCHANGED <<nextWorkerId, tasks, calls, panics, handled, accepted, lost>>

(* dispatch returned true: the service loop awaits the acknowledgement     *)
(* reaction (none for context-only and system messages; a failed one is    *)
(* only logged) while the worker may already be handling the message.      *)
AckReaction ==
    /\ dispatch.at = "ack"
    /\ dispatch' = Idle
    /\ UNCHANGED <<coordinator, tasks, calls, log>>

-----------------------------------------------------------------------------
(* The worker task.                                                        *)

(* Senders that keep the channel of w open: the one in the map and the     *)
(* clone of a dispatch call in progress, which lives until the end of the  *)
(* iteration of the retry loop.                                            *)
HasSender(w) ==
    \/ workers[workerKey[w]] = w
    \/ dispatch.at \in Sending \cup {"unregister"} /\ dispatch.worker = w

(* recv yields the oldest message and the handler starts on it.            *)
Receive(w) ==
    /\ phase[w] = "receiving"
    /\ queue[w] /= <<>>
    /\ phase' = [phase EXCEPT ![w] = "handling"]
    /\ queue' = [queue EXCEPT ![w] = Tail(queue[w])]
    /\ handled' = [handled EXCEPT ![workerKey[w]] = Append(@, Head(queue[w]))]
    /\ UNCHANGED <<coordinator, workerKey, loop, panics, accepted, refused, lost>>

(* The handler returned.                                                   *)
HandlerDone(w) ==
    /\ phase[w] = "handling"
    /\ phase' = [phase EXCEPT ![w] = "receiving"]
    /\ UNCHANGED <<coordinator, workerKey, queue, loop, log>>

(* Slip: the timeout is taken before the channel is looked at.             *)
IdleTimeoutFirst(w) ==
    /\ phase[w] = "receiving"
    /\ ~(dispatch.at = "sendFirst" /\ dispatch.worker = w)
    /\ phase' = [phase EXCEPT ![w] = "leaving"]
    /\ UNCHANGED <<coordinator, workerKey, queue, loop, log>>

(* The idle timeout of recv: the channel was empty when last polled.  The  *)
(* timer of a new worker starts in the dispatch call that spawned it; that *)
(* call sends without another await, long before the timer can fire.       *)
IdleTimeout(w) ==
    /\ phase[w] = "receiving"
    /\ queue[w] = <<>>
    /\ ~(dispatch.at = "sendFirst" /\ dispatch.worker = w)
    /\ phase' = [phase EXCEPT ![w] = "leaving"]
    /\ UNCHANGED <<coordinator, workerKey, queue, loop, log>>

(* Slip: the worker goes on polling a closed channel.                      *)
ChannelClosedIgnored(w) ==
    /\ phase[w] = "receiving"
    /\ queue[w] = <<>>
    /\ ~HasSender(w)
    /\ UNCHANGED vars

(* recv yields None: the channel is empty and its last sender is gone.     *)
(* Only remove can bring that about, so this step and Remove are taken in  *)
(* the specification that has /new, GatewaySessions.                       *)
ChannelClosed(w) ==
    /\ phase[w] = "receiving"
    /\ queue[w] = <<>>
    /\ ~HasSender(w)
    /\ phase' = [phase EXCEPT ![w] = "leaving"]
    /\ UNCHANGED <<coordinator, workerKey, queue, loop, log>>

(* The end of the task: under the lock, the worker's own entry is removed. *)
LeaveMap(w) ==
    /\ phase[w] = "leaving"
    /\ UnregisterIfMatches(workerKey[w], w)
    /\ phase' = [phase EXCEPT ![w] = "closing"]
    /\ UNCHANGED <<nextWorkerId, workerKey, queue, loop, log>>

(* The receiver is dropped, and what it still holds with it.               *)
DropReceiver(w) ==
    /\ phase[w] = "closing"
    /\ phase' = [phase EXCEPT ![w] = "gone"]
    /\ lost' = lost \cup ElementsOf(queue[w])
    /\ queue' = [queue EXCEPT ![w] = <<>>]
    /\ UNCHANGED <<coordinator, workerKey, loop, panics, handled, accepted, refused>>

(* A panic in the handler unwinds the task: its receiver is dropped while  *)
(* its entry stays in the map, which the retry of dispatch recovers from.  *)
HandlerPanics(w) ==
    /\ phase[w] = "handling"
    /\ panics < MaxPanics
    /\ panics' = panics + 1
    /\ phase' = [phase EXCEPT ![w] = "gone"]
    /\ lost' = lost \cup ElementsOf(queue[w])
    /\ queue' = [queue EXCEPT ![w] = <<>>]
    /\ UNCHANGED <<coordinator, workerKey, loop, handled, accepted, refused>>

(* remove, called for the previous session by the /new command: the entry  *)
(* goes, and with it the map's sender; the worker task is left alone.      *)
Remove(k) ==
    /\ workers' = [workers EXCEPT ![k] = NoWorker]
    /\ UNCHANGED <<nextWorkerId, tasks, loop, log>>

-----------------------------------------------------------------------------
LoopStep == ReuseWorker \/ SpawnWorker \/ SendOk \/ SendErr \/ RetryOrRefuse \/ AckReaction

WorkerStep(w) ==
    \/ Receive(w)
    \/ HandlerDone(w)
    \/ IdleTimeout(w)
    \/ LeaveMap(w)
    \/ DropReceiver(w)
    \/ HandlerPanics(w)

(* The one place where the model stops: the bound on messages is used up,  *)
(* every call has returned and every worker has idled out.                 *)
Quiescent ==
    /\ dispatch.at = "idle"
    /\ calls = MaxMessages
    /\ \A w \in WorkerIds : phase[w] \in {"unborn", "gone"}
    /\ UNCHANGED vars

Next ==
    \/ \E k \in Keys : DispatchCall(k)
    \/ LoopStep
    \/ \E w \in WorkerIds : WorkerStep(w)
    \/ Quiescent

Spec == Init /\ [][Next]_vars

(* The steps of a worker that need neither a timer nor the handler.        *)
Progress(w) == Receive(w) \/ LeaveMap(w) \/ DropReceiver(w)

(* A task whose next step is enabled is eventually polled, timers fire and *)
(* the locks are free again after a bounded critical section.  Nothing is  *)
(* assumed of the handler: the code bounds neither a turn nor a call to    *)
(* the provider.                                                           *)
FairSpec ==
    /\ Spec
    /\ WF_vars(LoopStep)
    /\ \A w \in WorkerIds : WF_vars(Progress(w)) /\ WF_vars(IdleTimeout(w))

-----------------------------------------------------------------------------
(* Properties.                                                             *)

(* The variables hold what the types of session.rs allow; in particular a *)
(* sender always belongs to a worker that was spawned.                     *)
TypeOK ==
    /\ workers \in [Keys -> WorkerIds \cup {NoWorker}]
    /\ nextWorkerId \in 1 .. MaxWorkers + 1
    /\ workerKey \in [WorkerIds -> Keys]
    /\ phase \in [WorkerIds -> Phases]
    /\ queue \in [WorkerIds -> Seq(Messages)]
    /\ dispatch \in DispatchStates
    /\ calls \in 0 .. MaxMessages
    /\ panics \in 0 .. MaxPanics
    /\ handled \in [Keys -> Seq(Messages)]
    /\ accepted \subseteq Messages
    /\ refused \subseteq Messages
    /\ lost \subseteq Messages

(* Two workers of one session key are never in the handler together: what  *)
(* the coordinator exists for, whatever the idle timeouts, the panics and  *)
(* the retries of dispatch do to the map of workers.                       *)
Serialized ==
    \A v, w \in WorkerIds :
        phase[v] = "handling" /\ phase[w] = "handling" /\ workerKey[v] = workerKey[w] => v = w

(* A session's messages reach the handler in the order in which the        *)
(* service loop dispatched them, each at most once, also across workers    *)
(* that expire, panic and are replaced.                                    *)
InOrder ==
    \A k \in Keys : \A i, j \in 1 .. Len(handled[k]) : i < j => handled[k][i] < handled[k][j]

(* Every message whose dispatch call reported success is in exactly one    *)
(* place: the queue of one worker whose receiver is alive, the handler's   *)
(* log, or lost with a receiver; and no refused message is in any.         *)
Waiting(w) == ElementsOf(queue[w])

Started == UNION {ElementsOf(handled[k]) : k \in Keys}

Accounted ==
    /\ accepted = Started \cup lost \cup UNION {Waiting(w) : w \in WorkerIds}
    /\ Started \cap lost = {}
    /\ \A w \in WorkerIds : Waiting(w) \cap (Started \cup lost) = {}
    /\ \A v, w \in WorkerIds : v /= w => Waiting(v) \cap Waiting(w) = {}
    /\ refused \cap accepted = {}

(* The retry of dispatch is enough: with one service loop, the second      *)
(* attempt always has a worker of its own to send to, and the path that    *)
(* drops the message after `retries were exhausted` is never taken.        *)
NeverRefused == refused = {}

(* The map never points at a dropped receiver, except at that of a worker  *)
(* that panicked: an expiring worker always clears its own entry first and *)
(* never the entry of its replacement.                                     *)
RegisteredIsAlive ==
    \A k \in Keys : workers[k] /= NoWorker =>
        /\ workerKey[workers[k]] = k
        /\ phase[workers[k]] \notin Looping \cup {"leaving"} =>
              phase[workers[k]] = "gone" /\ panics > 0

(* The inductive invariant behind Serialized and InOrder.                  *)

(* A call in progress has a message; the worker it looked up was spawned   *)
(* for its key; it gives a worker up only after its receiver was dropped.  *)
CallConsistent ==
    /\ dispatch.at /= "idle" => calls >= 1
    /\ dispatch.at \in Sending \cup {"unregister"} =>
          /\ dispatch.worker \in WorkerIds
          /\ dispatch.worker < nextWorkerId
          /\ workerKey[dispatch.worker] = dispatch.key
    /\ dispatch.at = "unregister" => phase[dispatch.worker] = "gone"

(* Ids are handed out in order, an unborn worker has nothing, and an entry *)
(* of the map is a worker spawned for its key.                             *)
BornInOrder ==
    /\ \A k \in Keys : workers[k] /= NoWorker => workerKey[workers[k]] = k
    /\ \A k \in Keys : workers[k] < nextWorkerId
    /\ \A w \in WorkerIds : w >= nextWorkerId => phase[w] = "unborn"
    /\ \A w \in WorkerIds : phase[w] = "unborn" => queue[w] = <<>>

(* The heart of the argument: a worker that can still take a message out   *)
(* of its channel is the one the map has for its key.                      *)
LoopingIsRegistered ==
    \A w \in WorkerIds : phase[w] \in Looping => workers[workerKey[w]] = w

(* Queues and logs hold messages of past calls (of the present call too    *)
(* once it has been sent); queues are in order, and after the log of the   *)
(* session that the worker serves.                                         *)
Newest == IF dispatch.at \in {"idle", "ack"} THEN calls ELSE calls - 1

QueuesInOrder ==
    /\ \A w \in WorkerIds : \A i \in 1 .. Len(queue[w]) : queue[w][i] <= Newest
    /\ \A k \in Keys : \A i \in 1 .. Len(handled[k]) : handled[k][i] <= Newest
    /\ \A w \in WorkerIds : \A i, j \in 1 .. Len(queue[w]) : i < j => queue[w][i] < queue[w][j]
    /\ \A w \in WorkerIds : phase[w] \in Looping =>
          \A i \in 1 .. Len(handled[workerKey[w]]), j \in 1 .. Len(queue[w]) :
              handled[workerKey[w]][i] < queue[w][j]

(* Behind NeverRefused: the key's entry can only disappear during a call,  *)
(* the second attempt finds none and spawns, and a worker that has just    *)
(* been spawned waits for its first message.                               *)
RetryHasWorker ==
    /\ dispatch.at \in Sending \cup {"unregister"} =>
          workers[dispatch.key] \in {dispatch.worker, NoWorker}
    /\ dispatch.at = "sendFirst" =>
          phase[dispatch.worker] = "receiving" /\ queue[dispatch.worker] = <<>>
    /\ dispatch.attempt = 1 =>
          /\ dispatch.at \in {"lookup", "sendFirst", "ack"}
          /\ dispatch.at = "lookup" => workers[dispatch.key] = NoWorker

(* An accepted message is never thrown away by an expiring worker.  README *)
(* (`Workers expire after idle timeout (5 minutes), then respawn on next   *)
(* message`) says so; the code accepts a message on the channel of a       *)
(* worker that has already left its loop.                                  *)
AcceptedSurvivesExpiry == panics = 0 => lost = {}

(* Under fairness every dispatched message is accepted, whatever the       *)
(* handlers do: a session whose handler never returns does not hold up the *)
(* service loop, and so no other session.                                  *)
EveryMessageAccepted ==
    \A m \in Messages : calls >= m ~> m \in accepted

(* Under fairness a message in the channel of a worker that is still in    *)
(* its loop is handed to the handler, unless the handler panics or never   *)
(* returns: the idle timeout cannot overtake a message already there.      *)
StuckInHandler(w) == <>[](phase[w] = "handling")

WaitingIsServed ==
    \A w \in WorkerIds : \A m \in Messages :
        \/ StuckInHandler(w)
        \/ phase[w] \in Looping /\ m \in Waiting(w) ~> m \in Started \/ panics > 0

(* Both together: a message that the service loop takes off the inbound    *)
(* queue is accepted, and one accepted by a worker in its loop is handled. *)
EveryMessageIsServed == EveryMessageAccepted /\ WaitingIsServed

(* The coordinator implements one mailbox per key, served in order by one  *)
(* handler at a time: the mailbox is the channel of the worker that is     *)
(* still in its loop.                                                      *)
BoxOf(k) ==
    LET live == {w \in WorkerIds : workerKey[w] = k /\ phase[w] \in Looping}
    IN  IF live = {} THEN <<>> ELSE queue[CHOOSE w \in live : TRUE]

Mailbox == INSTANCE SessionMailbox WITH
    box     <- [k \in Keys |-> BoxOf(k)],
    serving <- {workerKey[w] : w \in {v \in WorkerIds : phase[v] = "handling"}}

ImplementsMailbox == Mailbox!Spec
=============================================================================
