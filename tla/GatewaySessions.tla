-------------------------- MODULE GatewaySessions ---------------------------
(***************************************************************************)
(* The gateway in front of the session workers: the channel listener that  *)
(* stamps a session key on every message, the bounded inbound queue, the   *)
(* command task that runs /new, and the persistent store of the active     *)
(* session of every scope (src/gateway/mod.rs, router.rs, session.rs).     *)
(*                                                                         *)
(* A scope is an agent's direct messages or one channel of an agent; its   *)
(* sessions are numbered from 1.  Discord is the only channel kind, so     *)
(* there is one listener and one command task.  Messages that the routing  *)
(* policy drops never reach the store and are left out.                    *)
(***************************************************************************)
EXTENDS Integers, Sequences

CONSTANTS
    Scopes,
    MaxSessions,   \* bound: sessions of a scope
    QueueCapacity, \* the inbound queue's capacity (1024 in the code)
    MaxMessages, MaxWorkers, MaxPanics

ASSUME GatewayConstantsAssumption ==
    /\ Scopes /= {}
    /\ MaxSessions \in Nat \ {0}
    /\ QueueCapacity \in Nat \ {0}
    /\ {MaxMessages, MaxWorkers, MaxPanics} \subseteq Nat

SessionKeys == [scope : Scopes, seq : 1 .. MaxSessions]

NoKey == [scope |-> CHOOSE s \in Scopes : TRUE, seq |-> 0]

VARIABLES
    workers, nextWorkerId, workerKey, phase, queue, dispatch, calls,
    panics, handled, accepted, refused, lost,
    active,    \* scope -> active_sequence of its row, 0 without a row
    held,      \* key of the message the listener waits to enqueue, or NoKey
    inbound,   \* the inbound queue: the keys of its messages
    arrivals,  \* messages that were put on their way to the queue
    rotated,   \* key of the session /new has replaced but not yet removed
    renewed    \* scope -> the highest session whose /new has been answered

Workers == INSTANCE SessionWorkers WITH Keys <- SessionKeys

pool == <<workers, nextWorkerId, workerKey, phase, queue, dispatch, calls,
          panics, handled, accepted, refused, lost>>
gateway == <<active, held, inbound, arrivals, rotated, renewed>>
vars == <<pool, gateway>>

Init ==
    /\ Workers!Init
    /\ active = [s \in Scopes |-> 0]
    /\ held = NoKey
    /\ inbound = <<>>
    /\ arrivals = 0
    /\ rotated = NoKey
    /\ renewed = [s \in Scopes |-> 0]

-----------------------------------------------------------------------------
(* current_or_create and rotate of the session store, each one critical    *)
(* section of its mutex.                                                   *)
CurrentOrCreate(s) == IF active[s] = 0 THEN 1 ELSE active[s]

(* Slip: the listener goes on using the session it saw first.              *)
RouteInboundFirst(s) ==
    /\ held = NoKey
    /\ arrivals < MaxMessages
    /\ arrivals' = arrivals + 1
    /\ active' = [active EXCEPT ![s] = CurrentOrCreate(s)]
    /\ held' = [scope |-> s, seq |-> 1]
    /\ UNCHANGED <<pool, inbound, rotated, renewed>>

(* route_inbound: the listener resolves the active session of the scope    *)
(* and holds the stamped message until the queue has room for it.          *)
RouteInbound(s) ==
    /\ held = NoKey
    /\ arrivals < MaxMessages
    /\ arrivals' = arrivals + 1
    /\ active' = [active EXCEPT ![s] = CurrentOrCreate(s)]
    /\ held' = [scope |-> s, seq |-> CurrentOrCreate(s)]
    /\ UNCHANGED <<pool, inbound, rotated, renewed>>

(* inbound_tx.send of the listener: it waits for room.                     *)
EnqueueHeld ==
    /\ held /= NoKey
    /\ Len(inbound) < QueueCapacity
    /\ inbound' = Append(inbound, held)
    /\ held' = NoKey
    /\ UNCHANGED <<pool, active, arrivals, rotated, renewed>>

(* A tool run that a turn of session k started in the background ends: its *)
(* watcher sends a system message with the session key of that turn.       *)
CompletionReinjected(k) ==
    /\ handled[k] /= <<>>
    /\ arrivals < MaxMessages
    /\ Len(inbound) < QueueCapacity
    /\ arrivals' = arrivals + 1
    /\ inbound' = Append(inbound, k)
    /\ UNCHANGED <<pool, active, held, rotated, renewed>>

(* The service loop takes the head of the queue and dispatches it.         *)
ReceiveInbound ==
    /\ inbound /= <<>>
    /\ Workers!DispatchCall(Head(inbound))
    /\ inbound' = Tail(inbound)
    /\ UNCHANGED <<active, held, arrivals, rotated, renewed>>

(* Slip: the worker to be removed is that of the new session.              *)
NewSessionRotateNext(s) ==
    /\ rotated = NoKey
    /\ CurrentOrCreate(s) < MaxSessions
    /\ rotated' = [scope |-> s, seq |-> CurrentOrCreate(s) + 1]
    /\ active' = [active EXCEPT ![s] = CurrentOrCreate(s) + 1]
    /\ UNCHANGED <<pool, held, inbound, arrivals, renewed>>

(* /new of an owner: the store moves the scope to its next session.        *)
NewSessionRotate(s) ==
    /\ rotated = NoKey
    /\ CurrentOrCreate(s) < MaxSessions
    /\ rotated' = [scope |-> s, seq |-> CurrentOrCreate(s)]
    /\ active' = [active EXCEPT ![s] = CurrentOrCreate(s) + 1]
    /\ UNCHANGED <<pool, held, inbound, arrivals, renewed>>

(* The rest of /new: the coordinator forgets the worker of the replaced    *)
(* session, and the command is answered.                                   *)
NewSessionRemove ==
    /\ rotated /= NoKey
    /\ Workers!Remove(rotated)
    /\ renewed' = [renewed EXCEPT ![rotated.scope] = rotated.seq]
    /\ rotated' = NoKey
    /\ UNCHANGED <<active, held, inbound, arrivals>>

Quiescent ==
    /\ arrivals = MaxMessages /\ held = NoKey /\ inbound = <<>> /\ rotated = NoKey
    /\ Workers!Quiescent
    /\ UNCHANGED gateway

Next ==
    \/ \E s \in Scopes : RouteInbound(s) \/ NewSessionRotate(s)
    \/ EnqueueHeld
    \/ \E k \in SessionKeys : CompletionReinjected(k)
    \/ ReceiveInbound
    \/ NewSessionRemove
    \/ Workers!LoopStep /\ UNCHANGED gateway
    \/ \E w \in Workers!WorkerIds : Workers!WorkerStep(w) /\ UNCHANGED gateway
    \/ \E w \in Workers!WorkerIds : Workers!ChannelClosed(w) /\ UNCHANGED gateway
    \/ Quiescent

Spec == Init /\ [][Next]_vars

FairSpec ==
    /\ Spec
    /\ WF_vars(EnqueueHeld)
    /\ WF_vars(ReceiveInbound)
    /\ WF_vars(NewSessionRemove)
    /\ WF_vars(Workers!LoopStep /\ UNCHANGED gateway)
    /\ \A w \in Workers!WorkerIds :
           WF_vars((Workers!Progress(w) \/ Workers!ChannelClosed(w)) /\ UNCHANGED gateway)

-----------------------------------------------------------------------------
(* Properties.                                                             *)

(* The variables hold what the types allow, and the inbound queue never    *)
(* more than its capacity.                                                 *)
TypeOK ==
    /\ Workers!TypeOK
    /\ active \in [Scopes -> 0 .. MaxSessions]
    /\ held \in SessionKeys \cup {NoKey}
    /\ inbound \in Seq(SessionKeys)
    /\ Len(inbound) <= QueueCapacity
    /\ arrivals \in 0 .. MaxMessages
    /\ rotated \in SessionKeys \cup {NoKey}
    /\ renewed \in [Scopes -> 0 .. MaxSessions]

(* A session that /new has replaced.                                       *)
Retired(k) == k.seq < active[k.scope]

(* The guarantee README gives: `SessionWorkerCoordinator<T>` "guarantees   *)
(* serialized processing per `session_key`".  It does not survive /new:    *)
(* the entry of the replaced session is removed while its worker runs, and *)
(* a message that already carries the old key starts a second worker.      *)
Serialized == Workers!Serialized

(* What does hold with /new: two handlers of one session overlap only if   *)
(* that session has been replaced; the session that new messages are       *)
(* stamped with is always served one message at a time.                    *)
SerializedWhileActive ==
    \A v, w \in Workers!WorkerIds :
        /\ phase[v] = "handling" /\ phase[w] = "handling"
        /\ workerKey[v] = workerKey[w] /\ v /= w
        => Retired(workerKey[v])

(* Likewise for the order: only a replaced session sees its messages out   *)
(* of order, although every message is still handled at most once.         *)
InOrderWhileActive ==
    \A k \in SessionKeys : \A i, j \in 1 .. Len(handled[k]) :
        i < j => /\ handled[k][i] /= handled[k][j]
                 /\ Retired(k) \/ handled[k][i] < handled[k][j]

(* From the answer to /new on, no message is stamped with the replaced     *)
(* session or an older one, even if the message waits for the queue.       *)
FreshAfterNew ==
    [][\A s \in Scopes : held' /= held /\ held'.scope = s /\ held'.seq > 0
                             => held'.seq > renewed[s]]_vars

(* Under fairness, without the help of the idle timeout: a worker that     *)
(* /new has cut off from the map serves what is left in its channel and    *)
(* ends, unless its handler never returns, so replaced sessions leave no   *)
(* task behind.                                                            *)
CutOff(w) ==
    phase[w] \notin {"unborn", "gone"} /\ workers[workerKey[w]] /= w

CutOffWorkersEnd ==
    \A w \in Workers!WorkerIds :
        Workers!StuckInHandler(w) \/ (CutOff(w) ~> phase[w] = "gone")

(* Under fairness, /new throws no message away: one in the channel of a    *)
(* worker that is still in its loop reaches the handler.                   *)
WaitingIsServed == Workers!WaitingIsServed

(* What /new may not do to the work under way: leave a task behind, or a   *)
(* message unserved.                                                       *)
NewLeavesNothingBehind == CutOffWorkersEnd /\ WaitingIsServed
=============================================================================
