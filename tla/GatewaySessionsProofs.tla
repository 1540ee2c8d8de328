----------------------- MODULE GatewaySessionsProofs ------------------------
(***************************************************************************)
(* Proofs about GatewaySessions, for every set of scopes and every bound.  *)
(*                                                                         *)
(* The worker pool is an instance of SessionWorkers, and what /new does to *)
(* it is not a step of that module: remove takes the entry of a worker     *)
(* that is still in its loop.  The pool's own lemmas are therefore stated  *)
(* here again, of its steps inside the gateway.                            *)
(***************************************************************************)
EXTENDS GatewaySessions, TLAPS

(* Appending to a sequence: the length, and the elements old and new.      *)
LEMMA AppendFacts ==
    ASSUME NEW S, NEW s \in Seq(S), NEW e \in S
    PROVE  /\ Append(s, e) \in Seq(S)
           /\ Len(Append(s, e)) = Len(s) + 1
           /\ Len(s) \in Nat
           /\ \A i \in 1 .. Len(s) : Append(s, e)[i] = s[i]
           /\ Append(s, e)[Len(s) + 1] = e
  OBVIOUS

(* Taking the head off a non-empty sequence.                               *)
LEMMA TailFacts ==
    ASSUME NEW S, NEW s \in Seq(S), s /= <<>>
    PROVE  /\ Head(s) \in S
           /\ Head(s) = s[1]
           /\ Tail(s) \in Seq(S)
           /\ Len(s) \in Nat /\ Len(s) >= 1
           /\ Len(Tail(s)) = Len(s) - 1
           /\ \A i \in 1 .. Len(Tail(s)) : Tail(s)[i] = s[i + 1]
  OBVIOUS

(* The elements of a sequence over a set are in the set.                   *)
LEMMA ElementsInSet ==
    ASSUME NEW S, NEW s \in Seq(S)
    PROVE  Workers!ElementsOf(s) \subseteq S
  BY DEF Workers!ElementsOf

(* The empty channel is a sequence of messages.                            *)
LEMMA EmptyIsSeq == \A S : <<>> \in Seq(S)
  OBVIOUS

(* There is a session key, and NoKey is not one.                           *)
LEMMA SomeKey ==
    /\ (CHOOSE k \in SessionKeys : TRUE) \in SessionKeys
    /\ NoKey \notin SessionKeys /\ NoKey.seq = 0
  <1>1. PICK s \in Scopes : TRUE
    BY GatewayConstantsAssumption
  <1>2. [scope |-> s, seq |-> 1] \in SessionKeys
    BY <1>1, GatewayConstantsAssumption DEF SessionKeys
  <1>3. (CHOOSE k \in SessionKeys : TRUE) \in SessionKeys
    BY <1>2
  <1>4. NoKey.seq = 0 /\ NoKey \notin SessionKeys
    BY GatewayConstantsAssumption DEF NoKey, SessionKeys
  <1> QED
    BY <1>3, <1>4

(* The state of the service loop between two dispatch calls is well-typed. *)
LEMMA IdleType == Workers!Idle \in Workers!DispatchStates /\ Workers!Idle.at = "idle"
  <1>1. (CHOOSE k \in SessionKeys : TRUE) \in SessionKeys
    BY SomeKey
  <1> QED
    BY <1>1 DEF Workers!Idle, Workers!DispatchStates

-----------------------------------------------------------------------------
(* The pool inside the gateway.                                            *)

(* What a step of the gateway does to the pool; /new has remove called for *)
(* replaced sessions only.                                                 *)
PoolStep ==
    \/ \E k \in SessionKeys : Workers!DispatchCall(k)
    \/ \E k \in SessionKeys : Retired(k) /\ Workers!Remove(k)
    \/ Workers!LoopStep
    \/ \E w \in Workers!WorkerIds : Workers!WorkerStep(w) \/ Workers!ChannelClosed(w)
    \/ UNCHANGED pool

(* What the pool keeps by itself: its types, a consistent call, and ids    *)
(* handed out in order.                                                    *)
PoolInv == Workers!TypeOK /\ Workers!CallConsistent /\ Workers!BornInOrder

(* The pool starts empty.                                                  *)
LEMMA InitPool == Workers!Init => PoolInv
  <1> SUFFICES ASSUME Workers!Init PROVE PoolInv
    OBVIOUS
  <1>1. Workers!TypeOK
    <2>1. /\ nextWorkerId \in 1 .. MaxWorkers + 1 /\ calls \in 0 .. MaxMessages
          /\ panics \in 0 .. MaxPanics
      BY GatewayConstantsAssumption DEF Workers!Init
    <2> QED
      BY <2>1, SomeKey, EmptyIsSeq, IdleType
      DEF Workers!Init, Workers!TypeOK, Workers!NoWorker, Workers!Phases
  <1>2. Workers!CallConsistent
    BY DEF Workers!Init, Workers!CallConsistent, Workers!Idle, Workers!Sending
  <1>3. Workers!BornInOrder
    <2>1. \A k \in SessionKeys : workers[k] = Workers!NoWorker
      BY DEF Workers!Init
    <2>2. Workers!NoWorker < nextWorkerId
      BY DEF Workers!Init, Workers!NoWorker
    <2>3. \A w \in Workers!WorkerIds : phase[w] = "unborn" /\ queue[w] = <<>>
      BY DEF Workers!Init
    <2> QED
      BY <2>1, <2>2, <2>3 DEF Workers!BornInOrder
  <1> QED
    BY <1>1, <1>2, <1>3 DEF PoolInv

(* Every step of the service loop and of a worker is well-typed.           *)
LEMMA PoolTypeStep == PoolInv /\ PoolStep => Workers!TypeOK'
  <1> SUFFICES ASSUME PoolInv, PoolStep PROVE Workers!TypeOK'
    OBVIOUS
  <1> USE GatewayConstantsAssumption DEF PoolInv, Workers!WorkerIds, Workers!Messages
  <1>1. ASSUME NEW k \in SessionKeys, Workers!DispatchCall(k) PROVE Workers!TypeOK'
    <2>1. dispatch' \in Workers!DispatchStates /\ calls' \in 0 .. MaxMessages
      BY <1>1 DEF Workers!DispatchCall, Workers!TypeOK, Workers!DispatchStates, Workers!NoWorker
    <2>2. UNCHANGED <<workers, nextWorkerId, workerKey, phase, queue, panics, handled, accepted, refused, lost>>
      BY <1>1 DEF Workers!DispatchCall, Workers!coordinator, Workers!tasks, Workers!log
    <2> QED
      BY <2>1, <2>2 DEF Workers!TypeOK
  <1>2. CASE Workers!ReuseWorker
    BY <1>2 DEF Workers!ReuseWorker, Workers!TypeOK, Workers!DispatchStates, Workers!coordinator,
        Workers!tasks, Workers!log, Workers!NoWorker
  <1>3. CASE Workers!SpawnWorker
    <2>1. nextWorkerId \in Workers!WorkerIds /\ nextWorkerId' \in 1 .. MaxWorkers + 1
      BY <1>3 DEF Workers!SpawnWorker, Workers!TypeOK
    <2>2. dispatch' \in Workers!DispatchStates
      BY <1>3, <2>1 DEF Workers!SpawnWorker, Workers!TypeOK, Workers!DispatchStates
    <2>3. /\ workers' \in [SessionKeys -> Workers!WorkerIds \cup {Workers!NoWorker}]
          /\ workerKey' \in [Workers!WorkerIds -> SessionKeys]
          /\ phase' \in [Workers!WorkerIds -> Workers!Phases]
      BY <1>3, <2>1 DEF Workers!SpawnWorker, Workers!TypeOK, Workers!DispatchStates, Workers!Phases
    <2> QED
      BY <1>3, <2>1, <2>2, <2>3 DEF Workers!SpawnWorker, Workers!TypeOK, Workers!log
  <1>4. CASE Workers!SendOk
    <2>1. Workers!Message \in Workers!Messages /\ dispatch.worker \in Workers!WorkerIds
      BY <1>4 DEF Workers!SendOk, Workers!Message, Workers!CallConsistent, Workers!TypeOK,
          Workers!Sending
    <2>2. queue' \in [Workers!WorkerIds -> Seq(Workers!Messages)]
      BY <1>4, <2>1, AppendFacts DEF Workers!SendOk, Workers!TypeOK
    <2> QED
      BY <1>4, <2>1, <2>2 DEF Workers!SendOk, Workers!TypeOK, Workers!DispatchStates,
          Workers!coordinator
  <1>5. CASE Workers!SendErr
    BY <1>5 DEF Workers!SendErr, Workers!TypeOK, Workers!DispatchStates, Workers!coordinator,
        Workers!tasks, Workers!log
  <1>6. CASE Workers!RetryOrRefuse
    <2>1. Workers!Message \in Workers!Messages
      BY <1>6 DEF Workers!RetryOrRefuse, Workers!Message, Workers!CallConsistent, Workers!TypeOK
    <2>2. workers' \in [SessionKeys -> Workers!WorkerIds \cup {Workers!NoWorker}]
      BY <1>6 DEF Workers!RetryOrRefuse, Workers!UnregisterIfMatches, Workers!TypeOK
    <2>3. dispatch' \in Workers!DispatchStates
      BY <1>6, IdleType DEF Workers!RetryOrRefuse, Workers!TypeOK, Workers!DispatchStates
    <2> QED
      BY <1>6, <2>1, <2>2, <2>3 DEF Workers!RetryOrRefuse, Workers!TypeOK, Workers!tasks
  <1>7. CASE Workers!AckReaction
    BY <1>7, IdleType DEF Workers!AckReaction, Workers!TypeOK, Workers!coordinator, Workers!tasks,
        Workers!log
  <1>8. ASSUME NEW w \in Workers!WorkerIds, Workers!Receive(w) PROVE Workers!TypeOK'
    <2>1. Head(queue[w]) \in Workers!Messages /\ Tail(queue[w]) \in Seq(Workers!Messages)
      BY <1>8, TailFacts DEF Workers!Receive, Workers!TypeOK
    <2>2. handled' \in [SessionKeys -> Seq(Workers!Messages)]
      BY <1>8, <2>1, AppendFacts DEF Workers!Receive, Workers!TypeOK
    <2> QED
      BY <1>8, <2>1, <2>2 DEF Workers!Receive, Workers!TypeOK, Workers!coordinator, Workers!loop,
          Workers!Phases
  <1>9. ASSUME NEW w \in Workers!WorkerIds, Workers!HandlerDone(w) PROVE Workers!TypeOK'
    BY <1>9 DEF Workers!HandlerDone, Workers!TypeOK, Workers!coordinator, Workers!loop,
        Workers!log, Workers!Phases
  <1>10. ASSUME NEW w \in Workers!WorkerIds, Workers!IdleTimeout(w) PROVE Workers!TypeOK'
    BY <1>10 DEF Workers!IdleTimeout, Workers!TypeOK, Workers!coordinator, Workers!loop,
        Workers!log, Workers!Phases
  <1>11. ASSUME NEW w \in Workers!WorkerIds, Workers!ChannelClosed(w) PROVE Workers!TypeOK'
    BY <1>11 DEF Workers!ChannelClosed, Workers!TypeOK, Workers!coordinator, Workers!loop,
                 Workers!log, Workers!Phases
  <1>12. ASSUME NEW w \in Workers!WorkerIds, Workers!LeaveMap(w) PROVE Workers!TypeOK'
    BY <1>12 DEF Workers!LeaveMap, Workers!UnregisterIfMatches, Workers!TypeOK, Workers!loop,
        Workers!log, Workers!Phases
  <1>13. ASSUME NEW w \in Workers!WorkerIds, Workers!DropReceiver(w) PROVE Workers!TypeOK'
    <2>1. Workers!ElementsOf(queue[w]) \subseteq Workers!Messages
      BY ElementsInSet DEF Workers!TypeOK
    <2> QED
      BY <1>13, <2>1, EmptyIsSeq DEF Workers!DropReceiver, Workers!TypeOK, Workers!coordinator,
          Workers!loop, Workers!Phases
  <1>14. ASSUME NEW w \in Workers!WorkerIds, Workers!HandlerPanics(w) PROVE Workers!TypeOK'
    <2>1. Workers!ElementsOf(queue[w]) \subseteq Workers!Messages
      BY ElementsInSet DEF Workers!TypeOK
    <2>2. panics' \in 0 .. MaxPanics
      BY <1>14 DEF Workers!HandlerPanics, Workers!TypeOK
    <2> QED
      BY <1>14, <2>1, <2>2, EmptyIsSeq DEF Workers!HandlerPanics, Workers!TypeOK,
          Workers!coordinator, Workers!loop, Workers!Phases
  <1>16. ASSUME NEW k \in SessionKeys, Workers!Remove(k) PROVE Workers!TypeOK'
    BY <1>16 DEF Workers!Remove, Workers!TypeOK, Workers!tasks, Workers!loop, Workers!log,
                 Workers!NoWorker
  <1>15. CASE UNCHANGED pool
    BY <1>15 DEF Workers!TypeOK, pool, Workers!coordinator, Workers!tasks, Workers!loop, Workers!log
  <1> QED
    BY <1>1, <1>2, <1>3, <1>4, <1>5, <1>6, <1>7, <1>8, <1>9, <1>10, <1>11, <1>12,
       <1>13, <1>14, <1>15, <1>16 DEF PoolStep, Workers!LoopStep, Workers!WorkerStep

(* The worker a dispatch call has looked up stays the one it was spawned   *)
(* as, and once its receiver is dropped it stays so.                       *)
LEMMA PoolCallStep == PoolInv /\ PoolStep => Workers!CallConsistent'
  <1> SUFFICES ASSUME PoolInv, PoolStep PROVE Workers!CallConsistent'
    OBVIOUS
  <1> USE GatewayConstantsAssumption, IdleType DEF PoolInv, Workers!CallConsistent,
      Workers!WorkerIds, Workers!Sending, Workers!DispatchStates
  <1>1. ASSUME NEW k \in SessionKeys, Workers!DispatchCall(k) PROVE Workers!CallConsistent'
    BY <1>1 DEF Workers!DispatchCall, Workers!TypeOK, Workers!coordinator, Workers!tasks,
        Workers!log
  <1>2. CASE Workers!ReuseWorker
    BY <1>2 DEF Workers!ReuseWorker, Workers!TypeOK, Workers!BornInOrder, Workers!coordinator,
        Workers!tasks, Workers!log, Workers!NoWorker
  <1>3. CASE Workers!SpawnWorker
    BY <1>3 DEF Workers!SpawnWorker, Workers!TypeOK, Workers!log, Workers!NoWorker
  <1>4. CASE Workers!SendOk
    BY <1>4 DEF Workers!SendOk, Workers!TypeOK, Workers!coordinator
  <1>5. CASE Workers!SendErr
    BY <1>5 DEF Workers!SendErr, Workers!TypeOK, Workers!DispatchStates, Workers!coordinator,
        Workers!tasks, Workers!log
  <1>6. CASE Workers!RetryOrRefuse
    BY <1>6 DEF Workers!RetryOrRefuse, Workers!TypeOK, Workers!tasks
  <1>7. CASE Workers!AckReaction
    BY <1>7 DEF Workers!AckReaction, Workers!TypeOK, Workers!coordinator, Workers!tasks, Workers!log
  <1>8. ASSUME NEW w \in Workers!WorkerIds,
               \/ Workers!Receive(w) \/ Workers!HandlerDone(w) \/ Workers!IdleTimeout(w)
               \/ Workers!ChannelClosed(w)
               \/ Workers!LeaveMap(w) \/ Workers!DropReceiver(w) \/ Workers!HandlerPanics(w)
        PROVE  Workers!CallConsistent'
    <2>1. UNCHANGED <<dispatch, calls, workerKey, nextWorkerId>>
      BY <1>8 DEF Workers!Receive, Workers!HandlerDone, Workers!IdleTimeout,
                  Workers!ChannelClosed, Workers!LeaveMap,
                  Workers!DropReceiver, Workers!HandlerPanics, Workers!coordinator, Workers!loop
    <2>2. phase[w] /= "gone"
      BY <1>8 DEF Workers!Receive, Workers!HandlerDone, Workers!IdleTimeout,
                  Workers!ChannelClosed, Workers!LeaveMap,
                  Workers!DropReceiver, Workers!HandlerPanics
    <2>3. \E p : phase' = [phase EXCEPT ![w] = p]
      BY <1>8 DEF Workers!Receive, Workers!HandlerDone, Workers!IdleTimeout,
                  Workers!ChannelClosed, Workers!LeaveMap,
                  Workers!DropReceiver, Workers!HandlerPanics
    <2> QED
      BY <2>1, <2>2, <2>3 DEF Workers!TypeOK
  <1>10. ASSUME NEW k \in SessionKeys, Workers!Remove(k) PROVE Workers!CallConsistent'
    BY <1>10 DEF Workers!Remove, Workers!tasks, Workers!loop, Workers!log, Workers!TypeOK
  <1>9. CASE UNCHANGED pool
    BY <1>9 DEF pool, Workers!coordinator, Workers!tasks, Workers!loop, Workers!log
  <1> QED
    BY <1>1, <1>2, <1>3, <1>4, <1>5, <1>6, <1>7, <1>8, <1>9, <1>10
    DEF PoolStep, Workers!LoopStep, Workers!WorkerStep

(* Only SpawnWorker brings a worker to life, with the next id.             *)
LEMMA PoolBornStep == PoolInv /\ PoolStep => Workers!BornInOrder'
  <1> SUFFICES ASSUME PoolInv, PoolStep PROVE Workers!BornInOrder'
    OBVIOUS
  <1> USE GatewayConstantsAssumption DEF PoolInv, Workers!BornInOrder, Workers!WorkerIds
  <1>1. ASSUME NEW k \in SessionKeys, Workers!DispatchCall(k) PROVE Workers!BornInOrder'
    BY <1>1 DEF Workers!DispatchCall, Workers!coordinator, Workers!tasks, Workers!log
  <1>2. CASE Workers!ReuseWorker
    BY <1>2 DEF Workers!ReuseWorker, Workers!coordinator, Workers!tasks, Workers!log
  <1>3. CASE Workers!SpawnWorker
    <2>1. nextWorkerId \in Workers!WorkerIds
      BY <1>3 DEF Workers!SpawnWorker, Workers!TypeOK
    <2>2. ASSUME NEW k \in SessionKeys PROVE workers'[k] < nextWorkerId'
      <3>1. workers'[k] \in {workers[k], nextWorkerId}
        BY <1>3 DEF Workers!SpawnWorker, Workers!TypeOK
      <3>2. workers[k] < nextWorkerId /\ workers[k] \in Int
        BY DEF Workers!TypeOK, Workers!NoWorker
      <3>3. nextWorkerId' = nextWorkerId + 1 /\ nextWorkerId \in Int
        BY <1>3 DEF Workers!SpawnWorker, Workers!TypeOK
      <3> QED
        BY <3>1, <3>2, <3>3
    <2>3. \A k \in SessionKeys : workers'[k] /= Workers!NoWorker => workerKey'[workers'[k]] = k
      BY <1>3, <2>1 DEF Workers!SpawnWorker, Workers!TypeOK, Workers!NoWorker
    <2>4. \A w \in Workers!WorkerIds : w >= nextWorkerId' => phase'[w] = "unborn"
      BY <1>3, <2>1 DEF Workers!SpawnWorker, Workers!TypeOK
    <2>5. \A w \in Workers!WorkerIds : phase'[w] = "unborn" => phase[w] = "unborn"
      BY <1>3, <2>1 DEF Workers!SpawnWorker, Workers!TypeOK
    <2> QED
      BY <1>3, <2>2, <2>3, <2>4, <2>5 DEF Workers!SpawnWorker
  <1>4. CASE Workers!SendOk
    BY <1>4 DEF Workers!SendOk, Workers!TypeOK, Workers!CallConsistent, Workers!coordinator,
        Workers!Receivable, Workers!Looping, Workers!Sending
  <1>5. CASE Workers!SendErr
    BY <1>5 DEF Workers!SendErr, Workers!coordinator, Workers!tasks, Workers!log
  <1>6. CASE Workers!RetryOrRefuse
    BY SMTT(30), <1>6 DEF Workers!RetryOrRefuse, Workers!UnregisterIfMatches,
       Workers!TypeOK, Workers!tasks,
        Workers!NoWorker
  <1>7. CASE Workers!AckReaction
    BY <1>7 DEF Workers!AckReaction, Workers!coordinator, Workers!tasks, Workers!log
  <1>8. ASSUME NEW w \in Workers!WorkerIds,
               \/ Workers!Receive(w) \/ Workers!HandlerDone(w) \/ Workers!IdleTimeout(w)
               \/ Workers!ChannelClosed(w)
               \/ Workers!LeaveMap(w) \/ Workers!DropReceiver(w) \/ Workers!HandlerPanics(w)
        PROVE  Workers!BornInOrder'
    <2>1. nextWorkerId' = nextWorkerId /\ phase[w] /= "unborn"
      BY <1>8 DEF Workers!Receive, Workers!HandlerDone, Workers!IdleTimeout,
                  Workers!ChannelClosed, Workers!LeaveMap,
                  Workers!DropReceiver, Workers!HandlerPanics, Workers!coordinator
    <2>2. \E p : p /= "unborn" /\ phase' = [phase EXCEPT ![w] = p]
      BY <1>8 DEF Workers!Receive, Workers!HandlerDone, Workers!IdleTimeout,
                  Workers!ChannelClosed, Workers!LeaveMap,
                  Workers!DropReceiver, Workers!HandlerPanics
    <2>3. queue' = queue \/ \E q : queue' = [queue EXCEPT ![w] = q]
      BY <1>8 DEF Workers!Receive, Workers!HandlerDone, Workers!IdleTimeout,
                  Workers!ChannelClosed, Workers!LeaveMap,
                  Workers!DropReceiver, Workers!HandlerPanics
    <2>4. \A k \in SessionKeys : workers'[k] = workers[k] \/ workers'[k] = Workers!NoWorker
      BY <1>8 DEF Workers!Receive, Workers!HandlerDone, Workers!IdleTimeout,
                  Workers!ChannelClosed, Workers!LeaveMap,
                  Workers!DropReceiver, Workers!HandlerPanics, Workers!coordinator, Workers!UnregisterIfMatches, Workers!TypeOK
    <2>5. \A k \in SessionKeys : workers'[k] < nextWorkerId'
      <3>1. Workers!NoWorker < nextWorkerId
        BY DEF Workers!TypeOK, Workers!NoWorker
      <3> QED
        BY <2>1, <2>4, <3>1
    <2>9. \A k \in SessionKeys : workers'[k] /= Workers!NoWorker => workerKey'[workers'[k]] = k
      BY <1>8, <2>4 DEF Workers!Receive, Workers!HandlerDone, Workers!IdleTimeout,
                  Workers!ChannelClosed, Workers!LeaveMap,
                  Workers!DropReceiver, Workers!HandlerPanics
    <2>6. \A v \in Workers!WorkerIds : phase'[v] = "unborn" => phase[v] = "unborn" /\ v /= w
      BY <2>1, <2>2 DEF Workers!TypeOK
    <2>7. \A v \in Workers!WorkerIds : phase[v] = "unborn" => phase'[v] = "unborn"
      BY <2>1, <2>2 DEF Workers!TypeOK
    <2>8. \A v \in Workers!WorkerIds : v /= w => queue'[v] = queue[v]
      BY <2>3 DEF Workers!TypeOK
    <2> QED
      BY <2>1, <2>5, <2>6, <2>7, <2>8, <2>9
  <1>10. ASSUME NEW k \in SessionKeys, Workers!Remove(k) PROVE Workers!BornInOrder'
    BY <1>10 DEF Workers!Remove, Workers!tasks, Workers!loop, Workers!log, Workers!TypeOK,
        Workers!NoWorker
  <1>9. CASE UNCHANGED pool
    BY <1>9 DEF pool, Workers!coordinator, Workers!tasks, Workers!loop, Workers!log
  <1> QED
    BY <1>1, <1>2, <1>3, <1>4, <1>5, <1>6, <1>7, <1>8, <1>9, <1>10
    DEF PoolStep, Workers!LoopStep, Workers!WorkerStep

-----------------------------------------------------------------------------
(* The store of active sessions and /new.                                  *)

(* The session that /new is about to remove has been replaced.             *)
RotatedIsRetired == rotated /= NoKey => Retired(rotated)

(* A session whose /new has been answered has been replaced.               *)
RenewedIsRetired == \A s \in Scopes : renewed[s] = 0 \/ renewed[s] < active[s]

(* The gateway's own part of the invariant.                                *)
StoreInv == TypeOK /\ RotatedIsRetired /\ RenewedIsRetired

(* Nothing has been stamped, queued or replaced at first.                  *)
LEMMA InitStore == Init => StoreInv
  <1> SUFFICES ASSUME Init PROVE StoreInv
    OBVIOUS
  <1>1. Workers!TypeOK
    BY InitPool DEF Init, PoolInv
  <1>2. Len(<<>>) = 0 /\ <<>> \in Seq(SessionKeys)
    OBVIOUS
  <1>3. TypeOK
    BY <1>1, <1>2, GatewayConstantsAssumption DEF Init, TypeOK
  <1> QED
    BY <1>3 DEF Init, StoreInv, RotatedIsRetired, RenewedIsRetired

(* The session in use is numbered, and stays at or above the one stored.   *)
LEMMA CurrentType ==
    ASSUME TypeOK, NEW s \in Scopes
    PROVE  /\ CurrentOrCreate(s) \in 1 .. MaxSessions
           /\ active[s] \in Int /\ active[s] <= CurrentOrCreate(s)
  BY GatewayConstantsAssumption DEF TypeOK, CurrentOrCreate

(* What a step of the gateway does to the pool; remove is called only for  *)
(* a replaced session.                                                     *)
LEMMA NextPool == StoreInv /\ [Next]_vars => PoolStep
  <1> SUFFICES ASSUME StoreInv, [Next]_vars PROVE PoolStep
    OBVIOUS
  <1>1. CASE ReceiveInbound
    <2>1. Head(inbound) \in SessionKeys
      BY <1>1, TailFacts DEF ReceiveInbound, StoreInv, TypeOK
    <2> QED
      BY <1>1, <2>1 DEF ReceiveInbound, PoolStep
  <1>2. CASE NewSessionRemove
    <2>1. rotated \in SessionKeys /\ Retired(rotated)
      BY <1>2 DEF NewSessionRemove, StoreInv, TypeOK, RotatedIsRetired
    <2> QED
      BY <1>2, <2>1 DEF NewSessionRemove, PoolStep
  <1>3. CASE Quiescent
    BY <1>3 DEF Quiescent, Workers!Quiescent, PoolStep, pool, Workers!vars, Workers!coordinator,
                Workers!tasks, Workers!loop, Workers!log
  <1>4. CASE \/ \E s \in Scopes : RouteInbound(s) \/ NewSessionRotate(s)
             \/ EnqueueHeld
             \/ \E k \in SessionKeys : CompletionReinjected(k)
             \/ UNCHANGED vars
    BY <1>4 DEF RouteInbound, NewSessionRotate, EnqueueHeld, CompletionReinjected, vars, PoolStep
  <1> QED
    BY <1>1, <1>2, <1>3, <1>4 DEF Next, PoolStep

(* The steps of the pool leave the gateway alone.                          *)
LEMMA GatewayRests ==
    ASSUME [Next]_vars,
           ~(\E s \in Scopes : RouteInbound(s) \/ NewSessionRotate(s)),
           ~EnqueueHeld, ~(\E k \in SessionKeys : CompletionReinjected(k)),
           ~ReceiveInbound, ~NewSessionRemove
    PROVE  UNCHANGED gateway
  BY DEF Next, Quiescent, vars

(* The store, the queue and /new stay well-typed, and only sessions that   *)
(* have been replaced are removed and answered for.                        *)
LEMMA StoreStep == PoolInv /\ StoreInv /\ [Next]_vars => StoreInv'
  <1> SUFFICES ASSUME PoolInv, StoreInv, [Next]_vars PROVE StoreInv'
    OBVIOUS
  <1>0. Workers!TypeOK' /\ TypeOK
    BY NextPool, PoolTypeStep DEF StoreInv
  <1> USE GatewayConstantsAssumption
  <1>1. ASSUME NEW s \in Scopes, RouteInbound(s) PROVE StoreInv'
    <2>1. PICK c \in 1 .. MaxSessions : c = CurrentOrCreate(s) /\ active[s] <= c
      BY <1>0, CurrentType
    <2>2. /\ active' = [active EXCEPT ![s] = c] /\ held' = [scope |-> s, seq |-> c]
          /\ arrivals' = arrivals + 1 /\ arrivals < MaxMessages
          /\ UNCHANGED <<inbound, rotated, renewed>>
      BY <1>1, <2>1 DEF RouteInbound
    <2>3. TypeOK'
      BY <1>0, <2>2 DEF TypeOK, SessionKeys
    <2>4. \A t \in Scopes : active[t] \in Int /\ active'[t] \in Int /\ active[t] <= active'[t]
      BY <1>0, <2>1, <2>2 DEF TypeOK
    <2>5. RotatedIsRetired'
      BY <1>0, <2>2, <2>4 DEF StoreInv, RotatedIsRetired, Retired, TypeOK, SessionKeys
    <2>6. RenewedIsRetired'
      BY <1>0, <2>2, <2>4 DEF StoreInv, RenewedIsRetired, TypeOK
    <2> QED
      BY <2>3, <2>5, <2>6 DEF StoreInv
  <1>2. ASSUME NEW s \in Scopes, NewSessionRotate(s) PROVE StoreInv'
    <2>1. PICK c \in 1 .. MaxSessions : c = CurrentOrCreate(s) /\ active[s] <= c
      BY <1>0, CurrentType
    <2>2. /\ active' = [active EXCEPT ![s] = c + 1] /\ rotated' = [scope |-> s, seq |-> c]
          /\ c < MaxSessions
          /\ UNCHANGED <<held, inbound, arrivals, renewed>>
      BY <1>2, <2>1 DEF NewSessionRotate
    <2>3. TypeOK'
      BY <1>0, <2>2 DEF TypeOK, SessionKeys
    <2>4. \A t \in Scopes : active[t] \in Int /\ active'[t] \in Int /\ active[t] <= active'[t]
      BY SMTT(30), <1>0, <2>1, <2>2 DEF TypeOK
    <2>5. RotatedIsRetired'
      BY <1>0, <2>2 DEF RotatedIsRetired, Retired, TypeOK
    <2>6. RenewedIsRetired'
      BY <1>0, <2>2, <2>4 DEF StoreInv, RenewedIsRetired, TypeOK
    <2> QED
      BY <2>3, <2>5, <2>6 DEF StoreInv
  <1>3. CASE EnqueueHeld
    <2>1. /\ inbound' = Append(inbound, held) /\ held \in SessionKeys /\ held' = NoKey
          /\ Len(inbound) < QueueCapacity
          /\ UNCHANGED <<active, arrivals, rotated, renewed>>
      BY <1>0, <1>3 DEF EnqueueHeld, TypeOK
    <2>2. inbound' \in Seq(SessionKeys) /\ Len(inbound') <= QueueCapacity
      BY <1>0, <2>1, AppendFacts DEF TypeOK
    <2>3. TypeOK'
      BY <1>0, <2>1, <2>2 DEF TypeOK
    <2> QED
      BY <2>1, <2>3 DEF StoreInv, RotatedIsRetired, RenewedIsRetired, Retired
  <1>4. ASSUME NEW k \in SessionKeys, CompletionReinjected(k) PROVE StoreInv'
    <2>1. /\ inbound' = Append(inbound, k) /\ Len(inbound) < QueueCapacity
          /\ arrivals' = arrivals + 1 /\ arrivals < MaxMessages
          /\ UNCHANGED <<active, held, rotated, renewed>>
      BY <1>4 DEF CompletionReinjected
    <2>2. inbound' \in Seq(SessionKeys) /\ Len(inbound') <= QueueCapacity
      BY <1>0, <2>1, AppendFacts DEF TypeOK
    <2>3. TypeOK'
      BY <1>0, <2>1, <2>2 DEF TypeOK
    <2> QED
      BY <2>1, <2>3 DEF StoreInv, RotatedIsRetired, RenewedIsRetired, Retired
  <1>5. CASE ReceiveInbound
    <2>1. inbound' = Tail(inbound) /\ inbound /= <<>> /\ UNCHANGED <<active, held, arrivals, rotated, renewed>>
      BY <1>5 DEF ReceiveInbound
    <2>2. inbound' \in Seq(SessionKeys) /\ Len(inbound') <= QueueCapacity
      BY <1>0, <2>1, TailFacts DEF TypeOK
    <2>3. TypeOK'
      BY <1>0, <2>1, <2>2 DEF TypeOK
    <2> QED
      BY <2>1, <2>3 DEF StoreInv, RotatedIsRetired, RenewedIsRetired, Retired
  <1>6. CASE NewSessionRemove
    <2>1. /\ rotated \in SessionKeys /\ rotated.seq < active[rotated.scope]
          /\ renewed' = [renewed EXCEPT ![rotated.scope] = rotated.seq]
          /\ rotated' = NoKey
          /\ UNCHANGED <<active, held, inbound, arrivals>>
      BY <1>0, <1>6 DEF NewSessionRemove, TypeOK, StoreInv, RotatedIsRetired, Retired
    <2>2. rotated.scope \in Scopes /\ rotated.seq \in 1 .. MaxSessions
      BY <2>1 DEF SessionKeys
    <2>3. TypeOK'
      BY <1>0, <2>1, <2>2 DEF TypeOK
    <2>4. RenewedIsRetired'
      BY <1>0, <2>1, <2>2 DEF StoreInv, RenewedIsRetired, TypeOK
    <2> QED
      BY <2>1, <2>3, <2>4 DEF StoreInv, RotatedIsRetired
  <1>7. CASE UNCHANGED gateway
    <2>1. TypeOK'
      BY <1>0, <1>7 DEF TypeOK, gateway
    <2> QED
      BY <1>7, <2>1 DEF StoreInv, RotatedIsRetired, RenewedIsRetired, Retired, gateway
  <1> QED
    BY <1>1, <1>2, <1>3, <1>4, <1>5, <1>6, <1>7, GatewayRests

(* A replaced session stays replaced: no step moves a scope back.          *)
LEMMA RetiredForGood ==
    ASSUME TypeOK, [Next]_vars
    PROVE  \A k \in SessionKeys : Retired(k) => Retired(k)'
  <1>1. \A t \in Scopes : active[t] \in Int /\ active'[t] \in Int /\ active[t] <= active'[t]
    <2>1. ASSUME NEW s \in Scopes, RouteInbound(s) \/ NewSessionRotate(s),
                 NEW t \in Scopes
          PROVE  active[t] \in Int /\ active'[t] \in Int /\ active[t] <= active'[t]
      <3>1. PICK c \in 1 .. MaxSessions : c = CurrentOrCreate(s) /\ active[s] <= c
        BY CurrentType
      <3>2. \/ active' = [active EXCEPT ![s] = c]
            \/ active' = [active EXCEPT ![s] = c + 1]
        BY <2>1, <3>1 DEF RouteInbound, NewSessionRotate
      <3>3. active[t] \in Int /\ active'[t] \in {active[t], c, c + 1} /\ (t /= s => active'[t] = active[t])
        BY <3>2, GatewayConstantsAssumption DEF TypeOK
      <3>4. t = s => active'[t] \in {c, c + 1}
        BY <3>2 DEF TypeOK
      <3> QED
        BY <3>1, <3>3, <3>4
    <2>2. CASE UNCHANGED active
      BY <2>2, GatewayConstantsAssumption DEF TypeOK
    <2>3. (\E s \in Scopes : RouteInbound(s) \/ NewSessionRotate(s)) \/ UNCHANGED active
      BY DEF Next, EnqueueHeld, CompletionReinjected, ReceiveInbound, NewSessionRemove,
             Quiescent, gateway, vars
    <2> QED
      BY <2>1, <2>2, <2>3
  <1> QED
    BY <1>1, GatewayConstantsAssumption DEF Retired, SessionKeys

-----------------------------------------------------------------------------
(* One handler at a time.                                                  *)

(* The heart of the argument: a worker in its loop is the one the map has  *)
(* for its key, unless /new has replaced that session.                     *)
LoopingIsCurrent ==
    \A w \in Workers!WorkerIds : phase[w] \in Workers!Looping =>
        workers[workerKey[w]] = w \/ Retired(workerKey[w])

(* Only /new takes the entry of a worker in its loop, and only for a       *)
(* session that it has replaced.                                           *)
LEMMA LoopingStep ==
    ASSUME PoolInv, PoolStep, LoopingIsCurrent,
           \A k \in SessionKeys : Retired(k) => Retired(k)'
    PROVE  LoopingIsCurrent'
  <1> USE GatewayConstantsAssumption DEF PoolInv, Workers!WorkerIds, Workers!Looping
  <1>0. ASSUME \A w \in Workers!WorkerIds : phase'[w] \in Workers!Looping =>
                  /\ phase[w] \in Workers!Looping /\ workerKey'[w] = workerKey[w]
                  /\ \/ workers'[workerKey[w]] = workers[workerKey[w]]
                     \/ Retired(workerKey[w])
                     \/ workers[workerKey[w]] /= w
        PROVE  LoopingIsCurrent'
    <2> SUFFICES ASSUME NEW w \in Workers!WorkerIds, phase'[w] \in Workers!Looping
                 PROVE  workers'[workerKey'[w]] = w \/ Retired(workerKey[w])'
      BY DEF LoopingIsCurrent
    <2>1. PICK k \in SessionKeys : k = workerKey[w] /\ workerKey'[w] = k
      BY <1>0 DEF Workers!TypeOK
    <2>2. workers'[k] = w \/ Retired(k)
      BY <1>0, <2>1 DEF LoopingIsCurrent
    <2>3. Retired(k) => Retired(workerKey[w])'
      BY <2>1 DEF Retired
    <2> QED
      BY <2>1, <2>2, <2>3
  <1>1. ASSUME NEW k \in SessionKeys, Workers!DispatchCall(k) PROVE LoopingIsCurrent'
    BY <1>0, <1>1 DEF Workers!DispatchCall, Workers!coordinator, Workers!tasks
  <1>2. CASE Workers!ReuseWorker \/ Workers!SendErr \/ Workers!AckReaction
    BY <1>0, <1>2 DEF Workers!ReuseWorker, Workers!SendErr, Workers!AckReaction,
                      Workers!coordinator, Workers!tasks
  <1>3. CASE Workers!SpawnWorker
    <2>1. nextWorkerId \in Workers!WorkerIds
      BY <1>3 DEF Workers!SpawnWorker, Workers!TypeOK
    <2>2. ASSUME NEW w \in Workers!WorkerIds, phase'[w] \in Workers!Looping, w /= nextWorkerId
          PROVE  workers'[workerKey'[w]] = w \/ Retired(workerKey[w])'
      <3>1. PICK k \in SessionKeys : k = workerKey[w]
        BY DEF Workers!TypeOK
      <3>2. phase[w] \in Workers!Looping /\ workerKey'[w] = k
        BY <1>3, <2>1, <2>2, <3>1 DEF Workers!SpawnWorker, Workers!TypeOK
      <3>3. CASE workers[k] = w
        <4>1. k /= dispatch.key
          BY <1>3, <3>3 DEF Workers!SpawnWorker, Workers!NoWorker
        <4> QED
          BY <1>3, <3>2, <3>3, <4>1 DEF Workers!SpawnWorker, Workers!TypeOK
      <3>4. CASE Retired(k)
        <4>1. Retired(k)'
          BY <3>4
        <4> QED
          BY <3>2, <4>1 DEF Retired
      <3> QED
        BY <3>1, <3>2, <3>3, <3>4 DEF LoopingIsCurrent
    <2>3. workers'[workerKey'[nextWorkerId]] = nextWorkerId
      BY <1>3, <2>1 DEF Workers!SpawnWorker, Workers!TypeOK, Workers!DispatchStates
    <2> QED
      BY <2>2, <2>3 DEF LoopingIsCurrent
  <1>4. CASE Workers!SendOk
    BY <1>0, <1>4 DEF Workers!SendOk, Workers!coordinator
  <1>5. CASE Workers!RetryOrRefuse
    <2>1. /\ phase[dispatch.worker] = "gone" /\ UNCHANGED <<phase, workerKey>>
          /\ \A k \in SessionKeys : workers'[k] = workers[k] \/ workers[k] = dispatch.worker
      BY <1>5 DEF Workers!RetryOrRefuse, Workers!UnregisterIfMatches, Workers!CallConsistent,
                  Workers!TypeOK, Workers!tasks
    <2> QED
      BY <1>0, <2>1 DEF Workers!TypeOK
  <1>6. ASSUME NEW w \in Workers!WorkerIds,
               \/ Workers!Receive(w) \/ Workers!HandlerDone(w) \/ Workers!IdleTimeout(w)
               \/ Workers!ChannelClosed(w) \/ Workers!DropReceiver(w) \/ Workers!HandlerPanics(w)
        PROVE  LoopingIsCurrent'
    <2>1. UNCHANGED <<workers, workerKey>>
      BY <1>6 DEF Workers!Receive, Workers!HandlerDone, Workers!IdleTimeout, Workers!ChannelClosed,
                  Workers!DropReceiver, Workers!HandlerPanics, Workers!coordinator
    <2>2. \A v \in Workers!WorkerIds : phase'[v] \in Workers!Looping => phase[v] \in Workers!Looping
      BY <1>6 DEF Workers!Receive, Workers!HandlerDone, Workers!IdleTimeout, Workers!ChannelClosed,
                  Workers!DropReceiver, Workers!HandlerPanics, Workers!TypeOK
    <2> QED
      BY <1>0, <2>1, <2>2
  <1>7. ASSUME NEW w \in Workers!WorkerIds, Workers!LeaveMap(w) PROVE LoopingIsCurrent'
    <2>1. /\ \A v \in Workers!WorkerIds : phase'[v] \in Workers!Looping =>
                phase[v] \in Workers!Looping /\ v /= w
          /\ \A k \in SessionKeys : workers'[k] = workers[k] \/ workers[k] = w
          /\ UNCHANGED workerKey
      BY <1>7 DEF Workers!LeaveMap, Workers!UnregisterIfMatches, Workers!TypeOK
    <2> QED
      BY <1>0, <2>1 DEF Workers!TypeOK
  <1>8. ASSUME NEW k \in SessionKeys, Retired(k), Workers!Remove(k) PROVE LoopingIsCurrent'
    BY <1>0, <1>8 DEF Workers!Remove, Workers!TypeOK, Workers!tasks
  <1>9. CASE UNCHANGED pool
    BY <1>0, <1>9 DEF pool
  <1> QED
    BY <1>1, <1>2, <1>3, <1>4, <1>5, <1>6, <1>7, <1>8, <1>9
    DEF PoolStep, Workers!LoopStep, Workers!WorkerStep

(* The inductive invariant behind the guarantee that survives /new.        *)
SerialInv == PoolInv /\ StoreInv /\ LoopingIsCurrent

(* No worker is in its loop at first.                                      *)
LEMMA InitSerial == Init => SerialInv
  <1> SUFFICES ASSUME Init PROVE SerialInv
    OBVIOUS
  <1>1. \A w \in Workers!WorkerIds : phase[w] = "unborn"
    BY DEF Init, Workers!Init
  <1> QED
    BY <1>1, InitPool, InitStore DEF Init, SerialInv, LoopingIsCurrent, Workers!Looping

(* Every step of the gateway and of the pool keeps it.                     *)
LEMMA SerialStep == SerialInv /\ [Next]_vars => SerialInv'
  <1> SUFFICES ASSUME SerialInv, [Next]_vars PROVE SerialInv'
    OBVIOUS
  <1>1. PoolInv /\ StoreInv /\ PoolStep /\ LoopingIsCurrent /\ TypeOK
    BY NextPool DEF SerialInv, StoreInv
  <1>2. PoolInv'
    BY <1>1, PoolTypeStep, PoolCallStep, PoolBornStep DEF PoolInv
  <1>3. LoopingIsCurrent'
    BY <1>1, RetiredForGood, LoopingStep
  <1> QED
    BY <1>1, <1>2, <1>3, StoreStep DEF SerialInv

(* The session that new messages are stamped with is served one message at *)
(* a time, for any number of scopes, sessions, messages and workers: two   *)
(* handlers of one session overlap only once /new has replaced it.         *)
THEOREM ActiveStaysSerialized == Spec => []SerializedWhileActive
  <1>1. SerialInv => SerializedWhileActive
    BY DEF SerialInv, LoopingIsCurrent, SerializedWhileActive, Workers!Looping
  <1> QED
    BY <1>1, InitSerial, SerialStep, PTL DEF Spec

(* From the answer to /new on, no message is stamped with the replaced     *)
(* session: route_inbound reads the store that /new has already moved on.  *)
THEOREM StampsAreFresh == Spec => FreshAfterNew
  <1> DEFINE Fresh == \A s \in Scopes : held' /= held /\ held'.scope = s /\ held'.seq > 0
                                            => held'.seq > renewed[s]
  <1>1. StoreInv /\ [Next]_vars => [Fresh]_vars
    <2> SUFFICES ASSUME StoreInv, [Next]_vars, held' /= held, held'.seq > 0, NEW s \in Scopes,
                        held'.scope = s
                 PROVE  held'.seq > renewed[s]
      BY DEF vars, gateway
    <2>1. \E t \in Scopes : RouteInbound(t)
      <3>1. CASE EnqueueHeld
        BY <3>1, SomeKey DEF EnqueueHeld
      <3>2. UNCHANGED held \/ EnqueueHeld \/ \E t \in Scopes : RouteInbound(t)
        BY DEF Next, NewSessionRotate, CompletionReinjected, ReceiveInbound, NewSessionRemove,
               Quiescent, gateway, vars
      <3> QED
        BY <3>1, <3>2
    <2>2. RouteInbound(s) /\ held'.seq = CurrentOrCreate(s)
      BY <2>1 DEF RouteInbound
    <2>3. renewed[s] \in Int /\ active[s] \in Int /\ (renewed[s] = 0 \/ renewed[s] < active[s])
      BY GatewayConstantsAssumption DEF StoreInv, RenewedIsRetired, TypeOK
    <2>4. CurrentOrCreate(s) \in Int /\ 1 <= CurrentOrCreate(s) /\ active[s] <= CurrentOrCreate(s)
      BY CurrentType, GatewayConstantsAssumption DEF StoreInv
    <2> QED
      BY <2>2, <2>3, <2>4
  <1>2. SerialInv => StoreInv
    BY DEF SerialInv
  <1>3. Spec => []SerialInv
    BY InitSerial, SerialStep, PTL DEF Spec
  <1>4. Spec => [][Fresh]_vars
    BY <1>1, <1>2, <1>3, PTL DEF Spec
  <1> QED
    BY <1>4 DEF FreshAfterNew

-----------------------------------------------------------------------------
(* Order.                                                                  *)

(* Channels and logs hold messages of past calls.                          *)
Past ==
    /\ \A w \in Workers!WorkerIds : \A i \in 1 .. Len(queue[w]) : queue[w][i] <= Workers!Newest
    /\ \A k \in SessionKeys : \A i \in 1 .. Len(handled[k]) : handled[k][i] <= Workers!Newest

(* Each channel is in the order of the calls.                              *)
Ascending ==
    \A w \in Workers!WorkerIds : \A i, j \in 1 .. Len(queue[w]) : i < j => queue[w][i] < queue[w][j]

(* What the worker of a session that is not replaced still has to handle   *)
(* is newer than what has been handled.                                    *)
LogFirst ==
    \A w \in Workers!WorkerIds, k \in SessionKeys :
        workerKey[w] = k /\ phase[w] \in Workers!Looping /\ ~Retired(k) =>
            \A i \in 1 .. Len(handled[k]), j \in 1 .. Len(queue[w]) : handled[k][i] < queue[w][j]

(* What waits has not been handled, in whatever session.                   *)
LogApart ==
    \A w \in Workers!WorkerIds, k \in SessionKeys :
        \A i \in 1 .. Len(handled[k]), j \in 1 .. Len(queue[w]) : handled[k][i] /= queue[w][j]

(* No message waits in two channels.                                       *)
QueuesApart ==
    \A v, w \in Workers!WorkerIds : v /= w =>
        \A i \in 1 .. Len(queue[v]), j \in 1 .. Len(queue[w]) : queue[v][i] /= queue[w][j]

(* The invariant of the order, apart from SerialInv.                       *)
Order == Past /\ Ascending /\ LogFirst /\ LogApart /\ QueuesApart /\ InOrderWhileActive

(* Elements of channels and logs are numbers, and so is the newest one.    *)
LEMMA ElementTypes ==
    ASSUME Workers!TypeOK
    PROVE  /\ \A w \in Workers!WorkerIds : Len(queue[w]) \in Nat
           /\ \A w \in Workers!WorkerIds : \A i \in 1 .. Len(queue[w]) : queue[w][i] \in Int
           /\ \A k \in SessionKeys : Len(handled[k]) \in Nat
           /\ \A k \in SessionKeys : \A i \in 1 .. Len(handled[k]) : handled[k][i] \in Int
           /\ calls \in Int /\ Workers!Newest \in Int
  <1>1. \A s \in Seq(Workers!Messages) : Len(s) \in Nat /\ \A i \in 1 .. Len(s) : s[i] \in Int
    BY GatewayConstantsAssumption DEF Workers!Messages
  <1>2. calls \in Int /\ Workers!Newest \in Int
    BY GatewayConstantsAssumption DEF Workers!TypeOK, Workers!Newest
  <1> QED
    BY <1>1, <1>2 DEF Workers!TypeOK

(* A step that starts no handler, sends nothing and does not lower the     *)
(* newest message number preserves the order.                              *)
LEMMA QuietOrder ==
    ASSUME Workers!TypeOK, Order,
           Workers!Newest' \in Int, Workers!Newest <= Workers!Newest',
           UNCHANGED handled,
           \A w \in Workers!WorkerIds : queue'[w] = queue[w] \/ queue'[w] = <<>>,
           \A w \in Workers!WorkerIds : phase'[w] \in Workers!Looping =>
                \/ queue'[w] = <<>>
                \/ phase[w] \in Workers!Looping /\ workerKey'[w] = workerKey[w],
           \A k \in SessionKeys : Retired(k) => Retired(k)'
    PROVE  Order'
  <1>1. Len(<<>>) = 0
    OBVIOUS
  <1>2. \A w \in Workers!WorkerIds : \A i \in 1 .. Len(queue'[w]) :
            i \in 1 .. Len(queue[w]) /\ queue'[w] = queue[w] /\ queue'[w] /= <<>>
    BY <1>1
  <1>3. Past'
    BY <1>2, ElementTypes DEF Order, Past
  <1>4. Ascending'
    BY <1>2 DEF Order, Ascending
  <1>5. LogFirst'
    BY <1>2 DEF Order, LogFirst
  <1>6. LogApart' /\ QueuesApart'
    BY <1>2 DEF Order, LogApart, QueuesApart
  <1>7. InOrderWhileActive'
    BY DEF Order, InOrderWhileActive
  <1> QED
    BY <1>3, <1>4, <1>5, <1>6, <1>7 DEF Order

(* The call's message enters a channel behind everything sent before it.   *)
LEMMA SendOrder ==
    ASSUME PoolInv, Order, Workers!SendOk, \A k \in SessionKeys : Retired(k) => Retired(k)'
    PROVE  Order'
  <1>1. PICK d \in Workers!WorkerIds : d = dispatch.worker
    BY DEF PoolInv, Workers!CallConsistent, Workers!SendOk
  <1>2. /\ Workers!TypeOK /\ dispatch.at \in Workers!Sending
        /\ calls \in Workers!Messages /\ calls \in Int
    <2>1. Workers!TypeOK /\ Workers!CallConsistent /\ dispatch.at \in Workers!Sending
      BY DEF PoolInv, Workers!SendOk
    <2>2. calls >= 1 /\ calls \in 0 .. MaxMessages
      BY <2>1 DEF Workers!CallConsistent, Workers!Sending, Workers!TypeOK
    <2> QED
      BY <2>1, <2>2, GatewayConstantsAssumption DEF Workers!Messages
  <1>3. Workers!Newest = calls - 1 /\ Workers!Newest' = calls
    BY <1>2 DEF Workers!SendOk, Workers!Newest, Workers!Sending, Workers!TypeOK,
                Workers!DispatchStates
  <1>4. /\ queue'[d] = Append(queue[d], calls)
        /\ \A w \in Workers!WorkerIds : w /= d => queue'[w] = queue[w]
        /\ UNCHANGED <<handled, phase, workerKey>>
    BY <1>1, <1>2 DEF Workers!SendOk, Workers!TypeOK, Workers!Message
  <1>5. /\ Len(queue[d]) \in Nat /\ Len(queue'[d]) = Len(queue[d]) + 1
        /\ \A i \in 1 .. Len(queue[d]) : queue'[d][i] = queue[d][i]
        /\ queue'[d][Len(queue[d]) + 1] = calls
    BY <1>1, <1>2, <1>4, AppendFacts DEF Workers!TypeOK
  <1>6. /\ \A w \in Workers!WorkerIds : \A i \in 1 .. Len(queue[w]) :
              queue[w][i] \in Int /\ queue[w][i] < calls
        /\ \A k \in SessionKeys : \A i \in 1 .. Len(handled[k]) :
              handled[k][i] \in Int /\ handled[k][i] < calls
    BY <1>2, <1>3, ElementTypes DEF Order, Past
  <1>7. \A i \in 1 .. Len(queue'[d]) :
            \/ i \in 1 .. Len(queue[d]) /\ queue'[d][i] = queue[d][i]
            \/ i = Len(queue[d]) + 1 /\ queue'[d][i] = calls
    BY <1>5
  <1>8. \A w \in Workers!WorkerIds : \A i \in 1 .. Len(queue'[w]) :
            \/ i \in 1 .. Len(queue[w]) /\ queue'[w][i] = queue[w][i]
            \/ w = d /\ i = Len(queue[d]) + 1 /\ queue'[w][i] = calls
    BY <1>4, <1>7
  <1>9. Past'
    <2>1. \A w \in Workers!WorkerIds : \A i \in 1 .. Len(queue'[w]) : queue'[w][i] <= calls
      BY <1>2, <1>6, <1>8
    <2>2. \A k \in SessionKeys : \A i \in 1 .. Len(handled[k]) : handled[k][i] <= calls
      BY <1>2, <1>6
    <2> QED
      BY <1>3, <1>4, <2>1, <2>2 DEF Past
  <1>10. Ascending'
    <2> SUFFICES ASSUME NEW w \in Workers!WorkerIds, NEW i \in 1 .. Len(queue'[w]),
                        NEW j \in 1 .. Len(queue'[w]), i < j
                 PROVE  queue'[w][i] < queue'[w][j]
      BY DEF Ascending
    <2>1. i \in 1 .. Len(queue[w]) /\ queue'[w][i] = queue[w][i]
      BY <1>4, <1>5, <1>8
    <2> QED
      BY <1>6, <1>8, <2>1 DEF Order, Ascending
  <1>11. LogFirst'
    BY <1>4, <1>6, <1>8 DEF Order, LogFirst
  <1>12. LogApart'
    BY <1>4, <1>6, <1>8 DEF Order, LogApart
  <1>13. QueuesApart'
    <2> SUFFICES ASSUME NEW v \in Workers!WorkerIds, NEW w \in Workers!WorkerIds, v /= w,
                        NEW i \in 1 .. Len(queue'[v]), NEW j \in 1 .. Len(queue'[w])
                 PROVE  queue'[v][i] /= queue'[w][j]
      BY DEF QueuesApart
    <2> QED
      BY SMTT(30), <1>2, <1>6, <1>8 DEF Order, QueuesApart
  <1>14. InOrderWhileActive'
    BY <1>4 DEF Order, InOrderWhileActive
  <1> QED
    BY <1>9, <1>10, <1>11, <1>12, <1>13, <1>14 DEF Order

(* The head of a channel goes to the end of a log in which it does not     *)
(* occur, and to which it is newer unless the session has been replaced.   *)
LEMMA ReceiveOrder ==
    ASSUME PoolInv, LoopingIsCurrent, Order, NEW w \in Workers!WorkerIds, Workers!Receive(w),
           \A k \in SessionKeys : Retired(k) => Retired(k)'
    PROVE  Order'
  <1>1. PICK key \in SessionKeys : key = workerKey[w]
    BY DEF PoolInv, Workers!TypeOK
  <1>2. /\ Workers!TypeOK /\ phase[w] \in Workers!Looping /\ queue[w] /= <<>>
        /\ queue[w] \in Seq(Workers!Messages) /\ handled[key] \in Seq(Workers!Messages)
    BY DEF PoolInv, Workers!TypeOK, Workers!Receive, Workers!Looping
  <1>3. PICK x \in Workers!Messages : x = Head(queue[w])
    BY <1>2, TailFacts
  <1>4. /\ queue'[w] = Tail(queue[w])
        /\ \A v \in Workers!WorkerIds : v /= w => queue'[v] = queue[v]
        /\ handled'[key] = Append(handled[key], x)
        /\ \A k \in SessionKeys : k /= key => handled'[k] = handled[k]
        /\ UNCHANGED <<workerKey, dispatch, calls>>
    BY <1>1, <1>2, <1>3 DEF Workers!Receive, Workers!TypeOK, Workers!loop
  <1>5. /\ 1 \in 1 .. Len(queue[w]) /\ x = queue[w][1]
        /\ \A i \in 1 .. Len(queue'[w]) :
              i \in Int /\ i + 1 \in 1 .. Len(queue[w]) /\ 1 < i + 1 /\ queue'[w][i] = queue[w][i + 1]
    BY <1>2, <1>3, <1>4, TailFacts
  <1>6. /\ Len(handled[key]) \in Nat /\ Len(handled'[key]) = Len(handled[key]) + 1
        /\ \A i \in 1 .. Len(handled[key]) : handled'[key][i] = handled[key][i]
        /\ handled'[key][Len(handled[key]) + 1] = x
    BY <1>2, <1>3, <1>4, AppendFacts
  <1>7. \A k \in SessionKeys : \A i \in 1 .. Len(handled'[k]) :
            \/ i \in 1 .. Len(handled[k]) /\ handled'[k][i] = handled[k][i]
            \/ k = key /\ i = Len(handled[key]) + 1 /\ handled'[k][i] = x
    BY SMTT(30), <1>4, <1>6
  <1>8. \A v \in Workers!WorkerIds : \A i \in 1 .. Len(queue'[v]) :
            \E j \in 1 .. Len(queue[v]) : queue'[v][i] = queue[v][j] /\ (v = w => 1 < j)
    BY <1>4, <1>5
  <1>9. Workers!Newest' = Workers!Newest
    BY <1>4 DEF Workers!Newest
  <1>10. \A v \in Workers!WorkerIds : phase'[v] \in Workers!Looping => phase[v] \in Workers!Looping
    BY <1>2 DEF Workers!Receive, Workers!TypeOK
  <1>11. \A v \in Workers!WorkerIds :
            phase[v] \in Workers!Looping /\ workerKey[v] = key /\ ~Retired(key) => v = w
    BY <1>1, <1>2 DEF LoopingIsCurrent
  <1>12. Past'
    <2>1. \A v \in Workers!WorkerIds : \A i \in 1 .. Len(queue'[v]) : queue'[v][i] <= Workers!Newest
      BY <1>8 DEF Order, Past
    <2>2. \A k \in SessionKeys : \A i \in 1 .. Len(handled'[k]) : handled'[k][i] <= Workers!Newest
      BY <1>5, <1>7 DEF Order, Past
    <2> QED
      BY <1>9, <2>1, <2>2 DEF Past
  <1>13. Ascending'
    <2> SUFFICES ASSUME NEW v \in Workers!WorkerIds, NEW i \in 1 .. Len(queue'[v]),
                        NEW j \in 1 .. Len(queue'[v]), i < j
                 PROVE  queue'[v][i] < queue'[v][j]
      BY DEF Ascending
    <2>1. CASE v /= w
      BY <1>4, <2>1 DEF Order, Ascending
    <2>2. CASE v = w
      <3>1. i + 1 < j + 1
        BY <1>5, <2>2
      <3> QED
        BY <1>5, <2>2, <3>1 DEF Order, Ascending
    <2> QED
      BY <2>1, <2>2
  <1>14. \A v \in Workers!WorkerIds : \A j \in 1 .. Len(queue'[v]) : x /= queue'[v][j]
    <2> SUFFICES ASSUME NEW v \in Workers!WorkerIds, NEW j \in 1 .. Len(queue'[v])
                 PROVE  x /= queue'[v][j]
      OBVIOUS
    <2>1. CASE v /= w
      BY <1>4, <1>5, <2>1 DEF Order, QueuesApart
    <2>2. CASE v = w
      <3>1. queue[w][1] < queue[w][j + 1] /\ queue[w][1] \in Int /\ queue[w][j + 1] \in Int
        BY <1>2, <1>5, <2>2, ElementTypes DEF Order, Ascending
      <3> QED
        BY <1>5, <2>2, <3>1
    <2> QED
      BY <2>1, <2>2
  <1>15. LogApart'
    <2>1. \A k \in SessionKeys, v \in Workers!WorkerIds :
            \A i \in 1 .. Len(handled[k]), j \in 1 .. Len(queue'[v]) : handled[k][i] /= queue'[v][j]
      BY <1>8 DEF Order, LogApart
    <2> QED
      BY <1>7, <1>14, <2>1 DEF LogApart
  <1>16. QueuesApart'
    BY SMTT(30), <1>8 DEF Order, QueuesApart
  <1>17. LogFirst'
    <2> SUFFICES ASSUME NEW v \in Workers!WorkerIds, NEW k \in SessionKeys,
                        workerKey'[v] = k, phase'[v] \in Workers!Looping, ~Retired(k)',
                        NEW i \in 1 .. Len(handled'[k]), NEW j \in 1 .. Len(queue'[v])
                 PROVE  handled'[k][i] < queue'[v][j]
      BY DEF LogFirst
    <2>1. workerKey[v] = k /\ phase[v] \in Workers!Looping /\ ~Retired(k)
      BY <1>4, <1>10
    <2>2. \A m \in 1 .. Len(handled[k]), n \in 1 .. Len(queue[v]) : handled[k][m] < queue[v][n]
      BY <2>1 DEF Order, LogFirst
    <2>3. PICK n \in 1 .. Len(queue[v]) : queue'[v][j] = queue[v][n] /\ (v = w => 1 < n)
      BY <1>8
    <2>4. CASE i \in 1 .. Len(handled[k]) /\ handled'[k][i] = handled[k][i]
      BY <2>2, <2>3, <2>4
    <2>5. CASE k = key /\ handled'[k][i] = x
      <3>1. v = w
        BY <1>11, <2>1, <2>5
      <3> QED
        BY <1>5, <2>3, <2>5, <3>1 DEF Order, Ascending
    <2> QED
      BY <1>7, <2>4, <2>5
  <1>18. InOrderWhileActive'
    <2> SUFFICES ASSUME NEW k \in SessionKeys, NEW i \in 1 .. Len(handled'[k]),
                        NEW j \in 1 .. Len(handled'[k]), i < j
                 PROVE  /\ handled'[k][i] /= handled'[k][j]
                        /\ Retired(k)' \/ handled'[k][i] < handled'[k][j]
      BY DEF InOrderWhileActive
    <2>1. i \in 1 .. Len(handled[k]) /\ handled'[k][i] = handled[k][i]
      BY <1>4, <1>6, <1>7
    <2>2. CASE j \in 1 .. Len(handled[k]) /\ handled'[k][j] = handled[k][j]
      BY <2>1, <2>2 DEF Order, InOrderWhileActive
    <2>3. CASE k = key /\ handled'[k][j] = x
      <3>1. handled[k][i] /= x
        BY <1>5, <2>1 DEF Order, LogApart
      <3>2. ~Retired(key) => handled[key][i] < x
        BY <1>1, <1>2, <1>5, <2>1, <2>3 DEF Order, LogFirst
      <3> QED
        BY <2>1, <2>3, <3>1, <3>2
    <2> QED
      BY <1>7, <2>2, <2>3
  <1> QED
    BY <1>12, <1>13, <1>15, <1>16, <1>17, <1>18 DEF Order

(* Sending and receiving are the only steps of the pool that touch the     *)
(* order; /new touches it by giving up a session's claim to it.            *)
LEMMA OrderStep ==
    ASSUME PoolInv, LoopingIsCurrent, Order, PoolStep, Workers!TypeOK',
           \A k \in SessionKeys : Retired(k) => Retired(k)'
    PROVE  Order'
  <1>0. Workers!TypeOK
    BY DEF PoolInv
  <1>1. Workers!Newest' \in Int /\ Workers!Newest \in Int /\ calls \in Int
    BY <1>0, GatewayConstantsAssumption DEF Workers!TypeOK, Workers!Newest
  <1>2. ASSUME \/ \E k \in SessionKeys : Workers!DispatchCall(k) \/ Workers!Remove(k)
               \/ Workers!ReuseWorker \/ Workers!SendErr \/ Workers!RetryOrRefuse
               \/ Workers!AckReaction \/ UNCHANGED pool
        PROVE  Order'
    <2>1. UNCHANGED <<workerKey, phase, queue, handled>>
      BY <1>2 DEF Workers!DispatchCall, Workers!Remove, Workers!ReuseWorker, Workers!SendErr,
                  Workers!RetryOrRefuse, Workers!AckReaction, pool, Workers!tasks, Workers!log
    <2>2. Workers!Newest <= Workers!Newest'
      <3>1. ASSUME NEW k \in SessionKeys, Workers!DispatchCall(k)
            PROVE  Workers!Newest <= Workers!Newest'
        BY <1>1, <3>1 DEF Workers!DispatchCall, Workers!Newest
      <3>2. ASSUME (\E k \in SessionKeys : Workers!Remove(k)) \/ UNCHANGED pool
            PROVE  Workers!Newest <= Workers!Newest'
        <4>1. UNCHANGED <<dispatch, calls>>
          BY <3>2 DEF Workers!Remove, Workers!loop, pool
        <4> QED
          BY <1>1, <4>1 DEF Workers!Newest
      <3>3. CASE Workers!ReuseWorker \/ Workers!SendErr
        <4>1. dispatch.at \notin {"idle", "ack"}
          BY <3>3 DEF Workers!ReuseWorker, Workers!SendErr, Workers!Sending
        <4>2. dispatch'.at \notin {"idle", "ack"} /\ calls' = calls
          BY <1>0, <3>3 DEF Workers!ReuseWorker, Workers!SendErr, Workers!TypeOK,
                            Workers!DispatchStates
        <4> QED
          BY <1>1, <4>1, <4>2 DEF Workers!Newest
      <3>4. CASE Workers!RetryOrRefuse
        BY <1>0, <1>1, <3>4, IdleType
        DEF Workers!RetryOrRefuse, Workers!Newest, Workers!TypeOK, Workers!DispatchStates
      <3>5. CASE Workers!AckReaction
        BY <1>1, <3>5, IdleType DEF Workers!AckReaction, Workers!Newest
      <3> QED
        BY <1>2, <3>1, <3>2, <3>3, <3>4, <3>5
    <2> QED
      BY <1>0, <1>1, <2>1, <2>2, QuietOrder
  <1>3. CASE Workers!SpawnWorker
    <2>1. UNCHANGED <<handled, queue, calls>> /\ nextWorkerId \in Workers!WorkerIds
      BY <1>0, <1>3, GatewayConstantsAssumption
      DEF Workers!SpawnWorker, Workers!log, Workers!TypeOK, Workers!WorkerIds
    <2>2. Workers!Newest <= Workers!Newest'
      <3>1. dispatch.at \notin {"idle", "ack"} /\ dispatch'.at \notin {"idle", "ack"}
        BY <1>0, <1>3 DEF Workers!SpawnWorker, Workers!TypeOK, Workers!DispatchStates
      <3> QED
        BY <1>1, <2>1, <3>1 DEF Workers!Newest
    <2>3. queue[nextWorkerId] = <<>>
      BY <1>0, <2>1 DEF PoolInv, Workers!BornInOrder, Workers!TypeOK
    <2>4. \A w \in Workers!WorkerIds : w /= nextWorkerId =>
              phase'[w] = phase[w] /\ workerKey'[w] = workerKey[w]
      BY <1>0, <1>3 DEF Workers!SpawnWorker, Workers!TypeOK
    <2> QED
      BY <1>0, <1>1, <2>1, <2>2, <2>3, <2>4, QuietOrder
  <1>4. ASSUME NEW w \in Workers!WorkerIds,
               \/ Workers!HandlerDone(w) \/ Workers!IdleTimeout(w) \/ Workers!ChannelClosed(w)
               \/ Workers!LeaveMap(w) \/ Workers!DropReceiver(w) \/ Workers!HandlerPanics(w)
        PROVE  Order'
    <2>1. UNCHANGED <<handled, workerKey, dispatch, calls>>
      BY <1>4 DEF Workers!HandlerDone, Workers!IdleTimeout, Workers!ChannelClosed, Workers!LeaveMap,
                  Workers!DropReceiver, Workers!HandlerPanics, Workers!loop, Workers!log
    <2>2. Workers!Newest <= Workers!Newest'
      BY <1>1, <2>1 DEF Workers!Newest
    <2>3. \A v \in Workers!WorkerIds : queue'[v] = queue[v] \/ queue'[v] = <<>>
      BY <1>0, <1>4 DEF Workers!HandlerDone, Workers!IdleTimeout, Workers!ChannelClosed,
                        Workers!LeaveMap, Workers!DropReceiver, Workers!HandlerPanics, Workers!TypeOK
    <2>4. \A v \in Workers!WorkerIds : phase'[v] \in Workers!Looping => phase[v] \in Workers!Looping
      BY <1>0, <1>4 DEF Workers!HandlerDone, Workers!IdleTimeout, Workers!ChannelClosed,
                        Workers!LeaveMap, Workers!DropReceiver, Workers!HandlerPanics,
                        Workers!TypeOK, Workers!Looping
    <2> QED
      BY <1>0, <1>1, <2>1, <2>2, <2>3, <2>4, QuietOrder
  <1> QED
    BY <1>2, <1>3, <1>4, SendOrder, ReceiveOrder DEF PoolStep, Workers!LoopStep, Workers!WorkerStep

(* A message is handled at most once, and a session that has not been      *)
(* replaced handles its messages in the order of the dispatch calls: /new  *)
(* gives up the order of the sessions it replaces and of no other.         *)
THEOREM ActiveStaysInOrder == Spec => []InOrderWhileActive
  <1>1. Init => Order
    <2> SUFFICES ASSUME Init PROVE Order
      OBVIOUS
    <2>1. Len(<<>>) = 0 /\ 1 .. 0 = {}
      OBVIOUS
    <2>2. /\ \A w \in Workers!WorkerIds : Len(queue[w]) = 0
          /\ \A k \in SessionKeys : Len(handled[k]) = 0
      BY <2>1 DEF Init, Workers!Init
    <2> QED
      BY <2>1, <2>2 DEF Order, Past, Ascending, LogFirst, LogApart, QueuesApart, InOrderWhileActive
  <1>2. SerialInv /\ Order /\ [Next]_vars => Order'
    <2> SUFFICES ASSUME SerialInv, Order, [Next]_vars PROVE Order'
      OBVIOUS
    <2>1. PoolInv /\ StoreInv /\ LoopingIsCurrent /\ TypeOK /\ PoolStep
      BY NextPool DEF SerialInv, StoreInv
    <2>2. Workers!TypeOK'
      BY <2>1, PoolTypeStep
    <2> QED
      BY <2>1, <2>2, RetiredForGood, OrderStep
  <1>3. Order => InOrderWhileActive
    BY DEF Order
  <1> QED
    BY <1>1, <1>2, <1>3, InitSerial, SerialStep, PTL DEF Spec
=============================================================================
