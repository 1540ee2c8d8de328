------------------------ MODULE SessionWorkersProofs ------------------------
(***************************************************************************)
(* Proofs about SessionWorkers, for every set of keys and every bound.     *)
(***************************************************************************)
EXTENDS SessionWorkers, TLAPS

(* Appending to a sequence: the length, and the elements old and new.      *)
LEMMA AppendFacts ==
    ASSUME NEW S, NEW s \in Seq(S), NEW e \in S
    PROVE  /\ Append(s, e) \in Seq(S)
           /\ Len(Append(s, e)) = Len(s) + 1
           /\ Len(s) \in Nat
           /\ \A i \in 1 .. Len(s) : Append(s, e)[i] = s[i]
           /\ Append(s, e)[Len(s) + 1] = e
  OBVIOUS

(* Taking the head off a non-empty sequence.                               *)
LEMMA TailFacts ==
    ASSUME NEW S, NEW s \in Seq(S), s /= <<>>
    PROVE  /\ Head(s) \in S
           /\ Head(s) = s[1]
           /\ Tail(s) \in Seq(S)
           /\ Len(s) \in Nat /\ Len(s) >= 1
           /\ Len(Tail(s)) = Len(s) - 1
           /\ \A i \in 1 .. Len(Tail(s)) : Tail(s)[i] = s[i + 1]
  OBVIOUS

(* The elements of a sequence over a set are in the set.                   *)
LEMMA ElementsInSet ==
    ASSUME NEW S, NEW s \in Seq(S)
    PROVE  ElementsOf(s) \subseteq S
  BY DEF ElementsOf

-----------------------------------------------------------------------------
(* The empty channel is a sequence of messages.                            *)
LEMMA EmptyIsSeq == \A S : <<>> \in Seq(S)
  OBVIOUS

(* The state of the service loop between two dispatch calls is well-typed. *)
LEMMA IdleType == Idle \in DispatchStates /\ Idle.at = "idle"
  <1>1. (CHOOSE k \in Keys : TRUE) \in Keys
    BY ConstantsAssumption
  <1> QED
    BY <1>1 DEF Idle, DispatchStates

(* The inductive invariant: well-typed, the call in progress consistent,   *)
(* ids handed out in order, and a worker in its loop registered.           *)
IInv ==
    /\ TypeOK
    /\ CallConsistent
    /\ BornInOrder
    /\ LoopingIsRegistered

(* The coordinator starts in the inductive invariant.                      *)
LEMMA InitIInv == Init => IInv
  <1> SUFFICES ASSUME Init PROVE IInv
    OBVIOUS
  <1>1. TypeOK
    <2>1. (CHOOSE k \in Keys : TRUE) \in Keys
      BY ConstantsAssumption
    <2>2. nextWorkerId \in 1 .. MaxWorkers + 1 /\ calls \in 0 .. MaxMessages /\ panics \in 0 .. MaxPanics
      BY ConstantsAssumption DEF Init
    <2> QED
      BY <2>1, <2>2, EmptyIsSeq, IdleType DEF Init, TypeOK, NoWorker, Phases
  <1>2. CallConsistent
    BY DEF Init, CallConsistent, Idle, Sending
  <1>3. BornInOrder
    <2>1. \A k \in Keys : workers[k] = NoWorker
      BY DEF Init
    <2>2. NoWorker < nextWorkerId
      BY DEF Init, NoWorker
    <2>3. \A w \in WorkerIds : phase[w] = "unborn" /\ queue[w] = <<>>
      BY DEF Init
    <2> QED
      BY <2>1, <2>2, <2>3 DEF BornInOrder
  <1>4. LoopingIsRegistered
    BY DEF Init, LoopingIsRegistered, Looping
  <1> QED
    BY <1>1, <1>2, <1>3, <1>4 DEF IInv

(* Every step of the service loop and of a worker is well-typed.           *)
LEMMA TypeStep == IInv /\ [Next]_vars => TypeOK'
  <1> SUFFICES ASSUME IInv, [Next]_vars PROVE TypeOK'
    OBVIOUS
  <1> USE ConstantsAssumption DEF IInv, WorkerIds, Messages
  <1>1. ASSUME NEW k \in Keys, DispatchCall(k) PROVE TypeOK'
    BY <1>1 DEF DispatchCall, TypeOK, DispatchStates, coordinator, tasks, log, NoWorker
  <1>2. CASE ReuseWorker
    BY <1>2 DEF ReuseWorker, TypeOK, DispatchStates, coordinator, tasks, log, NoWorker
  <1>3. CASE SpawnWorker
    <2>1. nextWorkerId \in WorkerIds /\ nextWorkerId' \in 1 .. MaxWorkers + 1
      BY <1>3 DEF SpawnWorker, TypeOK
    <2>2. dispatch' \in DispatchStates
      BY <1>3, <2>1 DEF SpawnWorker, TypeOK, DispatchStates
    <2>3. /\ workers' \in [Keys -> WorkerIds \cup {NoWorker}]
          /\ workerKey' \in [WorkerIds -> Keys]
          /\ phase' \in [WorkerIds -> Phases]
      BY <1>3, <2>1 DEF SpawnWorker, TypeOK, DispatchStates, Phases
    <2> QED
      BY <1>3, <2>1, <2>2, <2>3 DEF SpawnWorker, TypeOK, log
  <1>4. CASE SendOk
    <2>1. Message \in Messages /\ dispatch.worker \in WorkerIds
      BY <1>4 DEF SendOk, Message, CallConsistent, TypeOK, Sending
    <2>2. queue' \in [WorkerIds -> Seq(Messages)]
      BY <1>4, <2>1, AppendFacts DEF SendOk, TypeOK
    <2> QED
      BY <1>4, <2>1, <2>2 DEF SendOk, TypeOK, DispatchStates, coordinator
  <1>5. CASE SendErr
    BY <1>5 DEF SendErr, TypeOK, DispatchStates, coordinator, tasks, log
  <1>6. CASE RetryOrRefuse
    <2>1. Message \in Messages
      BY <1>6 DEF RetryOrRefuse, Message, CallConsistent, TypeOK
    <2>2. workers' \in [Keys -> WorkerIds \cup {NoWorker}]
      BY <1>6 DEF RetryOrRefuse, UnregisterIfMatches, TypeOK
    <2>3. dispatch' \in DispatchStates
      BY <1>6, IdleType DEF RetryOrRefuse, TypeOK, DispatchStates
    <2> QED
      BY <1>6, <2>1, <2>2, <2>3 DEF RetryOrRefuse, TypeOK, tasks
  <1>7. CASE AckReaction
    BY <1>7, IdleType DEF AckReaction, TypeOK, coordinator, tasks, log
  <1>8. ASSUME NEW w \in WorkerIds, Receive(w) PROVE TypeOK'
    <2>1. Head(queue[w]) \in Messages /\ Tail(queue[w]) \in Seq(Messages)
      BY <1>8, TailFacts DEF Receive, TypeOK
    <2>2. handled' \in [Keys -> Seq(Messages)]
      BY <1>8, <2>1, AppendFacts DEF Receive, TypeOK
    <2> QED
      BY <1>8, <2>1, <2>2 DEF Receive, TypeOK, coordinator, loop, Phases
  <1>9. ASSUME NEW w \in WorkerIds, HandlerDone(w) PROVE TypeOK'
    BY <1>9 DEF HandlerDone, TypeOK, coordinator, loop, log, Phases
  <1>10. ASSUME NEW w \in WorkerIds, IdleTimeout(w) PROVE TypeOK'
    BY <1>10 DEF IdleTimeout, TypeOK, coordinator, loop, log, Phases
  <1>12. ASSUME NEW w \in WorkerIds, LeaveMap(w) PROVE TypeOK'
    BY <1>12 DEF LeaveMap, UnregisterIfMatches, TypeOK, loop, log, Phases
  <1>13. ASSUME NEW w \in WorkerIds, DropReceiver(w) PROVE TypeOK'
    <2>1. ElementsOf(queue[w]) \subseteq Messages
      BY ElementsInSet DEF TypeOK
    <2> QED
      BY <1>13, <2>1, EmptyIsSeq DEF DropReceiver, TypeOK, coordinator, loop, Phases
  <1>14. ASSUME NEW w \in WorkerIds, HandlerPanics(w) PROVE TypeOK'
    <2>1. ElementsOf(queue[w]) \subseteq Messages
      BY ElementsInSet DEF TypeOK
    <2>2. panics' \in 0 .. MaxPanics
      BY <1>14 DEF HandlerPanics, TypeOK
    <2> QED
      BY <1>14, <2>1, <2>2, EmptyIsSeq DEF HandlerPanics, TypeOK, coordinator, loop, Phases
  <1>15. CASE UNCHANGED vars
    BY <1>15 DEF TypeOK, vars, coordinator, tasks, loop, log
  <1> QED
    BY <1>1, <1>2, <1>3, <1>4, <1>5, <1>6, <1>7, <1>8, <1>9, <1>10, <1>12,
       <1>13, <1>14, <1>15 DEF Next, LoopStep, WorkerStep, Quiescent

(* The worker a dispatch call has looked up stays the one it was spawned   *)
(* as, and once its receiver is dropped it stays so.                       *)
LEMMA CallStep == IInv /\ [Next]_vars => CallConsistent'
  <1> SUFFICES ASSUME IInv, [Next]_vars PROVE CallConsistent'
    OBVIOUS
  <1> USE ConstantsAssumption, IdleType DEF IInv, CallConsistent, WorkerIds, Sending, DispatchStates
  <1>1. ASSUME NEW k \in Keys, DispatchCall(k) PROVE CallConsistent'
    BY <1>1 DEF DispatchCall, TypeOK, coordinator, tasks, log
  <1>2. CASE ReuseWorker
    BY <1>2 DEF ReuseWorker, TypeOK, BornInOrder, coordinator, tasks, log, NoWorker
  <1>3. CASE SpawnWorker
    BY <1>3 DEF SpawnWorker, TypeOK, log, NoWorker
  <1>4. CASE SendOk
    BY <1>4 DEF SendOk, TypeOK, coordinator
  <1>5. CASE SendErr
    BY <1>5 DEF SendErr, TypeOK, DispatchStates, coordinator, tasks, log
  <1>6. CASE RetryOrRefuse
    BY <1>6 DEF RetryOrRefuse, TypeOK, tasks
  <1>7. CASE AckReaction
    BY <1>7 DEF AckReaction, TypeOK, coordinator, tasks, log
  <1>8. ASSUME NEW w \in WorkerIds,
               \/ Receive(w) \/ HandlerDone(w) \/ IdleTimeout(w)
               \/ LeaveMap(w) \/ DropReceiver(w) \/ HandlerPanics(w)
        PROVE  CallConsistent'
    <2>1. UNCHANGED <<dispatch, calls, workerKey, nextWorkerId>>
      BY <1>8 DEF Receive, HandlerDone, IdleTimeout, LeaveMap,
                  DropReceiver, HandlerPanics, coordinator, loop
    <2>2. phase[w] /= "gone"
      BY <1>8 DEF Receive, HandlerDone, IdleTimeout, LeaveMap,
                  DropReceiver, HandlerPanics
    <2>3. \E p : phase' = [phase EXCEPT ![w] = p]
      BY <1>8 DEF Receive, HandlerDone, IdleTimeout, LeaveMap,
                  DropReceiver, HandlerPanics
    <2> QED
      BY <2>1, <2>2, <2>3 DEF TypeOK
  <1>9. CASE UNCHANGED vars
    BY <1>9 DEF vars, coordinator, tasks, loop, log
  <1> QED
    BY <1>1, <1>2, <1>3, <1>4, <1>5, <1>6, <1>7, <1>8, <1>9
    DEF Next, LoopStep, WorkerStep, Quiescent

(* Only SpawnWorker brings a worker to life, with the next id.             *)
LEMMA BornStep == IInv /\ [Next]_vars => BornInOrder'
  <1> SUFFICES ASSUME IInv, [Next]_vars PROVE BornInOrder'
    OBVIOUS
  <1> USE ConstantsAssumption DEF IInv, BornInOrder, WorkerIds
  <1>1. ASSUME NEW k \in Keys, DispatchCall(k) PROVE BornInOrder'
    BY <1>1 DEF DispatchCall, coordinator, tasks, log
  <1>2. CASE ReuseWorker
    BY <1>2 DEF ReuseWorker, coordinator, tasks, log
  <1>3. CASE SpawnWorker
    <2>1. nextWorkerId \in WorkerIds
      BY <1>3 DEF SpawnWorker, TypeOK
    <2>2. ASSUME NEW k \in Keys PROVE workers'[k] < nextWorkerId'
      <3>1. workers'[k] \in {workers[k], nextWorkerId}
        BY <1>3 DEF SpawnWorker, TypeOK
      <3>2. workers[k] < nextWorkerId /\ workers[k] \in Int
        BY DEF TypeOK, NoWorker
      <3>3. nextWorkerId' = nextWorkerId + 1 /\ nextWorkerId \in Int
        BY <1>3 DEF SpawnWorker, TypeOK
      <3> QED
        BY <3>1, <3>2, <3>3
    <2>3. \A k \in Keys : workers'[k] /= NoWorker => workerKey'[workers'[k]] = k
      BY <1>3, <2>1 DEF SpawnWorker, TypeOK, NoWorker
    <2>4. \A w \in WorkerIds : w >= nextWorkerId' => phase'[w] = "unborn"
      BY <1>3, <2>1 DEF SpawnWorker, TypeOK
    <2>5. \A w \in WorkerIds : phase'[w] = "unborn" => phase[w] = "unborn"
      BY <1>3, <2>1 DEF SpawnWorker, TypeOK
    <2> QED
      BY <1>3, <2>2, <2>3, <2>4, <2>5 DEF SpawnWorker
  <1>4. CASE SendOk
    BY <1>4 DEF SendOk, TypeOK, CallConsistent, coordinator, Receivable, Looping, Sending
  <1>5. CASE SendErr
    BY <1>5 DEF SendErr, coordinator, tasks, log
  <1>6. CASE RetryOrRefuse
    BY <1>6 DEF RetryOrRefuse, UnregisterIfMatches, TypeOK, tasks, NoWorker
  <1>7. CASE AckReaction
    BY <1>7 DEF AckReaction, coordinator, tasks, log
  <1>8. ASSUME NEW w \in WorkerIds,
               \/ Receive(w) \/ HandlerDone(w) \/ IdleTimeout(w)
               \/ LeaveMap(w) \/ DropReceiver(w) \/ HandlerPanics(w)
        PROVE  BornInOrder'
    <2>1. nextWorkerId' = nextWorkerId /\ phase[w] /= "unborn"
      BY <1>8 DEF Receive, HandlerDone, IdleTimeout, LeaveMap,
                  DropReceiver, HandlerPanics, coordinator
    <2>2. \E p : p /= "unborn" /\ phase' = [phase EXCEPT ![w] = p]
      BY <1>8 DEF Receive, HandlerDone, IdleTimeout, LeaveMap,
                  DropReceiver, HandlerPanics
    <2>3. queue' = queue \/ \E q : queue' = [queue EXCEPT ![w] = q]
      BY <1>8 DEF Receive, HandlerDone, IdleTimeout, LeaveMap,
                  DropReceiver, HandlerPanics
    <2>4. \A k \in Keys : workers'[k] = workers[k] \/ workers'[k] = NoWorker
      BY <1>8 DEF Receive, HandlerDone, IdleTimeout, LeaveMap,
                  DropReceiver, HandlerPanics, coordinator, UnregisterIfMatches, TypeOK
    <2>5. \A k \in Keys : workers'[k] < nextWorkerId'
      <3>1. NoWorker < nextWorkerId
        BY DEF TypeOK, NoWorker
      <3> QED
        BY <2>1, <2>4, <3>1
    <2>9. \A k \in Keys : workers'[k] /= NoWorker => workerKey'[workers'[k]] = k
      BY <1>8, <2>4 DEF Receive, HandlerDone, IdleTimeout, LeaveMap,
                  DropReceiver, HandlerPanics
    <2>6. \A v \in WorkerIds : phase'[v] = "unborn" => phase[v] = "unborn" /\ v /= w
      BY <2>1, <2>2 DEF TypeOK
    <2>7. \A v \in WorkerIds : phase[v] = "unborn" => phase'[v] = "unborn"
      BY <2>1, <2>2 DEF TypeOK
    <2>8. \A v \in WorkerIds : v /= w => queue'[v] = queue[v]
      BY <2>3 DEF TypeOK
    <2> QED
      BY <2>1, <2>5, <2>6, <2>7, <2>8, <2>9
  <1>9. CASE UNCHANGED vars
    BY <1>9 DEF vars, coordinator, tasks, loop, log
  <1> QED
    BY <1>1, <1>2, <1>3, <1>4, <1>5, <1>6, <1>7, <1>8, <1>9
    DEF Next, LoopStep, WorkerStep, Quiescent

(* An entry is taken away from a worker only after it has left its loop,   *)
(* by the worker itself or because its receiver was found dropped.         *)
LEMMA LoopingStep == IInv /\ [Next]_vars => LoopingIsRegistered'
  <1> SUFFICES ASSUME IInv, [Next]_vars PROVE LoopingIsRegistered'
    OBVIOUS
  <1> USE ConstantsAssumption DEF IInv, LoopingIsRegistered, WorkerIds, Looping
  <1>1. ASSUME NEW k \in Keys, DispatchCall(k) PROVE LoopingIsRegistered'
    BY <1>1 DEF DispatchCall, coordinator, tasks
  <1>2. CASE ReuseWorker
    BY <1>2 DEF ReuseWorker, coordinator, tasks
  <1>3. CASE SpawnWorker
    <2>1. nextWorkerId \in WorkerIds
      BY <1>3 DEF SpawnWorker, TypeOK
    <2>2. ASSUME NEW w \in WorkerIds, phase'[w] \in Looping, w /= nextWorkerId
          PROVE  workers'[workerKey'[w]] = w
      <3>1. phase[w] \in Looping /\ workerKey'[w] = workerKey[w]
        BY <1>3, <2>1, <2>2 DEF SpawnWorker, TypeOK
      <3>2. workers[workerKey[w]] = w /\ w /= NoWorker
        BY <3>1 DEF NoWorker
      <3>3. workerKey[w] /= dispatch.key
        BY <1>3, <3>2 DEF SpawnWorker
      <3> QED
        BY <1>3, <3>1, <3>2, <3>3 DEF SpawnWorker, TypeOK
    <2>3. workers'[workerKey'[nextWorkerId]] = nextWorkerId
      BY <1>3, <2>1 DEF SpawnWorker, TypeOK, DispatchStates
    <2> QED
      BY <2>2, <2>3
  <1>4. CASE SendOk
    BY <1>4 DEF SendOk, coordinator
  <1>5. CASE SendErr
    BY <1>5 DEF SendErr, coordinator, tasks
  <1>6. CASE RetryOrRefuse
    BY <1>6 DEF RetryOrRefuse, UnregisterIfMatches, CallConsistent, Sending, TypeOK, tasks
  <1>7. CASE AckReaction
    BY <1>7 DEF AckReaction, coordinator, tasks
  <1>8. ASSUME NEW w \in WorkerIds,
               \/ Receive(w) \/ HandlerDone(w) \/ IdleTimeout(w)
               \/ DropReceiver(w) \/ HandlerPanics(w)
        PROVE  LoopingIsRegistered'
    <2>1. UNCHANGED <<workers, workerKey>>
      BY <1>8 DEF Receive, HandlerDone, IdleTimeout,
                  DropReceiver, HandlerPanics, coordinator
    <2>2. \A v \in WorkerIds : phase'[v] \in Looping => phase[v] \in Looping
      BY <1>8 DEF Receive, HandlerDone, IdleTimeout,
                  DropReceiver, HandlerPanics, TypeOK
    <2> QED
      BY <2>1, <2>2
  <1>9. ASSUME NEW w \in WorkerIds, LeaveMap(w) PROVE LoopingIsRegistered'
    BY <1>9 DEF LeaveMap, UnregisterIfMatches, TypeOK
  <1>10. CASE UNCHANGED vars
    BY <1>10 DEF vars, coordinator, tasks
  <1> QED
    BY <1>1, <1>2, <1>3, <1>4, <1>5, <1>6, <1>7, <1>8, <1>9, <1>10
    DEF Next, LoopStep, WorkerStep, Quiescent

(* The parts of the inductive invariant hold in every reachable state.     *)
THEOREM Invariance == Spec => []IInv
  <1>1. IInv /\ [Next]_vars => IInv'
    BY TypeStep, CallStep, BornStep, LoopingStep DEF IInv
  <1> QED
    BY <1>1, InitIInv, PTL DEF Spec

(* Every reachable state is well-typed: in particular the service loop     *)
(* never sends on the channel of a worker that was not spawned.            *)
THEOREM TypeCorrect == Spec => []TypeOK
  <1>1. IInv => TypeOK
    BY DEF IInv
  <1> QED
    BY <1>1, Invariance, PTL

(* One handler at a time per session key, for any number of keys, messages *)
(* and workers and whatever expires or panics: without /new the guarantee  *)
(* of the coordinator holds.                                               *)
THEOREM Serialization == Spec => []Serialized
  <1>1. IInv => Serialized
    BY DEF IInv, LoopingIsRegistered, Serialized, Looping
  <1> QED
    BY <1>1, Invariance, PTL

(* Without /new a worker in its loop never sees its channel closed: the    *)
(* map holds a sender, so leaving ChannelClosed out of Next loses nothing. *)
THEOREM ChannelStaysOpen ==
    Spec => [](\A w \in WorkerIds : phase[w] = "receiving" => HasSender(w))
  <1>1. IInv => \A w \in WorkerIds : phase[w] = "receiving" => HasSender(w)
    BY DEF IInv, LoopingIsRegistered, Looping, HasSender
  <1> QED
    BY <1>1, Invariance, PTL

-----------------------------------------------------------------------------
(* The map of workers and the retry of dispatch.                           *)

(* The two further facts, on top of IInv.                                  *)
RInv == IInv /\ RegisteredIsAlive /\ RetryHasWorker /\ NeverRefused

(* There is no entry and no call at first.                                 *)
LEMMA InitRInv == Init => RInv
  <1> SUFFICES ASSUME Init PROVE RegisteredIsAlive /\ RetryHasWorker /\ NeverRefused
    BY InitIInv DEF RInv
  <1>1. RegisteredIsAlive
    BY DEF Init, RegisteredIsAlive
  <1>2. RetryHasWorker
    BY DEF Init, RetryHasWorker, Idle, Sending
  <1> QED
    BY <1>1, <1>2 DEF Init, NeverRefused

(* An entry points at a live receiver, or at that of a panicked worker:    *)
(* only LeaveMap moves a worker past its loop, and it takes the entry.     *)
LEMMA AliveStep == IInv /\ RegisteredIsAlive /\ [Next]_vars => RegisteredIsAlive'
  <1> SUFFICES ASSUME IInv, RegisteredIsAlive, [Next]_vars PROVE RegisteredIsAlive'
    OBVIOUS
  <1> USE ConstantsAssumption DEF IInv, RegisteredIsAlive, WorkerIds, Looping
  <1>1. CASE UNCHANGED <<workers, workerKey, phase, panics>>
    BY <1>1
  <1>2. CASE SpawnWorker
    <2>1. nextWorkerId \in WorkerIds
      BY <1>2 DEF SpawnWorker, TypeOK
    <2>2. \A k \in Keys : workers[k] /= nextWorkerId
      BY DEF BornInOrder, TypeOK, NoWorker
    <2>3. \A k \in Keys : k /= dispatch.key =>
              /\ workers'[k] = workers[k]
              /\ workers[k] /= NoWorker => /\ workerKey'[workers[k]] = workerKey[workers[k]]
                                          /\ phase'[workers[k]] = phase[workers[k]]
      BY <1>2, <2>1, <2>2 DEF SpawnWorker, TypeOK, NoWorker
    <2>4. /\ workers'[dispatch.key] = nextWorkerId
          /\ workerKey'[nextWorkerId] = dispatch.key
          /\ phase'[nextWorkerId] = "receiving"
      BY <1>2, <2>1 DEF SpawnWorker, TypeOK, DispatchStates
    <2>5. panics' = panics
      BY <1>2 DEF SpawnWorker, log
    <2> QED
      BY <2>3, <2>4, <2>5
  <1>3. CASE RetryOrRefuse
    BY <1>3 DEF RetryOrRefuse, UnregisterIfMatches, TypeOK, tasks, NoWorker
  <1>4. ASSUME NEW w \in WorkerIds,
               \/ Receive(w) \/ HandlerDone(w) \/ IdleTimeout(w)
        PROVE  RegisteredIsAlive'
    <2>1. UNCHANGED <<workers, workerKey, panics>>
      BY <1>4 DEF Receive, HandlerDone, IdleTimeout, coordinator, log
    <2>2. \E p \in Looping \cup {"leaving"} : phase' = [phase EXCEPT ![w] = p]
      BY <1>4 DEF Receive, HandlerDone, IdleTimeout
    <2> QED
      BY <2>1, <2>2 DEF TypeOK, NoWorker
  <1>5. ASSUME NEW w \in WorkerIds, LeaveMap(w) PROVE RegisteredIsAlive'
    <2>1. UNCHANGED <<workerKey, panics>> /\ phase' = [phase EXCEPT ![w] = "closing"]
      BY <1>5 DEF LeaveMap, log
    <2>2. \A k \in Keys : workers'[k] = NoWorker \/ (workers'[k] = workers[k] /\ workers[k] /= w)
      BY <1>5 DEF LeaveMap, UnregisterIfMatches, TypeOK, NoWorker
    <2> QED
      BY <2>1, <2>2 DEF TypeOK, NoWorker
  <1>6. ASSUME NEW w \in WorkerIds, DropReceiver(w) PROVE RegisteredIsAlive'
    <2>1. UNCHANGED <<workers, workerKey, panics>> /\ phase' = [phase EXCEPT ![w] = "gone"]
      BY <1>6 DEF DropReceiver, coordinator
    <2>2. \A k \in Keys : workers[k] /= w
      BY <1>6 DEF DropReceiver, NoWorker
    <2> QED
      BY <2>1, <2>2 DEF TypeOK, NoWorker
  <1>7. ASSUME NEW w \in WorkerIds, HandlerPanics(w) PROVE RegisteredIsAlive'
    <2>1. UNCHANGED <<workers, workerKey>> /\ phase' = [phase EXCEPT ![w] = "gone"] /\ panics' > 0
      BY <1>7 DEF HandlerPanics, coordinator, TypeOK
    <2> QED
      BY <2>1 DEF TypeOK, NoWorker
  <1>8. ASSUME \/ \E k \in Keys : DispatchCall(k)
               \/ ReuseWorker \/ SendOk \/ SendErr \/ AckReaction \/ UNCHANGED vars
        PROVE  UNCHANGED <<workers, workerKey, phase, panics>>
    BY <1>8 DEF DispatchCall, ReuseWorker, SendOk, SendErr, AckReaction, vars,
                coordinator, tasks, loop, log
  <1> QED
    BY <1>1, <1>2, <1>3, <1>4, <1>5, <1>6, <1>7, <1>8
    DEF Next, LoopStep, WorkerStep, Quiescent

(* The second attempt spawns, no other task registers a worker meanwhile,  *)
(* and the new worker neither expires nor closes before the first send.    *)
LEMMA RetryStep == RInv /\ [Next]_vars => RetryHasWorker' /\ NeverRefused'
  <1> SUFFICES ASSUME RInv, [Next]_vars PROVE RetryHasWorker' /\ NeverRefused'
    OBVIOUS
  <1> USE ConstantsAssumption DEF RInv, IInv, RetryHasWorker, NeverRefused, WorkerIds, Sending
  <1>1. ASSUME NEW k \in Keys, DispatchCall(k) PROVE RetryHasWorker' /\ NeverRefused'
    BY <1>1 DEF DispatchCall, log
  <1>2. CASE ReuseWorker
    BY <1>2 DEF ReuseWorker, TypeOK, DispatchStates, coordinator, tasks, log
  <1>3. CASE SpawnWorker
    <2>1. nextWorkerId \in WorkerIds
      BY <1>3 DEF SpawnWorker, TypeOK
    <2>2. queue[nextWorkerId] = <<>>
      BY <2>1 DEF BornInOrder
    <2> QED
      BY <1>3, <2>1, <2>2 DEF SpawnWorker, TypeOK, DispatchStates, log
  <1>4. CASE SendOk
    BY <1>4 DEF SendOk, TypeOK, DispatchStates
  <1>5. CASE SendErr
    BY <1>5 DEF SendErr, TypeOK, DispatchStates, coordinator, tasks, log
  <1>6. CASE RetryOrRefuse
    <2>1. dispatch.attempt = 0
      BY <1>6 DEF RetryOrRefuse, TypeOK, DispatchStates
    <2>2. workers[dispatch.key] \in {dispatch.worker, NoWorker}
      BY <1>6 DEF RetryOrRefuse, Sending
    <2> QED
      BY ZenonT(30), <1>6, <2>1, <2>2 DEF RetryOrRefuse, UnregisterIfMatches,
         TypeOK, DispatchStates, tasks
  <1>7. CASE AckReaction
    BY <1>7 DEF AckReaction, Idle, log
  <1>8. ASSUME NEW w \in WorkerIds, WorkerStep(w) PROVE RetryHasWorker' /\ NeverRefused'
    <2>1. UNCHANGED <<dispatch, refused>>
      BY <1>8 DEF WorkerStep, Receive, HandlerDone, IdleTimeout, LeaveMap,
                  DropReceiver, HandlerPanics, loop, log
    <2>2. dispatch.at = "sendFirst" => w /= dispatch.worker
      BY <1>8 DEF WorkerStep, Receive, HandlerDone, IdleTimeout, LeaveMap,
                  DropReceiver, HandlerPanics, HasSender, Sending
    <2>3. \A v \in WorkerIds : v /= w => phase'[v] = phase[v] /\ queue'[v] = queue[v]
      BY ZenonT(30), <1>8 DEF WorkerStep, Receive, HandlerDone, IdleTimeout, LeaveMap,
                  DropReceiver, HandlerPanics, TypeOK
    <2>4. \A k \in Keys : workers'[k] \in {workers[k], NoWorker}
      BY <1>8 DEF WorkerStep, Receive, HandlerDone, IdleTimeout, LeaveMap,
                  DropReceiver, HandlerPanics, coordinator, UnregisterIfMatches, TypeOK
    <2>5. dispatch.key \in Keys /\ (dispatch.at = "sendFirst" => dispatch.worker \in WorkerIds)
      BY DEF TypeOK, DispatchStates, CallConsistent, Sending
    <2> QED
      BY <2>1, <2>2, <2>3, <2>4, <2>5
  <1>9. CASE UNCHANGED vars
    BY <1>9 DEF vars, coordinator, tasks, loop, log
  <1> QED
    BY <1>1, <1>2, <1>3, <1>4, <1>5, <1>6, <1>7, <1>8, <1>9
    DEF Next, LoopStep, Quiescent

(* The map of workers is right and the retry of dispatch enough.           *)
THEOREM RetryInvariance == Spec => []RInv
  <1>1. IInv /\ [Next]_vars => IInv'
    BY TypeStep, CallStep, BornStep, LoopingStep DEF IInv
  <1>2. RInv /\ [Next]_vars => RInv'
    BY <1>1, AliveStep, RetryStep DEF RInv
  <1> QED
    BY <1>2, InitRInv, PTL DEF Spec

(* No entry of the map outlives its worker except after a panic.           *)
THEOREM RegistryAlive == Spec => []RegisteredIsAlive
  <1>1. RInv => RegisteredIsAlive
    BY DEF RInv
  <1> QED
    BY <1>1, RetryInvariance, PTL

(* dispatch never gives a message up: two attempts are always enough.      *)
THEOREM DispatchSucceeds == Spec => []NeverRefused
  <1>1. RInv => NeverRefused
    BY DEF RInv
  <1> QED
    BY <1>1, RetryInvariance, PTL

-----------------------------------------------------------------------------
(* Order.                                                                  *)

(* The number of the newest message sent is bounded by the calls made.     *)
LEMMA NewestType == TypeOK => Newest \in Int /\ Newest <= calls
  BY ConstantsAssumption DEF TypeOK, Newest

(* Elements of queues and logs are numbers.                                *)
LEMMA ElementTypes ==
    ASSUME TypeOK
    PROVE  /\ \A w \in WorkerIds : Len(queue[w]) \in Nat
           /\ \A w \in WorkerIds : \A i \in 1 .. Len(queue[w]) : queue[w][i] \in Int
           /\ \A k \in Keys : Len(handled[k]) \in Nat
           /\ \A k \in Keys : \A i \in 1 .. Len(handled[k]) : handled[k][i] \in Int
  <1>1. \A s \in Seq(Messages) : Len(s) \in Nat /\ \A i \in 1 .. Len(s) : s[i] \in Int
    BY ConstantsAssumption DEF Messages
  <1> QED
    BY <1>1 DEF TypeOK

(* A step that starts no handler, sends nothing and keeps the newest       *)
(* message number preserves the order.                                     *)
LEMMA QuietStep ==
    ASSUME TypeOK, QueuesInOrder, InOrder,
           Newest' \in Int, Newest <= Newest',
           UNCHANGED handled,
           \A w \in WorkerIds : queue'[w] = queue[w] \/ queue'[w] = <<>>,
           \A w \in WorkerIds : phase'[w] \in Looping =>
                \/ queue'[w] = <<>>
                \/ phase[w] \in Looping /\ workerKey'[w] = workerKey[w]
    PROVE  QueuesInOrder' /\ InOrder'
  <1>1. Len(<<>>) = 0
    OBVIOUS
  <1>2. \A w \in WorkerIds : \A i \in 1 .. Len(queue'[w]) :
            /\ i \in 1 .. Len(queue[w])
            /\ queue'[w] = queue[w]
    BY <1>1
  <1>3. \A w \in WorkerIds : \A i \in 1 .. Len(queue'[w]) : queue'[w][i] <= Newest'
    BY <1>2, ElementTypes, NewestType DEF QueuesInOrder
  <1>4. \A k \in Keys : \A i \in 1 .. Len(handled'[k]) : handled'[k][i] <= Newest'
    BY ElementTypes, NewestType DEF QueuesInOrder
  <1>5. \A w \in WorkerIds : \A i, j \in 1 .. Len(queue'[w]) :
            i < j => queue'[w][i] < queue'[w][j]
    BY <1>2 DEF QueuesInOrder
  <1>6. ASSUME NEW w \in WorkerIds, phase'[w] \in Looping,
               NEW i \in 1 .. Len(handled'[workerKey'[w]]), NEW j \in 1 .. Len(queue'[w])
        PROVE  handled'[workerKey'[w]][i] < queue'[w][j]
    <2>1. j \in 1 .. Len(queue[w]) /\ queue'[w] = queue[w] /\ queue'[w] /= <<>>
      BY <1>1, <1>2
    <2>2. phase[w] \in Looping /\ workerKey'[w] = workerKey[w]
      BY <1>6, <2>1
    <2> QED
      BY <2>1, <2>2 DEF QueuesInOrder
  <1>7. InOrder'
    BY DEF InOrder
  <1> QED
    BY <1>3, <1>4, <1>5, <1>6, <1>7 DEF QueuesInOrder

(* The inductive invariant of the order: with IInv, the queues are ordered  *)
(* and newer than the logs.                                                *)
OInv == IInv /\ QueuesInOrder /\ InOrder

(* Nothing is queued or logged at first.                                   *)
LEMMA InitOInv == Init => OInv
  <1> SUFFICES ASSUME Init PROVE QueuesInOrder /\ InOrder
    BY InitIInv DEF OInv
  <1>1. Len(<<>>) = 0
    OBVIOUS
  <1>2. \A w \in WorkerIds : Len(queue[w]) = 0
    BY <1>1 DEF Init
  <1>3. \A k \in Keys : Len(handled[k]) = 0
    BY <1>1 DEF Init
  <1>4. 1 .. 0 = {}
    OBVIOUS
  <1>5. \A w \in WorkerIds : phase[w] \notin Looping
    BY DEF Init, Looping
  <1> QED
    BY <1>2, <1>3, <1>4, <1>5 DEF QueuesInOrder, InOrder

(* The call's message enters a queue behind everything sent before it.     *)
LEMMA SendOrder == OInv /\ SendOk => QueuesInOrder' /\ InOrder'
  <1> SUFFICES ASSUME OInv, SendOk PROVE QueuesInOrder' /\ InOrder'
    OBVIOUS
  <1> DEFINE d == dispatch.worker
  <1>1. /\ TypeOK /\ d \in WorkerIds /\ calls \in Messages /\ calls \in Int
        /\ dispatch.at \in Sending
    <2>1. TypeOK /\ CallConsistent /\ dispatch.at \in Sending
      BY DEF OInv, IInv, SendOk
    <2>2. calls >= 1 /\ d \in WorkerIds
      BY <2>1 DEF CallConsistent, Sending
    <2>3. calls \in 0 .. MaxMessages
      BY <2>1 DEF TypeOK
    <2>4. calls \in Messages /\ calls \in Int
      BY <2>2, <2>3, ConstantsAssumption DEF Messages
    <2> QED
      BY <2>1, <2>2, <2>4
  <1>2. Newest = calls - 1 /\ Newest' = calls
    BY <1>1 DEF SendOk, Newest, Sending, TypeOK, DispatchStates
  <1>3. /\ queue'[d] = Append(queue[d], calls)
        /\ \A w \in WorkerIds : w /= d => queue'[w] = queue[w]
    BY <1>1 DEF SendOk, TypeOK, Message
  <1>4. /\ Len(queue'[d]) = Len(queue[d]) + 1
        /\ \A i \in 1 .. Len(queue[d]) : queue'[d][i] = queue[d][i]
        /\ queue'[d][Len(queue[d]) + 1] = calls
    BY <1>1, <1>3, AppendFacts DEF TypeOK
  <1>5. /\ \A w \in WorkerIds : \A i \in 1 .. Len(queue[w]) : queue[w][i] < calls
        /\ \A k \in Keys : \A i \in 1 .. Len(handled[k]) : handled[k][i] < calls
    BY <1>1, <1>2, ElementTypes DEF OInv, QueuesInOrder
  <1>6. \A i \in 1 .. Len(queue'[d]) :
            \/ i \in 1 .. Len(queue[d]) /\ queue'[d][i] = queue[d][i]
            \/ i = Len(queue[d]) + 1 /\ queue'[d][i] = calls
    BY <1>1, <1>4, ElementTypes
  <1>7. UNCHANGED <<handled, phase, workerKey>>
    BY DEF SendOk
  <1>8. ASSUME NEW w \in WorkerIds, NEW i \in 1 .. Len(queue'[w])
        PROVE  queue'[w][i] <= Newest'
    <2>1. CASE w /= d
      BY <1>1, <1>2, <1>3, <1>5, <2>1, ElementTypes
    <2>2. CASE w = d
      BY <1>1, <1>2, <1>5, <1>6, <2>2, ElementTypes
    <2> QED
      BY <2>1, <2>2
  <1>9. \A k \in Keys : \A i \in 1 .. Len(handled'[k]) : handled'[k][i] <= Newest'
    BY <1>1, <1>2, <1>5, <1>7, ElementTypes
  <1>10. ASSUME NEW w \in WorkerIds, NEW i \in 1 .. Len(queue'[w]),
                NEW j \in 1 .. Len(queue'[w]), i < j
         PROVE  queue'[w][i] < queue'[w][j]
    <2>1. CASE w /= d
      BY <1>3, <1>10, <2>1 DEF OInv, QueuesInOrder
    <2>2. CASE w = d
      <3>1. i \in 1 .. Len(queue[d])
        BY <1>1, <1>4, <1>10, <2>2, ElementTypes
      <3>2. queue'[d][i] = queue[d][i]
        BY <1>4, <3>1
      <3> QED
        BY <1>1, <1>5, <1>6, <1>10, <2>2, <3>1, <3>2 DEF OInv, QueuesInOrder
    <2> QED
      BY <2>1, <2>2
  <1>11. ASSUME NEW w \in WorkerIds, phase'[w] \in Looping,
                NEW i \in 1 .. Len(handled'[workerKey'[w]]), NEW j \in 1 .. Len(queue'[w])
         PROVE  handled'[workerKey'[w]][i] < queue'[w][j]
    <2>1. workerKey[w] \in Keys
      BY <1>1 DEF TypeOK
    <2>2. CASE w /= d
      BY <1>3, <1>7, <1>11, <2>2 DEF OInv, QueuesInOrder
    <2>3. CASE w = d
      BY <1>5, <1>6, <1>7, <1>11, <2>1, <2>3 DEF OInv, QueuesInOrder
    <2> QED
      BY <2>2, <2>3
  <1>12. InOrder'
    BY <1>7 DEF OInv, InOrder
  <1> QED
    BY <1>8, <1>9, <1>10, <1>11, <1>12 DEF QueuesInOrder

(* The head of a queue goes to the end of the log it is newer than; no     *)
(* other worker in its loop serves the same key.                           *)
LEMMA ReceiveOrder ==
    ASSUME OInv, NEW w \in WorkerIds, Receive(w)
    PROVE  QueuesInOrder' /\ InOrder'
  <1> DEFINE k == workerKey[w]
             q == queue[w]
             h == handled[k]
  <1>1. /\ TypeOK /\ k \in Keys /\ q \in Seq(Messages) /\ h \in Seq(Messages) /\ q /= <<>>
        /\ phase[w] \in Looping
    BY DEF OInv, IInv, TypeOK, Receive, Looping
  <1>2. Newest' = Newest /\ Newest \in Int /\ UNCHANGED workerKey
    BY <1>1, NewestType DEF Receive, Newest, loop
  <1>3. /\ Head(q) \in Messages /\ Head(q) = q[1] /\ Len(q) \in Nat /\ Len(q) >= 1
        /\ Len(Tail(q)) = Len(q) - 1
        /\ \A i \in 1 .. Len(Tail(q)) : Tail(q)[i] = q[i + 1]
    BY <1>1, TailFacts
  <1>4. /\ queue'[w] = Tail(q)
        /\ \A v \in WorkerIds : v /= w => queue'[v] = queue[v]
        /\ handled'[k] = Append(h, q[1])
        /\ \A m \in Keys : m /= k => handled'[m] = handled[m]
    BY <1>1, <1>3 DEF Receive, TypeOK
  <1>5. /\ Len(h) \in Nat
        /\ Len(handled'[k]) = Len(h) + 1
        /\ \A i \in 1 .. Len(h) : handled'[k][i] = h[i]
        /\ handled'[k][Len(h) + 1] = q[1]
    BY <1>1, <1>3, <1>4, AppendFacts
  <1>6. \A i \in 1 .. Len(handled'[k]) :
            \/ i \in 1 .. Len(h) /\ handled'[k][i] = h[i]
            \/ i = Len(h) + 1 /\ handled'[k][i] = q[1]
    BY <1>5
  <1>7. \A i \in 1 .. Len(queue'[w]) :
            /\ i \in 1 .. Len(q) /\ i + 1 \in 1 .. Len(q) /\ 1 \in 1 .. Len(q) /\ 1 < i + 1
            /\ queue'[w][i] = q[i + 1]
    BY <1>3, <1>4
  <1>8. 1 \in 1 .. Len(q)
    BY <1>3
  <1>9. \A v \in WorkerIds : phase'[v] \in Looping => phase[v] \in Looping
    BY <1>1 DEF Receive, TypeOK
  <1>10. \A v \in WorkerIds : phase[v] \in Looping /\ workerKey[v] = k => v = w
    BY <1>1 DEF OInv, IInv, LoopingIsRegistered
  <1>11. ASSUME NEW v \in WorkerIds, NEW i \in 1 .. Len(queue'[v])
         PROVE  queue'[v][i] <= Newest'
    <2>1. CASE v /= w
      BY <1>2, <1>4, <2>1 DEF OInv, QueuesInOrder
    <2>2. CASE v = w
      BY <1>2, <1>7, <2>2 DEF OInv, QueuesInOrder
    <2> QED
      BY <2>1, <2>2
  <1>12. ASSUME NEW m \in Keys, NEW i \in 1 .. Len(handled'[m])
         PROVE  handled'[m][i] <= Newest'
    <2>1. CASE m /= k
      BY <1>2, <1>4, <2>1 DEF OInv, QueuesInOrder
    <2>2. CASE m = k
      BY <1>2, <1>6, <1>8, <2>2 DEF OInv, QueuesInOrder
    <2> QED
      BY <2>1, <2>2
  <1>13. ASSUME NEW v \in WorkerIds, NEW i \in 1 .. Len(queue'[v]),
                NEW j \in 1 .. Len(queue'[v]), i < j
         PROVE  queue'[v][i] < queue'[v][j]
    <2>1. CASE v /= w
      BY <1>4, <1>13, <2>1 DEF OInv, QueuesInOrder
    <2>2. CASE v = w
      <3>1. i + 1 < j + 1
        BY <1>13
      <3> QED
        BY <1>7, <2>2, <3>1 DEF OInv, QueuesInOrder
    <2> QED
      BY <2>1, <2>2
  <1>14. ASSUME NEW v \in WorkerIds, phase'[v] \in Looping,
                NEW i \in 1 .. Len(handled'[workerKey'[v]]), NEW j \in 1 .. Len(queue'[v])
         PROVE  handled'[workerKey'[v]][i] < queue'[v][j]
    <2>1. workerKey'[v] = workerKey[v] /\ phase[v] \in Looping /\ workerKey[v] \in Keys
      BY <1>1, <1>2, <1>9, <1>14 DEF TypeOK
    <2>2. CASE v /= w
      <3>1. workerKey[v] /= k
        BY <1>10, <2>1, <2>2
      <3>2. handled'[workerKey[v]] = handled[workerKey[v]] /\ queue'[v] = queue[v]
        BY <1>4, <2>1, <2>2, <3>1
      <3> QED
        BY <1>14, <2>1, <3>2 DEF OInv, QueuesInOrder
    <2>3. CASE v = w
      <3>1. CASE i \in 1 .. Len(h)
        <4>1. handled'[k][i] = h[i]
          BY <1>5, <3>1
        <4>2. h[i] < q[j + 1]
          BY <1>1, <1>7, <1>14, <2>3, <3>1 DEF OInv, QueuesInOrder
        <4> QED
          BY <1>7, <2>1, <2>3, <4>1, <4>2
      <3>2. CASE i \notin 1 .. Len(h)
        <4>1. handled'[k][i] = q[1]
          BY <1>2, <1>6, <1>14, <2>3, <3>2
        <4>2. q[1] < q[j + 1]
          BY <1>7, <1>14, <2>3 DEF OInv, QueuesInOrder
        <4> QED
          BY <1>7, <2>1, <2>3, <4>1, <4>2
      <3> QED
        BY <3>1, <3>2
    <2> QED
      BY <2>2, <2>3
  <1>15. ASSUME NEW m \in Keys, NEW i \in 1 .. Len(handled'[m]),
                NEW j \in 1 .. Len(handled'[m]), i < j
         PROVE  handled'[m][i] < handled'[m][j]
    <2>1. CASE m /= k
      BY <1>4, <1>15, <2>1 DEF OInv, InOrder
    <2>2. CASE m = k
      <3>1. i \in 1 .. Len(h)
        BY <1>5, <1>15, <2>2
      <3>2. handled'[k][i] = h[i] /\ h[i] < q[1]
        BY <1>1, <1>5, <1>8, <3>1 DEF OInv, QueuesInOrder
      <3> QED
        BY <1>6, <1>15, <2>2, <3>1, <3>2 DEF OInv, InOrder
    <2> QED
      BY <2>1, <2>2
  <1>16. InOrder'
    BY <1>15 DEF InOrder
  <1> QED
    BY <1>11, <1>12, <1>13, <1>14, <1>16 DEF QueuesInOrder

(* Sending and receiving are the only steps that touch the order.          *)
LEMMA OrderStep == OInv /\ [Next]_vars => QueuesInOrder' /\ InOrder'
  <1> SUFFICES ASSUME OInv, [Next]_vars PROVE QueuesInOrder' /\ InOrder'
    OBVIOUS
  <1>0. TypeOK /\ TypeOK' /\ QueuesInOrder /\ InOrder
    BY TypeStep DEF OInv, IInv
  <1>1. Newest' \in Int /\ Newest \in Int
    BY <1>0, ConstantsAssumption DEF TypeOK, Newest
  <1>2. ASSUME \/ \E k \in Keys : DispatchCall(k)
               \/ ReuseWorker \/ SendErr \/ RetryOrRefuse \/ AckReaction \/ UNCHANGED vars
        PROVE  QueuesInOrder' /\ InOrder'
    <2>1. UNCHANGED <<tasks, handled>>
      BY <1>2 DEF DispatchCall, ReuseWorker, SendErr, RetryOrRefuse, AckReaction, vars, tasks, log
    <2>2. Newest <= Newest'
      <3>0. calls \in Int
        BY <1>0, ConstantsAssumption DEF TypeOK
      <3>1. ASSUME NEW k \in Keys, DispatchCall(k) PROVE Newest <= Newest'
        BY <3>0, <3>1 DEF DispatchCall, Newest
      <3>2. CASE ReuseWorker
        BY <1>0, <3>0, <3>2 DEF ReuseWorker, Newest, TypeOK, DispatchStates
      <3>3. CASE SendErr
        <4>1. dispatch.at \notin {"idle", "ack"}
          BY <3>3 DEF SendErr, Sending
        <4>2. dispatch'.at \notin {"idle", "ack"} /\ calls' = calls
          BY <1>0, <3>3 DEF SendErr, TypeOK, DispatchStates
        <4> QED
          BY <3>0, <4>1, <4>2 DEF Newest
      <3>4. CASE RetryOrRefuse
        BY <1>0, <3>0, <3>4, IdleType DEF RetryOrRefuse, Newest, TypeOK, DispatchStates
      <3>5. CASE AckReaction
        BY <3>0, <3>5, IdleType DEF AckReaction, Newest
      <3>6. CASE UNCHANGED vars
        BY <3>0, <3>6 DEF vars, loop, Newest
      <3> QED
        BY <1>2, <3>1, <3>2, <3>3, <3>4, <3>5, <3>6
    <2> QED
      BY <1>0, <1>1, <2>1, <2>2, QuietStep DEF tasks
  <1>3. CASE SpawnWorker
    <2>1. UNCHANGED <<handled, queue>> /\ nextWorkerId \in WorkerIds
      BY <1>0, <1>3, ConstantsAssumption DEF SpawnWorker, log, TypeOK, WorkerIds
    <2>2. Newest' = Newest
      BY <1>0, <1>3 DEF SpawnWorker, Newest, TypeOK, DispatchStates
    <2>3. queue[nextWorkerId] = <<>>
      BY <1>0, <2>1 DEF OInv, IInv, BornInOrder, TypeOK
    <2>4. \A w \in WorkerIds : w /= nextWorkerId =>
              phase'[w] = phase[w] /\ workerKey'[w] = workerKey[w]
      BY <1>0, <1>3 DEF SpawnWorker, TypeOK
    <2>5. Newest <= Newest'
      BY <1>1, <2>2
    <2> QED
      BY <1>0, <1>1, <2>1, <2>3, <2>4, <2>5, QuietStep
  <1>4. ASSUME NEW w \in WorkerIds,
               \/ HandlerDone(w) \/ IdleTimeout(w)
               \/ LeaveMap(w) \/ DropReceiver(w) \/ HandlerPanics(w)
        PROVE  QueuesInOrder' /\ InOrder'
    <2>1. UNCHANGED <<handled, workerKey, dispatch, calls>>
      BY <1>4 DEF HandlerDone, IdleTimeout, LeaveMap, DropReceiver,
                  HandlerPanics, loop, log
    <2>2. Newest <= Newest'
      BY <1>1, <2>1 DEF Newest
    <2>3. \A v \in WorkerIds : queue'[v] = queue[v] \/ queue'[v] = <<>>
      BY <1>0, <1>4 DEF HandlerDone, IdleTimeout, LeaveMap, DropReceiver,
                  HandlerPanics, TypeOK
    <2>4. \A v \in WorkerIds : phase'[v] \in Looping => phase[v] \in Looping
      BY <1>0, <1>4 DEF HandlerDone, IdleTimeout, LeaveMap, DropReceiver,
                  HandlerPanics, TypeOK, Looping
    <2> QED
      BY <1>0, <1>1, <2>1, <2>2, <2>3, <2>4, QuietStep
  <1> QED
    BY <1>2, <1>3, <1>4, SendOrder, ReceiveOrder DEF Next, LoopStep, WorkerStep, Quiescent

(* A session's messages are handled in the order of the dispatch calls,    *)
(* each at most once: the second half of the coordinator's promise.        *)
THEOREM Ordering == Spec => []InOrder
  <1>1. OInv /\ [Next]_vars => OInv'
    BY TypeStep, CallStep, BornStep, LoopingStep, OrderStep DEF IInv, OInv
  <1>2. OInv => InOrder
    BY DEF OInv
  <1> QED
    BY <1>1, <1>2, InitOInv, PTL DEF Spec

-----------------------------------------------------------------------------
(* Where the messages are.                                                 *)

(* Appending adds one element.                                             *)
LEMMA AppendElements ==
    ASSUME NEW S, NEW s \in Seq(S), NEW e \in S
    PROVE  ElementsOf(Append(s, e)) = ElementsOf(s) \cup {e}
  <1> DEFINE t == Append(s, e)
  <1>1. /\ Len(t) = Len(s) + 1 /\ Len(s) \in Nat
        /\ \A i \in 1 .. Len(s) : t[i] = s[i]
        /\ t[Len(s) + 1] = e
    BY AppendFacts
  <1> HIDE DEF t
  <1>2. 1 .. Len(t) = (1 .. Len(s)) \cup {Len(s) + 1}
    BY <1>1
  <1> QED
    BY <1>1, <1>2 DEF ElementsOf, t

(* Taking the head off removes it, and only it, if it does not come again. *)
LEMMA TailElements ==
    ASSUME NEW S, NEW s \in Seq(S), s /= <<>>,
           \A i \in 1 .. Len(s) : 1 < i => s[i] /= s[1]
    PROVE  /\ Head(s) \in ElementsOf(s)
           /\ ElementsOf(Tail(s)) = ElementsOf(s) \ {Head(s)}
  <1> DEFINE t == Tail(s)
  <1>1. /\ Head(s) = s[1] /\ Len(s) \in Nat /\ Len(s) >= 1
        /\ Len(t) = Len(s) - 1
        /\ \A i \in 1 .. Len(t) : t[i] = s[i + 1]
    BY TailFacts
  <1> HIDE DEF t
  <1>2. 1 \in 1 .. Len(s)
    BY <1>1
  <1>3. \A i \in 1 .. Len(t) : i + 1 \in 1 .. Len(s) /\ 1 < i + 1
    BY <1>1
  <1>4. ElementsOf(t) \subseteq ElementsOf(s) \ {s[1]}
    BY <1>1, <1>3 DEF ElementsOf
  <1>5. ASSUME NEW i \in 1 .. Len(s), s[i] /= s[1] PROVE s[i] \in ElementsOf(t)
    <2>1. i - 1 \in 1 .. Len(t) /\ (i - 1) + 1 = i
      BY <1>1, <1>5
    <2> QED
      BY ZenonT(30), <1>1, <2>1 DEF ElementsOf
  <1>6. ElementsOf(s) \ {s[1]} \subseteq ElementsOf(t)
    BY <1>5 DEF ElementsOf
  <1>7. s[1] \in ElementsOf(s)
    BY <1>2 DEF ElementsOf
  <1> QED
    BY <1>1, <1>4, <1>6, <1>7 DEF t

(* What a message is, the accounts aside: the messages accepted so far are *)
(* those of the calls that have sent.                                      *)
AcceptedArePast == \A m \in accepted : m <= Newest

(* The inductive invariant of the accounts.                                *)
AInv == RInv /\ QueuesInOrder /\ InOrder /\ AcceptedArePast /\ Accounted

(* Nothing is anywhere at first.                                           *)
LEMMA InitAInv == Init => AInv
  <1> SUFFICES ASSUME Init PROVE AcceptedArePast /\ Accounted
    BY InitRInv, InitOInv DEF AInv, OInv
  <1>1. ElementsOf(<<>>) = {}
    BY DEF ElementsOf
  <1>2. Started = {} /\ \A w \in WorkerIds : Waiting(w) = {}
    BY <1>1 DEF Init, Started, Waiting
  <1>3. accepted = {} /\ refused = {} /\ lost = {}
    BY DEF Init
  <1> QED
    BY <1>2, <1>3 DEF AcceptedArePast, Accounted

(* A step that moves no message keeps the accounts.                        *)
LEMMA NothingMoves ==
    ASSUME AcceptedArePast, Accounted, TypeOK, Newest' \in Int, Newest <= Newest',
           UNCHANGED <<queue, handled, accepted, refused, lost>>
    PROVE  AcceptedArePast' /\ Accounted'
  <1>1. Started' = Started /\ \A w \in WorkerIds : Waiting(w)' = Waiting(w)
    BY DEF Started, Waiting
  <1>2. Accounted'
    BY <1>1 DEF Accounted, Waiting
  <1>3. \A m \in accepted : m \in Int
    BY ConstantsAssumption DEF TypeOK, Messages
  <1> QED
    BY <1>2, <1>3, NewestType DEF AcceptedArePast

(* The message of the call is new, and goes into one queue.                *)
LEMMA SendAccounts == AInv /\ SendOk => AcceptedArePast' /\ Accounted'
  <1> SUFFICES ASSUME AInv, SendOk PROVE AcceptedArePast' /\ Accounted'
    OBVIOUS
  <1> DEFINE d == dispatch.worker
  <1>1. /\ TypeOK /\ CallConsistent /\ Accounted /\ AcceptedArePast /\ refused = {}
        /\ dispatch.at \in Sending
    BY DEF AInv, RInv, IInv, SendOk, NeverRefused
  <1>2. d \in WorkerIds /\ calls >= 1 /\ calls \in Messages /\ calls \in Int
    BY <1>1, ConstantsAssumption DEF CallConsistent, Sending, TypeOK, Messages
  <1>3. Newest = calls - 1 /\ Newest' = calls
    BY <1>1 DEF SendOk, Newest, Sending, TypeOK, DispatchStates
  <1>4. calls \notin accepted
    BY <1>1, <1>2, <1>3 DEF AcceptedArePast
  <1>5. Waiting(d)' = Waiting(d) \cup {calls}
    BY <1>1, <1>2, AppendElements DEF SendOk, TypeOK, Message, Waiting
  <1>6. \A w \in WorkerIds : w /= d => ElementsOf(queue'[w]) = Waiting(w)
    BY <1>1, <1>2 DEF SendOk, TypeOK, Waiting
  <1>7. /\ UNCHANGED <<refused, lost>> /\ accepted' = accepted \cup {calls}
        /\ Started' = Started
    BY DEF SendOk, Message, Started
  <1>8. ElementsOf(queue'[d]) = Waiting(d) \cup {calls}
    BY <1>1, <1>2, AppendElements DEF SendOk, TypeOK, Message, Waiting
  <1>9. /\ calls \notin Started /\ calls \notin lost
        /\ \A w \in WorkerIds : calls \notin Waiting(w)
    BY <1>1, <1>4 DEF Accounted
  <1>10. \A m : m \in UNION {ElementsOf(queue'[w]) : w \in WorkerIds}
                  <=> m \in UNION {Waiting(w) : w \in WorkerIds} \/ m = calls
    <2>1. \A w \in WorkerIds : Waiting(w) \subseteq ElementsOf(queue'[w])
      BY <1>6, <1>8
    <2>2. \A w \in WorkerIds : ElementsOf(queue'[w]) \subseteq Waiting(w) \cup {calls}
      BY <1>6, <1>8
    <2> QED
      BY <1>2, <1>8, <2>1, <2>2
  <1>11. \A m \in accepted' : m <= Newest'
    <2>1. \A m \in accepted : m \in Int
      BY <1>1, ConstantsAssumption DEF TypeOK, Messages
    <2> QED
      BY <1>1, <1>2, <1>3, <1>7, <2>1 DEF AcceptedArePast
  <1>12. accepted' = Started' \cup lost' \cup UNION {ElementsOf(queue'[w]) : w \in WorkerIds}
    <2> DEFINE U == UNION {ElementsOf(queue'[w]) : w \in WorkerIds}
               V == UNION {Waiting(w) : w \in WorkerIds}
    <2>1. accepted = Started \cup lost \cup V
      BY <1>1 DEF Accounted
    <2>2. \A m : m \in U <=> m \in V \/ m = calls
      BY <1>10
    <2> HIDE DEF U, V
    <2>3. accepted' = Started' \cup lost' \cup U
      BY <1>7, <2>1, <2>2
    <2> QED
      BY <2>3 DEF U
  <1>13. \A w \in WorkerIds : ElementsOf(queue'[w]) \cap (Started' \cup lost') = {}
    BY <1>1, <1>6, <1>7, <1>8, <1>9 DEF Accounted
  <1>14. \A v, w \in WorkerIds : v /= w => ElementsOf(queue'[v]) \cap ElementsOf(queue'[w]) = {}
    BY <1>1, <1>6, <1>8, <1>9 DEF Accounted
  <1>15. Started' \cap lost' = {} /\ refused' \cap accepted' = {}
    BY <1>1, <1>7 DEF Accounted
  <1>16. Accounted'
    BY <1>12, <1>13, <1>14, <1>15 DEF Accounted, Waiting
  <1> QED
    BY <1>11, <1>16 DEF AcceptedArePast

(* The head of a queue moves into the log of the worker's key.             *)
LEMMA ReceiveAccounts ==
    ASSUME AInv, NEW w \in WorkerIds, Receive(w)
    PROVE  AcceptedArePast' /\ Accounted'
  <1> DEFINE x == Head(queue[w])
  <1>1. /\ TypeOK /\ Accounted /\ AcceptedArePast /\ QueuesInOrder
        /\ queue[w] \in Seq(Messages) /\ queue[w] /= <<>> /\ workerKey[w] \in Keys
        /\ handled[workerKey[w]] \in Seq(Messages)
    BY DEF AInv, RInv, IInv, TypeOK, Receive
  <1>2. x \in Messages /\ 1 \in 1 .. Len(queue[w])
    BY <1>1, TailFacts
  <1>3. \A i \in 1 .. Len(queue[w]) : 1 < i => queue[w][i] /= queue[w][1]
    BY <1>1, <1>2, ElementTypes DEF QueuesInOrder
  <1>4. x \in Waiting(w) /\ ElementsOf(Tail(queue[w])) = Waiting(w) \ {x}
    BY <1>1, <1>3, TailElements DEF Waiting
  <1>5. /\ queue'[w] = Tail(queue[w])
        /\ \A v \in WorkerIds : v /= w => queue'[v] = queue[v]
        /\ handled'[workerKey[w]] = Append(handled[workerKey[w]], x)
        /\ \A k \in Keys : k /= workerKey[w] => handled'[k] = handled[k]
        /\ UNCHANGED <<accepted, refused, lost, dispatch, calls>>
    BY <1>1 DEF Receive, TypeOK, loop
  <1>6. ElementsOf(handled'[workerKey[w]]) = ElementsOf(handled[workerKey[w]]) \cup {x}
    BY <1>1, <1>2, <1>5, AppendElements
  <1> HIDE DEF x
  <1>7. Started' = Started \cup {x}
    <2>1. \A k \in Keys : /\ ElementsOf(handled[k]) \subseteq ElementsOf(handled'[k])
                          /\ ElementsOf(handled'[k]) \subseteq ElementsOf(handled[k]) \cup {x}
      BY <1>5, <1>6
    <2> DEFINE U == UNION {ElementsOf(handled'[k]) : k \in Keys}
               V == UNION {ElementsOf(handled[k]) : k \in Keys}
    <2>2. \A m : m \in U <=> m \in V \/ m = x
      BY <1>1, <1>6, <2>1
    <2>3. Started = V /\ Started' = U
      BY DEF Started
    <2> HIDE DEF U, V
    <2> QED
      BY <2>2, <2>3
  <1>8. /\ ElementsOf(queue'[w]) = Waiting(w) \ {x}
        /\ \A v \in WorkerIds : v /= w => ElementsOf(queue'[v]) = Waiting(v)
    BY <1>4, <1>5 DEF Waiting
  <1>9. \A m : m \in UNION {ElementsOf(queue'[v]) : v \in WorkerIds}
                  <=> m \in UNION {Waiting(v) : v \in WorkerIds} /\ m /= x
    <2>1. \A v \in WorkerIds : ElementsOf(queue'[v]) = Waiting(v) \ {x}
      BY <1>1, <1>4, <1>8 DEF Accounted
    <2> QED
      BY <2>1
  <1>10. x \notin Started /\ x \notin lost /\ x \in UNION {Waiting(v) : v \in WorkerIds}
    BY <1>1, <1>4 DEF Accounted
  <1>11. accepted' = Started' \cup lost' \cup UNION {ElementsOf(queue'[v]) : v \in WorkerIds}
    <2> DEFINE U == UNION {ElementsOf(queue'[v]) : v \in WorkerIds}
               V == UNION {Waiting(v) : v \in WorkerIds}
    <2>1. accepted = Started \cup lost \cup V /\ x \in V
      BY <1>1, <1>10 DEF Accounted
    <2>2. \A m : m \in U <=> m \in V /\ m /= x
      BY <1>9
    <2> HIDE DEF U, V
    <2>3. accepted' = Started' \cup lost' \cup U
      BY <1>5, <1>7, <2>1, <2>2
    <2> QED
      BY <2>3 DEF U
  <1>12. \A v \in WorkerIds : ElementsOf(queue'[v]) \cap (Started' \cup lost') = {}
    BY <1>1, <1>4, <1>5, <1>7, <1>8 DEF Accounted
  <1>13. \A u, v \in WorkerIds : u /= v => ElementsOf(queue'[u]) \cap ElementsOf(queue'[v]) = {}
    BY <1>1, <1>8 DEF Accounted
  <1>14. Started' \cap lost' = {} /\ refused' \cap accepted' = {}
    BY <1>1, <1>5, <1>7, <1>10 DEF Accounted
  <1>15. Accounted'
    BY <1>11, <1>12, <1>13, <1>14 DEF Accounted, Waiting
  <1>16. Newest' = Newest
    BY <1>5 DEF Newest
  <1> QED
    BY <1>1, <1>5, <1>15, <1>16 DEF AcceptedArePast

(* A receiver takes what it holds with it.                                 *)
LEMMA LossAccounts ==
    ASSUME AInv, NEW w \in WorkerIds, DropReceiver(w) \/ HandlerPanics(w)
    PROVE  AcceptedArePast' /\ Accounted'
  <1>1. TypeOK /\ Accounted /\ AcceptedArePast
    BY DEF AInv, RInv, IInv
  <1>2. /\ queue'[w] = <<>>
        /\ \A v \in WorkerIds : v /= w => queue'[v] = queue[v]
        /\ lost' = lost \cup Waiting(w)
        /\ UNCHANGED <<handled, accepted, refused, dispatch, calls>>
    BY <1>1 DEF DropReceiver, HandlerPanics, TypeOK, Waiting, loop
  <1>3. /\ ElementsOf(queue'[w]) = {}
        /\ \A v \in WorkerIds : v /= w => ElementsOf(queue'[v]) = Waiting(v)
    <2>1. ElementsOf(<<>>) = {}
      BY DEF ElementsOf
    <2> QED
      BY <1>2, <2>1 DEF Waiting
  <1>4. Started' = Started
    BY <1>2 DEF Started
  <1>5. Waiting(w) \cup UNION {ElementsOf(queue'[v]) : v \in WorkerIds}
            = UNION {Waiting(v) : v \in WorkerIds}
    BY <1>3
  <1>6. accepted' = Started' \cup lost' \cup UNION {ElementsOf(queue'[v]) : v \in WorkerIds}
    BY <1>1, <1>2, <1>4, <1>5 DEF Accounted
  <1>7. \A v \in WorkerIds : ElementsOf(queue'[v]) \cap (Started' \cup lost') = {}
    BY <1>1, <1>2, <1>3, <1>4 DEF Accounted
  <1>8. \A u, v \in WorkerIds : u /= v => ElementsOf(queue'[u]) \cap ElementsOf(queue'[v]) = {}
    BY <1>1, <1>3 DEF Accounted
  <1>9. Started' \cap lost' = {} /\ refused' \cap accepted' = {}
    BY <1>1, <1>2, <1>4 DEF Accounted
  <1>10. Accounted'
    BY <1>6, <1>7, <1>8, <1>9 DEF Accounted, Waiting
  <1>11. Newest' = Newest
    BY <1>2 DEF Newest
  <1> QED
    BY <1>1, <1>2, <1>10, <1>11 DEF AcceptedArePast

(* Only sending, receiving and the end of a receiver move messages.        *)
LEMMA AccountsStep == AInv /\ [Next]_vars => AcceptedArePast' /\ Accounted'
  <1> SUFFICES ASSUME AInv, [Next]_vars PROVE AcceptedArePast' /\ Accounted'
    OBVIOUS
  <1>0. TypeOK /\ TypeOK' /\ AcceptedArePast /\ Accounted
    BY TypeStep DEF AInv, RInv, IInv
  <1>1. Newest' \in Int /\ Newest \in Int /\ calls \in Int
    BY <1>0, ConstantsAssumption DEF TypeOK, Newest
  <1>2. refused' = {} /\ refused = {}
    BY RetryStep DEF AInv, RInv, NeverRefused
  <1>3. ASSUME \/ \E k \in Keys : DispatchCall(k)
               \/ ReuseWorker \/ SpawnWorker \/ SendErr \/ RetryOrRefuse \/ AckReaction
               \/ UNCHANGED vars
        PROVE  AcceptedArePast' /\ Accounted'
    <2>1. UNCHANGED <<queue, handled, accepted, lost>>
      BY <1>3 DEF DispatchCall, ReuseWorker, SpawnWorker, SendErr, RetryOrRefuse,
                  AckReaction, vars, tasks, log
    <2>2. Newest <= Newest'
      <3>1. ASSUME NEW k \in Keys, DispatchCall(k) PROVE Newest <= Newest'
        BY <1>1, <3>1 DEF DispatchCall, Newest
      <3>2. CASE ReuseWorker \/ SpawnWorker
        <4>1. dispatch.at \notin {"idle", "ack"}
          BY <3>2 DEF ReuseWorker, SpawnWorker
        <4>2. dispatch'.at \notin {"idle", "ack"} /\ calls' = calls
          BY <1>0, <3>2 DEF ReuseWorker, SpawnWorker, TypeOK, DispatchStates
        <4> QED
          BY <1>1, <4>1, <4>2 DEF Newest
      <3>3. CASE SendErr
        <4>1. dispatch.at \notin {"idle", "ack"}
          BY <3>3 DEF SendErr, Sending
        <4>2. dispatch'.at \notin {"idle", "ack"} /\ calls' = calls
          BY <1>0, <3>3 DEF SendErr, TypeOK, DispatchStates
        <4> QED
          BY <1>1, <4>1, <4>2 DEF Newest
      <3>4. CASE RetryOrRefuse
        BY <1>0, <1>1, <3>4, IdleType DEF RetryOrRefuse, Newest, TypeOK, DispatchStates
      <3>5. CASE AckReaction
        BY <1>1, <3>5, IdleType DEF AckReaction, Newest
      <3>6. CASE UNCHANGED vars
        BY <1>1, <3>6 DEF vars, loop, Newest
      <3> QED
        BY <1>3, <3>1, <3>2, <3>3, <3>4, <3>5, <3>6
    <2> QED
      BY <1>0, <1>1, <1>2, <2>1, <2>2, NothingMoves
  <1>4. ASSUME NEW w \in WorkerIds, HandlerDone(w) \/ IdleTimeout(w) \/ LeaveMap(w)
        PROVE  AcceptedArePast' /\ Accounted'
    <2>1. UNCHANGED <<queue, handled, accepted, refused, lost, dispatch, calls>>
      BY <1>4 DEF HandlerDone, IdleTimeout, LeaveMap, loop, log
    <2>2. Newest <= Newest'
      BY <1>1, <2>1 DEF Newest
    <2> QED
      BY <1>0, <1>1, <2>1, <2>2, NothingMoves
  <1> QED
    BY <1>3, <1>4, SendAccounts, ReceiveAccounts, LossAccounts
    DEF Next, LoopStep, WorkerStep, Quiescent

(* A message whose dispatch call reported success is in exactly one place, *)
(* whichever workers expire, panic and are replaced: it waits in one live  *)
(* queue, has been handed to the handler once, or went with a receiver.    *)
THEOREM MessagesStayAccounted == Spec => []Accounted
  <1>1. AInv => OInv /\ RInv /\ IInv
    BY DEF AInv, OInv, RInv
  <1>2. IInv /\ [Next]_vars => IInv'
    BY TypeStep, CallStep, BornStep, LoopingStep DEF IInv
  <1>3. RInv /\ [Next]_vars => RInv'
    BY <1>2, AliveStep, RetryStep DEF RInv
  <1>4. AInv /\ [Next]_vars => AInv'
    BY <1>1, <1>3, OrderStep, AccountsStep DEF AInv
  <1>5. AInv => Accounted
    BY DEF AInv
  <1> QED
    BY <1>4, <1>5, InitAInv, PTL DEF Spec

-----------------------------------------------------------------------------
(* The mailbox of a key is the channel of its worker in the loop.          *)

(* The workers of key k that are in their loop.                            *)
Live(k) == {w \in WorkerIds : workerKey[w] = k /\ phase[w] \in Looping}

(* With no such worker, or with empty channels, the mailbox is empty.      *)
LEMMA EmptyBox ==
    ASSUME NEW k, \A w \in Live(k) : queue[w] = <<>>
    PROVE  BoxOf(k) = <<>>
  BY DEF BoxOf, Live

(* The same of the state after a step.                                     *)
LEMMA EmptyBoxNext ==
    ASSUME NEW k, \A w \in Live(k)' : queue'[w] = <<>>
    PROVE  BoxOf(k)' = <<>>
  BY DEF BoxOf, Live

(* The one worker in its loop holds the mailbox.                           *)
LEMMA LiveBox ==
    ASSUME NEW k, NEW w \in WorkerIds, Live(k) = {w}
    PROVE  BoxOf(k) = queue[w]
  BY DEF BoxOf, Live

(* The same of the state after a step.                                     *)
LEMMA LiveBoxNext ==
    ASSUME NEW k, NEW w \in WorkerIds, Live(k)' = {w}
    PROVE  BoxOf(k)' = queue'[w]
  BY DEF BoxOf, Live

(* A key whose workers and channels stay keeps its mailbox.                *)
LEMMA SameBox ==
    ASSUME NEW k, Live(k)' = Live(k), \A w \in Live(k) : queue'[w] = queue[w]
    PROVE  BoxOf(k)' = BoxOf(k)
  <1>1. CASE Live(k) = {}
    BY <1>1, EmptyBox, EmptyBoxNext
  <1>2. CASE Live(k) /= {}
    <2>1. (CHOOSE w \in Live(k) : TRUE) \in Live(k)
      BY <1>2
    <2>2. BoxOf(k) = queue[CHOOSE w \in Live(k) : TRUE]
      BY <1>2 DEF BoxOf, Live
    <2>3. BoxOf(k)' = queue'[CHOOSE w \in Live(k)' : TRUE]
      BY <1>2 DEF BoxOf, Live
    <2> QED
      BY <2>1, <2>2, <2>3
  <1> QED
    BY <1>1, <1>2

(* A key has at most one worker in its loop.                               *)
LEMMA OneLive ==
    ASSUME IInv, NEW w \in WorkerIds, phase[w] \in Looping
    PROVE  Live(workerKey[w]) = {w}
  BY DEF IInv, LoopingIsRegistered, Live

(* The refinement mapping.                                                 *)
Boxes == [k \in Keys |-> BoxOf(k)]
Serving == {workerKey[w] : w \in {v \in WorkerIds : phase[v] = "handling"}}

(* A step that leaves every mailbox, the handlers, the logs and the number *)
(* of calls alone is a stuttering step of the mailboxes.                   *)
LEMMA Stutters ==
    ASSUME \A k \in Keys : BoxOf(k)' = BoxOf(k), Serving' = Serving, UNCHANGED <<calls, handled>>
    PROVE  [Mailbox!Next]_Mailbox!vars
  <1>1. Boxes' = Boxes
    BY DEF Boxes
  <1> QED
    BY <1>1 DEF Mailbox!vars, Boxes, Serving

(* A key's mailbox changes only with its workers or their channels.        *)
LEMMA IdleKeys ==
    ASSUME NEW k \in Keys, TypeOK,
           \A w \in WorkerIds :
               \/ phase'[w] = phase[w] /\ workerKey'[w] = workerKey[w] /\ queue'[w] = queue[w]
               \/ workerKey'[w] /= k /\ (phase[w] = "unborn" \/ workerKey[w] /= k)
               \/ phase[w] \notin Looping /\ phase'[w] \notin Looping
    PROVE  BoxOf(k)' = BoxOf(k)
  <1>1. Live(k)' = Live(k)
    BY DEF Live, Looping
  <1>2. \A w \in Live(k) : queue'[w] = queue[w]
    BY DEF Live, Looping
  <1> QED
    BY <1>1, <1>2, SameBox

(* A new worker's channel is the empty mailbox that its key had.           *)
LEMMA SpawnStutters == OInv /\ SpawnWorker => [Mailbox!Next]_Mailbox!vars
  <1> SUFFICES ASSUME OInv, SpawnWorker PROVE [Mailbox!Next]_Mailbox!vars
    OBVIOUS
  <1>1. TypeOK /\ BornInOrder /\ LoopingIsRegistered
    BY DEF OInv, IInv
  <1>2. nextWorkerId \in WorkerIds
    BY <1>1, ConstantsAssumption DEF SpawnWorker, TypeOK, WorkerIds
  <1>3. phase[nextWorkerId] = "unborn" /\ queue[nextWorkerId] = <<>>
    BY <1>1, <1>2 DEF BornInOrder, TypeOK
  <1>4. /\ phase'[nextWorkerId] = "receiving" /\ workerKey'[nextWorkerId] = dispatch.key
        /\ \A w \in WorkerIds : w /= nextWorkerId =>
              phase'[w] = phase[w] /\ workerKey'[w] = workerKey[w]
        /\ UNCHANGED <<queue, calls, handled>>
    BY <1>1, <1>2 DEF SpawnWorker, TypeOK, log
  <1>5. \A w \in WorkerIds : phase[w] \in Looping => workerKey[w] /= dispatch.key
    BY <1>1 DEF SpawnWorker, LoopingIsRegistered, WorkerIds, NoWorker
  <1>6. ASSUME NEW k \in Keys PROVE BoxOf(k)' = BoxOf(k)
    <2>1. CASE k = dispatch.key
      <3>1. Live(k) = {} /\ \A w \in Live(k)' : w = nextWorkerId
        BY <1>4, <1>5, <2>1 DEF Live
      <3>2. BoxOf(k)' = <<>>
        BY <1>3, <1>4, <3>1, EmptyBoxNext
      <3> QED
        BY <3>1, <3>2, EmptyBox
    <2>2. CASE k /= dispatch.key
      BY <1>1, <1>3, <1>4, <2>2, IdleKeys
    <2> QED
      BY <2>1, <2>2
  <1>7. Serving' = Serving
    <2>1. \A w \in WorkerIds : /\ phase'[w] = "handling" <=> phase[w] = "handling"
                               /\ phase[w] = "handling" => workerKey'[w] = workerKey[w]
      BY <1>3, <1>4
    <2> QED
      BY <2>1 DEF Serving
  <1> QED
    BY <1>4, <1>6, <1>7, Stutters

(* A message sent to a worker in its loop enters the mailbox of its key;   *)
(* one sent to a worker that is leaving enters none.                       *)
LEMMA SendDelivers == OInv /\ SendOk => [Mailbox!Next]_Mailbox!vars
  <1> SUFFICES ASSUME OInv, SendOk PROVE [Mailbox!Next]_Mailbox!vars
    OBVIOUS
  <1>1. PICK d \in WorkerIds, key \in Keys : d = dispatch.worker /\ key = dispatch.key
    BY DEF OInv, IInv, TypeOK, CallConsistent, DispatchStates, SendOk
  <1>2. TypeOK /\ IInv /\ QueuesInOrder /\ dispatch.at \in Sending /\ workerKey[d] = key
    BY <1>1 DEF OInv, IInv, SendOk, CallConsistent
  <1>3. calls \in Int /\ calls >= 1 /\ Newest = calls - 1
    BY <1>2, ConstantsAssumption DEF TypeOK, IInv, CallConsistent, Newest, Sending
  <1>4. /\ queue'[d] = Append(queue[d], calls)
        /\ \A w \in WorkerIds : w /= d => queue'[w] = queue[w]
        /\ UNCHANGED <<workerKey, phase, calls, handled>>
    BY <1>1, <1>2 DEF SendOk, Message, TypeOK
  <1>5. Serving' = Serving
    BY <1>4 DEF Serving
  <1>6. \A k \in Keys : k /= key => BoxOf(k)' = BoxOf(k)
    BY <1>2, <1>4, IdleKeys
  <1>7. CASE phase[d] \notin Looping
    <2>1. \A k \in Keys : BoxOf(k)' = BoxOf(k)
      BY <1>2, <1>4, <1>7, IdleKeys
    <2> QED
      BY <1>4, <1>5, <2>1, Stutters
  <1>8. CASE phase[d] \in Looping
    <2>1. Live(key) = {d} /\ Live(key)' = {d}
      BY <1>2, <1>4, <1>8, OneLive DEF Live
    <2>2. BoxOf(key) = queue[d] /\ BoxOf(key)' = Append(queue[d], calls)
      BY <1>4, <2>1, LiveBox, LiveBoxNext
    <2>3. Boxes' = [Boxes EXCEPT ![key] = Append(@, calls)]
      BY <1>6, <2>2 DEF Boxes
    <2>4. \A i \in 1 .. Len(Boxes[key]) : Boxes[key][i] < calls
      BY <1>2, <1>3, <2>2, ElementTypes DEF Boxes, QueuesInOrder
    <2>5. \A i \in 1 .. Len(handled[key]) : handled[key][i] < calls
      BY <1>2, <1>3, ElementTypes DEF QueuesInOrder
    <2>6. Mailbox!Deliver(key)
      BY <1>3, <1>4, <1>5, <2>3, <2>4, <2>5 DEF Mailbox!Deliver, Boxes, Serving
    <2> QED
      BY <2>6 DEF Mailbox!Next
  <1> QED
    BY <1>7, <1>8

(* The handler starts on the head of the mailbox, and on no other message  *)
(* of the key.                                                             *)
LEMMA ReceiveStarts ==
    ASSUME OInv, NEW w \in WorkerIds, Receive(w)
    PROVE  [Mailbox!Next]_Mailbox!vars
  <1>1. PICK key \in Keys : key = workerKey[w]
    BY DEF OInv, IInv, TypeOK
  <1>2. TypeOK /\ IInv /\ phase[w] = "receiving" /\ queue[w] /= <<>>
    BY DEF OInv, IInv, Receive
  <1>3. /\ queue'[w] = Tail(queue[w]) /\ phase'[w] = "handling"
        /\ \A v \in WorkerIds : v /= w => queue'[v] = queue[v] /\ phase'[v] = phase[v]
        /\ handled' = [handled EXCEPT ![key] = Append(@, Head(queue[w]))]
        /\ UNCHANGED <<workerKey, calls>>
    BY <1>1, <1>2 DEF Receive, TypeOK, loop
  <1>4. \A k \in Keys : k /= key => BoxOf(k)' = BoxOf(k)
    BY <1>1, <1>2, <1>3, IdleKeys
  <1>5. Live(key) = {w} /\ Live(key)' = {w}
    <2>1. Live(key) = {w}
      BY <1>1, <1>2, OneLive DEF Looping
    <2> QED
      BY <1>1, <1>2, <1>3, <2>1 DEF Live, Looping
  <1>6. BoxOf(key) = queue[w] /\ BoxOf(key)' = Tail(queue[w])
    BY <1>3, <1>5, LiveBox, LiveBoxNext
  <1>7. Boxes' = [Boxes EXCEPT ![key] = Tail(@)] /\ Boxes[key] = queue[w]
    BY <1>4, <1>6 DEF Boxes
  <1>8. key \notin Serving
    <2>1. \A v \in WorkerIds : workerKey[v] = key => phase[v] /= "handling"
      BY <1>2, <1>5 DEF Live, Looping
    <2> QED
      BY <2>1 DEF Serving
  <1>9. Serving' = Serving \cup {key}
    <2>1. \A v \in WorkerIds : phase'[v] = "handling" <=> phase[v] = "handling" \/ v = w
      BY <1>2, <1>3
    <2> QED
      BY <1>1, <1>3, <2>1 DEF Serving
  <1>10. Mailbox!Start(key)
    BY <1>2, <1>3, <1>7, <1>8, <1>9 DEF Mailbox!Start, Boxes, Serving
  <1> QED
    BY <1>10 DEF Mailbox!Next

(* The handler returns, or dies with its channel.                          *)
LEMMA HandlerEnds ==
    ASSUME OInv, NEW w \in WorkerIds, HandlerDone(w) \/ HandlerPanics(w)
    PROVE  [Mailbox!Next]_Mailbox!vars
  <1>1. PICK key \in Keys : key = workerKey[w]
    BY DEF OInv, IInv, TypeOK
  <1>2. TypeOK /\ IInv /\ phase[w] = "handling"
    BY DEF OInv, IInv, HandlerDone, HandlerPanics
  <1>3. /\ phase'[w] /= "handling"
        /\ \A v \in WorkerIds : v /= w => queue'[v] = queue[v] /\ phase'[v] = phase[v]
        /\ UNCHANGED <<workerKey, calls, handled>>
    BY <1>2 DEF HandlerDone, HandlerPanics, TypeOK, loop, log
  <1>4. \A k \in Keys : k /= key => BoxOf(k)' = BoxOf(k)
    BY <1>1, <1>2, <1>3, IdleKeys
  <1>5. Live(key) = {w}
    BY <1>1, <1>2, OneLive DEF Looping
  <1>6. Serving' = Serving \ {key} /\ key \in Serving
    <2>1. \A v \in WorkerIds : phase[v] = "handling" /\ workerKey[v] = key => v = w
      BY <1>5 DEF Live, Looping
    <2>2. \A v \in WorkerIds : phase'[v] = "handling" <=> phase[v] = "handling" /\ v /= w
      BY <1>2, <1>3
    <2> QED
      BY <1>1, <1>2, <1>3, <2>1, <2>2 DEF Serving
  <1>7. CASE HandlerDone(w)
    <2>1. queue' = queue /\ phase'[w] = "receiving"
      BY <1>2, <1>7 DEF HandlerDone, TypeOK
    <2>2. Live(key)' = {w}
      BY <1>1, <1>3, <1>5, <2>1 DEF Live, Looping
    <2>3. Boxes' = Boxes
      BY <1>4, <1>5, <2>1, <2>2, LiveBox, LiveBoxNext DEF Boxes
    <2>4. Mailbox!Finish(key)
      BY <1>3, <1>6, <2>3 DEF Mailbox!Finish, Boxes, Serving
    <2> QED
      BY <2>4 DEF Mailbox!Next
  <1>8. CASE HandlerPanics(w)
    <2>1. phase'[w] = "gone"
      BY <1>2, <1>8 DEF HandlerPanics, TypeOK
    <2>2. Live(key)' = {}
      BY <1>3, <1>5, <2>1 DEF Live, Looping
    <2>3. Boxes' = [Boxes EXCEPT ![key] = <<>>]
      BY <1>4, <2>2, EmptyBoxNext DEF Boxes
    <2>4. Mailbox!Crash(key)
      BY <1>3, <1>6, <2>3 DEF Mailbox!Crash, Boxes, Serving
    <2> QED
      BY <2>4 DEF Mailbox!Next
  <1> QED
    BY <1>7, <1>8

(* The end of a worker that serves no mailbox, or an empty one.            *)
LEMMA EndStutters ==
    ASSUME OInv, NEW w \in WorkerIds, IdleTimeout(w) \/ LeaveMap(w) \/ DropReceiver(w)
    PROVE  [Mailbox!Next]_Mailbox!vars
  <1>1. PICK key \in Keys : key = workerKey[w]
    BY DEF OInv, IInv, TypeOK
  <1>2. TypeOK /\ IInv /\ phase[w] /= "handling"
    BY DEF OInv, IInv, IdleTimeout, LeaveMap, DropReceiver
  <1>3. /\ phase'[w] \notin Looping
        /\ \A v \in WorkerIds : v /= w => queue'[v] = queue[v] /\ phase'[v] = phase[v]
        /\ UNCHANGED <<workerKey, calls, handled>>
        /\ phase[w] \in Looping => queue[w] = <<>>
    BY <1>2 DEF IdleTimeout, LeaveMap, DropReceiver, TypeOK, loop, log, Looping
  <1>4. \A k \in Keys : k /= key => BoxOf(k)' = BoxOf(k)
    BY <1>1, <1>2, <1>3, IdleKeys
  <1>5. BoxOf(key)' = BoxOf(key)
    <2>1. CASE phase[w] \notin Looping
      BY <1>2, <1>3, <2>1, IdleKeys
    <2>2. CASE phase[w] \in Looping
      <3>1. Live(key) = {w}
        BY <1>1, <1>2, <2>2, OneLive
      <3>2. Live(key)' = {}
        BY <1>3, <3>1 DEF Live
      <3> QED
        BY <1>3, <2>2, <3>1, <3>2, EmptyBox, EmptyBoxNext
    <2> QED
      BY <2>1, <2>2
  <1>6. Serving' = Serving
    <2>1. \A v \in WorkerIds : phase'[v] = "handling" <=> phase[v] = "handling"
      BY <1>2, <1>3 DEF Looping
    <2> QED
      BY <1>3, <2>1 DEF Serving
  <1> QED
    BY <1>3, <1>4, <1>5, <1>6, Stutters

(* A step of the coordinator is a step of the mailboxes, or none.          *)
LEMMA MailboxStep == OInv /\ [Next]_vars => [Mailbox!Next]_Mailbox!vars
  <1> SUFFICES ASSUME OInv, [Next]_vars PROVE [Mailbox!Next]_Mailbox!vars
    OBVIOUS
  <1>0. TypeOK
    BY DEF OInv, IInv
  <1>1. ASSUME UNCHANGED tasks PROVE Serving' = Serving /\ \A k \in Keys : BoxOf(k)' = BoxOf(k)
    BY <1>0, <1>1, IdleKeys DEF tasks, Serving
  <1>2. ASSUME NEW k \in Keys, DispatchCall(k) PROVE Mailbox!Next
    <2>1. UNCHANGED <<tasks, handled>> /\ calls' = calls + 1
      BY <1>2 DEF DispatchCall, log
    <2>2. Boxes' = Boxes
      BY <1>1, <2>1 DEF Boxes
    <2>3. Mailbox!Call
      BY <1>1, <2>1, <2>2 DEF Mailbox!Call, Boxes, Serving
    <2> QED
      BY <2>3 DEF Mailbox!Next
  <1>3. CASE ReuseWorker \/ SendErr \/ RetryOrRefuse \/ AckReaction \/ UNCHANGED vars
    <2>1. UNCHANGED <<tasks, calls, handled>>
      BY <1>3 DEF ReuseWorker, SendErr, RetryOrRefuse, AckReaction, vars, log, loop
    <2> QED
      BY <1>1, <2>1, Stutters
  <1> QED
    BY <1>2, <1>3, SpawnStutters, SendDelivers, ReceiveStarts, HandlerEnds, EndStutters
    DEF Next, LoopStep, WorkerStep, Quiescent

(* The coordinator implements one mailbox per session key, served in order *)
(* by one handler at a time: whatever its workers, its map and its retries *)
(* do, the code that runs turns sees no more than SessionMailbox says.     *)
THEOREM CoordinatorIsMailbox == Spec => ImplementsMailbox
  <1>1. Init => Mailbox!Init
    <2> SUFFICES ASSUME Init PROVE Mailbox!Init
      OBVIOUS
    <2>1. \A k \in Keys : Live(k) = {}
      BY DEF Init, Live, Looping
    <2>2. Boxes = [k \in Keys |-> <<>>]
      BY <2>1, EmptyBox DEF Boxes
    <2>3. Serving = {}
      BY DEF Init, Serving
    <2> QED
      BY <2>2, <2>3 DEF Init, Mailbox!Init, Boxes, Serving
  <1>2. OInv /\ [Next]_vars => OInv'
    BY TypeStep, CallStep, BornStep, LoopingStep, OrderStep DEF IInv, OInv
  <1> QED
    BY <1>1, <1>2, InitOInv, MailboxStep, PTL DEF Spec, ImplementsMailbox, Mailbox!Spec
=============================================================================
