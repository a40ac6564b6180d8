-------------------------- MODULE WorkerPoolProofs --------------------------
(***************************************************************************)
(* Proofs about WorkerPool for any number of calls, sessions and workers   *)
(* and any capacity.                                                       *)
(***************************************************************************)
EXTENDS WorkerPool, SequenceFacts, TLAPS

-----------------------------------------------------------------------------
(* The inductive invariant.  Neither exclusion nor stoppability is         *)
(* inductive by itself: both follow from where a job can be.               *)

\* A worker holds a job exactly while it builds its engine or runs its turn.
Holding ==
    \A w \in Workers : cur[w] # None <=> wpc[w] \in {"factory", "turn"}

\* Channel w, worker w and its deferred clears have jobs of shard w only.
Placement ==
    \A w \in Workers :
        /\ \A j \in Elems(chans[w]) : Shard(j) = w
        /\ \A j \in Elems(deferred[w]) : Shard(j) = w
        /\ cur[w] # None => Shard(cur[w]) = w

\* An entry of the inflight map is a job of its key whose clear is still deferred, by the
\* worker of the key's shard.
EntryHasClear ==
    \A k \in Sessions : inflight[k] # None =>
        /\ SessionOf[inflight[k]] = k
        /\ inflight[k] \in Elems(deferred[ShardOf[k]])

\* A worker exits after its last deferred call.
ExitedUnwound ==
    \A w \in Workers : wpc[w] = "exited" => deferred[w] = <<>>

IInv == TypeOK /\ Holding /\ Placement /\ EntryHasClear /\ ExitedUnwound /\ RunningTurnIsStoppable

-----------------------------------------------------------------------------
(* The types.                                                              *)

\* Whatever the goroutines around the pool do: the steps of Next without the rules that
\* keep its callers and Close apart, and the panic that follows from breaking them.
AnyStep ==
    \/ \E j \in Jobs :
          Call(j) \/ LookupInflight(j) \/ CancelSlot(j) \/ SubmitUser(j) \/ SendOnClosed(j)
    \/ \E w \in Workers : RunWorker(w) \/ CloseChan(w)
    \/ CancelRoot

\* The rules of Next only take steps away.
LEMMA NextIsAnyStep == [Next]_poolVars => [AnyStep]_poolVars
  BY DEF Next, NewCall, Close, Terminated, AnyStep

\* Every step keeps the types: the bound Len(chans[w]) <= Capacity is the guard of Send.
LEMMA TypeStep == TypeOK /\ Holding /\ [AnyStep]_poolVars => TypeOK'
  <1> SUFFICES ASSUME TypeOK, Holding, [AnyStep]_poolVars
               PROVE  TypeOK'
    OBVIOUS
  <1> USE PoolAssumption DEF TypeOK, CallerPC, WorkerPC
  <1>1. ASSUME NEW j \in Jobs, Call(j)
        PROVE  TypeOK'
    BY <1>1 DEF Call, workerVars
  <1>2. ASSUME NEW j \in Jobs, LookupInflight(j)
        PROVE  TypeOK'
    BY <1>2 DEF LookupInflight, StopTarget, workerVars
  <1>3. ASSUME NEW j \in Jobs, CancelSlot(j)
        PROVE  TypeOK'
    BY <1>3 DEF CancelSlot, workerVars
  <1>4. ASSUME NEW j \in Jobs, Send(j)
        PROVE  TypeOK'
    <2> DEFINE w == Shard(j)
    <2>1. w \in Workers /\ chans[w] \in Seq(Jobs) /\ Len(chans[w]) < Capacity
      BY <1>4 DEF Send, HasRoom, Shard
    <2>2. Append(chans[w], j) \in Seq(Jobs) /\ Len(Append(chans[w], j)) <= Capacity
      BY <2>1, AppendFacts
    <2>3. chans' = [chans EXCEPT ![w] = Append(chans[w], j)]
      BY <1>4 DEF Send, Enqueue
    <2>4. chans' \in [Workers -> Seq(Jobs)] /\ \A v \in Workers : Len(chans'[v]) <= Capacity
      BY <2>1, <2>2, <2>3
    <2> QED
      BY <1>4, <2>4 DEF Send, workerVars
  <1>5. ASSUME NEW j \in Jobs, SendOnClosed(j)
        PROVE  TypeOK'
    BY <1>5 DEF SendOnClosed, workerVars
  <1>6. ASSUME NEW j \in Jobs, GiveUp(j)
        PROVE  TypeOK'
    BY <1>6 DEF GiveUp, workerVars
  <1>7. ASSUME NEW j \in Jobs, TakeAnswer(j)
        PROVE  TypeOK'
    BY <1>7 DEF TakeAnswer, workerVars
  <1>8. ASSUME NEW w \in Workers, Receive(w)
        PROVE  TypeOK'
    <2>1. Head(chans[w]) \in Jobs /\ Tail(chans[w]) \in Seq(Jobs)
          /\ Len(Tail(chans[w])) = Len(chans[w]) - 1 /\ Len(chans[w]) \in Nat
      BY <1>8, TailFacts DEF Receive
    <2>2. chans' \in [Workers -> Seq(Jobs)] /\ \A v \in Workers : Len(chans'[v]) <= Capacity
      BY <1>8, <2>1 DEF Receive
    <2> QED
      BY <1>8, <2>1, <2>2 DEF Receive, callerVars
  <1>9. ASSUME NEW w \in Workers, wpc[w] \in {"factory", "turn"}, Reply(w)
        PROVE  TypeOK'
    BY <1>9 DEF Holding, Reply, callerVars
  <1>10. ASSUME NEW w \in Workers, StartTurn(w)
         PROVE  TypeOK'
    <2>1. cur[w] \in Jobs
      BY <1>10 DEF Holding, StartTurn
    <2>2. <<cur[w]>> \o deferred[w] \in Seq(Jobs)
      BY <2>1, PushFacts
    <2> QED
      BY <1>10, <2>1, <2>2 DEF StartTurn, RegisteredSlot, callerVars
  <1>11. ASSUME NEW w \in Workers, LeaveLoop(w)
         PROVE  TypeOK'
    BY <1>11 DEF LeaveLoop, callerVars
  <1>12. ASSUME NEW w \in Workers, ClearInflight(w)
         PROVE  TypeOK'
    BY <1>12, TailFacts DEF ClearInflight, ClearedSlot, callerVars
  <1>13. ASSUME NEW w \in Workers, Exit(w)
         PROVE  TypeOK'
    BY <1>13 DEF Exit, callerVars
  <1>14. CASE CancelRoot
    BY <1>14 DEF CancelRoot, callerVars, workerVars
  <1>15. ASSUME NEW w \in Workers, CloseChan(w)
         PROVE  TypeOK'
    BY <1>15 DEF CloseChan, callerVars, workerVars
  <1>16. CASE UNCHANGED poolVars
    BY <1>16 DEF poolVars
  <1> QED
    BY <1>1, <1>2, <1>3, <1>4, <1>5, <1>6, <1>7, <1>8, <1>9, <1>10, <1>11, <1>12, <1>13,
       <1>14, <1>15, <1>16
       DEF AnyStep, SubmitUser, RunWorker, FactoryFails, EndTurn

-----------------------------------------------------------------------------
(* The inductive step.                                                     *)

\* What the steps of the callers (a send apart), of Close and of the root context leave alone.
WorkVars == <<chans, wpc, cur, inflight, deferred>>

\* IInv without the types, which TypeStep has dealt with.
Rest == Holding /\ Placement /\ EntryHasClear /\ ExitedUnwound /\ RunningTurnIsStoppable

\* A step that leaves channels, workers and the map alone keeps the rest of the invariant.
LEMMA RestUnchanged == Rest /\ UNCHANGED WorkVars => Rest'
  BY DEF WorkVars, Rest, Holding, Placement, EntryHasClear, ExitedUnwound,
         RunningTurnIsStoppable, Shard

\* A send puts the job on the channel of its own shard.
LEMMA SendStep ==
    ASSUME TypeOK, Rest, NEW j \in Jobs, Send(j)
    PROVE  Rest'
  <1>1. UNCHANGED <<wpc, cur, inflight, deferred>>
    BY DEF Send, workerVars
  <1>2. Holding' /\ EntryHasClear' /\ ExitedUnwound' /\ RunningTurnIsStoppable'
    BY <1>1 DEF Rest, Holding, EntryHasClear, ExitedUnwound, RunningTurnIsStoppable
  <1>3. ASSUME NEW w \in Workers
        PROVE  \A i \in Elems(chans'[w]) : Shard(i) = w
    <2>1. CASE w = Shard(j)
      <3>1. chans'[w] = Append(chans[w], j) /\ chans[w] \in Seq(Jobs)
        BY <2>1 DEF Send, Enqueue, TypeOK
      <3>2. Elems(chans'[w]) = Elems(chans[w]) \cup {j}
        BY <3>1, AppendFacts
      <3> QED
        BY <2>1, <3>2 DEF Rest, Placement
    <2>2. CASE w # Shard(j)
      <3>1. chans'[w] = chans[w]
        BY <2>2 DEF Send, TypeOK
      <3> QED
        BY <3>1 DEF Rest, Placement
    <2> QED
      BY <2>1, <2>2
  <1>4. Placement'
    BY <1>1, <1>3 DEF Rest, Placement, Shard
  <1> QED
    BY <1>2, <1>4 DEF Rest

\* A receive moves a job of shard w from channel w to worker w, which held none.
LEMMA ReceiveStep ==
    ASSUME TypeOK, Rest, NEW w \in Workers, Receive(w)
    PROVE  Rest'
  <1> DEFINE j == Head(chans[w])
  <1>1. UNCHANGED <<inflight, deferred>>
    BY DEF Receive
  <1>2. /\ cur' = [cur EXCEPT ![w] = j]
        /\ chans' = [chans EXCEPT ![w] = Tail(chans[w])]
        /\ wpc' = [wpc EXCEPT ![w] = "factory"]
        /\ wpc[w] = "receive"
    BY DEF Receive
  <1>3. j \in Jobs /\ Elems(chans[w]) = Elems(Tail(chans[w])) \cup {j}
    BY TailFacts DEF Receive, TypeOK
  <1>4. Holding'
    BY <1>2, <1>3, PoolAssumption DEF Rest, Holding, TypeOK
  <1>5. Placement'
    <2>1. ASSUME NEW v \in Workers
          PROVE  /\ \A i \in Elems(chans'[v]) : Shard(i) = v
                 /\ cur'[v] # None => Shard(cur'[v]) = v
      <3>1. CASE v = w
        BY <1>2, <1>3, <3>1 DEF Rest, Placement, TypeOK
      <3>2. CASE v # w
        BY <1>2, <3>2 DEF Rest, Placement, TypeOK
      <3> QED
        BY <3>1, <3>2
    <2> QED
      BY <1>1, <2>1 DEF Rest, Placement, Shard
  <1>6. EntryHasClear'
    BY <1>1 DEF Rest, EntryHasClear
  <1>7. ExitedUnwound' /\ RunningTurnIsStoppable'
    BY <1>1, <1>2 DEF Rest, ExitedUnwound, RunningTurnIsStoppable, TypeOK
  <1> QED
    BY <1>4, <1>5, <1>6, <1>7 DEF Rest

\* Worker w is idle after its answer.
LEMMA ReplyStep ==
    ASSUME TypeOK, Rest, NEW w \in Workers, wpc[w] \in {"factory", "turn"}, Reply(w)
    PROVE  Rest'
  <1>1. UNCHANGED <<chans, inflight, deferred>>
    BY DEF Reply
  <1>2. /\ cur' = [cur EXCEPT ![w] = None]
        /\ wpc' = [wpc EXCEPT ![w] = "receive"]
    BY DEF Reply
  <1>3. Holding'
    BY <1>2 DEF Rest, Holding, TypeOK
  <1>4. Placement' /\ EntryHasClear'
    BY <1>1, <1>2 DEF Rest, Placement, EntryHasClear, Shard, TypeOK
  <1>5. ExitedUnwound' /\ RunningTurnIsStoppable'
    BY <1>1, <1>2 DEF Rest, ExitedUnwound, RunningTurnIsStoppable, TypeOK
  <1> QED
    BY <1>3, <1>4, <1>5 DEF Rest

\* The new slot's clear is deferred by the worker of the job's shard.  No other worker runs
\* a turn of that session, so no other running turn loses its entry.
LEMMA StartTurnStep ==
    ASSUME TypeOK, Rest, NEW w \in Workers, StartTurn(w)
    PROVE  Rest'
  <1> DEFINE j == cur[w]
             k == SessionOf[j]
  <1>1. UNCHANGED <<chans, cur>>
    BY DEF StartTurn
  <1>2. /\ inflight' = [inflight EXCEPT ![k] = j]
        /\ deferred' = [deferred EXCEPT ![w] = <<j>> \o deferred[w]]
        /\ wpc' = [wpc EXCEPT ![w] = "turn"]
        /\ wpc[w] = "factory"
    BY DEF StartTurn, RegisteredSlot
  <1>3. j \in Jobs /\ j # None /\ k \in Sessions /\ ShardOf[k] = w
    BY <1>2, PoolAssumption DEF Rest, Holding, Placement, Shard, TypeOK
  <1>4. Elems(deferred'[w]) = {j} \cup Elems(deferred[w])
    BY <1>2, <1>3, PushFacts DEF TypeOK
  <1>5. \A v \in Workers \ {w} : deferred'[v] = deferred[v]
    BY <1>2 DEF TypeOK
  <1>6. Holding'
    BY <1>1, <1>2 DEF Rest, Holding, TypeOK
  <1>7. Placement'
    <2>1. ASSUME NEW v \in Workers
          PROVE  \A i \in Elems(deferred'[v]) : Shard(i) = v
      <3>1. CASE v = w
        BY <1>3, <1>4, <3>1 DEF Rest, Placement, Shard
      <3>2. CASE v # w
        BY <1>5, <3>2 DEF Rest, Placement
      <3> QED
        BY <3>1, <3>2
    <2> QED
      BY <1>1, <2>1 DEF Rest, Placement, Shard
  <1>8. EntryHasClear'
    <2> SUFFICES ASSUME NEW s \in Sessions, inflight'[s] # None
                 PROVE  SessionOf[inflight'[s]] = s /\ inflight'[s] \in Elems(deferred'[ShardOf[s]])
      BY DEF EntryHasClear
    <2>1. CASE s = k
      BY <1>2, <1>3, <1>4, <2>1 DEF TypeOK
    <2>2. CASE s # k
      <3>1. inflight'[s] = inflight[s]
        BY <1>2, <2>2 DEF TypeOK
      <3>2. SessionOf[inflight[s]] = s /\ inflight[s] \in Elems(deferred[ShardOf[s]])
        BY <3>1 DEF Rest, EntryHasClear
      <3>3. Elems(deferred[ShardOf[s]]) \subseteq Elems(deferred'[ShardOf[s]])
        BY <1>4, <1>5, PoolAssumption
      <3> QED
        BY <3>1, <3>2, <3>3
    <2> QED
      BY <2>1, <2>2
  <1>9. ExitedUnwound'
    BY <1>2, <1>5 DEF Rest, ExitedUnwound, TypeOK
  <1>10. RunningTurnIsStoppable'
    <2> SUFFICES ASSUME NEW v \in Workers, wpc'[v] = "turn"
                 PROVE  inflight'[SessionOf[cur'[v]]] = cur'[v]
      BY DEF RunningTurnIsStoppable
    <2>1. CASE v = w
      BY <1>1, <1>2, <1>3, <2>1 DEF TypeOK
    <2>2. CASE v # w
      <3>1. wpc[v] = "turn" /\ cur'[v] = cur[v]
        BY <1>1, <1>2, <2>2 DEF TypeOK
      <3>2. inflight[SessionOf[cur[v]]] = cur[v] /\ cur[v] # None /\ Shard(cur[v]) = v
        BY <3>1 DEF Rest, RunningTurnIsStoppable, Holding, Placement
      <3>3. SessionOf[cur[v]] # k
        BY <1>3, <2>2, <3>2 DEF Shard
      <3> QED
        BY <1>2, <3>1, <3>2, <3>3 DEF TypeOK
    <2> QED
      BY <2>1, <2>2
  <1> QED
    BY <1>6, <1>7, <1>8, <1>9, <1>10 DEF Rest

\* A clear empties the key's entry if it is that job's.  Worker w runs no turn any more, and
\* the entries of another shard's turns are under other keys.
LEMMA ClearStep ==
    ASSUME TypeOK, Rest, NEW w \in Workers, ClearInflight(w)
    PROVE  Rest'
  <1> DEFINE j == Head(deferred[w])
             k == SessionOf[j]
  <1>1. UNCHANGED <<chans, cur, wpc>>
    BY DEF ClearInflight
  <1>2. /\ inflight' = [inflight EXCEPT ![k] = IF inflight[k] = j THEN None ELSE inflight[k]]
        /\ deferred' = [deferred EXCEPT ![w] = Tail(deferred[w])]
        /\ wpc[w] = "unwind"
    BY DEF ClearInflight, ClearedSlot
  <1>3. /\ j \in Jobs /\ k \in Sessions
        /\ Elems(deferred[w]) = Elems(Tail(deferred[w])) \cup {j}
    BY TailFacts, PoolAssumption DEF ClearInflight, TypeOK
  <1>4. ShardOf[k] = w
    BY <1>3 DEF Rest, Placement, Shard
  <1>5. \A v \in Workers \ {w} : deferred'[v] = deferred[v]
    BY <1>2 DEF TypeOK
  <1>6. deferred'[w] = Tail(deferred[w])
    BY <1>2 DEF TypeOK
  <1>7. Holding' /\ Placement'
    BY <1>1, <1>3, <1>5, <1>6 DEF Rest, Holding, Placement, Shard
  <1>8. EntryHasClear'
    <2> SUFFICES ASSUME NEW s \in Sessions, inflight'[s] # None
                 PROVE  SessionOf[inflight'[s]] = s /\ inflight'[s] \in Elems(deferred'[ShardOf[s]])
      BY DEF EntryHasClear
    <2>1. inflight'[s] = inflight[s] /\ (s = k => inflight[s] # j)
      BY <1>2 DEF TypeOK
    <2>2. SessionOf[inflight[s]] = s /\ inflight[s] \in Elems(deferred[ShardOf[s]])
      BY <2>1 DEF Rest, EntryHasClear
    <2>3. inflight[s] # j
      BY <2>1, <2>2
    <2>4. ShardOf[s] \in Workers
      BY PoolAssumption
    <2>5. inflight[s] \in Elems(deferred'[ShardOf[s]])
      BY <1>3, <1>5, <1>6, <2>2, <2>3, <2>4
    <2> QED
      BY <2>1, <2>2, <2>5
  <1>9. ExitedUnwound'
    BY <1>1, <1>2, <1>5 DEF Rest, ExitedUnwound, TypeOK
  <1>10. RunningTurnIsStoppable'
    <2> SUFFICES ASSUME NEW v \in Workers, wpc[v] = "turn"
                 PROVE  inflight'[SessionOf[cur[v]]] = cur[v]
      BY <1>1 DEF RunningTurnIsStoppable
    <2>1. inflight[SessionOf[cur[v]]] = cur[v] /\ cur[v] # None /\ Shard(cur[v]) = v /\ v # w
      BY <1>2 DEF Rest, RunningTurnIsStoppable, Holding, Placement
    <2>2. SessionOf[cur[v]] # k
      BY <1>4, <2>1 DEF Shard
    <2> QED
      BY <1>2, <2>1, <2>2 DEF TypeOK
  <1> QED
    BY <1>7, <1>8, <1>9, <1>10 DEF Rest

\* The inductive step, one case per action.
LEMMA InvStep == IInv /\ [AnyStep]_poolVars => IInv'
  <1> SUFFICES ASSUME TypeOK, Rest, [AnyStep]_poolVars
               PROVE  Rest'
    BY TypeStep DEF IInv, Rest
  <1>1. ASSUME NEW j \in Jobs,
               Call(j) \/ LookupInflight(j) \/ CancelSlot(j) \/ SendOnClosed(j) \/ GiveUp(j) \/ TakeAnswer(j)
        PROVE  Rest'
    BY <1>1, RestUnchanged
       DEF Call, LookupInflight, CancelSlot, SendOnClosed, GiveUp, TakeAnswer, workerVars, WorkVars
  <1>2. ASSUME NEW j \in Jobs, Send(j)
        PROVE  Rest'
    BY <1>2, SendStep
  <1>3. ASSUME NEW w \in Workers, Receive(w)
        PROVE  Rest'
    BY <1>3, ReceiveStep
  <1>4. ASSUME NEW w \in Workers, FactoryFails(w) \/ EndTurn(w)
        PROVE  Rest'
    BY <1>4, ReplyStep DEF FactoryFails, EndTurn
  <1>5. ASSUME NEW w \in Workers, StartTurn(w)
        PROVE  Rest'
    BY <1>5, StartTurnStep
  <1>6. ASSUME NEW w \in Workers, LeaveLoop(w)
        PROVE  Rest'
    BY <1>6 DEF LeaveLoop, Rest, Holding, Placement, EntryHasClear, ExitedUnwound,
                RunningTurnIsStoppable, Shard, TypeOK
  <1>7. ASSUME NEW w \in Workers, ClearInflight(w)
        PROVE  Rest'
    BY <1>7, ClearStep
  <1>8. ASSUME NEW w \in Workers, Exit(w)
        PROVE  Rest'
    BY <1>8 DEF Exit, Rest, Holding, Placement, EntryHasClear, ExitedUnwound,
                RunningTurnIsStoppable, Shard, TypeOK
  <1>9. ASSUME CancelRoot \/ UNCHANGED poolVars \/ \E w \in Workers : CloseChan(w)
        PROVE  Rest'
    BY <1>9, RestUnchanged DEF CancelRoot, CloseChan, poolVars, workerVars, WorkVars
  <1> QED
    BY <1>1, <1>2, <1>3, <1>4, <1>5, <1>6, <1>7, <1>8, <1>9
       DEF AnyStep, SubmitUser, RunWorker

\* NewWorkerPool: the pool starts with idle workers and an empty map.
LEMMA InvInit == Init => IInv
  <1> SUFFICES ASSUME Init
               PROVE  IInv
    OBVIOUS
  <1>1. TypeOK
    <2>1. <<>> \in Seq(Jobs) /\ Len(<<>>) = 0
      OBVIOUS
    <2>2. chans \in [Workers -> Seq(Jobs)] /\ deferred \in [Workers -> Seq(Jobs)]
      BY <2>1 DEF Init
    <2>3. \A w \in Workers : Len(chans[w]) <= Capacity
      BY <2>1, PoolAssumption DEF Init
    <2>4. /\ pc \in [Jobs -> CallerPC] /\ wpc \in [Workers -> WorkerPC]
          /\ rootDone \in BOOLEAN /\ stopSlot \in [Jobs -> Jobs \cup {None}]
          /\ cancelled \in SUBSET Jobs /\ errCh \in SUBSET Jobs /\ finished \in SUBSET Jobs
          /\ closed \in SUBSET Workers /\ cur \in [Workers -> Jobs \cup {None}]
          /\ inflight \in [Sessions -> Jobs \cup {None}]
      BY DEF Init, CallerPC, WorkerPC
    <2> QED
      BY <2>2, <2>3, <2>4 DEF TypeOK
  <1>2. Placement
    BY EmptyElems DEF Init, Placement
  <1>3. Holding /\ EntryHasClear /\ ExitedUnwound /\ RunningTurnIsStoppable
    BY DEF Init, Holding, EntryHasClear, ExitedUnwound, RunningTurnIsStoppable
  <1> QED
    BY <1>1, <1>2, <1>3 DEF IInv

\* The inductive invariant holds in every reachable state.
LEMMA InvAlways == Spec => []IInv
  BY InvInit, InvStep, NextIsAnyStep, PTL DEF Spec

-----------------------------------------------------------------------------
(* What the invariant gives.                                               *)

\* Two workers with jobs of one session are both the worker of its shard.
LEMMA InvMutex == IInv => SessionMutex
  BY DEF IInv, Placement, SessionMutex, Shard

\* An entry's clear is on no stack any more once the workers have unwound.
LEMMA InvEmpty == IInv => InflightEmptyAfterExit
  <1>1. ASSUME IInv, WorkersGone, NEW k \in Sessions
        PROVE  inflight[k] = None
    <2>1. ShardOf[k] \in Workers
      BY PoolAssumption
    <2>2. Elems(deferred[ShardOf[k]]) = {}
      BY <1>1, <2>1, EmptyElems DEF IInv, ExitedUnwound, WorkersGone
    <2> QED
      BY <1>1, <2>2 DEF IInv, EntryHasClear
  <1> QED
    BY <1>1 DEF InflightEmptyAfterExit

-----------------------------------------------------------------------------
(* What a /stop reaches.  A job is in a channel, at a worker or in the map  *)
(* only after its send, so the slot a /stop finds is a started turn's, of  *)
(* the session asked for, and not the /stop's own.                         *)

Sent(j) == pc[j] \in {"waiting", "returned"}

SeenAreSent ==
    /\ \A w \in Workers : \A j \in Elems(chans[w]) \cup Elems(deferred[w]) : Sent(j)
    /\ \A w \in Workers : cur[w] # None => Sent(cur[w])

EntriesStarted ==
    \A k \in Sessions : inflight[k] # None =>
        Started(inflight[k]) /\ Sent(inflight[k]) /\ SessionOf[inflight[k]] = k

\* What CancelInflightTurn holds after its unlock.
TargetsStarted ==
    \A s \in Jobs : pc[s] = "cancelling" =>
        /\ s \in StopJobs
        /\ stopSlot[s] # None => /\ stopSlot[s] # s
                                 /\ Started(stopSlot[s])
                                 /\ SessionOf[stopSlot[s]] = SessionOf[s]

\* A call's own deferred turnCancel runs when it returns; before that, only a /stop cancels.
CancelledByStop ==
    \A j \in cancelled :
        \/ pc[j] = "returned"
        \/ Started(j) /\ \E s \in StopJobs : s # j /\ pc[s] # "new" /\ SessionOf[s] = SessionOf[j]

StopInv == SeenAreSent /\ EntriesStarted /\ TargetsStarted /\ CancelledByStop

\* What has happened to a call stays happened.
LEMMA StepKeeps ==
    ASSUME IInv, [AnyStep]_poolVars, NEW j \in Jobs
    PROVE  /\ Started(j) => Started(j)'
           /\ Sent(j) => Sent(j)'
           /\ pc[j] # "new" => pc'[j] # "new"
           /\ pc[j] = "returned" => pc'[j] = "returned"
  <1>1. ASSUME NEW i \in Jobs, \/ Call(i) \/ LookupInflight(i) \/ CancelSlot(i) \/ Send(i)
                               \/ SendOnClosed(i) \/ GiveUp(i) \/ TakeAnswer(i)
        PROVE  /\ UNCHANGED <<cur, finished>>
               /\ Sent(j) => Sent(j)'
               /\ pc[j] # "new" => pc'[j] # "new"
               /\ pc[j] = "returned" => pc'[j] = "returned"
    BY <1>1 DEF IInv, TypeOK, CallerPC, Sent, Call, LookupInflight, CancelSlot, Send, SendOnClosed,
                GiveUp, TakeAnswer, workerVars
  <1>2. ASSUME NEW w \in Workers, RunWorker(w)
        PROVE  pc' = pc /\ (Started(j) => Started(j)')
    <2>1. pc' = pc
      BY <1>2 DEF RunWorker, Receive, FactoryFails, StartTurn, EndTurn, Reply, LeaveLoop,
                  ClearInflight, Exit, callerVars
    <2>2. ASSUME Receive(w), Started(j)
          PROVE  Started(j)'
      <3>1. cur[w] = None /\ finished' = finished /\ \A v \in Workers : v # w => cur'[v] = cur[v]
        BY <2>2 DEF Receive, IInv, TypeOK, Holding
      <3> QED
        BY <2>2, <3>1, PoolAssumption DEF Started
    <2>3. ASSUME Reply(w), Started(j)
          PROVE  Started(j)'
      <3>1. finished' = finished \cup {cur[w]} /\ \A v \in Workers : v # w => cur'[v] = cur[v]
        BY <2>3 DEF Reply, IInv, TypeOK
      <3> QED
        BY <2>3, <3>1 DEF Started
    <2>4. ASSUME StartTurn(w) \/ LeaveLoop(w) \/ ClearInflight(w) \/ Exit(w), Started(j)
          PROVE  Started(j)'
      BY <2>4 DEF StartTurn, LeaveLoop, ClearInflight, Exit, Started
    <2> QED
      BY <1>2, <2>1, <2>2, <2>3, <2>4 DEF RunWorker, FactoryFails, EndTurn
  <1>3. ASSUME CancelRoot \/ UNCHANGED poolVars \/ \E w \in Workers : CloseChan(w)
        PROVE  UNCHANGED <<pc, cur, finished>>
    BY <1>3 DEF CancelRoot, CloseChan, poolVars, callerVars, workerVars
  <1> QED
    BY <1>1, <1>2, <1>3 DEF AnyStep, SubmitUser, Started, Sent

\* A job enters a channel with its send, and moves on from there.
LEMMA SeenStep == IInv /\ SeenAreSent /\ [AnyStep]_poolVars => SeenAreSent'
  <1> SUFFICES ASSUME IInv, SeenAreSent, [AnyStep]_poolVars
               PROVE  SeenAreSent'
    OBVIOUS
  <1>0. \A j \in Jobs : Sent(j) => Sent(j)'
    BY StepKeeps
  <1>1. /\ \A w \in Workers : Elems(chans[w]) \subseteq Jobs /\ Elems(deferred[w]) \subseteq Jobs
        /\ \A w \in Workers : cur[w] # None => cur[w] \in Jobs
    BY DEF IInv, TypeOK, Elems
  <1>2. ASSUME UNCHANGED <<chans, cur, deferred>>
        PROVE  SeenAreSent'
    BY <1>0, <1>1, <1>2 DEF SeenAreSent
  <1>3. ASSUME NEW j \in Jobs, Send(j)
        PROVE  SeenAreSent'
    <2>1. Shard(j) \in Workers
      BY PoolAssumption DEF Shard
    <2>2. Elems(chans'[Shard(j)]) = Elems(chans[Shard(j)]) \cup {j}
      BY <1>3, <2>1, AppendFacts DEF Send, Enqueue, IInv, TypeOK
    <2>3. \A w \in Workers : w # Shard(j) => chans'[w] = chans[w]
      BY <1>3, <2>1 DEF Send, IInv, TypeOK
    <2>4. Sent(j)'
      BY <1>3 DEF Send, Sent, IInv, TypeOK
    <2>5. UNCHANGED <<cur, deferred>>
      BY <1>3 DEF Send, workerVars
    <2> QED
      BY <1>0, <1>1, <2>2, <2>3, <2>4, <2>5 DEF SeenAreSent
  <1>4. ASSUME NEW w \in Workers, Receive(w)
        PROVE  SeenAreSent'
    <2>1. Elems(chans[w]) = Elems(Tail(chans[w])) \cup {Head(chans[w])}
      BY <1>4, TailFacts DEF Receive, IInv, TypeOK
    <2>2. chans'[w] = Tail(chans[w]) /\ cur'[w] = Head(chans[w])
      BY <1>4 DEF Receive, IInv, TypeOK
    <2>3. \A v \in Workers : v # w => chans'[v] = chans[v] /\ cur'[v] = cur[v]
      BY <1>4 DEF Receive, IInv, TypeOK
    <2>4. UNCHANGED deferred
      BY <1>4 DEF Receive
    <2> QED
      BY <1>0, <1>1, <2>1, <2>2, <2>3, <2>4 DEF SeenAreSent
  <1>5. ASSUME NEW w \in Workers, Reply(w)
        PROVE  SeenAreSent'
    BY <1>0, <1>1, <1>5 DEF Reply, SeenAreSent, IInv, TypeOK
  <1>6. ASSUME NEW w \in Workers, StartTurn(w)
        PROVE  SeenAreSent'
    <2>1. cur[w] \in Jobs /\ Sent(cur[w])
      BY <1>6, <1>1, PoolAssumption DEF StartTurn, SeenAreSent, IInv, Holding
    <2>2. Elems(deferred'[w]) = Elems(deferred[w]) \cup {cur[w]}
      BY <1>6, <2>1, PushFacts DEF StartTurn, IInv, TypeOK
    <2>3. \A v \in Workers : v # w => deferred'[v] = deferred[v]
      BY <1>6 DEF StartTurn, IInv, TypeOK
    <2>4. UNCHANGED <<chans, cur>>
      BY <1>6 DEF StartTurn
    <2> QED
      BY <1>0, <1>1, <2>1, <2>2, <2>3, <2>4 DEF SeenAreSent
  <1>7. ASSUME NEW w \in Workers, ClearInflight(w)
        PROVE  SeenAreSent'
    <2>1. Elems(deferred'[w]) \subseteq Elems(deferred[w])
      BY <1>7, TailFacts DEF ClearInflight, IInv, TypeOK
    <2>2. \A v \in Workers : v # w => deferred'[v] = deferred[v]
      BY <1>7 DEF ClearInflight, IInv, TypeOK
    <2>3. UNCHANGED <<chans, cur>>
      BY <1>7 DEF ClearInflight
    <2> QED
      BY <1>0, <1>1, <2>1, <2>2, <2>3 DEF SeenAreSent
  <1> QED
    BY <1>2, <1>3, <1>4, <1>5, <1>6, <1>7
       DEF AnyStep, SubmitUser, RunWorker, FactoryFails, EndTurn, LeaveLoop, Exit, Call, LookupInflight,
           CancelSlot, SendOnClosed, GiveUp, TakeAnswer, CancelRoot, CloseChan, poolVars, workerVars

\* setInflightTurnCancel registers a turn that its worker holds; a clear registers nothing.
LEMMA EntriesStep == IInv /\ SeenAreSent /\ EntriesStarted /\ [AnyStep]_poolVars => EntriesStarted'
  <1> SUFFICES ASSUME IInv, SeenAreSent, EntriesStarted, [AnyStep]_poolVars
               PROVE  EntriesStarted'
    OBVIOUS
  <1>0. \A j \in Jobs : (Started(j) => Started(j)') /\ (Sent(j) => Sent(j)')
    BY StepKeeps
  <1>1. \A k \in Sessions : inflight[k] # None => inflight[k] \in Jobs
    BY DEF IInv, TypeOK
  <1>2. CASE UNCHANGED inflight
    BY <1>0, <1>1, <1>2 DEF EntriesStarted
  <1>3. ASSUME NEW w \in Workers, StartTurn(w)
        PROVE  EntriesStarted'
    <2>1. cur[w] \in Jobs /\ SessionOf[cur[w]] \in Sessions
      BY <1>3, PoolAssumption DEF StartTurn, IInv, TypeOK, Holding
    <2>2. Started(cur[w]) /\ Sent(cur[w])
      BY <1>3, <2>1, PoolAssumption DEF Started, SeenAreSent
    <2>3. /\ inflight'[SessionOf[cur[w]]] = cur[w]
          /\ \A k \in Sessions : k # SessionOf[cur[w]] => inflight'[k] = inflight[k]
      BY <1>3, <2>1 DEF StartTurn, RegisteredSlot, IInv, TypeOK
    <2> QED
      BY <1>0, <1>1, <2>1, <2>2, <2>3 DEF EntriesStarted
  <1>4. ASSUME NEW w \in Workers, ClearInflight(w)
        PROVE  EntriesStarted'
    <2>1. \A k \in Sessions : inflight'[k] \in {inflight[k], None}
      BY <1>4 DEF ClearInflight, ClearedSlot, IInv, TypeOK
    <2> QED
      BY <1>0, <1>1, <2>1 DEF EntriesStarted
  <1> QED
    BY <1>2, <1>3, <1>4
       DEF AnyStep, SubmitUser, RunWorker, Receive, FactoryFails, EndTurn, Reply, LeaveLoop, Exit, Call,
           LookupInflight, CancelSlot, Send, SendOnClosed, GiveUp, TakeAnswer, CancelRoot, CloseChan,
           poolVars, workerVars

\* CancelInflightTurn looks its own session's entry up before its own call is sent.
LEMMA TargetsStep ==
    IInv /\ EntriesStarted /\ TargetsStarted /\ [AnyStep]_poolVars => TargetsStarted'
  <1> SUFFICES ASSUME IInv, EntriesStarted, TargetsStarted, [AnyStep]_poolVars
               PROVE  TargetsStarted'
    OBVIOUS
  <1>0. \A j \in Jobs : Started(j) => Started(j)'
    BY StepKeeps
  <1>1. \A s \in Jobs : stopSlot[s] # None => stopSlot[s] \in Jobs
    BY DEF IInv, TypeOK
  <1>2. ASSUME \A s \in Jobs : pc'[s] = "cancelling" => pc[s] = "cancelling", UNCHANGED stopSlot
        PROVE  TargetsStarted'
    BY <1>0, <1>1, <1>2 DEF TargetsStarted
  <1>3. ASSUME NEW s \in Jobs, LookupInflight(s)
        PROVE  TargetsStarted'
    <2>1. SessionOf[s] \in Sessions
      BY PoolAssumption
    <2>2. s \in StopJobs /\ pc[s] = "new" /\ stopSlot'[s] = inflight[SessionOf[s]]
      BY <1>3 DEF LookupInflight, StopTarget, IInv, TypeOK
    <2>3. stopSlot'[s] # None => /\ stopSlot'[s] \in Jobs
                                 /\ stopSlot'[s] # s
                                 /\ Started(stopSlot'[s])
                                 /\ SessionOf[stopSlot'[s]] = SessionOf[s]
      BY <2>1, <2>2 DEF EntriesStarted, Sent, IInv, TypeOK
    <2>4. \A i \in Jobs : i # s => pc'[i] = pc[i] /\ stopSlot'[i] = stopSlot[i]
      BY <1>3 DEF LookupInflight, IInv, TypeOK
    <2> QED
      BY <1>0, <1>1, <2>2, <2>3, <2>4 DEF TargetsStarted
  <1>4. ASSUME NEW j \in Jobs,
               Call(j) \/ CancelSlot(j) \/ Send(j) \/ SendOnClosed(j) \/ GiveUp(j) \/ TakeAnswer(j)
        PROVE  (\A s \in Jobs : pc'[s] = "cancelling" => pc[s] = "cancelling") /\ UNCHANGED stopSlot
    BY <1>4 DEF Call, CancelSlot, Send, SendOnClosed, GiveUp, TakeAnswer, IInv, TypeOK
  <1>5. ASSUME \/ \E w \in Workers : RunWorker(w) \/ CloseChan(w)
               \/ CancelRoot
               \/ UNCHANGED poolVars
        PROVE  UNCHANGED <<pc, stopSlot>>
    BY <1>5 DEF RunWorker, Receive, FactoryFails, StartTurn, EndTurn, Reply, LeaveLoop, ClearInflight,
                Exit, CancelRoot, CloseChan, poolVars, callerVars
  <1> QED
    BY <1>2, <1>3, <1>4, <1>5 DEF AnyStep, SubmitUser

\* turnCancel is called by the /stop that holds the slot, or by the call that returns.
LEMMA CancelledStep ==
    IInv /\ TargetsStarted /\ CancelledByStop /\ [AnyStep]_poolVars => CancelledByStop'
  <1> SUFFICES ASSUME IInv, TargetsStarted, CancelledByStop, [AnyStep]_poolVars
               PROVE  CancelledByStop'
    OBVIOUS
  <1>0. \A j \in Jobs : /\ Started(j) => Started(j)'
                        /\ pc[j] # "new" => pc'[j] # "new"
                        /\ pc[j] = "returned" => pc'[j] = "returned"
    BY StepKeeps
  <1>1. cancelled \subseteq Jobs /\ StopJobs \subseteq Jobs
    BY PoolAssumption DEF IInv, TypeOK
  <1>2. ASSUME NEW j \in cancelled
        PROVE  \/ pc'[j] = "returned"
               \/ Started(j)' /\ \E s \in StopJobs : s # j /\ pc'[s] # "new" /\ SessionOf[s] = SessionOf[j]
    BY <1>0, <1>1, <1>2 DEF CancelledByStop
  <1>3. CASE UNCHANGED cancelled
    BY <1>2, <1>3 DEF CancelledByStop
  <1>4. ASSUME NEW s \in Jobs, CancelSlot(s), NEW j \in cancelled', j \notin cancelled
        PROVE  Started(j)' /\ s \in StopJobs /\ s # j /\ pc'[s] # "new" /\ SessionOf[s] = SessionOf[j]
    <2>1. j = stopSlot[s] /\ j # None /\ pc[s] = "cancelling"
      BY <1>4 DEF CancelSlot
    <2> QED
      BY <1>0, <2>1 DEF TargetsStarted, IInv, TypeOK
  <1>5. ASSUME NEW i \in Jobs, GiveUp(i) \/ TakeAnswer(i)
        PROVE  cancelled' = cancelled \cup {i} /\ pc'[i] = "returned"
    BY <1>5 DEF GiveUp, TakeAnswer, IInv, TypeOK
  <1>6. ASSUME NEW s \in Jobs, CancelSlot(s)
        PROVE  CancelledByStop'
    BY <1>2, <1>4, <1>6 DEF CancelledByStop
  <1>7. ASSUME NEW i \in Jobs, GiveUp(i) \/ TakeAnswer(i)
        PROVE  CancelledByStop'
    BY <1>2, <1>5, <1>7 DEF CancelledByStop
  <1> QED
    BY <1>3, <1>6, <1>7
       DEF AnyStep, SubmitUser, RunWorker, Receive, FactoryFails, StartTurn, EndTurn, Reply, LeaveLoop,
           ClearInflight, Exit, Call, LookupInflight, Send, SendOnClosed, CancelRoot, CloseChan,
           poolVars, callerVars

\* At the start nothing is sent, registered, looked up or cancelled.
LEMMA StopInit == Init => StopInv
  BY EmptyElems DEF Init, StopInv, SeenAreSent, EntriesStarted, TargetsStarted, CancelledByStop

\* StopInv is inductive on top of IInv.
LEMMA StopStep == IInv /\ StopInv /\ [AnyStep]_poolVars => StopInv'
  BY SeenStep, EntriesStep, TargetsStep, CancelledStep DEF StopInv

\* A call that has not returned was cancelled by a /stop.
LEMMA InvStop == IInv /\ StopInv => StopReachesOnlyStartedTurns
  BY DEF StopInv, CancelledByStop, StopReachesOnlyStartedTurns

-----------------------------------------------------------------------------
(* The refinement of SessionTurns: a send is Accept, a receive is Start,   *)
(* an answer is Finish, and every other step is a stutter.                 *)

\* Only calls that were sent are answered.
AnsweredAreSent == \A j \in finished : Sent(j)

\* A worker answers the job it holds, which was sent.
LEMMA AnsweredStep == IInv /\ SeenAreSent /\ AnsweredAreSent /\ [AnyStep]_poolVars => AnsweredAreSent'
  <1> SUFFICES ASSUME IInv, SeenAreSent, AnsweredAreSent, [AnyStep]_poolVars, NEW j \in finished'
               PROVE  Sent(j)'
    BY DEF AnsweredAreSent
  <1>1. j \in finished \/ \E w \in Workers : cur[w] = j /\ j # None
    <2>1. ASSUME NEW w \in Workers, Reply(w), wpc[w] \in {"factory", "turn"}
          PROVE  j \in finished \/ (cur[w] = j /\ j # None)
      BY <2>1 DEF Reply, IInv, Holding
    <2>2. ASSUME UNCHANGED finished
          PROVE  j \in finished
      BY <2>2
    <2> QED
      BY <2>1, <2>2 DEF AnyStep, SubmitUser, RunWorker, Receive, FactoryFails, StartTurn, EndTurn, LeaveLoop,
           ClearInflight, Exit, Call, LookupInflight, CancelSlot, Send, SendOnClosed, GiveUp, TakeAnswer,
           CancelRoot, CloseChan, poolVars, workerVars
  <1>2. Sent(j) /\ j \in Jobs
    BY <1>1 DEF AnsweredAreSent, SeenAreSent, IInv, TypeOK
  <1> QED
    BY <1>2, StepKeeps

\* The state of the abstract specification.
OfSession(k)   == {j \in Jobs : SessionOf[j] = k}
PendingTurns   == [k \in Sessions |-> PendingOf(k)]
RunningTurns   == [k \in Sessions |-> RunningOf(k)]

\* A job in the queue of its session is in the channel of its shard.
LEMMA PendingIsQueued ==
    ASSUME TypeOK, NEW k \in Sessions
    PROVE  /\ PendingOf(k) \in Seq(Jobs)
           /\ Elems(PendingOf(k)) \subseteq Elems(chans[ShardOf[k]])
  <1>1. chans[ShardOf[k]] \in Seq(Jobs)
    BY PoolAssumption DEF TypeOK
  <1> QED
    BY <1>1, KeptType, KeptElements DEF PendingOf

\* A job is accepted when it is sent: it was not before, so it is new to its session's turns.
LEMMA SendIsAccept ==
    ASSUME IInv, SeenAreSent, AnsweredAreSent, NEW j \in Jobs, Send(j)
    PROVE  Turns!Accept(j)
  <1> DEFINE k == SessionOf[j]
             w == Shard(j)
  <1>1. k \in Sessions /\ w \in Workers /\ w = ShardOf[k] /\ chans[w] \in Seq(Jobs)
    BY PoolAssumption DEF Shard, IInv, TypeOK
  <1>2. ~ Sent(j)
    BY DEF Send, Sent
  <1>3. ~ Turns!Pending(j)
    <2>1. j \notin Elems(chans[w])
      BY <1>1, <1>2 DEF SeenAreSent
    <2>2. j \notin Elems(PendingOf(k))
      BY <1>1, <2>1, PendingIsQueued DEF IInv
    <2>3. PendingOf(k) \in Seq(Jobs)
      BY <1>1, PendingIsQueued DEF IInv
    <2>4. \A i \in DOMAIN PendingOf(k) : PendingOf(k)[i] # j
      BY <2>2, <2>3 DEF Elems
    <2> QED
      BY <1>1, <2>4 DEF Turns!Pending
  <1>4. RunningOf(k) # j /\ j \notin finished
    BY <1>1, <1>2, PoolAssumption DEF RunningOf, SeenAreSent, AnsweredAreSent
  <1>5. ASSUME NEW i \in Sessions
        PROVE  PendingOf(i)' = IF i = k THEN Append(PendingOf(i), j) ELSE PendingOf(i)
    <2>1. CASE ShardOf[i] = w
      <3>1. chans'[w] = Append(chans[w], j)
        BY <1>1 DEF Send, Enqueue, IInv, TypeOK
      <3>2. Kept(Append(chans[w], j), OfSession(i)) =
              IF j \in OfSession(i) THEN Append(Kept(chans[w], OfSession(i)), j) ELSE Kept(chans[w], OfSession(i))
        BY <1>1, KeptOfAppend
      <3> QED
        BY <2>1, <3>1, <3>2 DEF PendingOf, OfSession
    <2>2. CASE ShardOf[i] # w
      <3>1. chans'[ShardOf[i]] = chans[ShardOf[i]]
        BY <1>1, <2>2, PoolAssumption DEF Send, IInv, TypeOK
      <3> QED
        BY <1>1, <2>2, <3>1 DEF PendingOf
    <2> QED
      BY <2>1, <2>2
  <1>6. PendingTurns' = [PendingTurns EXCEPT ![k] = Append(@, j)]
    BY <1>1, <1>5 DEF PendingTurns
  <1>7. UNCHANGED <<RunningTurns, finished>>
    BY DEF Send, workerVars, RunningTurns, RunningOf
  <1> QED
    BY <1>1, <1>3, <1>4, <1>6, <1>7 DEF Turns!Accept, PendingTurns, RunningTurns

\* The job a worker receives is the oldest of its session, whatever other sessions share the
\* channel, and the session has no turn: it would be at this worker.
LEMMA ReceiveIsStart ==
    ASSUME IInv, NEW w \in Workers, Receive(w)
    PROVE  \E k \in Sessions : Turns!Start(k)
  <1>1. chans[w] \in Seq(Jobs) /\ chans[w] # <<>>
    BY DEF IInv, TypeOK, Receive
  <1>2. PICK j \in Jobs : j = Head(chans[w]) /\ j \in Elems(chans[w])
    BY <1>1, TailFacts
  <1>3. PICK k \in Sessions : k = SessionOf[j] /\ ShardOf[k] = w
    BY <1>2, PoolAssumption DEF IInv, Placement, Shard
  <1>4. cur[w] = None /\ cur' = [cur EXCEPT ![w] = j] /\ cur \in [Workers -> Jobs \cup {None}]
    BY <1>2 DEF IInv, TypeOK, Holding, Receive
  <1>5. RunningOf(k) = None
    BY <1>3, <1>4 DEF RunningOf
  <1>6. ASSUME NEW i \in Sessions
        PROVE  /\ i = k => PendingOf(i) = <<j>> \o PendingOf(i)'
               /\ i # k => PendingOf(i)' = PendingOf(i)
    <2>1. CASE ShardOf[i] = w
      <3>1. chans'[w] = Tail(chans[w])
        BY DEF Receive, IInv, TypeOK
      <3>2. Kept(chans[w], OfSession(i)) =
              IF j \in OfSession(i) THEN <<j>> \o Kept(Tail(chans[w]), OfSession(i))
                                    ELSE Kept(Tail(chans[w]), OfSession(i))
        BY <1>1, <1>2, KeptOfTail
      <3> QED
        BY <1>2, <1>3, <2>1, <3>1, <3>2 DEF PendingOf, OfSession
    <2>2. CASE ShardOf[i] # w
      <3>1. chans'[ShardOf[i]] = chans[ShardOf[i]]
        BY <2>2, PoolAssumption DEF Receive, IInv, TypeOK
      <3> QED
        BY <1>3, <2>2, <3>1 DEF PendingOf
    <2> QED
      BY <2>1, <2>2
  <1>7. PendingOf(k)' \in Seq(Jobs)
    <2>1. TypeOK'
      BY TypeStep DEF IInv, AnyStep, RunWorker
    <2>2. chans'[w] \in Seq(Jobs)
      BY <2>1 DEF TypeOK
    <2>3. PendingOf(k)' = Kept(chans'[w], OfSession(k))
      BY <1>3 DEF PendingOf, OfSession
    <2> QED
      BY <2>2, <2>3, KeptType
  <1>8. PendingOf(k) # <<>> /\ Head(PendingOf(k)) = j /\ Tail(PendingOf(k)) = PendingOf(k)'
    <2>1. PendingOf(k) = <<j>> \o PendingOf(k)'
      BY <1>3, <1>6
    <2> QED
      BY <1>2, <1>7, <2>1, ConsFacts
  <1>9. PendingTurns' = [PendingTurns EXCEPT ![k] = Tail(@)]
    <2>1. \A i \in Sessions : PendingOf(i)' = IF i = k THEN Tail(PendingOf(i)) ELSE PendingOf(i)
      BY <1>6, <1>8
    <2> QED
      BY <1>3, <2>1 DEF PendingTurns
  <1>10. \A i \in Sessions : RunningOf(i)' = IF i = k THEN j ELSE RunningOf(i)
    BY <1>2, <1>3, <1>4, PoolAssumption DEF RunningOf
  <1>11. RunningTurns' = [RunningTurns EXCEPT ![k] = Head(PendingOf(k))]
    BY <1>3, <1>8, <1>10 DEF RunningTurns
  <1>12. finished' = finished
    BY DEF Receive
  <1> QED
    BY <1>3, <1>5, <1>8, <1>9, <1>11, <1>12 DEF Turns!Start, PendingTurns, RunningTurns

\* An answer ends the turn of the job's session and of no other.
LEMMA ReplyIsFinish ==
    ASSUME IInv, NEW w \in Workers, wpc[w] \in {"factory", "turn"}, Reply(w)
    PROVE  Turns!Finish(SessionOf[cur[w]])
  <1> DEFINE j == cur[w]
             k == SessionOf[j]
  <1>1. j \in Jobs /\ cur \in [Workers -> Jobs \cup {None}]
    BY DEF IInv, TypeOK, Holding
  <1>2. k \in Sessions /\ ShardOf[k] = w /\ j # None
    BY <1>1, PoolAssumption DEF IInv, Placement, Shard
  <1>3. cur' = [cur EXCEPT ![w] = None] /\ finished' = finished \cup {j} /\ chans' = chans
    BY DEF Reply
  <1>4. RunningOf(k) = j
    BY <1>2 DEF RunningOf
  <1>5. \A i \in Sessions : RunningOf(i)' = IF i = k THEN None ELSE RunningOf(i)
    BY <1>1, <1>2, <1>3, PoolAssumption DEF RunningOf
  <1>6. RunningTurns' = [RunningTurns EXCEPT ![k] = None]
    BY <1>2, <1>5 DEF RunningTurns
  <1>7. PendingTurns' = PendingTurns
    BY <1>3 DEF PendingTurns, PendingOf
  <1> QED
    BY <1>2, <1>3, <1>4, <1>6, <1>7 DEF Turns!Finish, PendingTurns, RunningTurns

\* Every step of the pool is a step of SessionTurns or leaves its state alone.
LEMMA StepIsTurnStep ==
    IInv /\ SeenAreSent /\ AnsweredAreSent /\ [AnyStep]_poolVars => [Turns!Next]_(Turns!vars)
  <1> SUFFICES ASSUME IInv, SeenAreSent, AnsweredAreSent, [AnyStep]_poolVars
               PROVE  Turns!Next \/ UNCHANGED Turns!vars
    OBVIOUS
  <1>1. ASSUME NEW j \in Jobs, Send(j)
        PROVE  Turns!Next
    BY <1>1, SendIsAccept DEF Turns!Next
  <1>2. ASSUME NEW w \in Workers, Receive(w)
        PROVE  Turns!Next
    BY <1>2, ReceiveIsStart DEF Turns!Next
  <1>3. ASSUME NEW w \in Workers, wpc[w] \in {"factory", "turn"}, Reply(w)
        PROVE  Turns!Next
    <2>1. SessionOf[cur[w]] \in Sessions
      BY <1>3, PoolAssumption DEF IInv, TypeOK, Holding
    <2> QED
      BY <1>3, <2>1, ReplyIsFinish DEF Turns!Next
  <1>4. ASSUME UNCHANGED <<chans, cur, finished>>
        PROVE  UNCHANGED Turns!vars
    BY <1>4 DEF Turns!vars, PendingOf, RunningOf
  <1>5. ASSUME NEW j \in Jobs, \/ Call(j) \/ LookupInflight(j) \/ CancelSlot(j)
                               \/ SendOnClosed(j) \/ GiveUp(j) \/ TakeAnswer(j)
        PROVE  UNCHANGED <<chans, cur, finished>>
    BY <1>5 DEF Call, LookupInflight, CancelSlot, SendOnClosed, GiveUp, TakeAnswer, workerVars
  <1>6. ASSUME NEW w \in Workers, \/ StartTurn(w) \/ LeaveLoop(w) \/ ClearInflight(w) \/ Exit(w)
                                  \/ CloseChan(w) \/ CancelRoot \/ UNCHANGED poolVars
        PROVE  UNCHANGED <<chans, cur, finished>>
    BY <1>6 DEF StartTurn, LeaveLoop, ClearInflight, Exit, CloseChan, CancelRoot, poolVars, workerVars
  <1>7. ASSUME CancelRoot \/ UNCHANGED poolVars
        PROVE  UNCHANGED <<chans, cur, finished>>
    BY <1>7 DEF CancelRoot, poolVars, workerVars
  <1> QED
    BY <1>1, <1>2, <1>3, <1>4, <1>5, <1>6, <1>7
       DEF AnyStep, SubmitUser, RunWorker, FactoryFails, EndTurn

\* No channel has a job at the start.
LEMMA InitIsTurnInit == Init => Turns!Init
  <1> SUFFICES ASSUME Init
               PROVE  Turns!Init
    OBVIOUS
  <1>1. \A k \in Sessions : PendingOf(k) = <<>> /\ RunningOf(k) = None
    BY KeptOfEmpty, PoolAssumption DEF Init, PendingOf, RunningOf
  <1> QED
    BY <1>1 DEF Init, Turns!Init

-----------------------------------------------------------------------------
(* What the pool guarantees.                                               *)

\* Every variable keeps its type and no shard's channel ever holds more than its capacity.
THEOREM TypeCorrect == Spec => []TypeOK
  <1>1. IInv => TypeOK
    BY DEF IInv
  <1> QED
    BY <1>1, InvAlways, PTL

\* runWorker: two turns of one session never overlap, however the sessions are sharded.
THEOREM Exclusion == Spec => []SessionMutex
  BY InvMutex, InvAlways, PTL

\* setInflightTurnCancel: the running turn of a session is the one its /stop finds, whatever
\* stale entries and pending clears earlier turns have left.
THEOREM Stoppable == Spec => []RunningTurnIsStoppable
  <1>1. IInv => RunningTurnIsStoppable
    BY DEF IInv
  <1> QED
    BY <1>1, InvAlways, PTL

\* The deferred clearInflightTurnCancel calls: no entry outlives the workers.
THEOREM EmptyAfterExit == Spec => []InflightEmptyAfterExit
  BY InvEmpty, InvAlways, PTL

\* CancelInflightTurn and its stale slot: a /stop cancels a turn of its own session that a
\* worker has taken, and never a queued message, another session or its own acknowledgement.
THEOREM StopIsAimed == Spec => []StopReachesOnlyStartedTurns
  <1>1. Spec => []StopInv
    BY InvAlways, StopInit, StopStep, NextIsAnyStep, PTL DEF Spec
  <1> QED
    BY <1>1, InvAlways, InvStop, PTL

\* docs/config.md, "sessions.worker_count", for any sessions, shards and capacity: a session's
\* turns run one at a time, in the order of their sends, once each.
THEOREM TurnsAreKept == Spec => ImplementsSessionTurns
  <1>1. Init => SeenAreSent /\ AnsweredAreSent
    BY StopInit DEF StopInv, Init, AnsweredAreSent
  <1>2. IInv /\ SeenAreSent /\ AnsweredAreSent /\ [Next]_poolVars => (SeenAreSent /\ AnsweredAreSent)'
    BY SeenStep, AnsweredStep, NextIsAnyStep
  <1>3. IInv /\ SeenAreSent /\ AnsweredAreSent /\ [Next]_poolVars => [Turns!Next]_(Turns!vars)
    BY StepIsTurnStep, NextIsAnyStep
  <1> QED
    BY <1>1, <1>2, <1>3, InvAlways, InitIsTurnInit, PTL DEF Spec, ImplementsSessionTurns, Turns!Spec

=============================================================================
