--------------------------- MODULE DispatchProofs ---------------------------
(***************************************************************************)
(* Proofs about Dispatch for every number of workers and handlers, every   *)
(* capacity of the channel and every bound on the jobs.                    *)
(*                                                                         *)
(* The buffer always holds the newest jobs in order (QueueOk), so the jobs *)
(* up to Taken are exactly those in hands and those finished (TakenOk).    *)
(* A worker that finished job j has empty hands or took a later job since, *)
(* and hands only ever receive jobs newer than all before: so for every    *)
(* finished j there is a worker whose hand is past j (AheadOk), and only   *)
(* the others can hold jobs that j overtook.                               *)
(***************************************************************************)
EXTENDS Dispatch, FiniteSetTheorems, TLAPS

\* The newest job that has left the buffer.
Taken == accepted - Len(queue)

QueueOk ==
    /\ Len(queue) <= accepted
    /\ \A i \in 1..Len(queue) : queue[i] = Taken + i

HandOk ==
    /\ \A w \in Workers : hand[w] <= Taken
    /\ \A w \in Workers : hand[w] # 0 <=> worker[w] = "busy"
    /\ \A v, w \in Workers : v # w /\ hand[v] = hand[w] => hand[v] = 0

TakenOk ==
    /\ \A j \in finished : j \in 1..Taken
    /\ \A w \in Workers : hand[w] \notin finished
    /\ \A j \in 1..Taken : j \in finished \/ \E w \in Workers : hand[w] = j

AheadOk ==
    \A j \in finished : \E w \in Workers : hand[w] = 0 \/ hand[w] > j

RunningSet == {w \in Workers : worker[w] \in Running}
CountOk == count = Cardinality(RunningSet)

PhaseOk ==
    /\ closed <=> main # "serving"
    /\ \A w \in Workers : worker[w] = "done" => closed /\ queue = <<>>

IInv == TypeOK /\ QueueOk /\ HandOk /\ TakenOk /\ AheadOk /\ CountOk /\ PhaseOk

-----------------------------------------------------------------------------
(***************************************************************************)
(* Next, sorted by what its actions touch: the senders and the shutdown    *)
(* leave the workers alone, and each worker's step is a case of its own.   *)
(***************************************************************************)
SenderStep(h) ==
    (\E k \in 1..MaxFan : Send(h, k)) \/ Enqueue(h) \/ EnqueuePanics(h)
WorkerStep(w) == Start(w) \/ Receive(w) \/ Finish(w) \/ Leave(w)
MainStep == CloseChannel \/ Wait \/ Wake \/ Exit

\* Every step is a sender's, a worker's, main's, or a stutter.
LEMMA NextCases ==
    ASSUME [Next]_vars
    PROVE  \/ \E h \in Handlers : SenderStep(h)
           \/ \E w \in Workers : WorkerStep(w)
           \/ MainStep
           \/ UNCHANGED vars
BY DEF Next, SenderStep, WorkerStep, MainStep, Terminated

\* The initial state satisfies the inductive invariant.
LEMMA InitIInv == Init => IInv
<1> SUFFICES ASSUME Init PROVE IInv
  OBVIOUS
<1> USE DispatchAssumption DEF Init
<1>1. TypeOK
  <2>1. queue = <<>> /\ queue \in Seq(Nat) /\ Len(queue) = 0
    OBVIOUS
  <2>2. 0 <= Cap
    OBVIOUS
  <2>3. /\ todo \in [Handlers -> Nat]
        /\ worker \in [Workers -> {"new", "done"} \cup Running]
        /\ hand \in [Workers -> Nat]
    OBVIOUS
  <2>. QED
    BY <2>1, <2>2, <2>3 DEF TypeOK
<1>2. QueueOk /\ HandOk /\ TakenOk /\ AheadOk
  BY DEF QueueOk, HandOk, TakenOk, AheadOk, Taken
<1>3. CountOk
  <2>1. RunningSet = {}
    BY DEF RunningSet, Running
  <2>. QED
    BY <2>1, FS_EmptySet DEF CountOk
<1>4. PhaseOk
  BY DEF PhaseOk
<1>. QED
  BY <1>1, <1>2, <1>3, <1>4 DEF IInv

\* The set of running workers is finite, and empty only if count is 0.
LEMMA RunningFinite ==
    ASSUME CountOk
    PROVE  /\ IsFiniteSet(RunningSet)
           /\ count \in Nat
           /\ count = 0 <=> RunningSet = {}
<1>1. IsFiniteSet(RunningSet)
  BY DispatchAssumption, FS_Subset DEF RunningSet
<1>. QED
  BY <1>1, FS_CardinalityType, FS_EmptySet DEF CountOk

\* A running worker is counted.
LEMMA RunningCounts ==
    ASSUME CountOk, NEW w \in Workers, worker[w] \in Running
    PROVE  count > 0
<1>1. w \in RunningSet
  BY DEF RunningSet
<1>. QED
  BY <1>1, RunningFinite

-----------------------------------------------------------------------------
\* The steps of senders and of main, and stutters, keep the types.
LEMMA TypeOthers ==
    ASSUME TypeOK,
           (\E h \in Handlers : SenderStep(h)) \/ MainStep \/ UNCHANGED vars
    PROVE  TypeOK'
<1> USE DispatchAssumption
    DEF TypeOK, channelVars, senderVars, workerVars, vars
<1>1. ASSUME NEW h \in Handlers, NEW k \in 1..MaxFan, Send(h, k)
      PROVE  TypeOK'
  BY <1>1 DEF Send
<1>2. ASSUME NEW h \in Handlers, Enqueue(h)
      PROVE  TypeOK'
  <2>1. queue' \in Seq(Nat) /\ Len(queue') = Len(queue) + 1
    BY <1>2 DEF Enqueue
  <2>. QED
    BY <1>2, <2>1 DEF Enqueue
<1>3. ASSUME NEW h \in Handlers, EnqueuePanics(h)
      PROVE  TypeOK'
  BY <1>3 DEF EnqueuePanics
<1>4. CASE MainStep
  BY <1>4 DEF MainStep, CloseChannel, Wait, Wake, Exit
<1>5. CASE UNCHANGED vars
  BY <1>5
<1>. QED
  BY <1>1, <1>2, <1>3, <1>4, <1>5 DEF SenderStep

\* The steps of workers keep the types; count stays natural because a
\* worker that leaves was counted.
LEMMA TypeWorkers ==
    ASSUME TypeOK, CountOk, NEW w \in Workers, WorkerStep(w)
    PROVE  TypeOK'
<1> USE DispatchAssumption
    DEF TypeOK, channelVars, senderVars, workerVars, Running
<1>1. CASE Start(w)
  BY <1>1 DEF Start
<1>2. CASE Receive(w)
  <2>1. Head(queue) \in Nat /\ Tail(queue) \in Seq(Nat)
        /\ Len(Tail(queue)) <= Cap
    BY <1>2 DEF Receive
  <2>. QED
    BY <1>2, <2>1 DEF Receive
<1>3. CASE Finish(w)
  BY <1>3 DEF Finish
<1>4. CASE Leave(w)
  <2>1. count - 1 \in Nat
    BY <1>4, RunningCounts DEF Leave
  <2>. QED
    BY <1>4, <2>1 DEF Leave
<1>. QED
  BY <1>1, <1>2, <1>3, <1>4 DEF WorkerStep

-----------------------------------------------------------------------------
\* The buffer keeps holding the newest jobs in order.
LEMMA QueueStep ==
    ASSUME TypeOK, QueueOk, [Next]_vars
    PROVE  QueueOk'
<1> USE DEF TypeOK, QueueOk, Taken, channelVars, senderVars, workerVars
<1>1. ASSUME NEW h \in Handlers, Enqueue(h)
      PROVE  QueueOk'
  <2>1. /\ queue' = Append(queue, accepted + 1)
        /\ accepted' = accepted + 1
    BY <1>1 DEF Enqueue
  <2>2. Len(queue') = Len(queue) + 1
    BY <2>1
  <2>3. \A i \in 1..Len(queue) : queue'[i] = queue[i]
    BY <2>1
  <2>4. queue'[Len(queue) + 1] = accepted + 1
    BY <2>1
  <2>. QED
    BY <2>1, <2>2, <2>3, <2>4
<1>2. ASSUME NEW w \in Workers, Receive(w)
      PROVE  QueueOk'
  <2>1. queue # <<>> /\ queue' = Tail(queue) /\ accepted' = accepted
    BY <1>2 DEF Receive
  <2>2. Len(queue') = Len(queue) - 1
    BY <2>1
  <2>3. \A i \in 1..Len(queue') : queue'[i] = queue[i + 1]
    BY <2>1
  <2>. QED
    BY <2>1, <2>2, <2>3
<1>3. CASE UNCHANGED <<queue, accepted>>
  BY <1>3
<1>4. CASE UNCHANGED vars
  BY <1>4, <1>3 DEF vars
<1>. QED
  BY <1>1, <1>2, <1>3, <1>4, NextCases
     DEF SenderStep, WorkerStep, MainStep, Send, EnqueuePanics, Start,
         Finish, Leave, CloseChannel, Wait, Wake, Exit

\* What a worker takes is the job after the newest one taken so far.
LEMMA ReceiveTakesNext ==
    ASSUME TypeOK, QueueOk, NEW w \in Workers, Receive(w)
    PROVE  /\ Taken \in Nat
           /\ hand' = [hand EXCEPT ![w] = Taken + 1]
           /\ Taken' = Taken + 1
<1>1. queue # <<>> /\ queue' = Tail(queue) /\ accepted' = accepted
  BY DEF Receive
<1>2. Len(queue) >= 1 /\ Len(queue') = Len(queue) - 1
  BY <1>1 DEF TypeOK
<1>3. Head(queue) = Taken + 1
  BY <1>1, <1>2 DEF QueueOk, TypeOK
<1>4. Taken \in Nat /\ Taken' = Taken + 1
  BY <1>1, <1>2 DEF Taken, TypeOK, QueueOk
<1>. QED
  BY <1>3, <1>4 DEF Receive

\* Nothing but Receive changes Taken.
LEMMA TakenOthers ==
    ASSUME TypeOK, QueueOk, [Next]_vars,
           \A w \in Workers : ~Receive(w)
    PROVE  Taken' = Taken /\ Taken \in Nat
<1> USE DEF TypeOK, QueueOk, Taken, channelVars, senderVars, workerVars
<1>1. ASSUME NEW h \in Handlers, Enqueue(h)
      PROVE  Taken' = Taken
  BY <1>1 DEF Enqueue
<1>2. CASE UNCHANGED <<queue, accepted>>
  BY <1>2
<1>3. CASE UNCHANGED vars
  BY <1>3 DEF vars
<1>4. Taken \in Nat
  OBVIOUS
<1>. QED
  BY <1>1, <1>2, <1>3, <1>4, NextCases
     DEF SenderStep, WorkerStep, MainStep, Send, EnqueuePanics, Start,
         Finish, Leave, CloseChannel, Wait, Wake, Exit

\* Only Receive and Finish change hands, finished, or who is busy.
LEMMA HandsOthers ==
    ASSUME TypeOK, [Next]_vars,
           \A w \in Workers : ~Receive(w) /\ ~Finish(w)
    PROVE  /\ hand' = hand /\ finished' = finished
           /\ \A w \in Workers : worker'[w] = "busy" <=> worker[w] = "busy"
<1> USE DEF TypeOK, Running, channelVars, senderVars, workerVars
<1>1. CASE \E h \in Handlers : SenderStep(h)
  BY <1>1 DEF SenderStep, Send, Enqueue, EnqueuePanics
<1>2. ASSUME NEW w \in Workers, Start(w) \/ Leave(w)
      PROVE  /\ hand' = hand /\ finished' = finished
             /\ \A v \in Workers : worker'[v] = "busy" <=> worker[v] = "busy"
  BY <1>2 DEF Start, Leave
<1>3. CASE MainStep
  BY <1>3 DEF MainStep, CloseChannel, Wait, Wake, Exit
<1>4. CASE UNCHANGED vars
  BY <1>4 DEF vars
<1>. QED
  BY <1>1, <1>2, <1>3, <1>4, NextCases DEF WorkerStep

-----------------------------------------------------------------------------
DataOk == HandOk /\ TakenOk /\ AheadOk

\* Hands, finished jobs and the jobs taken keep fitting together.
LEMMA DataStep ==
    ASSUME TypeOK, QueueOk, DataOk, [Next]_vars
    PROVE  DataOk'
<1> USE DEF TypeOK, DataOk
<1>1. ASSUME NEW w \in Workers, Receive(w)
      PROVE  DataOk'
  <2>1. /\ Taken \in Nat /\ Taken' = Taken + 1
        /\ hand' = [hand EXCEPT ![w] = Taken + 1]
        /\ finished' = finished
        /\ worker' = [worker EXCEPT ![w] = "busy"]
        /\ hand[w] = 0
    BY <1>1, ReceiveTakesNext DEF Receive, HandOk
  <2>2. HandOk'
    BY <2>1 DEF HandOk
  <2>3. TakenOk'
    BY <2>1 DEF TakenOk, HandOk
  <2>4. AheadOk'
    <3> SUFFICES ASSUME NEW j \in finished
                 PROVE  hand'[w] > j
      BY <2>1 DEF AheadOk
    <3>. QED
      BY <2>1 DEF TakenOk
  <2>. QED
    BY <2>2, <2>3, <2>4
<1>2. ASSUME NEW w \in Workers, Finish(w)
      PROVE  DataOk'
  <2>1. \A v \in Workers : ~Receive(v)
    BY <1>2 DEF Finish, Receive
  <2>2. Taken' = Taken /\ Taken \in Nat
    <3>1. [Next]_vars
      OBVIOUS
    <3>. QED
      BY <2>1, <3>1, TakenOthers
  <2>3. /\ hand' = [hand EXCEPT ![w] = 0]
        /\ finished' = finished \cup {hand[w]}
        /\ worker' = [worker EXCEPT ![w] = "recv"]
        /\ hand[w] # 0 /\ hand[w] \in 1..Taken
    BY <1>2, <2>2 DEF Finish, HandOk
  <2>4. HandOk'
    BY <2>2, <2>3 DEF HandOk
  <2>5. TakenOk'
    BY <2>2, <2>3 DEF TakenOk, HandOk
  <2>6. AheadOk'
    BY <2>3 DEF AheadOk
  <2>. QED
    BY <2>4, <2>5, <2>6
<1>3. CASE \A w \in Workers : ~Receive(w) /\ ~Finish(w)
  <2>1. /\ Taken' = Taken /\ hand' = hand /\ finished' = finished
        /\ \A w \in Workers : worker'[w] = "busy" <=> worker[w] = "busy"
    BY <1>3, TakenOthers, HandsOthers
  <2>. QED
    BY <2>1 DEF HandOk, TakenOk, AheadOk
<1>. QED
  BY <1>1, <1>2, <1>3

-----------------------------------------------------------------------------
\* count is the number of running workers.
LEMMA CountStep ==
    ASSUME TypeOK, CountOk, [Next]_vars
    PROVE  CountOk'
<1> USE DEF TypeOK, Running, channelVars, senderVars, workerVars
<1>1. IsFiniteSet(RunningSet)
  BY RunningFinite
<1>2. ASSUME NEW w \in Workers, Start(w)
      PROVE  CountOk'
  <2>1. RunningSet' = RunningSet \cup {w} /\ w \notin RunningSet
    BY <1>2 DEF Start, RunningSet
  <2>2. Cardinality(RunningSet \cup {w}) = Cardinality(RunningSet) + 1
    BY <1>1, <2>1, FS_AddElement
  <2>. QED
    BY <1>2, <2>1, <2>2 DEF Start, CountOk
<1>3. ASSUME NEW w \in Workers, Leave(w)
      PROVE  CountOk'
  <2>1. RunningSet' = RunningSet \ {w} /\ w \in RunningSet
    BY <1>3 DEF Leave, RunningSet
  <2>2. Cardinality(RunningSet \ {w}) = Cardinality(RunningSet) - 1
    BY <1>1, <2>1, FS_RemoveElement
  <2>. QED
    BY <1>3, <2>1, <2>2 DEF Leave, CountOk
<1>4. ASSUME NEW w \in Workers, Receive(w) \/ Finish(w)
      PROVE  CountOk'
  <2>1. RunningSet' = RunningSet /\ count' = count
    BY <1>4 DEF Receive, Finish, RunningSet
  <2>. QED
    BY <2>1 DEF CountOk
<1>5. ASSUME UNCHANGED <<worker, count>>
      PROVE  CountOk'
  BY <1>5 DEF CountOk, RunningSet
<1>6. ASSUME NEW h \in Handlers, SenderStep(h)
      PROVE  UNCHANGED <<worker, count>>
  BY <1>6 DEF SenderStep, Send, Enqueue, EnqueuePanics
<1>7. ASSUME MainStep \/ UNCHANGED vars
      PROVE  UNCHANGED <<worker, count>>
  BY <1>7 DEF MainStep, CloseChannel, Wait, Wake, Exit, vars
<1>. QED
  BY <1>2, <1>3, <1>4, <1>5, <1>6, <1>7, NextCases DEF WorkerStep

\* A worker leaves only once the channel is closed and drained for good.
LEMMA PhaseStep ==
    ASSUME TypeOK, PhaseOk, [Next]_vars
    PROVE  PhaseOk'
<1> USE DEF TypeOK, PhaseOk, Running, channelVars, senderVars, workerVars
<1>1. ASSUME NEW h \in Handlers, SenderStep(h)
      PROVE  PhaseOk'
  BY <1>1 DEF SenderStep, Send, Enqueue, EnqueuePanics
<1>2. ASSUME NEW w \in Workers, Start(w) \/ Finish(w)
      PROVE  PhaseOk'
  BY <1>2 DEF Start, Finish
<1>3. ASSUME NEW w \in Workers, Receive(w)
      PROVE  PhaseOk'
  BY <1>3 DEF Receive
<1>4. ASSUME NEW w \in Workers, Leave(w)
      PROVE  PhaseOk'
  BY <1>4 DEF Leave
<1>5. CASE MainStep
  BY <1>5 DEF MainStep, CloseChannel, Wait, Wake, Exit
<1>6. CASE UNCHANGED vars
  BY <1>6 DEF vars
<1>. QED
  BY <1>1, <1>2, <1>3, <1>4, <1>5, <1>6, NextCases DEF WorkerStep

\* Every step preserves the inductive invariant.
LEMMA NextIInv == IInv /\ [Next]_vars => IInv'
<1> SUFFICES ASSUME IInv, [Next]_vars PROVE IInv'
  OBVIOUS
<1>1. TypeOK'
  BY TypeOthers, TypeWorkers, NextCases DEF IInv
<1>2. QueueOk' /\ CountOk' /\ PhaseOk'
  BY QueueStep, CountStep, PhaseStep DEF IInv
<1>3. HandOk' /\ TakenOk' /\ AheadOk'
  BY DataStep DEF IInv, DataOk
<1>. QED
  BY <1>1, <1>2, <1>3 DEF IInv

\* The inductive invariant holds in every reachable state.
THEOREM Inductive == Spec => []IInv
  BY InitIInv, NextIInv, PTL DEF Spec

-----------------------------------------------------------------------------
(***************************************************************************)
(* The theorems.                                                           *)
(***************************************************************************)

\* The types are correct, in particular the counter of workerWG is never
\* negative, which Go would answer with a panic.
THEOREM TypeCorrect == Spec => []TypeOK
<1>1. IInv => TypeOK
  BY DEF IInv
<1>. QED
  BY <1>1, Inductive, PTL

\* No job is lost, duplicated or taken twice, whatever the shutdown does.
THEOREM JobsExactlyOnce == Spec => []ExactlyOnce
<1>1. IInv => ExactlyOnce
  <2> SUFFICES ASSUME IInv PROVE ExactlyOnce
    OBVIOUS
  <2> USE DEF IInv, TypeOK, QueueOk, HandOk, TakenOk, Queued, Held, Jobs
  <2>1. Taken \in Nat /\ Taken <= accepted /\ Len(queue) = accepted - Taken
    BY DEF Taken
  <2>2. Queued = (Taken + 1)..accepted
    <3>1. ASSUME NEW j \in (Taken + 1)..accepted
          PROVE  j \in Queued
      <4>1. j - Taken \in 1..Len(queue)
        BY <2>1
      <4>2. queue[j - Taken] = j
        BY <4>1, <2>1
      <4>. QED
        BY <4>1, <4>2
    <3>2. ASSUME NEW i \in 1..Len(queue)
          PROVE  queue[i] \in (Taken + 1)..accepted
      BY <2>1
    <3>. QED
      BY <3>1, <3>2
  <2>3. Held \cup finished = 1..Taken
    <3>1. \A w \in Workers : hand[w] # 0 => hand[w] \in 1..Taken
      BY <2>1
    <3>2. Held \subseteq 1..Taken
      BY <3>1
    <3>3. \A j \in 1..Taken : j # 0
      BY <2>1
    <3>4. 1..Taken \subseteq Held \cup finished
      BY <3>3
    <3>5. finished \subseteq 1..Taken
      OBVIOUS
    <3>. QED
      BY <3>2, <3>4, <3>5
  <2>4. Held \cap finished = {}
    OBVIOUS
  <2>5. Queued \cup Held \cup finished = Jobs
    BY <2>1, <2>2, <2>3
  <2>6. Queued \cap Held = {} /\ Queued \cap finished = {}
    <3>1. (Taken + 1)..accepted \cap 1..Taken = {}
      BY <2>1
    <3>. QED
      BY <2>2, <2>3, <3>1
  <2>. QED
    BY <2>4, <2>5, <2>6 DEF ExactlyOnce
<1>. QED
  BY <1>1, Inductive, PTL

\* A job is overtaken by fewer jobs than there are workers, and by none if
\* there is one worker.
THEOREM ReorderingBounded == Spec => []BoundedReordering
<1>1. IInv => BoundedReordering
  <2> SUFFICES ASSUME IInv, NEW j \in finished
               PROVE  Cardinality(Overtaken(j)) < Cardinality(Workers)
    BY DEF BoundedReordering
  <2> USE DEF IInv, TypeOK, HandOk, TakenOk
  <2>1. PICK w \in Workers : hand[w] = 0 \/ hand[w] > j
    BY DEF AheadOk
  <2> DEFINE Others == Workers \ {w}
             Busy == {v \in Others : hand[v] \in Overtaken(j)}
             holds == [v \in Busy |-> hand[v]]
  <2>2. /\ IsFiniteSet(Others)
        /\ Cardinality(Others) = Cardinality(Workers) - 1
    BY DispatchAssumption, FS_RemoveElement
  <2>3. IsFiniteSet(Busy) /\ Cardinality(Busy) <= Cardinality(Others)
    BY <2>2, FS_Subset
  <2>4. \A i \in Overtaken(j) : \E v \in Busy : hand[v] = i
    <3> SUFFICES ASSUME NEW i \in Overtaken(j)
                 PROVE  \E v \in Busy : hand[v] = i
      OBVIOUS
    <3>1. i \in 1..Taken /\ i \notin finished /\ i < j /\ i # 0
      BY DEF Overtaken, Taken, QueueOk
    <3>2. PICK v \in Workers : hand[v] = i
      BY <3>1
    <3>3. v # w
      BY <2>1, <3>1, <3>2
    <3>. QED
      BY <3>2, <3>3
  <2>5. holds \in Surjection(Busy, Overtaken(j))
    BY <2>4 DEF Surjection
  <2>6. Cardinality(Overtaken(j)) <= Cardinality(Busy)
        /\ IsFiniteSet(Overtaken(j))
    BY <2>3, <2>5, FS_Surjection
  <2>. QED
    BY <2>2, <2>3, <2>6, DispatchAssumption, FS_CardinalityType
<1>. QED
  BY <1>1, Inductive, PTL

\* close() returns only when the started workers are through, and with the
\* channel drained if there was one.
THEOREM ReturnsDrained == Spec => DrainedAtReturn
<1> DEFINE Drained ==
      (main # "returned" /\ main' = "returned") =>
          /\ \A w \in Workers : worker[w] \in {"new", "done"}
          /\ (\E w \in Workers : worker[w] = "done") => finished = Jobs
<1>1. ASSUME IInv, [Next]_vars, main # "returned", main' = "returned"
      PROVE  Drained
  <2> USE DEF IInv, TypeOK, Running
  <2>1. Wait \/ Wake
    BY <1>1, NextCases
       DEF SenderStep, Send, Enqueue, EnqueuePanics, WorkerStep, Start,
           Receive, Finish, Leave, MainStep, CloseChannel, Exit, vars
  <2>2. count = 0
    BY <1>1, <2>1 DEF Wait, Wake
  <2>3. RunningSet = {}
    BY <1>1, <2>2, RunningFinite
  <2>4. \A w \in Workers : worker[w] \in {"new", "done"}
    BY <1>1, <2>3 DEF RunningSet
  <2>5. ASSUME NEW w \in Workers, worker[w] = "done"
        PROVE  finished = Jobs
    <3>1. queue = <<>> /\ Taken = accepted
      BY <1>1, <2>5 DEF PhaseOk, Taken
    <3>2. \A v \in Workers : hand[v] = 0
      BY <1>1, <2>4 DEF HandOk
    <3>3. \A j \in Jobs : j # 0
      BY DEF Jobs
    <3>. QED
      BY <1>1, <3>1, <3>2, <3>3 DEF TakenOk, Jobs
  <2>. QED
    BY <2>4, <2>5
<1>2. IInv /\ [Next]_vars => [Drained]_vars
  BY <1>1
<1>3. Spec => [][Drained]_vars
  BY <1>2, Inductive, PTL DEF Spec
<1>. QED
  BY <1>3 DEF DrainedAtReturn

\* Once every worker has started, only the last one to leave releases main,
\* and nobody calls Add any more: Wait does not panic.
THEOREM StopIsClean == Spec => CleanStop
<1> DEFINE Begun == AllStarted /\ main # "crashed"
                    /\ (main = "released" => RunningSet = {})
<1>1. main = "serving" /\ AllStarted => Begun
  OBVIOUS
<1>2. IInv /\ Begun /\ [Next]_vars => Begun'
  <2> SUFFICES ASSUME IInv, Begun, [Next]_vars PROVE Begun'
    OBVIOUS
  <2> USE DEF IInv, TypeOK, AllStarted, Running,
              channelVars, senderVars, workerVars
  <2>1. ASSUME NEW h \in Handlers, SenderStep(h)
        PROVE  Begun'
    BY <2>1 DEF SenderStep, Send, Enqueue, EnqueuePanics, RunningSet
  <2>2. ASSUME NEW w \in Workers, Receive(w) \/ Finish(w)
        PROVE  Begun'
    BY <2>2 DEF Receive, Finish, RunningSet
  <2>3. ASSUME NEW w \in Workers, Leave(w)
        PROVE  Begun'
    <3>1. AllStarted' /\ main' # "crashed"
      BY <2>3 DEF Leave
    <3>2. CASE main' = "released"
      <4>1. main = "released" \/ count = 1
        BY <2>3, <3>2 DEF Leave
      <4>2. count' = count - 1 /\ w \in RunningSet
        BY <2>3 DEF Leave, RunningSet
      <4>3. count = 1
        BY <4>1, <4>2
      <4>4. CountOk'
        BY CountStep
      <4>5. count' = 0 => RunningSet' = {}
        <5>1. IsFiniteSet(RunningSet')
          BY DispatchAssumption, FS_Subset DEF RunningSet
        <5>. QED
          BY <4>4, <5>1, FS_EmptySet DEF CountOk
      <4>. QED
        BY <3>1, <4>2, <4>3, <4>5
    <3>. QED
      BY <3>1, <3>2
  <2>4. ASSUME NEW w \in Workers, Start(w)
        PROVE  FALSE
    BY <2>4 DEF Start
  <2>5. CASE MainStep
    <3>1. main = "released" => count = 0
      BY RunningFinite
    <3>2. CASE CloseChannel \/ Wait \/ Exit
      BY <3>2 DEF CloseChannel, Wait, Exit, RunningSet
    <3>3. CASE Wake
      BY <3>1, <3>3 DEF Wake, RunningSet
    <3>. QED
      BY <2>5, <3>2, <3>3 DEF MainStep
  <2>6. CASE UNCHANGED vars
    BY <2>6 DEF vars, RunningSet
  <2>. QED
    BY <2>1, <2>2, <2>3, <2>4, <2>5, <2>6, NextCases DEF WorkerStep
<1>3. Begun => main # "crashed"
  OBVIOUS
<1>. QED
  BY <1>1, <1>2, <1>3, Inductive, PTL DEF Spec, CleanStop
=============================================================================
