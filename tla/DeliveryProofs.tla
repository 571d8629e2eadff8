--------------------------- MODULE DeliveryProofs ---------------------------
(***************************************************************************)
(* Proofs about Delivery for every set of names, connections and workers,  *)
(* every capacity of the channel and every bound on the jobs.              *)
(*                                                                         *)
(* What ties the table to the channel is Current: the connection that has  *)
(* the destination's name now is among those that had it since the job     *)
(* was accepted, as long as the job is not finished.  So what a worker     *)
(* finds is fresh (AimOk).  It may be stale when the worker writes; but if *)
(* the write then fails because the connection was closed, the table has   *)
(* another by now, since what it has is open (TableInv), and the event was *)
(* owed to more than one.                                                  *)
(***************************************************************************)
EXTENDS Delivery, SequenceTheorems, FiniteSetTheorems, TLAPS

\* The table, as in RegistryProofs.
AddingOpen == \A c \in Conns : pc[c] \in Table!Adding => c \in open

FoundOk ==
    \A c \in Conns : pc[c] = "evict" =>
        found[c] \in Conns /\ NameOf[found[c]] = NameOf[c]

TableInv == Table!TypeOK /\ Table!RegisteredIsLive /\ AddingOpen /\ FoundOk

\* Only a handler in its read loop has a send to do.
SendsOk ==
    /\ ahead \in [Conns -> Seq(Names)]
    /\ \A c \in Conns : ahead[c] # <<>> => pc[c] = "read"

\* The channel and the workers, as in DispatchProofs.
Taken == accepted - Len(queue)
RunningSet == {w \in Workers : worker[w] \in Channel!Running}

ChannelTypes ==
    /\ queue \in Seq(Nat) /\ Len(queue) <= Cap
    /\ closed \in BOOLEAN
    /\ accepted \in Nat /\ issued \in Nat
    /\ panicked \in SUBSET Conns
    /\ worker \in [Workers -> {"new", "done", "recv", "busy"}]
    /\ hand \in [Workers -> Nat]
    /\ finished \in SUBSET Nat
    /\ main \in {"serving", "closing", "waiting", "released", "returned",
                 "exited", "crashed"}

CountOk == count = Cardinality(RunningSet)

QueueOk ==
    /\ Len(queue) <= accepted
    /\ \A i \in 1..Len(queue) : queue[i] = Taken + i

HandOk ==
    /\ \A w \in Workers : hand[w] <= Taken
    /\ \A w \in Workers : hand[w] # 0 <=> worker[w] = "busy"
    /\ \A v, w \in Workers : v # w /\ hand[v] = hand[w] => hand[v] = 0

TakenOk ==
    /\ \A j \in finished : j \in 1..Taken
    /\ \A w \in Workers : hand[w] \notin finished
    /\ \A j \in 1..Taken : j \in finished \/ \E w \in Workers : hand[w] = j

ChannelInv == ChannelTypes /\ CountOk /\ QueueOk /\ HandOk /\ TakenOk

\* The jobs' destinations, and what is written where.
WriteTypes ==
    /\ dest \in Seq(Names) /\ Len(dest) = accepted
    /\ aim \in [Workers -> Conns \cup {NoConn}]
    /\ inside \subseteq {w \in Workers : aim[w] # NoConn}
    /\ torn \in SUBSET Conns
    /\ received \in [Conns -> Seq(1..accepted)]
    /\ held \in Seq(SUBSET (Conns \cup {NoConn})) /\ Len(held) = accepted

AimOk ==
    \A w \in Workers : aim[w] # NoConn =>
        /\ worker[w] = "busy"
        /\ NameOf[aim[w]] = dest[hand[w]]
        /\ aim[w] \in held[hand[w]]

Current == \A j \in 1..accepted \ finished : wsConns[dest[j]] \in held[j]

WriteInv == WriteTypes /\ AimOk /\ Current /\ FreshTarget /\ LostForAReason

IInv == TableInv /\ SendsOk /\ ChannelInv /\ WriteInv

-----------------------------------------------------------------------------
(***************************************************************************)
(* The steps, each with what it does to the variables.                     *)
(***************************************************************************)

\* A step that leaves the jobs, the workers and what they write alone.
JobsStill == UNCHANGED <<queue, accepted, worker, hand, finished, count>>
WritesStill == UNCHANGED <<writeVars, dest, held>>

\* A handler's step in the table, also the panic, which is to the table what
\* a failed read is.
TableMoves(c) == Table!HandlerRuns(c) \/ Table!Upgrade(c) \/ Table!ReadFails(c)

\* The types of what JobsStill does not name.
MainTypes ==
    /\ closed \in BOOLEAN /\ issued \in Nat /\ panicked \in SUBSET Conns
    /\ main \in {"serving", "closing", "waiting", "released", "returned",
                 "exited", "crashed"}

\* A send puts one job more at the end of the queue.
LEMMA EnqueueFacts ==
    ASSUME NEW c \in Conns, Enqueue(c)
    PROVE  /\ ahead[c] # <<>> /\ Len(queue) < Cap
           /\ ahead' = [ahead EXCEPT ![c] = Tail(ahead[c])]
           /\ queue' = Append(queue, accepted + 1) /\ accepted' = accepted + 1
           /\ dest' = Append(dest, Head(ahead[c]))
           /\ held' = Append(held, {wsConns[Head(ahead[c])]})
           /\ UNCHANGED <<closed, issued, panicked, worker, hand, finished, count, main>>
           /\ UNCHANGED <<wsConns, pc, found, open, raced, aim, inside, torn, received>>
BY DEF Enqueue, Channel!Enqueue, Channel!workerVars, tableVars, writeVars

\* A panic in send ends the handler's loop, as a failed read does.
LEMMA PanicFacts ==
    ASSUME SendsOk, NEW c \in Conns, EnqueuePanics(c)
    PROVE  /\ Table!ReadFails(c)
           /\ ahead' = [ahead EXCEPT ![c] = <<>>]
           /\ panicked' = panicked \cup {c}
           /\ JobsStill /\ WritesStill /\ UNCHANGED <<closed, issued, main>>
<1>1. ahead[c] # <<>>
  BY DEF EnqueuePanics, Channel!EnqueuePanics, SendsOk
<1>2. pc[c] = "read"
  BY <1>1 DEF SendsOk
<1>. QED
  BY <1>2 DEF EnqueuePanics, Channel!EnqueuePanics, Channel!channelVars,
         Channel!workerVars, Table!ReadFails, JobsStill, WritesStill

\* A handler that begins a send has its destinations ahead.
LEMMA SendFacts ==
    ASSUME NEW c \in Senders, NEW t \in Targets, Send(c, t)
    PROVE  /\ pc[c] = "read" /\ ahead' = [ahead EXCEPT ![c] = t]
           /\ issued' = issued + Len(t) /\ issued + Len(t) <= MaxJobs
           /\ JobsStill /\ WritesStill
           /\ UNCHANGED <<tableVars, closed, panicked, main>>
BY DEF Send, Channel!Send, Channel!channelVars, Channel!workerVars, JobsStill,
       WritesStill

Starts(w) ==
    /\ worker[w] = "new" /\ worker' = [worker EXCEPT ![w] = "recv"]
    /\ count' = count + 1
    /\ UNCHANGED <<queue, hand, main>>

Takes(w) ==
    /\ worker[w] = "recv" /\ worker' = [worker EXCEPT ![w] = "busy"]
    /\ queue # <<>> /\ queue' = Tail(queue)
    /\ hand' = [hand EXCEPT ![w] = Head(queue)]
    /\ UNCHANGED <<count, main>>

Leaves(w) ==
    /\ worker[w] = "recv" /\ worker' = [worker EXCEPT ![w] = "done"]
    /\ count' = count - 1 /\ main' \in {main, "released"}
    /\ UNCHANGED <<queue, hand>>

Finishes(w) ==
    /\ worker[w] = "busy" /\ worker' = [worker EXCEPT ![w] = "recv"]
    /\ hand' = [hand EXCEPT ![w] = 0]
    /\ finished' = finished \cup {hand[w]}
    /\ UNCHANGED <<queue, closed, accepted, issued, panicked, count, main>>

\* A worker starts, takes a job, or leaves.
LEMMA WorkerFacts ==
    ASSUME NEW w \in Workers, WorkerMoves(w)
    PROVE  /\ Starts(w) \/ Takes(w) \/ Leaves(w)
           /\ UNCHANGED <<closed, accepted, issued, panicked, finished>>
           /\ WritesStill /\ UNCHANGED <<tableVars, ahead>>
<1> USE DEF WorkerMoves, WritesStill, Channel!channelVars, Channel!senderVars
<1>1. CASE Channel!Start(w)
  BY <1>1 DEF Channel!Start, Starts
<1>2. CASE Channel!Receive(w)
  BY <1>2 DEF Channel!Receive, Takes
<1>3. CASE Channel!Leave(w)
  BY <1>3 DEF Channel!Leave, Leaves
<1>. QED
  BY <1>1, <1>2, <1>3

\* A worker is done with its job, whatever has become of it.
LEMMA FinishFacts ==
    ASSUME NEW w \in Workers, NoDestination(w) \/ Written(w) \/ WriteFails(w)
    PROVE  Finishes(w) /\ UNCHANGED <<tableVars, torn, ahead, dest, held>>
<1>1. Channel!Finish(w) /\ UNCHANGED <<tableVars, torn, ahead, dest, held>>
  BY DEF NoDestination, Written, WriteFails, Return, writeVars
<1>. QED
  BY <1>1 DEF Channel!Finish, Channel!channelVars, Channel!senderVars, Finishes

\* The worker's steps between the look-up and the write, and its panic.
LEMMA WriterFacts ==
    ASSUME NEW w \in Workers, Lookup(w) \/ Begin(w) \/ Panic(w)
    PROVE  /\ JobsStill /\ UNCHANGED <<tableVars, ahead, dest, held, received>>
           /\ UNCHANGED <<closed, issued, panicked>> /\ main' \in {main, "crashed"}
           /\ worker[w] = "busy"
BY DEF Lookup, Begin, Panic, Busy, channelVars, writeVars, JobsStill

\* The shutdown.
LEMMA ShutdownFacts ==
    ASSUME Shutdown
    PROVE  /\ JobsStill /\ WritesStill /\ UNCHANGED <<tableVars, ahead, issued, panicked>>
           /\ closed' \in {closed, TRUE}
           /\ main' \in {"closing", "waiting", "returned", "exited", "crashed"}
BY DEF Shutdown, Channel!CloseChannel, Channel!Wait, Channel!Wake, Channel!Exit,
       Channel!channelVars, Channel!senderVars, Channel!workerVars, JobsStill, WritesStill

\* Every step is one of these.
LEMMA NextCases ==
    ASSUME [Next]_vars
    PROVE  \/ \E c \in Conns : TableRuns(c) \/ Dial(c) \/ ReadFails(c)
           \/ \E c \in Conns : Enqueue(c) \/ EnqueuePanics(c)
           \/ \E c \in Senders, t \in Targets : Send(c, t)
           \/ \E w \in Workers : WorkerMoves(w)
           \/ \E w \in Workers : Lookup(w) \/ Begin(w) \/ Panic(w)
           \/ \E w \in Workers : NoDestination(w) \/ Written(w) \/ WriteFails(w)
           \/ Shutdown
           \/ UNCHANGED vars
BY DEF Next, Terminated, Idle

-----------------------------------------------------------------------------
(***************************************************************************)
(* The table.                                                              *)
(***************************************************************************)

\* Every step of a handler in the table keeps the names resolving to open
\* connections of theirs.
LEMMA TableStep ==
    ASSUME TableInv, NEW c \in Conns, TableMoves(c)
    PROVE  TableInv'
<1> USE DeliveryAssumption
    DEF TableInv, Table!TypeOK, Table!Adding, Table!Admitted, Table!Goto
<1>1. CASE Table!Upgrade(c)
  <2>1. Table!TypeOK' /\ AddingOpen' /\ FoundOk'
    BY <1>1 DEF Table!Upgrade, AddingOpen, FoundOk
  <2>2. Table!RegisteredIsLive'
    BY <1>1 DEF Table!Upgrade, Table!RegisteredIsLive
  <2>. QED
    BY <2>1, <2>2
<1>2. CASE Table!Lookup(c)
  <2>1. Table!TypeOK' /\ AddingOpen'
    BY <1>2 DEF Table!Lookup, AddingOpen
  <2>2. Table!RegisteredIsLive' /\ FoundOk'
    BY <1>2 DEF Table!Lookup, Table!RegisteredIsLive, FoundOk
  <2>. QED
    BY <2>1, <2>2
<1>3. CASE Table!Evict(c)
  <2> USE <1>3 DEF Table!Evict, Table!CloseWSConn, FoundOk
  <2>1. Table!TypeOK' /\ FoundOk'
    OBVIOUS
  <2>2. Table!RegisteredIsLive'
    BY DEF Table!RegisteredIsLive
  <2>3. AddingOpen'
    BY DEF Table!RegisteredIsLive, AddingOpen
  <2>. QED
    BY <2>1, <2>2, <2>3
<1>4. CASE Table!Store(c)
  <2>1. Table!TypeOK' /\ AddingOpen' /\ FoundOk'
    BY <1>4 DEF Table!Store, AddingOpen, FoundOk
  <2>2. Table!RegisteredIsLive'
    BY <1>4 DEF Table!Store, Table!RegisteredIsLive, AddingOpen
  <2>. QED
    BY <2>1, <2>2
<1>5. CASE Table!ReadFails(c)
  <2>1. Table!TypeOK' /\ AddingOpen' /\ FoundOk'
    BY <1>5 DEF Table!ReadFails, AddingOpen, FoundOk
  <2>2. Table!RegisteredIsLive'
    BY <1>5 DEF Table!ReadFails, Table!RegisteredIsLive
  <2>. QED
    BY <2>1, <2>2
<1>6. CASE Table!Cleanup(c)
  <2>1. Table!TypeOK' /\ FoundOk'
    BY <1>6 DEF Table!Cleanup, Table!CloseWSConn, FoundOk
  <2>2. Table!RegisteredIsLive'
    BY <1>6 DEF Table!Cleanup, Table!CloseWSConn, Table!RegisteredIsLive
  <2>3. AddingOpen'
    BY <1>6 DEF Table!Cleanup, Table!CloseWSConn, AddingOpen
  <2>. QED
    BY <2>1, <2>2, <2>3
<1>. QED
  BY <1>1, <1>2, <1>3, <1>4, <1>5, <1>6 DEF TableMoves, Table!HandlerRuns

\* A step that leaves the table alone keeps what is known of it.
LEMMA TableStill ==
    ASSUME TableInv, UNCHANGED tableVars
    PROVE  TableInv'
BY DEF TableInv, tableVars, Table!TypeOK, Table!RegisteredIsLive, AddingOpen, FoundOk

\* Who is in the table: a handler's own steps, or nobody.
LEMMA TableFacts ==
    ASSUME SendsOk, [Next]_vars
    PROVE  (\E c \in Conns : TableMoves(c)) \/ UNCHANGED tableVars
<1>1. ASSUME NEW c \in Conns, TableRuns(c) \/ Dial(c) \/ ReadFails(c)
      PROVE  TableMoves(c)
  BY <1>1 DEF TableRuns, Dial, ReadFails, TableMoves
<1>2. ASSUME NEW c \in Conns, Enqueue(c)
      PROVE  UNCHANGED tableVars
  BY <1>2 DEF Enqueue
<1>3. ASSUME NEW c \in Conns, EnqueuePanics(c)
      PROVE  TableMoves(c)
  BY <1>3, PanicFacts DEF TableMoves
<1>4. ASSUME NEW w \in Workers, NoDestination(w) \/ Written(w) \/ WriteFails(w)
      PROVE  UNCHANGED tableVars
  BY <1>4, FinishFacts
<1>5. CASE Shutdown
  BY <1>5, ShutdownFacts
<1>6. CASE UNCHANGED vars
  BY <1>6 DEF vars
<1>. QED
  BY <1>1, <1>2, <1>3, <1>4, <1>5, <1>6, NextCases, SendFacts, WorkerFacts, WriterFacts

-----------------------------------------------------------------------------
(***************************************************************************)
(* The sends.                                                              *)
(***************************************************************************)

\* A handler in send does not leave its read loop before the send is done.
LEMMA SendsStep ==
    ASSUME TableInv, SendsOk, [Next]_vars
    PROVE  SendsOk'
<1> USE DEF SendsOk
<1>0. pc \in [Conns -> {"away"} \cup Table!Adding \cup Table!Admitted]
  BY DEF TableInv, Table!TypeOK
<1>1. ASSUME NEW c \in Conns, TableRuns(c)
      PROVE  SendsOk'
  BY <1>0, <1>1 DEF TableRuns, Table!HandlerRuns, Table!Lookup, Table!Evict, Table!Store,
                    Table!Cleanup, Table!Goto
<1>2. ASSUME NEW c \in Conns, Dial(c) \/ ReadFails(c)
      PROVE  SendsOk'
  BY <1>0, <1>2 DEF Dial, ReadFails, Table!Upgrade, Table!ReadFails, Table!Goto
<1>3. ASSUME NEW c \in Conns, Enqueue(c)
      PROVE  SendsOk'
  <2>1. Tail(ahead[c]) \in Seq(Names)
    BY <1>3, EnqueueFacts
  <2>. QED
    BY <1>3, <2>1, EnqueueFacts
<1>4. ASSUME NEW c \in Conns, EnqueuePanics(c)
      PROVE  SendsOk'
  <2>1. /\ ahead' = [ahead EXCEPT ![c] = <<>>]
        /\ pc' = [pc EXCEPT ![c] = "cleanup"]
    BY <1>4, PanicFacts DEF Table!ReadFails, Table!Goto
  <2>. QED
    BY <1>0, <2>1
<1>5. ASSUME NEW c \in Senders, NEW t \in Targets, Send(c, t)
      PROVE  SendsOk'
  <2>1. t \in Seq(Names) /\ c \in Conns
    BY DeliveryAssumption
  <2>. QED
    BY <1>5, <2>1, SendFacts DEF tableVars
<1>6. ASSUME UNCHANGED <<tableVars, ahead>>
      PROVE  SendsOk'
  BY <1>6 DEF tableVars
<1>7. CASE UNCHANGED vars
  BY <1>6, <1>7 DEF vars
<1>. QED
  BY <1>1, <1>2, <1>3, <1>4, <1>5, <1>6, <1>7, NextCases, WorkerFacts, WriterFacts,
     FinishFacts, ShutdownFacts

-----------------------------------------------------------------------------
(***************************************************************************)
(* The channel and the workers.                                            *)
(***************************************************************************)

\* The running workers are finitely many, and each of them is counted.
LEMMA RunningFacts ==
    ASSUME CountOk
    PROVE  /\ IsFiniteSet(RunningSet) /\ count \in Nat
           /\ \A w \in RunningSet : count > 0
<1>1. IsFiniteSet(RunningSet)
  BY DeliveryAssumption, FS_Subset DEF RunningSet
<1>. QED
  BY <1>1, FS_CardinalityType, FS_EmptySet DEF CountOk

\* What has left the channel is no more than what it accepted.
LEMMA TakenFacts ==
    ASSUME ChannelInv
    PROVE  /\ Taken \in 0..accepted /\ accepted \in Nat
           /\ \A w \in Workers : worker[w] = "busy" =>
                 hand[w] \in 1..accepted /\ hand[w] \notin finished
           /\ finished \subseteq 1..accepted
BY DEF ChannelInv, ChannelTypes, QueueOk, HandOk, TakenOk, Taken

\* Only the types of the rest can suffer where the jobs are still.
LEMMA ChannelStill ==
    ASSUME ChannelInv, JobsStill, MainTypes'
    PROVE  ChannelInv'
BY DEF ChannelInv, ChannelTypes, CountOk, RunningSet, QueueOk, HandOk, TakenOk, Taken,
       JobsStill, MainTypes

\* A job is put at the end of the queue.
LEMMA ChannelEnqueue ==
    ASSUME ChannelInv, NEW c \in Conns, Enqueue(c)
    PROVE  ChannelInv'
<1> USE DEF ChannelInv, ChannelTypes
<1>1. /\ Len(queue) < Cap
      /\ queue' = Append(queue, accepted + 1) /\ accepted' = accepted + 1
      /\ UNCHANGED <<closed, issued, panicked, worker, hand, finished, count, main>>
  BY EnqueueFacts
<1>2. /\ queue' \in Seq(Nat) /\ Len(queue') = Len(queue) + 1
      /\ \A i \in 1..Len(queue) : queue'[i] = queue[i]
      /\ queue'[Len(queue) + 1] = accepted + 1
  BY <1>1
<1>3. ChannelTypes'
  BY <1>1, <1>2, DeliveryAssumption
<1>4. Taken' = Taken /\ Taken = accepted - Len(queue)
  BY <1>1, <1>2 DEF Taken
<1>5. QueueOk'
  <2>1. Len(queue) \in Nat /\ Len(queue) <= accepted
    BY DEF QueueOk
  <2>2. ASSUME NEW i \in 1..Len(queue')
        PROVE  queue'[i] = Taken' + i
    <3>1. CASE i \in 1..Len(queue)
      BY <1>2, <1>4, <3>1 DEF QueueOk
    <3>2. CASE i = Len(queue) + 1
      BY <1>2, <1>4, <2>1, <3>2
    <3>. QED
      BY <1>2, <2>1, <3>1, <3>2
  <2>3. Len(queue') <= accepted'
    BY <1>1, <1>2, <2>1
  <2>. QED
    BY <2>2, <2>3 DEF QueueOk
<1>6. CountOk' /\ HandOk' /\ TakenOk'
  BY <1>1, <1>4 DEF CountOk, RunningSet, HandOk, TakenOk
<1>. QED
  BY <1>3, <1>5, <1>6

\* A worker that starts or leaves changes the count by one, and no job.
LEMMA ChannelCounts ==
    ASSUME ChannelInv, NEW w \in Workers, Starts(w) \/ Leaves(w),
           UNCHANGED <<closed, accepted, issued, panicked, finished>>
    PROVE  ChannelInv'
<1> USE DEF ChannelInv, ChannelTypes
<1>1. ChannelTypes'
  BY DEF Starts, Leaves
<1>2. CountOk'
  <2>1. IsFiniteSet(RunningSet)
    BY RunningFacts
  <2>2. CASE Starts(w)
    <3>1. RunningSet' = RunningSet \cup {w} /\ w \notin RunningSet
      BY <2>2 DEF Starts, RunningSet, Channel!Running
    <3>. QED
      BY <2>1, <2>2, <3>1, FS_AddElement DEF Starts, CountOk
  <2>3. CASE Leaves(w)
    <3>1. RunningSet' = RunningSet \ {w} /\ w \in RunningSet
      BY <2>3 DEF Leaves, RunningSet, Channel!Running
    <3>. QED
      BY <2>1, <2>3, <3>1, FS_RemoveElement DEF Leaves, CountOk
  <2>. QED
    BY <2>2, <2>3
<1>3. QueueOk' /\ HandOk' /\ TakenOk'
  <2>1. /\ UNCHANGED <<queue, accepted, hand, finished>>
        /\ \A v \in Workers : worker'[v] = "busy" <=> worker[v] = "busy"
    BY DEF Starts, Leaves
  <2>. QED
    BY <2>1 DEF QueueOk, HandOk, TakenOk, Taken
<1>. QED
  BY <1>1, <1>2, <1>3

\* A worker takes the oldest job, which is newer than all that were taken.
LEMMA ChannelTakes ==
    ASSUME ChannelInv, NEW w \in Workers, Takes(w),
           UNCHANGED <<closed, accepted, issued, panicked, finished>>
    PROVE  ChannelInv'
<1> USE DEF ChannelInv, ChannelTypes
<1>1. /\ Head(queue) \in Nat /\ queue' \in Seq(Nat) /\ Len(queue') = Len(queue) - 1
      /\ Len(queue) >= 1 /\ Head(queue) = queue[1]
      /\ \A i \in 1..Len(queue') : queue'[i] = queue[i + 1]
  BY DEF Takes
<1>2. /\ Taken \in Nat /\ Taken' = Taken + 1 /\ Head(queue) = Taken + 1
      /\ Taken = accepted - Len(queue)
  BY <1>1 DEF QueueOk, Taken
<1>3. /\ hand' = [hand EXCEPT ![w] = Taken + 1]
      /\ worker' = [worker EXCEPT ![w] = "busy"]
      /\ hand[w] = 0 /\ worker[w] = "recv" /\ UNCHANGED <<count, main>>
  BY <1>2 DEF Takes, HandOk
<1>4. ChannelTypes'
  <2>1. queue' \in Seq(Nat) /\ Len(queue') <= Cap
    BY <1>1, DeliveryAssumption
  <2>2. /\ hand' \in [Workers -> Nat]
        /\ worker' \in [Workers -> {"new", "done", "recv", "busy"}]
    BY <1>2, <1>3
  <2>. QED
    BY <1>3, <2>1, <2>2
<1>5. CountOk'
  <2>1. RunningSet' = RunningSet
    BY <1>3 DEF RunningSet, Channel!Running
  <2>. QED
    BY <1>3, <2>1 DEF CountOk
<1>6. QueueOk'
  <2>1. Len(queue) \in Nat /\ Len(queue) <= accepted
    BY DEF QueueOk
  <2>2. ASSUME NEW i \in 1..Len(queue')
        PROVE  queue'[i] = Taken' + i
    <3>1. queue'[i] = queue[i + 1] /\ i + 1 \in 1..Len(queue)
      BY <1>1, <2>1
    <3>2. queue[i + 1] = Taken + (i + 1)
      BY <3>1 DEF QueueOk
    <3>. QED
      BY <1>2, <3>1, <3>2
  <2>3. Len(queue') <= accepted'
    BY <1>1, <2>1
  <2>. QED
    BY <2>2, <2>3 DEF QueueOk
<1>7. HandOk'
  BY <1>2, <1>3 DEF HandOk
<1>8. TakenOk'
  <2>1. hand[w] = 0 /\ hand'[w] = Taken + 1
        /\ \A v \in Workers \ {w} : hand'[v] = hand[v]
    BY <1>3
  <2>2. \A j \in finished : j \in 1..Taken'
    BY <1>2 DEF TakenOk
  <2>3. \A v \in Workers : hand'[v] \notin finished
    BY <1>2, <2>1 DEF TakenOk
  <2>4. ASSUME NEW j \in 1..Taken'
        PROVE  j \in finished \/ \E v \in Workers : hand'[v] = j
    <3>1. CASE j \in 1..Taken
      BY <2>1, <3>1 DEF TakenOk
    <3>2. CASE j = Taken + 1
      BY <2>1, <3>2
    <3>3. j \in 1..Taken \/ j = Taken + 1
      BY <1>2
    <3>. QED
      BY <3>1, <3>2, <3>3
  <2>. QED
    BY <2>2, <2>3, <2>4 DEF TakenOk
<1>. QED
  BY <1>4, <1>5, <1>6, <1>7, <1>8

\* A finished job passes from a hand to the finished ones.
LEMMA ChannelFinishes ==
    ASSUME ChannelInv, NEW w \in Workers, Finishes(w)
    PROVE  ChannelInv'
<1> USE DEF ChannelInv, ChannelTypes, Finishes
<1>1. ChannelTypes'
  OBVIOUS
<1>2. CountOk'
  <2>1. RunningSet' = RunningSet
    BY DEF RunningSet, Channel!Running
  <2>. QED
    BY <2>1 DEF CountOk
<1>3. QueueOk' /\ Taken' = Taken
  BY DEF QueueOk, Taken
<1>4. Taken \in Nat /\ hand[w] \in 1..Taken
  BY TakenFacts DEF HandOk
<1>5. HandOk'
  BY <1>3, <1>4 DEF HandOk
<1>6. TakenOk'
  BY <1>3, <1>4 DEF TakenOk, HandOk
<1>. QED
  BY <1>1, <1>2, <1>3, <1>5, <1>6

\* The types of what is not the jobs, through the steps that leave them.
LEMMA MainStill ==
    ASSUME ChannelInv, UNCHANGED <<closed, issued, panicked, main>>
    PROVE  MainTypes'
BY DEF ChannelInv, ChannelTypes, MainTypes

\* Every step keeps the channel and the workers in order.
LEMMA ChannelStep ==
    ASSUME SendsOk, ChannelInv, [Next]_vars
    PROVE  ChannelInv'
<1>0. MainTypes
  BY DEF ChannelInv, ChannelTypes, MainTypes
<1>1. ASSUME NEW c \in Conns, TableRuns(c) \/ Dial(c) \/ ReadFails(c)
      PROVE  ChannelInv'
  <2>1. JobsStill /\ UNCHANGED <<closed, issued, panicked, main>>
    BY <1>1 DEF TableRuns, Dial, ReadFails, channelVars, JobsStill
  <2>. QED
    BY <2>1, MainStill, ChannelStill
<1>2. ASSUME NEW c \in Conns, EnqueuePanics(c)
      PROVE  ChannelInv'
  <2>1. JobsStill /\ MainTypes'
    BY <1>0, <1>2, PanicFacts DEF MainTypes
  <2>. QED
    BY <2>1, ChannelStill
<1>3. ASSUME NEW c \in Senders, NEW t \in Targets, Send(c, t)
      PROVE  ChannelInv'
  <2>1. Len(t) \in Nat
    BY DeliveryAssumption
  <2>2. JobsStill /\ MainTypes'
    BY <1>0, <1>3, <2>1, SendFacts DEF MainTypes
  <2>. QED
    BY <2>2, ChannelStill
<1>4. ASSUME NEW w \in Workers, WorkerMoves(w)
      PROVE  ChannelInv'
  BY <1>4, WorkerFacts, ChannelCounts, ChannelTakes
<1>5. ASSUME NEW w \in Workers, Lookup(w) \/ Begin(w) \/ Panic(w)
      PROVE  ChannelInv'
  <2>1. JobsStill /\ MainTypes'
    BY <1>0, <1>5, WriterFacts DEF MainTypes
  <2>. QED
    BY <2>1, ChannelStill
<1>6. ASSUME NEW w \in Workers, NoDestination(w) \/ Written(w) \/ WriteFails(w)
      PROVE  ChannelInv'
  BY <1>6, FinishFacts, ChannelFinishes
<1>7. CASE Shutdown
  <2>1. JobsStill /\ MainTypes'
    BY <1>0, <1>7, ShutdownFacts DEF MainTypes
  <2>. QED
    BY <2>1, ChannelStill
<1>8. CASE UNCHANGED vars
  <2>1. JobsStill /\ UNCHANGED <<closed, issued, panicked, main>>
    BY <1>8 DEF vars, channelVars, JobsStill
  <2>. QED
    BY <2>1, MainStill, ChannelStill
<1>. QED
  BY <1>1, <1>2, <1>3, <1>4, <1>5, <1>6, <1>7, <1>8, NextCases, ChannelEnqueue

-----------------------------------------------------------------------------
(***************************************************************************)
(* What is written where.                                                  *)
(***************************************************************************)

\* The invariant is about these variables only.
LEMMA WriteSame ==
    ASSUME WriteInv, JobsStill, WritesStill, UNCHANGED wsConns
    PROVE  WriteInv'
<1>1. UNCHANGED <<wsConns, accepted, worker, hand, finished, aim, inside, torn, received,
                  dest, held>>
  BY DEF JobsStill, WritesStill, writeVars
<1>2. WriteTypes' /\ AimOk'
  BY <1>1 DEF WriteInv, WriteTypes, AimOk
<1>3. Current' /\ FreshTarget'
  BY <1>1 DEF WriteInv, Current, FreshTarget
<1>4. LostForAReason'
  BY <1>1 DEF WriteInv, LostForAReason, Wrote
<1>. QED
  BY <1>2, <1>3, <1>4 DEF WriteInv

\* A number that stands for an accepted job.
LEMMA ReceivedFacts ==
    ASSUME WriteTypes, NEW c \in Conns, NEW i \in 1..Len(received[c])
    PROVE  received[c][i] \in 1..accepted
<1>1. received[c] \in Seq(1..accepted)
  BY DEF WriteTypes
<1>. QED
  BY <1>1, ElementOfSeq

\* The table changes under the jobs: what they are owed to grows, and what is
\* owed of a finished job stays.
LEMMA WriteTable ==
    ASSUME ChannelInv, WriteInv, Table!TypeOK', Hold, JobsStill,
           UNCHANGED <<writeVars, dest>>
    PROVE  WriteInv'
<1> DEFINE Now(j) == IF j \in finished THEN held[j] ELSE held[j] \cup {wsConns'[dest[j]]}
<1>1. /\ accepted \in Nat /\ accepted' = accepted /\ finished' = finished
      /\ UNCHANGED <<worker, hand, aim, inside, torn, received, dest>>
  BY DEF ChannelInv, ChannelTypes, JobsStill, writeVars
<1>2. held' = [j \in 1..accepted |-> Now(j)]
  BY <1>1 DEF Hold
<1>3. \A j \in 1..accepted : Now(j) \in SUBSET (Conns \cup {NoConn})
  <2> TAKE j \in 1..accepted
  <2>1. held[j] \in SUBSET (Conns \cup {NoConn}) /\ dest[j] \in Names
    BY <1>1, ElementOfSeq DEF WriteInv, WriteTypes
  <2>2. wsConns'[dest[j]] \in Conns \cup {NoConn}
    BY <2>1 DEF Table!TypeOK
  <2>. QED
    BY <2>1, <2>2
<1>4. \A j \in 1..accepted : held[j] \subseteq Now(j)
  OBVIOUS
<1> HIDE DEF Now
<1>5. \A j \in 1..accepted : held'[j] = Now(j)
  BY <1>2
<1>6. WriteTypes'
  <2>1. held' \in [1..accepted -> SUBSET (Conns \cup {NoConn})]
    BY <1>2, <1>3
  <2>2. held' \in Seq(SUBSET (Conns \cup {NoConn})) /\ Len(held') = accepted
    BY <1>1, <2>1, SeqDef, LenProperties
  <2>. QED
    BY <1>1, <2>2 DEF WriteInv, WriteTypes
<1>7. AimOk'
  <2> SUFFICES ASSUME NEW w \in Workers, aim[w] # NoConn
               PROVE  /\ worker[w] = "busy" /\ NameOf[aim[w]] = dest[hand[w]]
                      /\ aim[w] \in held'[hand[w]]
    BY <1>1 DEF AimOk
  <2>1. /\ worker[w] = "busy" /\ NameOf[aim[w]] = dest[hand[w]]
        /\ aim[w] \in held[hand[w]]
    BY DEF WriteInv, AimOk
  <2>2. hand[w] \in 1..accepted
    BY <2>1, TakenFacts
  <2>. QED
    BY <1>4, <1>5, <2>1, <2>2
<1>8. Current'
  BY <1>1, <1>5 DEF Current, Now
<1>9. FreshTarget'
  <2> SUFFICES ASSUME NEW c \in Conns, NEW i \in 1..Len(received[c])
               PROVE  c \in held'[received[c][i]]
    BY <1>1 DEF FreshTarget
  <2>1. received[c][i] \in 1..accepted
    BY ReceivedFacts DEF WriteInv
  <2>. QED
    BY <1>4, <1>5, <2>1 DEF WriteInv, FreshTarget
<1>10. LostForAReason'
  <2>1. \A j \in finished : j \in 1..accepted /\ held'[j] = held[j]
    BY <1>5, TakenFacts DEF Now
  <2>2. ASSUME NEW j \in finished, NEW d \in Conns \ (Flaky \cup Stalled \cup torn),
               held'[j] = {d}
        PROVE  Wrote(j, d)
    BY <2>1, <2>2 DEF WriteInv, LostForAReason
  <2>. QED
    BY <1>1, <2>2 DEF LostForAReason, Wrote
<1>. QED
  BY <1>6, <1>7, <1>8, <1>9, <1>10 DEF WriteInv

\* A new job is owed to whoever has the name now.
LEMMA WriteEnqueue ==
    ASSUME TableInv, SendsOk, ChannelInv, WriteInv, NEW c \in Conns, Enqueue(c)
    PROVE  WriteInv'
<1> DEFINE n == Head(ahead[c])
           h == {wsConns[n]}
<1>1. /\ accepted \in Nat /\ accepted' = accepted + 1
      /\ dest' = Append(dest, n) /\ held' = Append(held, h)
      /\ UNCHANGED <<wsConns, worker, hand, finished, aim, inside, torn, received>>
  BY EnqueueFacts DEF ChannelInv, ChannelTypes
<1>2. n \in Names /\ h \in SUBSET (Conns \cup {NoConn})
  <2>1. ahead[c] \in Seq(Names) /\ ahead[c] # <<>>
    BY EnqueueFacts DEF SendsOk
  <2>2. n \in Names
    BY <2>1
  <2>. QED
    BY <2>2 DEF TableInv, Table!TypeOK
<1>3. h = {wsConns[n]}
  OBVIOUS
<1> HIDE DEF n, h
<1>4. /\ dest \in Seq(Names) /\ Len(dest) = accepted
      /\ held \in Seq(SUBSET (Conns \cup {NoConn})) /\ Len(held) = accepted
  BY DEF WriteInv, WriteTypes
<1>5. /\ dest' \in Seq(Names) /\ Len(dest') = accepted + 1
      /\ held' \in Seq(SUBSET (Conns \cup {NoConn})) /\ Len(held') = accepted + 1
      /\ \A j \in 1..accepted : dest'[j] = dest[j] /\ held'[j] = held[j]
      /\ dest'[accepted + 1] = n /\ held'[accepted + 1] = h
  BY <1>1, <1>2, <1>4
<1>6. WriteTypes'
  <2>1. 1..accepted \subseteq 1..accepted'
    BY <1>1
  <2>2. received \in [Conns -> Seq(1..accepted')]
    <3>1. Seq(1..accepted) \subseteq Seq(1..accepted')
      BY <2>1, SeqMonotonic
    <3>. QED
      BY <3>1 DEF WriteInv, WriteTypes
  <2>. QED
    BY <1>1, <1>5, <2>2 DEF WriteInv, WriteTypes
<1>7. AimOk'
  BY <1>1, <1>5, TakenFacts DEF WriteInv, AimOk
<1>8. Current'
  <2> SUFFICES ASSUME NEW j \in 1..accepted + 1, j \notin finished
               PROVE  wsConns[dest'[j]] \in held'[j]
    BY <1>1 DEF Current
  <2>1. CASE j \in 1..accepted
    BY <1>5, <2>1 DEF WriteInv, Current
  <2>2. CASE j = accepted + 1
    BY <1>3, <1>5, <2>2
  <2>3. j \in 1..accepted \/ j = accepted + 1
    BY <1>1
  <2>. QED
    BY <2>1, <2>2, <2>3
<1>9. FreshTarget'
  <2> SUFFICES ASSUME NEW d \in Conns, NEW i \in 1..Len(received[d])
               PROVE  d \in held'[received[d][i]]
    BY <1>1 DEF FreshTarget
  <2>1. received[d][i] \in 1..accepted
    BY ReceivedFacts DEF WriteInv
  <2>. QED
    BY <1>5, <2>1 DEF WriteInv, FreshTarget
<1>10. LostForAReason'
  <2>1. \A j \in finished : held'[j] = held[j]
    BY <1>5, TakenFacts
  <2>2. ASSUME NEW j \in finished, NEW d \in Conns \ (Flaky \cup Stalled \cup torn),
               held'[j] = {d}
        PROVE  Wrote(j, d)
    BY <2>1, <2>2 DEF WriteInv, LostForAReason
  <2>. QED
    BY <1>1, <2>2 DEF LostForAReason, Wrote
<1>. QED
  BY <1>6, <1>7, <1>8, <1>9, <1>10 DEF WriteInv

\* A worker that comes, takes a job or leaves has looked nothing up.
LEMMA WriteMoves ==
    ASSUME ChannelInv, WriteInv, NEW w \in Workers, WorkerMoves(w)
    PROVE  WriteInv'
<1>1. /\ UNCHANGED <<accepted, finished, wsConns, dest, held, aim, inside, torn, received>>
      /\ worker[w] # "busy"
      /\ \A v \in Workers \ {w} : worker'[v] = worker[v] /\ hand'[v] = hand[v]
  BY WorkerFacts DEF WritesStill, writeVars, tableVars, Starts, Takes, Leaves, ChannelInv,
                     ChannelTypes
<1>2. aim[w] = NoConn
  BY <1>1 DEF WriteInv, AimOk
<1>3. WriteTypes'
  BY <1>1 DEF WriteInv, WriteTypes
<1>4. AimOk'
  <2> SUFFICES ASSUME NEW v \in Workers, aim[v] # NoConn
               PROVE  /\ worker'[v] = "busy" /\ NameOf[aim[v]] = dest[hand'[v]]
                      /\ aim[v] \in held[hand'[v]]
    BY <1>1 DEF AimOk
  <2>1. worker'[v] = worker[v] /\ hand'[v] = hand[v]
    BY <1>1, <1>2
  <2>. QED
    BY <2>1 DEF WriteInv, AimOk
<1>5. Current' /\ FreshTarget'
  BY <1>1 DEF WriteInv, Current, FreshTarget
<1>6. LostForAReason'
  BY <1>1 DEF WriteInv, LostForAReason, Wrote
<1>. QED
  BY <1>3, <1>4, <1>5, <1>6 DEF WriteInv

\* What a worker looks up has the name now; what it notices of other writers
\* spoils the connection, and it only can stop the process.
LEMMA WriteBegins ==
    ASSUME TableInv, ChannelInv, WriteInv, NEW w \in Workers,
           Lookup(w) \/ Begin(w) \/ Panic(w)
    PROVE  WriteInv'
<1>1. /\ JobsStill /\ UNCHANGED <<wsConns, dest, held, received>> /\ worker[w] = "busy"
  BY WriterFacts DEF tableVars
<1>2. hand[w] \in 1..accepted /\ hand[w] \notin finished
  BY <1>1, TakenFacts
<1> USE DEF WriteInv, WriteTypes, JobsStill
<1>3. CASE Lookup(w)
  <2>1. /\ Holder(w) \in Conns /\ NameOf[Holder(w)] = dest[hand[w]]
        /\ Holder(w) \in held[hand[w]]
    <3>1. dest[hand[w]] \in Names
      BY <1>2, ElementOfSeq
    <3>. QED
      BY <1>2, <1>3, <3>1 DEF Lookup, Holder, Current, TableInv, Table!TypeOK,
                              Table!RegisteredIsLive
  <2>2. aim' = [aim EXCEPT ![w] = Holder(w)] /\ UNCHANGED <<inside, torn>>
    BY <1>3 DEF Lookup
  <2>3. AimOk'
    BY <1>1, <2>1, <2>2 DEF AimOk
  <2>4. WriteTypes'
    BY <1>1, <2>1, <2>2, DeliveryAssumption
  <2>5. Current' /\ FreshTarget' /\ LostForAReason'
    BY <1>1, <2>2 DEF Current, FreshTarget, LostForAReason, Wrote
  <2>. QED
    BY <2>3, <2>4, <2>5
<1>4. CASE Begin(w)
  <2>1. /\ UNCHANGED aim /\ inside' = inside \cup {w} /\ aim[w] # NoConn
        /\ torn' = torn \/ torn' = torn \cup {aim[w]}
    BY <1>4 DEF Begin
  <2>2. WriteTypes' /\ AimOk'
    BY <1>1, <2>1 DEF AimOk
  <2>3. Current' /\ FreshTarget' /\ LostForAReason'
    BY <1>1, <2>1 DEF Current, FreshTarget, LostForAReason, Wrote
  <2>. QED
    BY <2>2, <2>3
<1>5. CASE Panic(w)
  <2>1. WritesStill
    BY <1>1, <1>5 DEF Panic, WritesStill
  <2>. QED
    BY <1>1, <2>1, WriteSame
<1>. QED
  BY <1>3, <1>4, <1>5

\* A worker is done with its job: where nothing was written, the job was owed
\* to nobody, to more than one, or to one whose connection is excused.
LEMMA WriteFinishes ==
    ASSUME TableInv, ChannelInv, WriteInv, NEW w \in Workers,
           NoDestination(w) \/ Written(w) \/ WriteFails(w)
    PROVE  WriteInv'
<1> DEFINE k == hand[w]
<1>1. /\ Finishes(w) /\ UNCHANGED <<wsConns, open, torn, dest, held>>
      /\ accepted' = accepted /\ worker[w] = "busy"
      /\ \A v \in Workers \ {w} : worker'[v] = worker[v] /\ hand'[v] = hand[v]
      /\ finished' = finished \cup {k}
  BY FinishFacts DEF tableVars, Finishes, ChannelInv, ChannelTypes
<1>2. k \in 1..accepted /\ k \notin finished /\ accepted \in Nat
  BY <1>1, TakenFacts
<1>3. dest[k] \in Names /\ wsConns[dest[k]] \in held[k]
  BY <1>2, ElementOfSeq DEF WriteInv, WriteTypes, Current
<1>4. aim[w] # NoConn => aim[w] \in held[k] /\ aim[w] \in Conns
  BY DEF WriteInv, AimOk, WriteTypes
<1>5. aim' = [aim EXCEPT ![w] = NoConn] /\ inside' = inside \ {w}
  BY DEF NoDestination, Written, WriteFails, Return, writeVars, WriteInv, WriteTypes
<1>6. \/ UNCHANGED received /\ ~Written(w)
      \/ /\ Written(w) /\ aim[w] \in Conns
         /\ received' = [received EXCEPT ![aim[w]] = Append(received[aim[w]], k)]
  BY <1>4 DEF NoDestination, Written, WriteFails, Return, writeVars, WriteInv, WriteTypes
<1> HIDE DEF k
<1>7. received' \in [Conns -> Seq(1..accepted)]
  <2>1. received \in [Conns -> Seq(1..accepted)]
    BY DEF WriteInv, WriteTypes
  <2>2. \A c \in Conns : Append(received[c], k) \in Seq(1..accepted)
    BY <1>2, <2>1
  <2>. QED
    BY <1>6, <2>1, <2>2
<1>8. \A c \in Conns : \A i \in 1..Len(received'[c]) :
         \/ i \in 1..Len(received[c]) /\ received'[c][i] = received[c][i]
         \/ Written(w) /\ c = aim[w] /\ received'[c][i] = k
  <2> SUFFICES ASSUME NEW c \in Conns, NEW i \in 1..Len(received'[c])
               PROVE  \/ i \in 1..Len(received[c]) /\ received'[c][i] = received[c][i]
                      \/ Written(w) /\ c = aim[w] /\ received'[c][i] = k
    OBVIOUS
  <2>1. received[c] \in Seq(1..accepted)
    BY DEF WriteInv, WriteTypes
  <2>2. CASE Written(w) /\ c = aim[w] /\ received'[c] = Append(received[c], k)
    BY <1>2, <2>1, <2>2
  <2>3. CASE received'[c] = received[c]
    BY <2>3
  <2>. QED
    BY <1>6, <2>2, <2>3 DEF WriteInv, WriteTypes
<1>9. \A j, c : c \in Conns /\ Wrote(j, c) => Wrote(j, c)'
  <2> SUFFICES ASSUME NEW j, NEW c \in Conns, NEW i \in 1..Len(received[c]),
                      received[c][i] = j
               PROVE  \E m \in 1..Len(received'[c]) : received'[c][m] = j
    BY DEF Wrote
  <2>1. received[c] \in Seq(1..accepted)
    BY DEF WriteInv, WriteTypes
  <2>2. CASE received'[c] = Append(received[c], k)
    BY <1>2, <2>1, <2>2
  <2>3. CASE received'[c] = received[c]
    BY <2>3
  <2>. QED
    BY <1>6, <2>2, <2>3 DEF WriteInv, WriteTypes
<1>10. ASSUME Written(w)
       PROVE  \E m \in 1..Len(received'[aim[w]]) : received'[aim[w]][m] = k
  <2> DEFINE s == received[aim[w]]
  <2>1. s \in Seq(1..accepted) /\ received'[aim[w]] = Append(s, k)
    BY <1>6, <1>10 DEF WriteInv, WriteTypes
  <2> HIDE DEF s
  <2>2. /\ Len(s) + 1 \in 1..Len(Append(s, k))
        /\ Append(s, k)[Len(s) + 1] = k
    BY <1>2, <2>1
  <2>. QED
    BY <2>1, <2>2
<1>11. WriteTypes'
  BY <1>1, <1>5, <1>7 DEF WriteInv, WriteTypes
<1>12. AimOk'
  BY <1>1, <1>5 DEF WriteInv, WriteTypes, AimOk
<1>13. Current'
  BY <1>1 DEF WriteInv, Current
<1>14. FreshTarget'
  <2> SUFFICES ASSUME NEW c \in Conns, NEW i \in 1..Len(received'[c])
               PROVE  c \in held[received'[c][i]]
    BY <1>1 DEF FreshTarget
  <2>1. Written(w) => aim[w] # NoConn
    BY <1>6, DeliveryAssumption
  <2>. QED
    BY <1>4, <1>8, <2>1 DEF WriteInv, FreshTarget
<1>15. LostForAReason'
  <2> SUFFICES ASSUME NEW j \in finished',
                      NEW c \in Conns \ (Flaky \cup Stalled \cup torn), held[j] = {c}
               PROVE  Wrote(j, c)'
    BY <1>1 DEF LostForAReason
  <2>1. CASE j \in finished
    BY <1>9, <2>1 DEF WriteInv, LostForAReason
  <2>2. CASE j = k
    <3>1. wsConns[dest[k]] = c /\ c # NoConn
      BY <1>3, <2>2, DeliveryAssumption
    <3>2. ~NoDestination(w)
      BY <3>1 DEF NoDestination, Holder, k
    <3>3. aim[w] = c
      <4>1. aim[w] # NoConn
        BY <3>2 DEF Written, WriteFails, Return, WriteInv, WriteTypes
      <4>. QED
        BY <1>4, <2>2, <4>1
    <3>4. c \in open
      BY <1>3, <3>1 DEF TableInv, Table!RegisteredIsLive
    <3>5. Written(w)
      BY <3>2, <3>3, <3>4 DEF WriteFails
    <3>. QED
      BY <1>10, <2>2, <3>3, <3>5 DEF Wrote
  <2>. QED
    BY <1>1, <2>1, <2>2
<1>. QED
  BY <1>11, <1>12, <1>13, <1>14, <1>15 DEF WriteInv

\* Every step keeps what is written where in order.
LEMMA WriteStep ==
    ASSUME TableInv, SendsOk, ChannelInv, WriteInv, TableInv', [Next]_vars
    PROVE  WriteInv'
<1>1. ASSUME NEW c \in Conns, TableRuns(c)
      PROVE  WriteInv'
  <2>1. Hold /\ JobsStill /\ UNCHANGED <<writeVars, dest>>
    BY <1>1 DEF TableRuns, channelVars, JobsStill
  <2>. QED
    BY <2>1, WriteTable DEF TableInv
<1>2. ASSUME NEW c \in Conns, Dial(c) \/ ReadFails(c)
      PROVE  WriteInv'
  <2>1. JobsStill /\ WritesStill /\ UNCHANGED wsConns
    BY <1>2 DEF Dial, ReadFails, Table!Upgrade, Table!ReadFails, channelVars, JobsStill,
                WritesStill
  <2>. QED
    BY <2>1, WriteSame
<1>3. ASSUME NEW c \in Conns, EnqueuePanics(c)
      PROVE  WriteInv'
  <2>1. JobsStill /\ WritesStill /\ UNCHANGED wsConns
    BY <1>3, PanicFacts DEF Table!ReadFails
  <2>. QED
    BY <2>1, WriteSame
<1>4. ASSUME NEW c \in Senders, NEW t \in Targets, Send(c, t)
      PROVE  WriteInv'
  BY <1>4, SendFacts, WriteSame DEF tableVars
<1>5. CASE Shutdown
  BY <1>5, ShutdownFacts, WriteSame DEF tableVars
<1>6. CASE UNCHANGED vars
  <2>1. JobsStill /\ WritesStill /\ UNCHANGED wsConns
    BY <1>6 DEF vars, tableVars, channelVars, JobsStill, WritesStill
  <2>. QED
    BY <2>1, WriteSame
<1>. QED
  BY <1>1, <1>2, <1>3, <1>4, <1>5, <1>6, NextCases, WriteEnqueue, WriteMoves, WriteBegins,
     WriteFinishes

-----------------------------------------------------------------------------
(***************************************************************************)
(* The inductive invariant.                                                *)
(***************************************************************************)

\* The proxy starts without connections, jobs and running workers.
LEMMA InitIInv == Init => IInv
<1> SUFFICES ASSUME Init PROVE IInv
  OBVIOUS
<1> USE DeliveryAssumption DEF Init, Table!Init, Channel!Init
<1>1. TableInv
  BY DEF TableInv, Table!TypeOK, Table!RegisteredIsLive, AddingOpen, FoundOk,
         Table!Adding, Table!Admitted
<1>2. SendsOk
  BY DEF SendsOk
<1>3. ChannelTypes
  <2>1. queue = <<>> /\ queue \in Seq(Nat) /\ Len(queue) = 0
    OBVIOUS
  <2>2. 0 <= Cap
    OBVIOUS
  <2>3. /\ worker \in [Workers -> {"new", "done", "recv", "busy"}]
        /\ hand \in [Workers -> Nat]
    OBVIOUS
  <2>. QED
    BY <2>1, <2>2, <2>3 DEF ChannelTypes
<1>4. CountOk
  <2>1. RunningSet = {}
    BY DEF RunningSet, Channel!Running
  <2>. QED
    BY <2>1, FS_EmptySet DEF CountOk
<1>5. QueueOk /\ HandOk /\ TakenOk
  BY DEF QueueOk, HandOk, TakenOk, Taken
<1>6. WriteTypes
  <2>1. \A S : <<>> \in Seq(S) /\ Len(<<>>) = 0
    BY EmptySeq
  <2>. QED
    BY <2>1 DEF WriteTypes
<1>7. AimOk /\ Current /\ FreshTarget /\ LostForAReason
  BY DEF AimOk, Current, FreshTarget, LostForAReason
<1>. QED
  BY <1>1, <1>2, <1>3, <1>4, <1>5, <1>6, <1>7 DEF IInv, ChannelInv, WriteInv

\* Every step preserves the inductive invariant.
LEMMA NextIInv == IInv /\ [Next]_vars => IInv'
<1> SUFFICES ASSUME IInv, [Next]_vars PROVE IInv'
  OBVIOUS
<1>1. TableInv'
  BY TableFacts, TableStep, TableStill DEF IInv
<1>2. SendsOk' /\ ChannelInv' /\ WriteInv'
  BY <1>1, SendsStep, ChannelStep, WriteStep DEF IInv
<1>. QED
  BY <1>1, <1>2 DEF IInv

\* The inductive invariant holds in every reachable state.
THEOREM Inductive == Spec => []IInv
  BY InitIInv, NextIInv, PTL DEF Spec

-----------------------------------------------------------------------------
(***************************************************************************)
(* The theorems.                                                           *)
(***************************************************************************)

\* The types of the table, the channel and the writes are correct: what a
\* worker has looked up has the name that its job is for.
THEOREM TypeCorrect == Spec => []TypeOK
<1>1. ASSUME IInv PROVE TypeOK
  <2> USE <1>1 DEF IInv
  <2>1. Table!TypeOK
    BY DEF TableInv
  <2>2. Channel!TypeOK
    <3>1. [c \in Conns |-> Len(ahead[c])] \in [Conns -> Nat]
      BY LenProperties DEF SendsOk
    <3>2. count \in Nat
      BY RunningFacts DEF ChannelInv
    <3>. QED
      BY <3>1, <3>2 DEF Channel!TypeOK, Channel!Running, ChannelInv, ChannelTypes
  <2>3. held \in [1..accepted -> SUBSET (Conns \cup {NoConn})]
    BY LenProperties DEF WriteInv, WriteTypes
  <2>. QED
    BY <2>1, <2>2, <2>3 DEF TypeOK, SendsOk, WriteInv, WriteTypes, AimOk
<1>. QED
  BY <1>1, Inductive, PTL

\* An event is only written to a connection that had the destination's name
\* after the event was accepted.
THEOREM TargetsAreFresh == Spec => []FreshTarget
<1>1. IInv => FreshTarget
  BY DEF IInv, WriteInv
<1>. QED
  BY <1>1, Inductive, PTL

\* An event is lost only through the network, through a peer that does not
\* read, through two writers, or because the destination changed or was none.
THEOREM LossesHaveReasons == Spec => []LostForAReason
<1>1. IInv => LostForAReason
  BY DEF IInv, WriteInv
<1>. QED
  BY <1>1, Inductive, PTL

\* No job is lost or taken twice between the handlers and the workers, also
\* when handlers die of the closed channel and the process of two writers.
THEOREM JobsExactlyOnce == Spec => []Channel!ExactlyOnce
<1>1. ASSUME IInv PROVE Channel!ExactlyOnce
  <2> USE <1>1 DEF IInv, ChannelInv, ChannelTypes
  <2> USE DEF QueueOk, HandOk, TakenOk, Channel!Queued, Channel!Held, Channel!Jobs
  <2>1. Taken \in Nat /\ Taken <= accepted /\ Len(queue) = accepted - Taken
    BY DEF Taken
  <2>2. Channel!Queued = (Taken + 1)..accepted
    <3>1. ASSUME NEW j \in (Taken + 1)..accepted
          PROVE  j \in Channel!Queued
      <4>1. j - Taken \in 1..Len(queue)
        BY <2>1
      <4>2. queue[j - Taken] = j
        BY <4>1, <2>1
      <4>. QED
        BY <4>1, <4>2
    <3>2. ASSUME NEW i \in 1..Len(queue)
          PROVE  queue[i] \in (Taken + 1)..accepted
      BY <2>1
    <3>. QED
      BY <3>1, <3>2
  <2>3. Channel!Held \cup finished = 1..Taken /\ Channel!Held \cap finished = {}
    <3>1. \A w \in Workers : hand[w] # 0 => hand[w] \in 1..Taken
      BY <2>1
    <3>2. Channel!Held \subseteq 1..Taken
      BY <3>1
    <3>3. \A j \in 1..Taken : j # 0
      BY <2>1
    <3>4. 1..Taken \subseteq Channel!Held \cup finished
      BY <3>3
    <3>5. finished \subseteq 1..Taken
      OBVIOUS
    <3>6. Channel!Held \cap finished = {}
      OBVIOUS
    <3>. QED
      BY <3>2, <3>4, <3>5, <3>6
  <2>4. /\ Channel!Queued \cup Channel!Held \cup finished = Channel!Jobs
        /\ Channel!Queued \cap Channel!Held = {} /\ Channel!Queued \cap finished = {}
    <3>1. (Taken + 1)..accepted \cap 1..Taken = {}
      BY <2>1
    <3>2. (Taken + 1)..accepted \cup 1..Taken = 1..accepted
      BY <2>1
    <3> HIDE DEF QueueOk, HandOk, TakenOk, Channel!Queued, Channel!Held, IInv,
                 ChannelInv, ChannelTypes
    <3>. QED
      BY <2>2, <2>3, <3>1, <3>2
  <2>. QED
    BY <2>3, <2>4 DEF Channel!ExactlyOnce
<1>. QED
  BY <1>1, Inductive, PTL

-----------------------------------------------------------------------------
(***************************************************************************)
(* Delivery implements its parts.                                          *)
(***************************************************************************)

\* A step of the composition is one of the table, or none.
LEMMA StepIsRegistry ==
    ASSUME IInv, [Next]_vars
    PROVE  [Table!Next]_(Table!vars)
<1>1. ASSUME NEW c \in Conns, TableMoves(c) PROVE Table!Next
  BY <1>1 DEF TableMoves, Table!HandlerRuns, Table!Next
<1>2. CASE UNCHANGED tableVars
  BY <1>2 DEF tableVars, Table!vars
<1>. QED
  BY <1>1, <1>2, TableFacts DEF IInv

\* The handlers that wait in send and panic there, and the workers, do not
\* make the table do what Registry does not: its properties hold here too.
THEOREM DeliveryImplementsRegistry == Spec => Table!Spec
<1>1. Init => Table!Init
  BY DEF Init
<1>. QED
  BY <1>1, StepIsRegistry, Inductive, PTL DEF Spec, Table!Spec

-----------------------------------------------------------------------------
\* The panic of two writers in one connection, which Dispatch does not know.
Crash ==
    /\ main' = "crashed"
    /\ UNCHANGED <<queue, closed, accepted, issued, panicked, worker, hand,
                   finished, count, ahead>>

\* A step of the composition is one of the channel, or that panic, or none.
LEMMA StepIsDispatch ==
    ASSUME IInv, [Next]_vars
    PROVE  [Channel!Next \/ Crash]_(Channel!vars)
<1> DEFINE todo == [c \in Conns |-> Len(ahead[c])]
<1>0. ASSUME UNCHANGED <<channelVars, ahead>>
      PROVE  UNCHANGED Channel!vars
  <2>1. todo' = todo
    BY <1>0, Zenon
  <2> HIDE DEF todo
  <2>2. UNCHANGED <<queue, closed, accepted, issued, todo, panicked, worker,
                    hand, finished, count, main>>
    BY <1>0, <2>1 DEF channelVars
  <2>. QED
    BY <2>2, Zenon DEF Channel!vars, todo
<1>1. ASSUME NEW c \in Conns, Enqueue(c)
      PROVE  Channel!Next
  BY <1>1 DEF Enqueue, Channel!Next
<1>2. ASSUME NEW c \in Conns, EnqueuePanics(c)
      PROVE  Channel!Next
  BY <1>2 DEF EnqueuePanics, Channel!Next
<1>3. ASSUME NEW c \in Senders, NEW t \in Targets, Send(c, t)
      PROVE  Channel!Next
  <2>1. c \in Conns /\ t \in Seq(Names) /\ t # <<>>
    BY DeliveryAssumption
  <2>2. Len(t) \in Nat /\ Len(t) # 0
    BY <2>1, LenProperties, EmptySeq
  <2>3. Len(t) \in 1..MaxJobs
    BY <2>2, <1>3, SendFacts, DeliveryAssumption DEF IInv, ChannelInv, ChannelTypes
  <2>. QED
    BY <1>3, <2>1, <2>3 DEF Send, Channel!Next
<1>4. ASSUME NEW w \in Workers, WorkerMoves(w)
      PROVE  Channel!Next
  BY <1>4 DEF WorkerMoves, Channel!Next
<1>5. ASSUME NEW w \in Workers, NoDestination(w) \/ Written(w) \/ WriteFails(w)
      PROVE  Channel!Next
  <2>1. Channel!Finish(w)
    BY <1>5 DEF NoDestination, Written, WriteFails, Return
  <2>. QED
    BY <2>1 DEF Channel!Next
<1>6. ASSUME NEW w \in Workers, Lookup(w) \/ Begin(w) \/ Panic(w)
      PROVE  UNCHANGED Channel!vars \/ Crash
  <2>1. CASE Panic(w)
    BY <2>1 DEF Panic, Crash
  <2>2. CASE Lookup(w) \/ Begin(w)
    BY <2>2, <1>0 DEF Lookup, Begin
  <2>. QED
    BY <1>6, <2>1, <2>2
<1>7. CASE Shutdown
  BY <1>7 DEF Shutdown, Channel!Next
<1>8. ASSUME NEW c \in Conns, TableRuns(c) \/ Dial(c) \/ ReadFails(c)
      PROVE  UNCHANGED Channel!vars
  BY <1>8, <1>0 DEF TableRuns, Dial, ReadFails
<1>9. CASE UNCHANGED vars
  BY <1>9, <1>0 DEF vars
<1>. QED
  BY <1>1, <1>2, <1>3, <1>4, <1>5, <1>6, <1>7, <1>8, <1>9, NextCases

\* The table and the writes give the channel no behaviour that Dispatch does
\* not have, apart from the panic of two writers in one connection.
THEOREM DeliveryImplementsDispatch ==
    Spec => Channel!Init /\ [][Channel!Next \/ Crash]_(Channel!vars)
<1>1. Init => Channel!Init
  BY DEF Init
<1>. QED
  BY <1>1, StepIsDispatch, Inductive, PTL DEF Spec
=============================================================================
