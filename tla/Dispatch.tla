------------------------------ MODULE Dispatch ------------------------------
(***************************************************************************)
(* The send path of the proxy: the buffered channel senderChannel of       *)
(* connectionManager, the websocket handlers that put jobs into it, the    *)
(* workers that take them out, and the shutdown that closes it and waits   *)
(* for the workers (pkg/proxy/connectionmanager.go and server.go).         *)
(*                                                                         *)
(* A job is one event for one destination.  Only its place in the order in *)
(* which the channel accepted it matters here, so jobs are the numbers     *)
(* 1, 2, 3, ... of that order.  What sendWS does with one is the business  *)
(* of other modules; here its write takes a while and then returns, with   *)
(* or without an error, unless the peer neither reads nor hangs up.        *)
(***************************************************************************)
EXTENDS Naturals, Sequences, FiniteSets

CONSTANTS
    Workers,  \* the goroutines that start(numWorkers) launches
    Handlers, \* the goroutines of the websocket handlers, which call send
    Cap,      \* the capacity of senderChannel, 100 in the code
    MaxFan,   \* bound: most destinations of one event
    MaxJobs,  \* bound: jobs that are ever sent
    Unread    \* the jobs whose peer neither reads nor hangs up

ASSUME DispatchAssumption ==
    /\ IsFiniteSet(Workers) /\ Workers # {}
    /\ Cap \in Nat \ {0}
    /\ MaxFan \in Nat
    /\ MaxJobs \in Nat
    /\ Unread \subseteq Nat

VARIABLES
    queue,    \* the jobs in the buffer of senderChannel
    closed,   \* whether senderChannel is closed
    accepted, \* how many jobs the channel has accepted
    issued,   \* how many jobs send was asked for, to bound them
    todo,     \* for each handler, what its send has still to put in
    panicked, \* the handlers that died of a send on the closed channel
    worker,   \* where each worker is
    hand,     \* the job each worker holds, or 0
    finished, \* history: the jobs whose sendWS has returned
    count,    \* the counter of workerWG
    main      \* where the goroutine of main is

vars == <<queue, closed, accepted, issued, todo, panicked,
          worker, hand, finished, count, main>>
channelVars == <<queue, closed, accepted>>
senderVars == <<issued, todo, panicked>>
workerVars == <<worker, hand, finished>>

Running == {"recv", "busy"}    \* between workerWG.Add and workerWG.Done

TypeOK ==
    /\ queue \in Seq(Nat) /\ Len(queue) <= Cap
    /\ closed \in BOOLEAN
    /\ accepted \in Nat /\ issued \in Nat
    /\ todo \in [Handlers -> Nat]
    /\ panicked \in SUBSET Handlers
    /\ worker \in [Workers -> {"new", "done"} \cup Running]
    /\ hand \in [Workers -> Nat]
    /\ finished \in SUBSET Nat
    /\ count \in Nat
    /\ main \in {"serving", "closing", "waiting", "released", "returned",
                 "exited", "crashed"}

Init ==
    /\ queue = <<>> /\ closed = FALSE /\ accepted = 0 /\ issued = 0
    /\ todo = [h \in Handlers |-> 0]
    /\ panicked = {}
    /\ worker = [w \in Workers |-> "new"]
    /\ hand = [w \in Workers |-> 0]
    /\ finished = {}
    /\ count = 0
    /\ main = "serving"

\* Nothing runs in a process that has exited or died of a panic.
Alive == main \notin {"exited", "crashed"}

-----------------------------------------------------------------------------
(***************************************************************************)
(* The handlers.                                                           *)
(***************************************************************************)

\* A handler read an event and calls send: k destinations are ahead, the
\* members of the group, or the one connection if the target is no group.
Send(h, k) ==
    /\ Alive
    /\ todo[h] = 0 /\ h \notin panicked
    /\ issued + k <= MaxJobs
    /\ issued' = issued + k
    /\ todo' = [todo EXCEPT ![h] = k]
    /\ UNCHANGED <<channelVars, panicked, workerVars, count, main>>

\* senderChannel <- job: it blocks as long as the buffer is full.
Enqueue(h) ==
    /\ Alive
    /\ todo[h] > 0 /\ ~closed /\ Len(queue) < Cap
    /\ queue' = Append(queue, accepted + 1)
    /\ accepted' = accepted + 1
    /\ todo' = [todo EXCEPT ![h] = @ - 1]
    /\ UNCHANGED <<closed, issued, panicked, workerVars, count, main>>

\* The same on the closed channel, also for a handler that was blocked when
\* it was closed: a panic, which gin's Recovery turns into the handler's end.
EnqueuePanics(h) ==
    /\ Alive
    /\ todo[h] > 0 /\ closed
    /\ todo' = [todo EXCEPT ![h] = 0]
    /\ panicked' = panicked \cup {h}
    /\ UNCHANGED <<channelVars, issued, workerVars, count, main>>

-----------------------------------------------------------------------------
(***************************************************************************)
(* The workers.                                                            *)
(***************************************************************************)

\* Slip: the Add is forgotten, so that the Done of Leave is one too many.
StartUncounted(w) ==
    /\ Alive
    /\ worker[w] = "new"
    /\ worker' = [worker EXCEPT ![w] = "recv"]
    /\ UNCHANGED <<channelVars, senderVars, hand, finished, count, main>>

\* The worker's first step, workerWG.Add(1): it is the goroutine itself that
\* adds, so that it may come long after start, or after close, returned.
Start(w) ==
    /\ Alive
    /\ worker[w] = "new"
    /\ worker' = [worker EXCEPT ![w] = "recv"]
    /\ count' = count + 1
    /\ UNCHANGED <<channelVars, senderVars, hand, finished, main>>

\* Slip: the job is read but stays in the channel.
ReceivePeek(w) ==
    /\ Alive
    /\ worker[w] = "recv" /\ queue # <<>>
    /\ worker' = [worker EXCEPT ![w] = "busy"]
    /\ hand' = [hand EXCEPT ![w] = Head(queue)]
    /\ UNCHANGED <<channelVars, senderVars, finished, count, main>>

\* Slip: the newest job is taken first.
ReceiveLast(w) ==
    /\ Alive
    /\ worker[w] = "recv" /\ queue # <<>>
    /\ worker' = [worker EXCEPT ![w] = "busy"]
    /\ hand' = [hand EXCEPT ![w] = queue[Len(queue)]]
    /\ queue' = SubSeq(queue, 1, Len(queue) - 1)
    /\ UNCHANGED <<closed, accepted, senderVars, finished, count, main>>

\* One round of the range over the channel, which drains it after close too.
Receive(w) ==
    /\ Alive
    /\ worker[w] = "recv" /\ queue # <<>>
    /\ worker' = [worker EXCEPT ![w] = "busy"]
    /\ hand' = [hand EXCEPT ![w] = Head(queue)]
    /\ queue' = Tail(queue)
    /\ UNCHANGED <<closed, accepted, senderVars, finished, count, main>>

\* Slip: the worker ends when a write fails, instead of going on.
FinishAndStop(w) ==
    /\ Alive
    /\ worker[w] = "busy"
    /\ worker' = [worker EXCEPT ![w] = "done"]
    /\ hand' = [hand EXCEPT ![w] = 0]
    /\ finished' = finished \cup {hand[w]}
    /\ count' = count - 1
    /\ UNCHANGED <<channelVars, senderVars, main>>

\* sendWS returns: written, or failed and logged.
Finish(w) ==
    /\ Alive
    /\ worker[w] = "busy"
    /\ worker' = [worker EXCEPT ![w] = "recv"]
    /\ hand' = [hand EXCEPT ![w] = 0]
    /\ finished' = finished \cup {hand[w]}
    /\ UNCHANGED <<channelVars, senderVars, count, main>>

\* Slip: a worker leaves at close although jobs are still queued.
LeaveUndrained(w) ==
    /\ Alive
    /\ worker[w] = "recv" /\ closed
    /\ worker' = [worker EXCEPT ![w] = "done"]
    /\ count' = count - 1
    /\ main' = IF main = "waiting" /\ count = 1 THEN "released" ELSE main
    /\ UNCHANGED <<channelVars, senderVars, hand, finished>>

\* Slip: the first worker to leave, not the last, releases main.
LeaveFirst(w) ==
    /\ Alive
    /\ worker[w] = "recv" /\ queue = <<>> /\ closed
    /\ worker' = [worker EXCEPT ![w] = "done"]
    /\ count' = count - 1
    /\ main' = IF main = "waiting" THEN "released" ELSE main
    /\ UNCHANGED <<channelVars, senderVars, hand, finished>>

\* Slip: workerWG.Done is missing.
LeaveUncounted(w) ==
    /\ Alive
    /\ worker[w] = "recv" /\ queue = <<>> /\ closed
    /\ worker' = [worker EXCEPT ![w] = "done"]
    /\ UNCHANGED <<channelVars, senderVars, hand, finished, count, main>>

\* The channel is closed and empty: the loop ends and workerWG.Done runs; if
\* it brings the counter to 0, it releases whoever waits.
Leave(w) ==
    /\ Alive
    /\ worker[w] = "recv" /\ queue = <<>> /\ closed
    /\ worker' = [worker EXCEPT ![w] = "done"]
    /\ count' = count - 1
    /\ main' = IF main = "waiting" /\ count = 1 THEN "released" ELSE main
    /\ UNCHANGED <<channelVars, senderVars, hand, finished>>

-----------------------------------------------------------------------------
(***************************************************************************)
(* Shutdown: main got a signal and runs Stop, which runs close().          *)
(***************************************************************************)
CloseChannel ==
    /\ main = "serving"
    /\ main' = "closing"
    /\ closed' = TRUE
    /\ UNCHANGED <<queue, accepted, senderVars, workerVars, count>>

\* workerWG.Wait: it returns at once when the counter is 0.
Wait ==
    /\ main = "closing"
    /\ main' = IF count = 0 THEN "returned" ELSE "waiting"
    /\ UNCHANGED <<channelVars, senderVars, workerVars, count>>

\* The released main runs again.  Wait panics if a worker has called Add in
\* the meantime ("WaitGroup is reused before previous Wait has returned").
Wake ==
    /\ main = "released"
    /\ main' = IF count = 0 THEN "returned" ELSE "crashed"
    /\ UNCHANGED <<channelVars, senderVars, workerVars, count>>

\* The rest of Stop, at most 5 seconds of it, and the end of the process.
Exit ==
    /\ main = "returned"
    /\ main' = "exited"
    /\ UNCHANGED <<channelVars, senderVars, workerVars, count>>

Terminated == ~Alive /\ UNCHANGED vars

-----------------------------------------------------------------------------
Next ==
    \/ \E h \in Handlers : \/ \E k \in 1..MaxFan : Send(h, k)
                           \/ Enqueue(h) \/ EnqueuePanics(h)
    \/ \E w \in Workers : Start(w) \/ Receive(w) \/ Finish(w) \/ Leave(w)
    \/ CloseChannel \/ Wait \/ Wake \/ Exit
    \/ Terminated

Spec == Init /\ [][Next]_vars

(***************************************************************************)
(* Fairness: the Go scheduler runs every goroutine that can run, and a     *)
(* write returns unless the job is in Unread.  Nobody has to send events   *)
(* or to stop the proxy.                                                   *)
(***************************************************************************)
FairSpec ==
    /\ Spec
    /\ \A h \in Handlers : WF_vars(Enqueue(h) \/ EnqueuePanics(h))
    /\ \A w \in Workers :
          /\ WF_vars(Start(w) \/ Receive(w) \/ Leave(w))
          /\ WF_vars(hand[w] \notin Unread /\ Finish(w))
    /\ WF_vars(Wait \/ Wake)

-----------------------------------------------------------------------------
(***************************************************************************)
(* Properties.                                                             *)
(***************************************************************************)
Jobs == 1..accepted
Queued == {queue[i] : i \in 1..Len(queue)}
Held == {hand[w] : w \in Workers} \ {0}

\* No accepted job is lost or taken twice, also across close: it is in the
\* channel, in the hands of one worker, or finished, and only one of these.
ExactlyOnce ==
    /\ Queued \cup Held \cup finished = Jobs
    /\ Queued \cap Held = {} /\ Queued \cap finished = {}
    /\ Held \cap finished = {}
    /\ \A v, w \in Workers : v # w /\ hand[v] = hand[w] => hand[v] = 0

\* A worker may overtake another, and events for one display may reach it in
\* another order than they were sent; but a finished job has fewer unfinished
\* ones before it than there are workers.  With one worker it is FIFO.
Overtaken(j) == {i \in 1..j - 1 : i \notin finished}
BoundedReordering ==
    \A j \in finished : Cardinality(Overtaken(j)) < Cardinality(Workers)

\* When close() returns, no started worker is still at work, and if any
\* worker ever started, every job the channel accepted has been finished.
DrainedAtReturn ==
    [][(main # "returned" /\ main' = "returned") =>
          /\ \A w \in Workers : worker[w] \in {"new", "done"}
          /\ (\E w \in Workers : worker[w] = "done") => finished = Jobs]_vars

\* Wait cannot panic in a proxy whose workers all started before it was told
\* to stop: the late Add in worker() matters only to a stop right at start.
AllStarted == \A w \in Workers : worker[w] # "new"
CleanStop ==
    [](main = "serving" /\ AllStarted => [](main # "crashed"))

AllStuck == \A w \in Workers : worker[w] = "busy" /\ hand[w] \in Unread

\* Every job the channel accepted is dealt with in the end, even if peers
\* stall, as long as they do not occupy every worker.
Served ==
    \A j \in 1..MaxJobs :
        (j <= accepted) ~> (j \in finished \/ j \in Unread \/ AllStuck \/ ~Alive)

\* Stop gets past workerWG.Wait unless a worker writes to a stalled peer.
StopReturns ==
    (main = "closing") ~>
        (main \in {"returned", "exited", "crashed"}
         \/ \E w \in Workers : worker[w] = "busy" /\ hand[w] \in Unread)
=============================================================================
