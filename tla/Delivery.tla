------------------------------ MODULE Delivery ------------------------------
(***************************************************************************)
(* The way of an event from one display to another: the connection table   *)
(* (Registry) and the channel with its workers (Dispatch) put together     *)
(* with sendWS, which looks a destination up in the table and then writes  *)
(* to the connection without any lock (pkg/proxy/connectionmanager.go).    *)
(*                                                                         *)
(* The handlers of the table are the senders of the channel: one that      *)
(* waits in send reads nothing, so that it does not notice that its own    *)
(* connection was closed; one that panics in send still runs its deferred  *)
(* closeWSConn.                                                            *)
(*                                                                         *)
(* The websocket library allows one writer at a time.  Two workers inside  *)
(* one connection may garble what they write, and the library panics when  *)
(* it notices them; in a worker that ends the process.  A write to a peer  *)
(* that does not read blocks until the proxy closes the connection, or     *)
(* fails, if a ping to this peer has timed out before.                     *)
(***************************************************************************)
EXTENDS Naturals, Sequences, FiniteSets

CONSTANTS
    Names, Conns, NoConn, NameOf,    \* as in Registry
    Workers, Cap, MaxJobs,           \* as in Dispatch
    Senders,  \* bound: the connections whose clients send events
    Targets,  \* the destinations of an event: a name, or a group's members
    Stalled,  \* the connections whose peer need not read
    Flaky,    \* the connections whose peer may vanish
    MayStop   \* bound: whether the proxy may be told to stop

ASSUME DeliveryAssumption ==
    /\ NameOf \in [Conns -> Names] /\ NoConn \notin Conns
    /\ IsFiniteSet(Workers) /\ Workers # {}
    /\ Cap \in Nat \ {0} /\ MaxJobs \in Nat
    /\ Senders \subseteq Conns
    /\ Targets \subseteq Seq(Names) \ {<<>>}
    /\ Stalled \subseteq Conns /\ Flaky \subseteq Conns
    /\ MayStop \in BOOLEAN

VARIABLES
    wsConns, pc, found, open, raced,                      \* of Registry
    queue, closed, accepted, issued, panicked, worker, hand, finished,
    count, main,                                          \* of Dispatch
    ahead,    \* for each handler, the destinations its send has still to do
    dest,     \* the destination of each accepted job
    aim,      \* the connection that each worker has looked up, or NoConn
    inside,   \* the workers that are in the library's WriteJSON
    torn,     \* the connections that two workers were inside of at once
    received, \* the jobs written to each connection, in order
    held      \* history: what the table said of each job's destination
              \* from its acceptance to its end

tableVars == <<wsConns, pc, found, open, raced>>
channelVars == <<queue, closed, accepted, issued, panicked, worker, hand,
                 finished, count, main>>
writeVars == <<aim, inside, torn, received>>
vars == <<tableVars, channelVars, writeVars, ahead, dest, held>>

Table == INSTANCE Registry
Channel == INSTANCE Dispatch
               WITH Handlers <- Conns, MaxFan <- MaxJobs, Unread <- {},
                    todo <- [c \in Conns |-> Len(ahead[c])]

TypeOK ==
    /\ Table!TypeOK /\ Channel!TypeOK
    /\ ahead \in [Conns -> Seq(Names)]
    /\ dest \in Seq(Names) /\ Len(dest) = accepted
    /\ aim \in [Workers -> Conns \cup {NoConn}]
    /\ \A w \in Workers : aim[w] # NoConn => NameOf[aim[w]] = dest[hand[w]]
    /\ inside \subseteq {w \in Workers : aim[w] # NoConn}
    /\ torn \in SUBSET Conns
    /\ received \in [Conns -> Seq(1..accepted)]
    /\ held \in [1..accepted -> SUBSET (Conns \cup {NoConn})]

Init ==
    /\ Table!Init
    /\ ahead = [c \in Conns |-> <<>>]
    /\ Channel!Init
    /\ dest = <<>> /\ held = <<>>
    /\ aim = [w \in Workers |-> NoConn]
    /\ inside = {} /\ torn = {}
    /\ received = [c \in Conns |-> <<>>]

\* History: the table may have changed under the jobs that are not finished.
Hold ==
    held' = [j \in 1..accepted |->
                IF j \in finished THEN held[j]
                ELSE held[j] \cup {wsConns'[dest[j]]}]

-----------------------------------------------------------------------------
(***************************************************************************)
(* The handlers.                                                           *)
(***************************************************************************)

\* A step of a handler outside of send.
TableRuns(c) ==
    /\ Channel!Alive
    /\ Table!HandlerRuns(c)
    /\ Hold
    /\ UNCHANGED <<channelVars, writeVars, ahead, dest>>

Dial(c) ==
    /\ Channel!Alive
    /\ Table!Upgrade(c)
    /\ UNCHANGED <<channelVars, writeVars, ahead, dest, held>>

\* Slip: the loop goes on after an error, as the one of the display does.
ReadFailsContinues(c) ==
    /\ Channel!Alive
    /\ ahead[c] = <<>> /\ pc[c] = "read"
    /\ UNCHANGED vars

ReadFails(c) ==
    /\ Channel!Alive
    /\ ahead[c] = <<>>
    /\ Table!ReadFails(c)
    /\ UNCHANGED <<channelVars, writeVars, ahead, dest, held>>

\* The next event is for t.  (What had arrived before the proxy closed the
\* connection can still be read.)
Send(c, t) ==
    /\ pc[c] = "read"
    /\ ahead' = [ahead EXCEPT ![c] = t]
    /\ Channel!Send(c, Len(t))
    /\ UNCHANGED <<tableVars, writeVars, dest, held>>

Enqueue(c) ==
    /\ ahead[c] # <<>>
    /\ ahead' = [ahead EXCEPT ![c] = Tail(@)]
    /\ Channel!Enqueue(c)
    /\ dest' = Append(dest, Head(ahead[c]))
    /\ held' = Append(held, {wsConns[Head(ahead[c])]})
    /\ UNCHANGED <<tableVars, writeVars>>

\* The panic of a send on the closed channel leads to the deferred close.
EnqueuePanics(c) ==
    /\ ahead' = [ahead EXCEPT ![c] = <<>>]
    /\ Channel!EnqueuePanics(c)
    /\ Table!Goto(c, "cleanup")
    /\ UNCHANGED <<wsConns, found, open, raced, writeVars, dest, held>>

-----------------------------------------------------------------------------
(***************************************************************************)
(* The workers.                                                            *)
(***************************************************************************)
WorkerMoves(w) ==
    /\ UNCHANGED <<tableVars, writeVars, ahead, dest, held>>
    /\ Channel!Start(w) \/ Channel!Receive(w) \/ Channel!Leave(w)

Busy(w) == Channel!Alive /\ worker[w] = "busy"
Holder(w) == wsConns[dest[hand[w]]]

\* Slip: the worker looks up a name once and keeps what it found.
LookupCached(w) ==
    /\ Busy(w) /\ aim[w] = NoConn
    /\ LET known == {c \in Conns : NameOf[c] = dest[hand[w]] /\ received[c] # <<>>}
       IN aim' = [aim EXCEPT ![w] = IF known = {} THEN Holder(w)
                                    ELSE CHOOSE c \in known : TRUE]
    /\ aim'[w] # NoConn
    /\ UNCHANGED <<tableVars, channelVars, inside, torn, received, ahead, dest, held>>

\* Slip: any connection will do if the destination has none.
LookupAny(w) ==
    /\ Busy(w) /\ aim[w] = NoConn
    /\ \E c \in open : aim' = [aim EXCEPT ![w] = c]
    /\ UNCHANGED <<tableVars, channelVars, inside, torn, received, ahead, dest, held>>

\* sendWS: getWSConn(dest), with its lock.
Lookup(w) ==
    /\ Busy(w) /\ aim[w] = NoConn /\ Holder(w) # NoConn
    /\ aim' = [aim EXCEPT ![w] = Holder(w)]
    /\ UNCHANGED <<tableVars, channelVars, inside, torn, received, ahead, dest, held>>

\* "no connection for destination": the event is dropped.
NoDestination(w) ==
    /\ Busy(w) /\ aim[w] = NoConn /\ Holder(w) = NoConn
    /\ UNCHANGED <<tableVars, writeVars, ahead, dest, held>>
    /\ Channel!Finish(w)

Others(w) == {v \in inside \ {w} : aim[v] = aim[w]}

\* Slip: an event for a connection that is being written to is dropped.
BeginSkips(w) ==
    /\ Busy(w) /\ aim[w] # NoConn /\ w \notin inside
    /\ UNCHANGED <<tableVars, torn, received, ahead, dest, held>>
    /\ \/ /\ Others(w) = {}
          /\ inside' = inside \cup {w}
          /\ UNCHANGED <<channelVars, aim>>
       \/ /\ Others(w) # {}
          /\ Channel!Finish(w)
          /\ aim' = [aim EXCEPT ![w] = NoConn]
          /\ UNCHANGED inside

\* WriteJSON, after the unlock: the table may have changed since.
Begin(w) ==
    /\ Busy(w) /\ aim[w] # NoConn /\ w \notin inside
    /\ inside' = inside \cup {w}
    /\ torn' = IF Others(w) = {} THEN torn ELSE torn \cup {aim[w]}
    /\ UNCHANGED <<tableVars, channelVars, aim, received, ahead, dest, held>>

\* panic("concurrent write to websocket connection")
Panic(w) ==
    /\ Busy(w) /\ w \in inside /\ Others(w) # {}
    /\ main' = "crashed"
    /\ UNCHANGED <<queue, closed, accepted, issued, panicked, worker, hand,
                   finished, count, tableVars, writeVars, ahead, dest, held>>

Return(w) ==
    /\ Busy(w) /\ w \in inside
    /\ UNCHANGED <<tableVars, torn, ahead, dest, held>>
    /\ Channel!Finish(w)
    /\ aim' = [aim EXCEPT ![w] = NoConn]
    /\ inside' = inside \ {w}

Written(w) ==
    /\ Return(w)
    /\ aim[w] \in open
    /\ received' = [received EXCEPT ![aim[w]] = Append(@, hand[w])]

\* The error is logged, the event is lost.
WriteFails(w) ==
    /\ Return(w)
    /\ aim[w] \notin open \/ aim[w] \in Flaky \cup Stalled \cup torn
    /\ UNCHANGED received

-----------------------------------------------------------------------------
Shutdown ==
    /\ MayStop
    /\ UNCHANGED <<tableVars, writeVars, ahead, dest, held>>
    /\ Channel!CloseChannel \/ Channel!Wait \/ Channel!Wake \/ Channel!Exit

Terminated == ~Channel!Alive /\ UNCHANGED vars

\* No client is left, and the workers wait for jobs.
Idle ==
    /\ \A c \in Conns : pc[c] = "gone"
    /\ queue = <<>> /\ \A w \in Workers : worker[w] = "recv"
    /\ UNCHANGED vars

Next ==
    \/ \E c \in Conns :
          \/ TableRuns(c) \/ Dial(c) \/ ReadFails(c)
          \/ Enqueue(c) \/ EnqueuePanics(c)
    \/ \E c \in Senders, t \in Targets : Send(c, t)
    \/ \E w \in Workers :
          \/ WorkerMoves(w) \/ Lookup(w) \/ NoDestination(w)
          \/ Begin(w) \/ Panic(w) \/ Written(w) \/ WriteFails(w)
    \/ Shutdown
    \/ Terminated \/ Idle

Spec == Init /\ [][Next]_vars

(***************************************************************************)
(* Fairness: goroutines that can run do; a read or a write of a connection *)
(* that the proxy has closed returns, and so does a write to a peer that   *)
(* is not stalled.  Peers need not send, hang up or read.                  *)
(***************************************************************************)
Stuck(w) == w \in inside /\ aim[w] \in Stalled \cap open

FairSpec ==
    /\ Spec
    /\ \A c \in Conns : /\ WF_vars(TableRuns(c))
                        /\ WF_vars(c \notin open /\ ReadFails(c))
                        /\ WF_vars(Enqueue(c) \/ EnqueuePanics(c))
    /\ \A w \in Workers :
          WF_vars(\/ WorkerMoves(w) \/ Lookup(w) \/ NoDestination(w) \/ Begin(w)
                  \/ ~Stuck(w) /\ (Written(w) \/ WriteFails(w)))

-----------------------------------------------------------------------------
(***************************************************************************)
(* Properties.                                                             *)
(***************************************************************************)
Wrote(j, c) == \E i \in 1..Len(received[c]) : received[c][i] = j

\* An event goes to a connection that had the destination's name at some
\* moment after the event was accepted: a display that came back gets its
\* events on the new connection, never on one replaced before they were sent.
FreshTarget ==
    \A c \in Conns : \A i \in 1..Len(received[c]) : c \in held[received[c][i]]

\* An event is not lost without a reason: if one connection had the name the
\* whole time, its peer reads and did not vanish, and no two workers were
\* inside it at once, then it got the event.
LostForAReason ==
    \A j \in finished : \A c \in Conns \ (Flaky \cup Stalled \cup torn) :
        held[j] = {c} => Wrote(j, c)

\* A worker that is blocked in a write to a display is set free when the
\* display connects again, unless its handlers raced in addWSConn.
Freed ==
    \A w \in Workers, c \in Conns :
        (aim[w] = c /\ wsConns[NameOf[c]] # c)
            ~> (aim[w] # c \/ NameOf[c] \in raced \/ ~Channel!Alive)

\* A displaced handler ends although it may be waiting in send, unless
\* all workers are stuck.
DisplacedEnds ==
    \A c \in Conns :
        (pc[c] \in {"read", "cleanup"} /\ wsConns[NameOf[c]] # c)
            ~> (\/ pc[c] = "gone" \/ NameOf[c] \in raced \/ ~Channel!Alive
                \/ \A w \in Workers : Stuck(w))
=============================================================================
