------------------------------- MODULE Server -------------------------------
(***************************************************************************)
(* The server around the connection manager: the list echoConns with the   *)
(* handlers of GET /echo, the close handlers that upgrade() installs on    *)
(* every websocket, and Start and Stop (pkg/proxy/server.go).              *)
(*                                                                         *)
(* echoConnsMu guards the list.  Handlers hold it for one step, Stop from  *)
(* its first step to its last: while Stop waits for the workers, a handler *)
(* that has to take a connection off the list waits too.  The close        *)
(* handler is the same for echo connections and for displays, so that a    *)
(* display's handler that reads a close frame waits for the lock as well,  *)
(* before it comes to close the display's connection.                      *)
(*                                                                         *)
(* What the workers write comes from Dispatch and Delivery; here it is a   *)
(* number of jobs, each a write to some display.                           *)
(***************************************************************************)
EXTENDS Naturals, Sequences, SequencesExt

CONSTANTS
    Echoes,   \* the connections of GET /echo
    Displays, \* the connections of GET /ws/:name
    Workers,
    Stalled,  \* the displays whose peers do not read
    NoConn,
    MaxJobs   \* bound: writes of the workers

ASSUME ServerAssumption ==
    /\ Echoes \cap Displays = {} /\ NoConn \notin Echoes \cup Displays
    /\ Stalled \subseteq Displays
    /\ MaxJobs \in Nat

Conns == Echoes \cup Displays

VARIABLES
    echoConns, \* the list
    pc,        \* where the handler of each connection is
    open,      \* the connections that the proxy has not closed
    linked,    \* the connections that the peer has not cut
    jobs,      \* writes that have still to be done
    worker,    \* the display that each worker writes to, or NoConn
    main,      \* where the goroutine of main is
    listener,  \* where the goroutine of ListenAndServe is
    request    \* whether a page is being served

vars == <<echoConns, pc, open, linked, jobs, worker, main, listener,
          request>>
connVars == <<echoConns, pc, open, linked>>
workVars == <<jobs, worker>>
mainVars == <<main, listener, request>>

(***************************************************************************)
(* A handler of /echo goes from "away" through "adding" to "serving"; on a *)
(* close frame it is in the close handler, "goodbye"; "leaving" is the     *)
(* deferred close.  A handler of /ws does not add itself to the list.      *)
(***************************************************************************)
TypeOK ==
    /\ echoConns \in Seq(Echoes)
    /\ pc \in [Conns -> {"away", "adding", "serving", "writing", "goodbye",
                         "leaving", "gone"}]
    /\ open \in SUBSET Conns /\ linked \in SUBSET Conns
    /\ jobs \in 0..MaxJobs
    /\ worker \in [Workers -> Displays \cup {NoConn}]
    /\ main \in {"serving", "draining", "closing", "shutdown", "waiting",
                 "returned", "exited"}
    /\ listener \in {"new", "listening", "ended"}
    /\ request \in BOOLEAN

Init ==
    /\ echoConns = <<>>
    /\ pc = [c \in Conns |-> "away"]
    /\ open = {} /\ linked = {}
    /\ jobs = MaxJobs
    /\ worker = [w \in Workers |-> NoConn]
    /\ main = "serving" /\ listener = "new"
    /\ request = FALSE

Alive == main # "exited"
Locked == main \in {"draining", "closing", "shutdown", "waiting"}
Goto(c, label) == pc' = [pc EXCEPT ![c] = label]

-----------------------------------------------------------------------------
(***************************************************************************)
(* The handlers.                                                           *)
(***************************************************************************)
Dial(c) ==
    /\ Alive
    /\ listener = "listening" /\ pc[c] = "away"
    /\ Goto(c, IF c \in Echoes THEN "adding" ELSE "serving")
    /\ open' = open \cup {c} /\ linked' = linked \cup {c}
    /\ UNCHANGED <<echoConns, workVars, mainVars>>

AddEchoConn(c) ==
    /\ Alive /\ ~Locked
    /\ pc[c] = "adding"
    /\ echoConns' = Append(echoConns, c)
    /\ Goto(c, "serving")
    /\ UNCHANGED <<open, linked, workVars, mainVars>>

\* A message came, and the handler of /echo writes it back.
Echo(c) ==
    /\ Alive
    /\ c \in Echoes
    /\ \/ pc[c] = "serving" /\ Goto(c, "writing")
       \/ pc[c] = "writing" /\ c \in open \cap linked /\ Goto(c, "serving")
    /\ UNCHANGED <<echoConns, open, linked, workVars, mainVars>>

\* The peer cuts the connection.
Cut(c) ==
    /\ Alive
    /\ c \in linked
    /\ linked' = linked \ {c}
    /\ UNCHANGED <<echoConns, pc, open, workVars, mainVars>>

\* A read or a write fails: the connection was closed or cut, or the peer
\* sent something else than a message.
IOFails(c) ==
    /\ Alive
    /\ \/ pc[c] = "serving"
       \/ pc[c] = "writing" /\ c \notin open \cap linked
    /\ Goto(c, "leaving")
    /\ UNCHANGED <<echoConns, open, linked, workVars, mainVars>>

\* A close frame arrives, and the close handler is called.
CloseFrame(c) ==
    /\ Alive
    /\ pc[c] = "serving" /\ c \in open
    /\ Goto(c, "goodbye")
    /\ UNCHANGED <<echoConns, open, linked, workVars, mainVars>>

\* Slip: append(echoConns[:i], echoConns[i:]...), nothing is taken out.
CloseEchoConnKeeps(c) ==
    IF Contains(echoConns, c)
    THEN open' = open \ {c} /\ UNCHANGED echoConns
    ELSE UNCHANGED <<open, echoConns>>

\* closeEchoConn: nothing for a connection that is not on the list.
CloseEchoConn(c) ==
    \/ \E i \in DOMAIN echoConns :
          /\ echoConns[i] = c /\ \A j \in 1..i - 1 : echoConns[j] # c
          /\ open' = open \ {c}
          /\ echoConns' = RemoveAt(echoConns, i)
    \/ ~Contains(echoConns, c) /\ UNCHANGED <<open, echoConns>>

\* Slip: the read goes on after the close frame.
GoodbyeIgnored(c) ==
    /\ Alive /\ ~Locked
    /\ pc[c] = "goodbye"
    /\ Goto(c, "serving")
    /\ UNCHANGED <<echoConns, open, linked, workVars, mainVars>>

\* The close handler, and then the read returns a CloseError.
Goodbye(c) ==
    /\ Alive /\ ~Locked
    /\ pc[c] = "goodbye"
    /\ CloseEchoConn(c)
    /\ Goto(c, "leaving")
    /\ UNCHANGED <<linked, workVars, mainVars>>

\* closeWSConn, which needs another lock: nothing for a connection that the
\* map no longer has, closed already or overwritten.
CloseWSConn(c) ==
    /\ open' \in {open \ {c}, open}
    /\ UNCHANGED echoConns

\* The deferred closeEchoConn of /echo, or closeWSConn of /ws.
Leave(c) ==
    /\ Alive
    /\ pc[c] = "leaving"
    /\ \/ c \in Echoes /\ ~Locked /\ CloseEchoConn(c)
       \/ c \in Displays /\ CloseWSConn(c)
    /\ Goto(c, "gone")
    /\ UNCHANGED <<linked, workVars, mainVars>>

\* addWSConn of a successor closes the connection of a display.
Displaced(c) ==
    /\ Alive
    /\ c \in Displays \cap open /\ pc[c] # "gone"
    /\ open' = open \ {c}
    /\ UNCHANGED <<echoConns, pc, linked, workVars, mainVars>>

-----------------------------------------------------------------------------
(***************************************************************************)
(* The workers and the pages.                                              *)
(***************************************************************************)
\* A worker takes a job and is in the write to the job's connection.
WriteBegins(w) ==
    /\ Alive
    /\ worker[w] = NoConn /\ jobs > 0
    /\ jobs' = jobs - 1
    /\ \E c \in Displays \cap open : worker' = [worker EXCEPT ![w] = c]
    /\ UNCHANGED <<connVars, mainVars>>

WriteEnds(w) ==
    /\ Alive
    /\ worker[w] # NoConn
    /\ worker' = [worker EXCEPT ![w] = NoConn]
    /\ UNCHANGED <<connVars, jobs, mainVars>>

\* A job that was queued finds no connection.
JobFails ==
    /\ Alive
    /\ jobs > 0 /\ \E w \in Workers : worker[w] = NoConn
    /\ jobs' = jobs - 1
    /\ UNCHANGED <<connVars, worker, mainVars>>

\* A page: GET /control, /roundaudio, /test or /static.  Its client may be
\* slow to read it.
Page ==
    /\ Alive
    /\ \/ request = FALSE /\ listener = "listening" /\ request' = TRUE
       \/ request = TRUE /\ request' = FALSE
    /\ UNCHANGED <<connVars, workVars, main, listener>>

-----------------------------------------------------------------------------
(***************************************************************************)
(* Start's goroutine, and Stop.                                            *)
(***************************************************************************)

\* srv.Shutdown has been called.
Ending == main \in {"shutdown", "waiting", "returned"}

\* wg.Add(1) and ListenAndServe, in the goroutine.  After Shutdown it ends
\* at once.
Listen ==
    /\ Alive
    /\ listener = "new"
    /\ listener' = IF Ending THEN "ended" ELSE "listening"
    /\ UNCHANGED <<connVars, workVars, main, request>>

ListenEnds ==
    /\ Alive
    /\ listener = "listening" /\ Ending
    /\ listener' = "ended"
    /\ UNCHANGED <<connVars, workVars, main, request>>

\* ListenAndServe fails.  That is logged, and main goes on waiting for a
\* signal.
ListenFails ==
    /\ Alive
    /\ listener = "listening" /\ ~Ending
    /\ listener' = "ended"
    /\ UNCHANGED <<connVars, workVars, main, request>>

\* Stop takes the lock and closes senderChannel.
Signal ==
    /\ main = "serving"
    /\ main' = "draining"
    /\ UNCHANGED <<connVars, workVars, listener, request>>

\* connectionManager.close() returns: no job and no worker is left.
Drained ==
    /\ main = "draining"
    /\ jobs = 0 /\ \A w \in Workers : worker[w] = NoConn
    /\ main' = "closing"
    /\ UNCHANGED <<connVars, workVars, listener, request>>

\* The loop over the list, which keeps what it closes.
CloseAll ==
    /\ main = "closing"
    /\ open' = open \ Range(echoConns)
    /\ main' = "shutdown"
    /\ UNCHANGED <<echoConns, pc, linked, workVars, listener, request>>

\* Slip: Shutdown without a time limit.
ShutdownNoLimit ==
    /\ main = "shutdown"
    /\ ~request /\ main' = "waiting"
    /\ UNCHANGED <<connVars, workVars, listener, request>>

\* srv.Shutdown: it waits for pages, not for websockets, 5 seconds; after
\* them Stop returns with an error, without waiting for the listener.
Shutdown ==
    /\ main = "shutdown"
    /\ \/ ~request /\ main' = "waiting"
       \/ request /\ main' = "returned"
    /\ UNCHANGED <<connVars, workVars, listener, request>>

\* wg.Wait, which knows nothing of a goroutine that has not started.
Wait ==
    /\ main = "waiting"
    /\ listener # "listening"
    /\ main' = "returned"
    /\ UNCHANGED <<connVars, workVars, listener, request>>

Exit ==
    /\ main = "returned"
    /\ main' = "exited"
    /\ UNCHANGED <<connVars, workVars, listener, request>>

Terminated == ~Alive /\ UNCHANGED vars

-----------------------------------------------------------------------------
Next ==
    \/ \E c \in Conns :
          \/ Dial(c) \/ AddEchoConn(c) \/ Echo(c) \/ Cut(c) \/ IOFails(c)
          \/ CloseFrame(c) \/ Goodbye(c) \/ Leave(c) \/ Displaced(c)
    \/ \E w \in Workers : WriteBegins(w) \/ WriteEnds(w)
    \/ JobFails \/ Page
    \/ Listen \/ ListenEnds \/ ListenFails
    \/ Signal \/ Drained \/ CloseAll \/ Shutdown \/ Wait \/ Exit
    \/ Terminated

Spec == Init /\ [][Next]_vars

(***************************************************************************)
(* Fairness: goroutines that can run do, the 5 seconds of Shutdown pass,   *)
(* and a write ends unless its peer is stalled and the connection whole.   *)
(* Peers need not send, cut or, if stalled, read; pages may take for ever. *)
(***************************************************************************)
Stuck(w) == worker[w] \in Stalled \cap open \cap linked

FairSpec ==
    /\ Spec
    /\ \A c \in Conns :
          WF_vars(\/ AddEchoConn(c) \/ Goodbye(c) \/ Leave(c)
                  \/ c \notin open \cap linked /\ IOFails(c))
    /\ \A w \in Workers : WF_vars(~Stuck(w) /\ WriteEnds(w))
    /\ WF_vars(JobFails \/ \E w \in Workers : WriteBegins(w))
    /\ WF_vars(Listen \/ ListenEnds)
    /\ WF_vars(Drained \/ CloseAll \/ Shutdown \/ Wait)

-----------------------------------------------------------------------------
(***************************************************************************)
(* Properties.                                                             *)
(***************************************************************************)

\* The list holds the echo connections whose handlers have added them and
\* not yet closed them, each once.  They are open until Stop closes them, and
\* it closes them all.  (A handler that comes later waits for the lock, and
\* nobody closes its connection before its peer.)  A handler of /echo that
\* returned has left neither an open connection nor an entry; one of /ws may
\* leave an open connection, see Registry.
ListExact ==
    /\ \A c \in Echoes :
          /\ pc[c] \in {"serving", "writing", "goodbye"} => Contains(echoConns, c)
          /\ Contains(echoConns, c) =>
                /\ pc[c] \in {"serving", "writing", "goodbye", "leaving"}
                /\ main \in {"serving", "draining", "closing"} => c \in open
                /\ main \in {"shutdown", "waiting"} => c \notin open
    /\ IsInjective(echoConns)
    /\ \A c \in Echoes : pc[c] = "gone" => c \notin open

\* Stop returns, with slow pages and talking echo clients, unless a worker
\* stays in a write to a peer that does not read and does not hang up.
StopReturns ==
    (main = "draining") ~>
        (main \in {"returned", "exited"} \/ [](\E w \in Workers : Stuck(w)))

\* A handler that read a close frame ends, unless Stop, with the lock, waits
\* for such a worker.  That may be a worker that writes to the very peer that
\* said goodbye: then each waits for the other until the peer cuts the line.
GoodbyeHeard ==
    \A c \in Conns :
        (pc[c] = "goodbye") ~>
            (\/ pc[c] = "gone" \/ ~Alive
             \/ [](main = "draining" /\ \E w \in Workers : Stuck(w)))
=============================================================================
