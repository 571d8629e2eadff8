------------------------------- MODULE Pumps --------------------------------
(***************************************************************************)
(* The old client's websockets (pkg/client0): the map wsGroup of           *)
(* PlayerClient (client.go) and the two pumps of each ClientWebsocket      *)
(* (websocket.go).  One group is modelled: its entry of the map, and the   *)
(* websockets that are registered for it one after the other.              *)
(*                                                                         *)
(* The pumps delete the entry of the group, whatever it holds by then.     *)
(* The map has no lock: when two goroutines are in it and one of them      *)
(* writes, Go's runtime may stop the process.  A goroutine is in the map   *)
(* while it is at one of the labels "get", "delete" and "deleteAgain".     *)
(*                                                                         *)
(* No code of the repository makes a ClientWebsocket, starts its pumps or  *)
(* closes its channel.  That there is one goroutine per pump is what the   *)
(* comments of websocket.go say.                                           *)
(***************************************************************************)
EXTENDS Naturals, Sequences, FiniteSets

CONSTANTS
    Sockets,   \* the ClientWebsockets of the group
    NoSocket,  \* the group is no key of the map
    Callers,   \* the goroutines that call SendGroupWebsocket
    Cap,       \* the capacity of a websocket's channel
    MaxSent    \* bound: messages per websocket

ASSUME PumpsAssumption ==
    /\ NoSocket \notin Sockets
    /\ Cap \in Nat /\ MaxSent \in Nat

VARIABLES
    wsGroup,   \* the entry of the group
    send,      \* the channel of each websocket
    batch,     \* the message that each writer has open: messages put together
    left,      \* how many more the writer is going to add to it
    wrote,     \* the messages that each websocket has written out
    sent,      \* how many messages each channel has accepted
    conn,      \* the connection of each: "none", "up", "broken" or "closed"
    readPump,  \* where each goroutine of that name is
    writePump, \* likewise
    caller,    \* where each caller is: "idle", "get", or a websocket
    dead       \* the runtime has stopped the process

pumpVars == <<wsGroup, send, batch, left, wrote, sent, conn, readPump, writePump,
              caller, dead>>
outVars == <<send, batch, left, wrote, sent>>

PumpsTypeOK ==
    /\ send \in [Sockets -> Seq(Nat)] /\ batch \in [Sockets -> Seq(Nat)]
    /\ wrote \in [Sockets -> Seq(Nat)]
    /\ left \in [Sockets -> 0..Cap] /\ sent \in [Sockets -> Nat]
    /\ wsGroup \in Sockets \cup {NoSocket}
    /\ \A s \in Sockets : Len(send[s]) <= Cap
    /\ conn \in [Sockets -> {"none", "up", "broken", "closed"}]
    /\ readPump \in [Sockets -> {"none", "read", "delete", "deleteAgain", "close", "gone"}]
    /\ writePump \in [Sockets -> {"none", "select", "taken", "open", "delete", "close",
                               "gone"}]
    /\ caller \in [Callers -> {"idle", "get"} \cup Sockets]
    /\ dead \in BOOLEAN

PumpsInit ==
    /\ wsGroup = NoSocket
    /\ send = [s \in Sockets |-> <<>>] /\ batch = send /\ wrote = send
    /\ left = [s \in Sockets |-> 0] /\ sent = left
    /\ conn = [s \in Sockets |-> "none"] /\ readPump = conn /\ writePump = conn
    /\ caller = [p \in Callers |-> "idle"]
    /\ dead = FALSE

ReaderAt(s, label) == ~dead /\ readPump[s] = label
WriterAt(s, label) == ~dead /\ writePump[s] = label
ReaderTo(s, label) == readPump' = [readPump EXCEPT ![s] = label]
WriterTo(s, label) == writePump' = [writePump EXCEPT ![s] = label]

-----------------------------------------------------------------------------
(***************************************************************************)
(* The application.                                                        *)
(***************************************************************************)

\* SetGroupWebsocket for a new connection, and its pumps are started.
SetGroupWebsocket(s) ==
    /\ ~dead /\ conn[s] = "none"
    /\ wsGroup' = s
    /\ conn' = [conn EXCEPT ![s] = "up"]
    /\ ReaderTo(s, "read") /\ WriterTo(s, "select")
    /\ UNCHANGED <<outVars, caller, dead>>

\* The peer goes, or the network.
Breaks(s) ==
    /\ ~dead /\ conn[s] = "up"
    /\ conn' = [conn EXCEPT ![s] = "broken"]
    /\ UNCHANGED <<wsGroup, outVars, readPump, writePump, caller, dead>>

CallerTo(p, where) == caller' = [caller EXCEPT ![p] = where]

\* SendGroupWebsocket calls GetGroupWebsocket ...
Call(p) ==
    /\ ~dead /\ caller[p] = "idle"
    /\ \A s \in Sockets : sent[s] + Cardinality({q \in Callers : caller[q] # "idle"}) < MaxSent
    /\ CallerTo(p, "get")
    /\ UNCHANGED <<wsGroup, outVars, conn, readPump, writePump, dead>>

\* ... which finds a websocket, or an error is returned.
GetGroupWebsocket(p) ==
    /\ ~dead /\ caller[p] = "get"
    /\ CallerTo(p, IF wsGroup = NoSocket THEN "idle" ELSE wsGroup)
    /\ UNCHANGED <<wsGroup, outVars, conn, readPump, writePump, dead>>

\* ws.send <- message: it waits for room in the channel.
SendGroupWebsocket(p, s) ==
    /\ ~dead /\ caller[p] = s
    /\ Len(send[s]) < Cap
    /\ CallerTo(p, "idle")
    /\ sent' = [sent EXCEPT ![s] = @ + 1]
    /\ send' = [send EXCEPT ![s] = Append(@, sent[s] + 1)]
    /\ UNCHANGED <<wsGroup, batch, left, wrote, conn, readPump, writePump, dead>>

-----------------------------------------------------------------------------
(***************************************************************************)
(* readPump.                                                               *)
(***************************************************************************)

\* Slip: the error is not looked at.
ReadFailsAlways(s) ==
    /\ ReaderAt(s, "read")
    /\ ReaderTo(s, "delete")
    /\ UNCHANGED <<wsGroup, outVars, conn, writePump, caller, dead>>

\* What is read is thrown away.  The first error, also that of 60 seconds
\* without a pong, ends the loop.
ReadFails(s) ==
    /\ ReaderAt(s, "read") /\ conn[s] # "up"
    /\ ReaderTo(s, "delete")
    /\ UNCHANGED <<wsGroup, outVars, conn, writePump, caller, dead>>

\* Slip: nothing is deleted.
ReaderDeletesNothing(s) ==
    /\ \/ ReaderAt(s, "delete") /\ ReaderTo(s, "deleteAgain")
       \/ ReaderAt(s, "deleteAgain") /\ ReaderTo(s, "close")
    /\ UNCHANGED <<wsGroup, outVars, conn, writePump, caller, dead>>

\* DeleteGroupWebsocket, in the loop and again after it.
ReaderDeletes(s) ==
    /\ \/ ReaderAt(s, "delete") /\ ReaderTo(s, "deleteAgain")
       \/ ReaderAt(s, "deleteAgain") /\ ReaderTo(s, "close")
    /\ wsGroup' = NoSocket
    /\ UNCHANGED <<outVars, conn, writePump, caller, dead>>

\* The deferred conn.Close.
ReaderCloses(s) ==
    /\ ReaderAt(s, "close") /\ ReaderTo(s, "gone")
    /\ conn' = [conn EXCEPT ![s] = "closed"]
    /\ UNCHANGED <<wsGroup, outVars, writePump, caller, dead>>

-----------------------------------------------------------------------------
(***************************************************************************)
(* writePump.                                                              *)
(***************************************************************************)

\* Slip: the message that was taken is counted as queued.
WriterOpensCounted(s) ==
    /\ WriterAt(s, "taken") /\ WriterTo(s, "open")
    /\ left' = [left EXCEPT ![s] = Len(send[s]) + 1]
    /\ UNCHANGED <<wsGroup, send, batch, wrote, sent, conn, readPump, caller, dead>>

WriterTakes(s) ==
    /\ WriterAt(s, "select") /\ send[s] # <<>>
    /\ WriterTo(s, "taken")
    /\ send' = [send EXCEPT ![s] = Tail(@)]
    /\ batch' = [batch EXCEPT ![s] = <<Head(send[s])>>]
    /\ UNCHANGED <<wsGroup, left, wrote, sent, conn, readPump, caller, dead>>

\* NextWriter fails if a write of the library's has failed before; otherwise
\* the length of the channel is read.
WriterOpens(s) ==
    /\ WriterAt(s, "taken")
    /\ \/ /\ WriterTo(s, "open")
          /\ left' = [left EXCEPT ![s] = Len(send[s])]
          /\ UNCHANGED batch
       \/ /\ conn[s] # "up" /\ WriterTo(s, "delete")
          /\ batch' = [batch EXCEPT ![s] = <<>>]
          /\ UNCHANGED left
    /\ UNCHANGED <<wsGroup, send, wrote, sent, conn, readPump, caller, dead>>

\* One of the queued messages is added to it.
WriterAdds(s) ==
    /\ WriterAt(s, "open") /\ left[s] > 0 /\ send[s] # <<>>
    /\ left' = [left EXCEPT ![s] = @ - 1]
    /\ batch' = [batch EXCEPT ![s] = Append(@, Head(send[s]))]
    /\ send' = [send EXCEPT ![s] = Tail(@)]
    /\ UNCHANGED <<wsGroup, wrote, sent, conn, readPump, writePump, caller, dead>>

\* Slip: the writer is used again, with what it holds.
WriterFlushesAgain(s) ==
    /\ WriterAt(s, "open") /\ left[s] = 0
    /\ WriterTo(s, "select")
    /\ wrote' = [wrote EXCEPT ![s] = @ \o batch[s]]
    /\ UNCHANGED <<wsGroup, send, batch, left, sent, conn, readPump, caller, dead>>

\* w.Close writes it out, or fails.  A broken connection may still take it.
WriterFlushes(s) ==
    /\ WriterAt(s, "open") /\ left[s] = 0
    /\ batch' = [batch EXCEPT ![s] = <<>>]
    /\ \/ /\ conn[s] # "closed" /\ WriterTo(s, "select")
          /\ wrote' = [wrote EXCEPT ![s] = @ \o batch[s]]
       \/ conn[s] # "up" /\ WriterTo(s, "delete") /\ UNCHANGED wrote
    /\ UNCHANGED <<wsGroup, send, left, sent, conn, readPump, caller, dead>>

\* A ping fails: this return alone deletes nothing.
PingFails(s) ==
    /\ WriterAt(s, "select") /\ conn[s] # "up"
    /\ WriterTo(s, "close")
    /\ UNCHANGED <<wsGroup, outVars, conn, readPump, caller, dead>>

\* DeleteGroupWebsocket, after the other errors.
WriterDeletes(s) ==
    /\ WriterAt(s, "delete") /\ WriterTo(s, "close")
    /\ wsGroup' = NoSocket
    /\ UNCHANGED <<outVars, conn, readPump, caller, dead>>

\* The deferred conn.Close.
WriterCloses(s) ==
    /\ WriterAt(s, "close") /\ WriterTo(s, "gone")
    /\ conn' = [conn EXCEPT ![s] = "closed"]
    /\ UNCHANGED <<wsGroup, outVars, readPump, caller, dead>>

-----------------------------------------------------------------------------
(***************************************************************************)
(* The map without a lock.                                                 *)
(***************************************************************************)
Reading == {p \in Callers : caller[p] = "get"}
Deleting == {<<s, "reader">> : s \in {t \in Sockets : readPump[t] \in {"delete", "deleteAgain"}}}
            \cup {<<s, "writer">> : s \in {t \in Sockets : writePump[t] = "delete"}}

\* Two writes at once, or a read and a write; SetGroupWebsocket may be one of
\* them.  It is a fatal error, no panic that a recover could catch.
Fatal ==
    /\ ~dead
    /\ \/ \E g \in Deleting : Reading # {} \/ Deleting # {g}
       \/ (\E s \in Sockets : conn[s] = "none") /\ (Reading # {} \/ Deleting # {})
    /\ dead' = TRUE
    /\ UNCHANGED <<wsGroup, outVars, conn, readPump, writePump, caller>>

Gone(s) == readPump[s] = "gone" /\ writePump[s] = "gone"

\* The process is dead; or every socket is gone, whoever still waits.
Finished ==
    /\ dead \/ \A s \in Sockets : Gone(s)
    /\ UNCHANGED pumpVars

ReaderRuns(s) == ReadFails(s) \/ ReaderDeletes(s) \/ ReaderCloses(s)
WriterRuns(s) ==
    \/ WriterTakes(s) \/ WriterOpens(s) \/ WriterAdds(s) \/ WriterFlushes(s)
    \/ PingFails(s) \/ WriterDeletes(s) \/ WriterCloses(s)

PumpsNext ==
    \/ \E s \in Sockets : SetGroupWebsocket(s) \/ Breaks(s) \/ ReaderRuns(s) \/ WriterRuns(s)
    \/ \E p \in Callers :
          Call(p) \/ GetGroupWebsocket(p) \/ \E s \in Sockets : SendGroupWebsocket(p, s)
    \/ Fatal
    \/ Finished

PumpsSpec == PumpsInit /\ [][PumpsNext]_pumpVars

\* Reads have a deadline, pings a period, writes a deadline: each pump goes on.
\* A call goes on when it can.
PumpsFairSpec ==
    /\ PumpsSpec
    /\ \A s \in Sockets : WF_pumpVars(ReaderRuns(s)) /\ WF_pumpVars(WriterRuns(s))
    /\ \A p \in Callers : WF_pumpVars(\/ GetGroupWebsocket(p)
                                      \/ \E s \in Sockets : SendGroupWebsocket(p, s))

-----------------------------------------------------------------------------
(***************************************************************************)
(* Properties.                                                             *)
(***************************************************************************)

\* What a channel has accepted is written once and in its order, although
\* writePump puts several messages together: what is written, what is open and
\* what waits are together all of it while the writer is at work.
InOrder ==
    \A s \in Sockets :
        /\ wrote[s] = [i \in 1..Len(wrote[s]) |-> i]
        /\ writePump[s] \in {"select", "taken", "open"} =>
              wrote[s] \o batch[s] \o send[s] = [i \in 1..sent[s] |-> i]

\* A websocket in use keeps its entry, once the pumps of all others are gone,
\* until another is registered.  Before that it can lose the entry to their
\* deletes, which name the group and not the websocket.
Settled ==
    [][\A s \in Sockets :
         /\ wsGroup = s /\ conn[s] = "up"
         /\ \A t \in Sockets \ {s} : conn[t] # "none" => Gone(t)
         => \/ wsGroup' = s
            \/ \E t \in Sockets : conn[t] = "none" /\ wsGroup' = t]_pumpVars

\* A websocket whose connection is at its end does not stay registered, also
\* when its writer ends after a ping, which deletes nothing.
Unregistered == \A s \in Sockets : []<>(wsGroup = s => dead \/ conn[s] = "up")

\* Nobody waits for ever on a websocket, and no message in its channel, unless
\* its writePump has ended: it does not empty the channel, and does not free who
\* comes after it.
Flows ==
    \A s \in Sockets :
        []<>(\/ dead \/ writePump[s] = "gone"
             \/ /\ Len(wrote[s]) = sent[s]
                /\ \A p \in Callers : caller[p] # s)
=============================================================================
