--------------------------- MODULE Communication ----------------------------
(***************************************************************************)
(* The display's end of a websocket: its reader goroutine, the start with  *)
(* the NTP query that main makes through it, and the shutdown (pkg/client, *)
(* communication.go and ntpconn.go, driven by cmd/display/main.go).        *)
(*                                                                         *)
(* main makes an unbuffered channel, stores it in comm.ntpConn, sends the  *)
(* query, and waits on the channel for at most 30 seconds; then it closes  *)
(* the channel and sets the field to nil.  The reader puts each NTP answer *)
(* into the channel that the field holds.  Nothing synchronises the two:   *)
(* the reader looks at the field twice, first whether it is nil and then   *)
(* for the channel, and main may act between the two looks or while the    *)
(* reader is blocked.                                                      *)
(*                                                                         *)
(* The proxy is the environment.  It answers the query at most once, late  *)
(* perhaps or with an error; and since its queue is by name, a display     *)
(* that reconnects may get a stale answer to its earlier self's query.     *)
(***************************************************************************)
EXTENDS Naturals, Sequences

CONSTANTS
    MaxStale,  \* bound: stale answers
    MaxEvents  \* bound: events other than NTP answers

ASSUME CommunicationAssumption == MaxStale \in Nat /\ MaxEvents \in Nat

VARIABLES
    main,     \* where main is
    reader,   \* where the reader goroutine is
    field,    \* the channel in comm.ntpConn
    chOpen,   \* whether the channel of the query is open
    sendTo,   \* the channel that the reader sends to
    wire,     \* the connection, as the next read will find it
    inbox,    \* the frames on their way to the display
    asked,    \* whether the proxy has the query and has not answered it
    stales, events,  \* how many stale answers and other events came
    late      \* history: Read timed out

vars == <<main, reader, field, chOpen, sendTo, wire, inbox, asked,
          stales, events, late>>
proxyVars == <<asked, stales, events>>

\* "dummy" is the channel NewCommunication makes, "ch" that of the query.
Channels == {"dummy", "ch", "nil"}
Ended == {"exited", "killed", "panicSend", "panicClose", "panicRead"}
Alive == main \notin Ended

TypeOK ==
    /\ main \in {"attach", "setup", "query", "reading", "close", "clear", "closeAgain",
                 "launch", "serving", "stopping", "waiting", "cut"} \cup Ended
    /\ reader \in {"new", "recv", "decode", "sending", "gone"}
    /\ field \in Channels /\ sendTo \in Channels
    /\ chOpen \in BOOLEAN /\ asked \in BOOLEAN /\ late \in BOOLEAN
    /\ wire \in {"up", "hungup", "reset", "closed"}
    /\ inbox \in Seq({"answer", "stale", "error", "event"})
    /\ stales \in 0..MaxStale /\ events \in 0..MaxEvents

Init ==
    /\ main = "attach" /\ reader = "new"
    /\ field = "dummy" /\ chOpen = TRUE /\ sendTo = "nil"
    /\ wire = "up" /\ inbox = <<>> /\ asked = FALSE
    /\ stales = 0 /\ events = 0 /\ late = FALSE

-----------------------------------------------------------------------------
(***************************************************************************)
(* The proxy and the network.                                              *)
(***************************************************************************)

\* The answer to the query, or its error: a job like any other.
Answer ==
    /\ Alive /\ wire = "up" /\ asked
    /\ \E kind \in {"answer", "error"} : inbox' = Append(inbox, kind)
    /\ asked' = FALSE
    /\ UNCHANGED <<main, reader, field, chOpen, sendTo, wire, stales, events, late>>

\* An answer to the query of an earlier connection of the same name, or of
\* another display that is called like a group in which this one is: a display
\* attaches itself to a group before it queries (see Session).
StaleAnswer ==
    /\ Alive /\ wire = "up" /\ stales < MaxStale
    /\ inbox' = Append(inbox, "stale")
    /\ stales' = stales + 1
    /\ UNCHANGED <<main, reader, field, chOpen, sendTo, wire, asked, events, late>>

OtherEvent ==
    /\ Alive /\ wire = "up" /\ events < MaxEvents
    /\ inbox' = Append(inbox, "event")
    /\ events' = events + 1
    /\ UNCHANGED <<main, reader, field, chOpen, sendTo, wire, asked, stales, late>>

\* The proxy closes the connection: after the frames sent comes the EOF.
HangUp ==
    /\ Alive /\ wire = "up"
    /\ wire' = "hungup"
    /\ UNCHANGED <<main, reader, field, chOpen, sendTo, inbox, proxyVars, late>>

\* The connection is reset, and what the display has not buffered is lost.
Reset ==
    /\ Alive /\ wire \in {"up", "hungup"}
    /\ wire' = "reset"
    /\ \E k \in 0..Len(inbox) : inbox' = SubSeq(inbox, 1, k)
    /\ UNCHANGED <<main, reader, field, chOpen, sendTo, proxyVars, late>>

-----------------------------------------------------------------------------
(***************************************************************************)
(* The reader.                                                             *)
(***************************************************************************)

\* wg.Add(1), by the goroutine itself.
Begin ==
    /\ Alive /\ reader = "new"
    /\ reader' = "recv"
    /\ UNCHANGED <<main, field, chOpen, sendTo, wire, inbox, proxyVars, late>>

Receives(kinds) ==
    /\ Alive /\ reader = "recv"
    /\ inbox # <<>> /\ Head(inbox) \in kinds
    /\ inbox' = Tail(inbox)
    /\ UNCHANGED <<main, field, chOpen, sendTo, wire, proxyVars, late>>

\* An event goes to recFunc, or nowhere before On was called.
ReceiveEvent == Receives({"event"}) /\ UNCHANGED reader

\* The text of an NTP error is no base64, GetData fails and it is dropped.
ReceiveError == Receives({"error"}) /\ UNCHANGED reader

\* First look at the field: without a receiver the answer is dropped.
ReceiveAnswer ==
    /\ Receives({"answer", "stale"})
    /\ reader' = IF field = "nil" THEN "recv" ELSE "decode"

\* Second look at the field: the channel for the send.
ChooseChannel ==
    /\ Alive /\ reader = "decode"
    /\ reader' = "sending"
    /\ sendTo' = field
    /\ UNCHANGED <<main, field, chOpen, wire, inbox, proxyVars, late>>

\* A send on the closed channel, also one that was blocked when it was closed.
SendPanics ==
    /\ Alive /\ reader = "sending" /\ sendTo = "ch" /\ ~chOpen
    /\ main' = "panicSend"
    /\ UNCHANGED <<reader, field, chOpen, sendTo, wire, inbox, proxyVars, late>>

\* The EOF: the reader closes its side and calls wg.Done.
ReadEnds ==
    /\ Alive /\ reader = "recv" /\ inbox = <<>> /\ wire = "hungup"
    /\ reader' = "gone" /\ wire' = "closed"
    /\ UNCHANGED <<main, field, chOpen, sendTo, inbox, proxyVars, late>>

\* Any other read error is logged and the loop goes on; the websocket library
\* panics when a failed connection is read for the 1000th time.
ReadPanics ==
    /\ Alive /\ reader = "recv"
    /\ wire = "closed" \/ (wire = "reset" /\ inbox = <<>>)
    /\ main' = "panicRead"
    /\ UNCHANGED <<reader, field, chOpen, sendTo, wire, inbox, proxyVars, late>>

-----------------------------------------------------------------------------
(***************************************************************************)
(* main: the start, with NTP() in it.                                      *)
(***************************************************************************)

\* The display attaches itself to its group, or the write fails; either way,
\* main goes on.
Attach ==
    /\ main = "attach"
    /\ main' = "setup"
    /\ UNCHANGED <<reader, field, chOpen, sendTo, wire, inbox, proxyVars, late>>

\* Slip: SetNTPReceiver is not called.
SetupNothing ==
    /\ main = "setup"
    /\ main' = "query"
    /\ UNCHANGED <<reader, field, chOpen, sendTo, wire, inbox, proxyVars, late>>

\* newNTPConn: the field gets the channel of the query.
Setup ==
    /\ main = "setup"
    /\ field' = "ch" /\ main' = "query"
    /\ UNCHANGED <<reader, chOpen, sendTo, wire, inbox, proxyVars, late>>

\* The query is written, or the write fails if the connection is broken.
Query ==
    /\ main = "query"
    /\ \/ /\ wire # "closed" /\ main' = "reading" /\ asked' = TRUE
       \/ /\ wire # "up" /\ main' = "close" /\ UNCHANGED asked
    /\ UNCHANGED <<reader, field, chOpen, sendTo, wire, inbox, stales, events, late>>

\* The reader's send and main's receive meet on the open channel.
Rendezvous ==
    /\ main = "reading" /\ reader = "sending" /\ sendTo = "ch" /\ chOpen
    /\ main' = "close" /\ reader' = "recv"
    /\ UNCHANGED <<field, chOpen, sendTo, wire, inbox, proxyVars, late>>

\* Slip: Read has no deadline.
TimeoutNever == FALSE /\ main = "reading" /\ UNCHANGED vars

\* 30 seconds are over.
Timeout ==
    /\ main = "reading"
    /\ main' = "close" /\ late' = TRUE
    /\ UNCHANGED <<reader, field, chOpen, sendTo, wire, inbox, proxyVars>>

\* RemoveNTPReceiver, from the NTP library's Close: the field is not nil.
CloseReceiver ==
    /\ main = "close"
    /\ chOpen' = FALSE /\ main' = "clear"
    /\ UNCHANGED <<reader, field, sendTo, wire, inbox, proxyVars, late>>

ClearReceiver ==
    /\ main = "clear"
    /\ field' = "nil" /\ main' = "closeAgain"
    /\ UNCHANGED <<reader, chOpen, sendTo, wire, inbox, proxyVars, late>>

\* RemoveNTPReceiver again, from the defer in NTP(): closing a closed channel
\* would panic, but the field is nil.
CloseAgain ==
    /\ main = "closeAgain"
    /\ main' = IF field = "nil" THEN "launch" ELSE "panicClose"
    /\ UNCHANGED <<reader, field, chOpen, sendTo, wire, inbox, proxyVars, late>>

\* The browser is started; or a panic runs the deferred Stop.
Launch ==
    /\ main = "launch"
    /\ main' \in {"serving", "stopping"}
    /\ UNCHANGED <<reader, field, chOpen, sendTo, wire, inbox, proxyVars, late>>

\* Signals are caught only after that.  One that comes before ends the process
\* without Stop.
Killed ==
    /\ Alive /\ main \notin {"serving", "stopping", "waiting", "cut"}
    /\ main' = "killed"
    /\ UNCHANGED <<reader, field, chOpen, sendTo, wire, inbox, proxyVars, late>>

-----------------------------------------------------------------------------
(***************************************************************************)
(* main: Stop().                                                           *)
(***************************************************************************)
Signal ==
    /\ main = "serving"
    /\ main' = "stopping"
    /\ UNCHANGED <<reader, field, chOpen, sendTo, wire, inbox, proxyVars, late>>

\* The close message is written, or Stop gives up with an error.
SendClose ==
    /\ main = "stopping"
    /\ \/ wire # "closed" /\ main' = "waiting"
       \/ wire # "up" /\ main' = "exited"
    /\ UNCHANGED <<reader, field, chOpen, sendTo, wire, inbox, proxyVars, late>>

\* wg.Wait returns when the reader is gone, or was never there.
Joined ==
    /\ main = "waiting" /\ reader \in {"new", "gone"}
    /\ main' = "exited"
    /\ UNCHANGED <<reader, field, chOpen, sendTo, wire, inbox, proxyVars, late>>

\* Slip: Stop waits for the reader for ever.
CutNever == FALSE /\ main = "waiting" /\ UNCHANGED vars

\* 10 seconds are over: the connection is closed under the reader.
Cut ==
    /\ main = "waiting"
    /\ main' = "cut" /\ wire' = "closed"
    /\ UNCHANGED <<reader, field, chOpen, sendTo, inbox, proxyVars, late>>

\* main returns, while the reader may be on its way to ReadPanics.
Exit ==
    /\ main = "cut"
    /\ main' = "exited"
    /\ UNCHANGED <<reader, field, chOpen, sendTo, wire, inbox, proxyVars, late>>

Terminated == ~Alive /\ UNCHANGED vars

-----------------------------------------------------------------------------
Reads == ReceiveEvent \/ ReceiveError \/ ReceiveAnswer \/ ChooseChannel
         \/ SendPanics \/ ReadEnds \/ ReadPanics
MainRuns == Attach \/ Setup \/ Query \/ Rendezvous \/ Timeout \/ CloseReceiver
            \/ ClearReceiver \/ CloseAgain \/ Launch
            \/ SendClose \/ Joined \/ Cut \/ Exit

Next ==
    \/ Answer \/ StaleAnswer \/ OtherEvent \/ HangUp \/ Reset
    \/ Begin \/ Reads \/ MainRuns \/ Killed \/ Signal
    \/ Terminated

Spec == Init /\ [][Next]_vars

\* Both goroutines are scheduled and timers fire.  The proxy need not answer
\* or hang up, and nobody has to stop the display.
FairSpec == Spec /\ WF_vars(Begin) /\ WF_vars(Reads) /\ WF_vars(MainRuns)

-----------------------------------------------------------------------------
(***************************************************************************)
(* Properties.                                                             *)
(***************************************************************************)

\* The reader blocks for ever on a channel that nobody will receive from.
Jammed ==
    /\ Alive /\ reader = "sending"
    /\ \/ sendTo \in {"dummy", "nil"}
       \/ chOpen /\ main \notin {"attach", "setup", "query", "reading", "close"}

\* The display neither goes deaf nor dies in the hand-over of an NTP answer
\* unless the answer came after the timeout or an answer was stale: with one
\* timely answer, the two unsynchronised looks at the field are harmless.  And
\* the channel is closed once, although Close is called twice.
HandOverSafe ==
    /\ Jammed \/ main = "panicSend" => late \/ stales > 0
    /\ main # "panicClose"

\* The display's start is not held up for ever by the proxy: NTP returns
\* whatever the proxy does or fails to do.
NTPReturns == (main = "query") ~> (main = "launch" \/ ~Alive)

\* Stop ends also with a deaf reader or a proxy that does not hang up.
StopEnds == (main = "stopping") ~> ~Alive
=============================================================================
