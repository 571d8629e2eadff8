------------------------------ MODULE Session -------------------------------
(***************************************************************************)
(* What a handler of GET /ws/:name does with the events of its connection  *)
(* (the loop of ws(), pkg/proxy/ws.go): it attaches the name to a group,   *)
(* detaches it, queries the NTP server (pkg/proxy/ntpraw.go), or sends.    *)
(*                                                                         *)
(* All of that is done for the NAME of the connection, which others may    *)
(* have had before or may have got since.  A handler whose connection was  *)
(* replaced goes on with what it has buffered, and one that ends leaves    *)
(* its name in the groups.  So this module puts the connection table       *)
(* (Registry) together with one group and with the NTP queries.            *)
(*                                                                         *)
(* The group is taken from Membership, which Groups implements: a set, out *)
(* of which a send without an overlapping detach reads every name once.    *)
(* Jobs are taken from Delivery: each goes to whoever has the name at some *)
(* moment.                                                                 *)
(*                                                                         *)
(* Groups and connections share one space of names.  send() takes a target *)
(* for a group first, and a client may attach to a group of any name; so   *)
(* the group here may be called like a connection, and then everything     *)
(* sent to that connection, the answer to its own NTP query too, goes to   *)
(* those who attached.                                                     *)
(***************************************************************************)
EXTENDS Naturals, Sequences

CONSTANTS
    Names, Conns, NoConn, NameOf,  \* as in Registry
    Group,      \* the name of the group
    Ports,      \* the local ports that UDP sockets get
    MaxEvents,  \* bound: events that are read
    MaxQueries  \* bound: NTP queries

ASSUME SessionAssumption ==
    /\ NameOf \in [Conns -> Names] /\ NoConn \notin Conns
    /\ Group \in Names
    /\ MaxEvents \in Nat /\ MaxQueries \in Nat

VARIABLES
    wsConns, pc, found, open, raced,  \* of Registry
    doing,     \* what each handler is in the middle of
    members,   \* the names in the group
    attached,  \* the connections that ever attached: the first makes the group
    joined,    \* history: those of them that did not detach
    robbed,    \* history: those of them whose name a namesake has detached
    message,   \* what each handler is sending to the group
    ahead,     \* the names for which it has still to make a job
    shifted,   \* history: the handlers whose send a detach overlapped
    jobs,      \* the messages on their way to a name
    inbox,     \* the messages written to each connection
    observed,  \* the state of the one event that is sent
    owed,      \* history: the connections that must get it
    queries,   \* the NTP queries: whose, and the port of the socket
    events     \* the events read so far

tableVars == <<wsConns, pc, found, open, raced>>
groupVars == <<members, attached, joined, robbed>>
sendVars == <<message, ahead, jobs>>
eventVars == <<observed, owed>>
vars == <<tableVars, doing, groupVars, sendVars, shifted, inbox, eventVars,
          queries, events>>

Table == INSTANCE Registry

\* The observed event, an error, and a response: it names its query and the
\* answer in it.
Event == [type |-> "event", query |-> 0, answer |-> 0]
Error == [type |-> "error", query |-> 0, answer |-> 0]
Response(q, a) == [type |-> "response", query |-> q, answer |-> a]

Responses == {Response(q, a) : q, a \in 1..Len(queries)}
Messages == {Event, Error} \cup Responses
Jobs == [to : Names, msg : Messages]

TypeOK ==
    /\ Table!TypeOK
    /\ doing \in [Conns -> {"reading", "asking", "sending"}]
    /\ members \in SUBSET Names /\ attached \in SUBSET Conns
    /\ joined \in SUBSET attached /\ robbed \in SUBSET joined
    /\ message \in [Conns -> Messages] /\ ahead \in [Conns -> SUBSET Names]
    /\ shifted \in SUBSET Conns
    /\ jobs \in SUBSET Jobs
    /\ inbox \in [Conns -> SUBSET Messages]
    /\ observed \in {"none", "sending", "sent"} /\ owed \in SUBSET Conns
    /\ queries \in Seq([by : Conns, port : Ports])
    /\ events \in 0..MaxEvents

Init ==
    /\ Table!Init
    /\ doing = [c \in Conns |-> "reading"]
    /\ members = {} /\ attached = {} /\ joined = {} /\ robbed = {}
    /\ message = [c \in Conns |-> Error] /\ ahead = [c \in Conns |-> {}]
    /\ shifted = {} /\ jobs = {} /\ inbox = [c \in Conns |-> {}]
    /\ observed = "none" /\ owed = {}
    /\ queries = <<>>
    /\ events = 0

Now(c, what) == doing' = [doing EXCEPT ![c] = what]

\* Slip: a handler that ends takes its name out of the groups.
HandlesForgets(c) ==
    /\ \/ Table!Upgrade(c) \/ Table!HandlerRuns(c)
       \/ doing[c] = "reading" /\ Table!ReadFails(c)
    /\ owed' = {d \in owed : wsConns'[NameOf[d]] = d}
    /\ members' = IF pc'[c] = "gone" THEN members \ {NameOf[c]} ELSE members
    /\ UNCHANGED <<doing, attached, joined, robbed, sendVars, shifted, inbox,
                   observed, queries, events>>

\* A step of a handler in the table.  Who loses its name is owed nothing.
Handles(c) ==
    /\ \/ Table!Upgrade(c) \/ Table!HandlerRuns(c)
       \/ doing[c] = "reading" /\ Table!ReadFails(c)
    /\ owed' = {d \in owed : wsConns'[NameOf[d]] = d}
    /\ UNCHANGED <<doing, groupVars, sendVars, shifted, inbox, observed,
                   queries, events>>

\* The next event of the connection is there.  It need not have been the
\* client's last, and the connection may have been replaced long ago.
ReadsEvent(c) ==
    /\ pc[c] = "read" /\ doing[c] = "reading"
    /\ events < MaxEvents /\ events' = events + 1

-----------------------------------------------------------------------------
(***************************************************************************)
(* Attach and detach: for the name of the connection, and only for it.     *)
(***************************************************************************)
\* Slip: the source of the event is believed, whoever sent it.
AttachSource(c) ==
    /\ ReadsEvent(c)
    /\ \E n \in Names : members' = members \cup {n}
    /\ attached' = attached \cup {c}
    /\ joined' = joined \cup {c} /\ robbed' = robbed \ {c}
    /\ UNCHANGED <<tableVars, doing, sendVars, shifted, inbox, eventVars,
                   queries>>

Attach(c) ==
    /\ ReadsEvent(c)
    /\ members' = members \cup {NameOf[c]}
    /\ attached' = attached \cup {c}
    /\ joined' = joined \cup {c} /\ robbed' = robbed \ {c}
    /\ UNCHANGED <<tableVars, doing, sendVars, shifted, inbox, eventVars,
                   queries>>

Namesakes(c) == {d \in Conns \ {c} : NameOf[d] = NameOf[c]}

\* Where the name is not there, DeleteFunc moves nothing.  An emptied group
\* stays a group.
Detach(c) ==
    /\ ReadsEvent(c)
    /\ members' = members \ {NameOf[c]}
    /\ joined' = joined \ {c}
    /\ robbed' = (robbed \ {c}) \cup (joined \cap Namesakes(c))
    /\ \/ /\ NameOf[c] \in members
          /\ shifted' = shifted \cup {d \in Conns : doing[d] = "sending"}
          /\ owed' = IF observed = "sending" THEN {} ELSE owed
       \/ NameOf[c] \notin members /\ UNCHANGED <<shifted, owed>>
    /\ UNCHANGED <<tableVars, doing, attached, sendVars, inbox, observed,
                   queries>>

-----------------------------------------------------------------------------
(***************************************************************************)
(* send: the target is looked up among the groups, and only if there is    *)
(* none of that name it is taken for a connection.  For a group the        *)
(* handler goes through the names without the lock.                        *)
(***************************************************************************)
IsGroup(n) == n = Group /\ attached # {}

SendTo(c, n, msg) ==
    \/ /\ IsGroup(n)
       /\ Now(c, "sending")
       /\ message' = [message EXCEPT ![c] = msg]
       /\ ahead' = [ahead EXCEPT ![c] = members]
       /\ UNCHANGED jobs
    \/ /\ ~IsGroup(n)
       /\ Now(c, "reading")
       /\ jobs' = jobs \cup {[to |-> n, msg |-> msg]}
       /\ UNCHANGED <<message, ahead>>

\* One event to the name of the group is observed to its last write.
SendBegins(c) ==
    /\ ReadsEvent(c) /\ observed = "none"
    /\ SendTo(c, Group, Event)
    /\ \/ /\ IsGroup(Group) /\ observed' = "sending"
          /\ owed' = {d \in joined \ robbed : wsConns[NameOf[d]] = d}
       \/ /\ ~IsGroup(Group) /\ observed' = "sent"
          /\ owed' = {wsConns[Group]} \ {NoConn}
    /\ UNCHANGED <<tableVars, groupVars, shifted, inbox, queries>>

\* A job for a name, perhaps for one that an overlapping detach has moved
\* into a slot that the send had still to read.
SendJob(c) ==
    /\ doing[c] = "sending"
    /\ \E n \in ahead[c] \cup {m \in members : c \in shifted} :
          /\ jobs' = jobs \cup {[to |-> n, msg |-> message[c]]}
          /\ ahead' = [ahead EXCEPT ![c] = @ \ {n}]
    /\ UNCHANGED <<tableVars, doing, groupVars, message, shifted, inbox,
                   eventVars, queries, events>>

\* An overlapping detach has moved a name into a slot already read.
SendSkips(c) ==
    /\ doing[c] = "sending" /\ c \in shifted
    /\ \E n \in ahead[c] : ahead' = [ahead EXCEPT ![c] = @ \ {n}]
    /\ UNCHANGED <<tableVars, doing, groupVars, message, jobs, shifted, inbox,
                   eventVars, queries, events>>

SendEnds(c) ==
    /\ doing[c] = "sending" /\ ahead[c] = {}
    /\ Now(c, "reading") /\ message' = [message EXCEPT ![c] = Error]
    /\ shifted' = shifted \ {c}
    /\ observed' = IF message[c] = Event THEN "sent" ELSE observed
    /\ UNCHANGED <<tableVars, groupVars, ahead, jobs, inbox, owed, queries,
                   events>>

\* A worker looks up whoever has the name by now and writes, or fails for a
\* reason of the peer's.
Serve(j) ==
    /\ jobs' = jobs \ {j}
    /\ \/ /\ wsConns[j.to] # NoConn
          /\ inbox' = [inbox EXCEPT ![wsConns[j.to]] = @ \cup {j.msg}]
          /\ UNCHANGED owed
       \/ /\ owed' = IF j.msg = Event THEN owed \ {wsConns[j.to]} ELSE owed
          /\ UNCHANGED inbox
    /\ UNCHANGED <<tableVars, doing, groupVars, message, ahead, shifted,
                   observed, queries, events>>

-----------------------------------------------------------------------------
(***************************************************************************)
(* NTP queries: a UDP exchange over a socket of its own, for which the     *)
(* handler waits 5 seconds.  Packets get lost, late, or doubled: the answer *)
(* to any query so far may come at any time, twice, or not at all.  A port *)
(* is free again with its socket.                                          *)
(***************************************************************************)
QueryOf(c) == CHOOSE q \in 1..Len(queries) :
                  /\ queries[q].by = c
                  /\ \A r \in q + 1..Len(queries) : queries[r].by # c

\* A query with the connection's own name as its source.
Query(c) ==
    /\ ReadsEvent(c) /\ Len(queries) < MaxQueries
    /\ \E p \in Ports :
          /\ \A d \in Conns :
                doing[d] = "asking" => queries[QueryOf(d)].port # p
          /\ queries' = Append(queries, [by |-> c, port |-> p])
    /\ Now(c, "asking")
    /\ UNCHANGED <<tableVars, groupVars, sendVars, shifted, inbox, eventVars>>

\* With another source: the error is sent to the one that is named.
QueryRefused(c) ==
    /\ ReadsEvent(c)
    /\ \E n \in Names \ {NameOf[c]} : SendTo(c, n, Error)
    /\ UNCHANGED <<tableVars, groupVars, shifted, inbox, eventVars, queries>>

\* The outcome is sent to the name of the query's source.
Reply(c, msg) ==
    /\ doing[c] = "asking"
    /\ SendTo(c, NameOf[c], msg)
    /\ UNCHANGED <<tableVars, groupVars, shifted, inbox, eventVars, queries,
                   events>>

\* Slip: any packet is the answer.
ReceiveAny(c) ==
    /\ doing[c] = "asking"
    /\ \E a \in 1..Len(queries) : Reply(c, Response(QueryOf(c), a))

\* The first packet from the server to the port of the socket.
Receive(c) ==
    /\ doing[c] = "asking"
    /\ \E a \in 1..Len(queries) :
          /\ queries[a].port = queries[QueryOf(c)].port
          /\ Reply(c, Response(QueryOf(c), a))

\* The deadline, or an error of one of the calls.
Expire(c) == Reply(c, Error)

-----------------------------------------------------------------------------
\* Every handler has ended and nothing is under way.
Finished ==
    /\ \A c \in Conns : pc[c] = "gone"
    /\ UNCHANGED vars

Next ==
    \/ \E c \in Conns :
          \/ Handles(c) \/ Attach(c) \/ Detach(c)
          \/ SendBegins(c) \/ SendJob(c) \/ SendSkips(c) \/ SendEnds(c)
          \/ Query(c) \/ QueryRefused(c) \/ Receive(c) \/ Expire(c)
    \/ \E j \in jobs : Serve(j)
    \/ Finished

Spec == Init /\ [][Next]_vars

-----------------------------------------------------------------------------
(***************************************************************************)
(* Properties.                                                             *)
(***************************************************************************)

\* A connection that attached itself, kept its name during the whole send and
\* whose peer took the write, has got the event in the end, unless a detach
\* overlapped the send; and unless the handler of another connection of its
\* name detached the name after it attached: a display that comes back can be
\* thrown out of its group by what its earlier self had sent.  As long as
\* there is no group of that name, the connection of the name gets it.
GroupReached ==
    (observed = "sent" /\ \A j \in jobs : j.msg # Event) =>
        \A c \in owed : Event \in inbox[c]

Attached(n) == \E c \in attached : NameOf[c] = n

\* An event to the group goes only to names that a connection of that name
\* attached itself, whatever others said, late detaches moved, or heirs took
\* over; or to the connection called like it, before there was a group.
OnlyAttached ==
    \A c \in Conns :
        Event \in inbox[c] => NameOf[c] = Group \/ Attached(NameOf[c])

\* An NTP answer goes to the one that asked, or to one that took its name
\* since, or, if the asker is called like the group, to those who attached to
\* that; and it answers that query, unless an earlier socket had the same
\* port.  (Errors go to whoever is named in a query, asked or not.)
AnswerFits ==
    \A c \in Conns : \A r \in inbox[c] : r.type = "response" =>
        LET asker == queries[r.query].by IN
        /\ NameOf[c] = NameOf[asker] => c = asker \/ wsConns[NameOf[c]] # asker
        /\ NameOf[c] # NameOf[asker] =>
              NameOf[asker] = Group /\ Attached(NameOf[c])
        /\ r.answer # r.query =>
              /\ r.answer < r.query
              /\ queries[r.answer].port = queries[r.query].port
=============================================================================
