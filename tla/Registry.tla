------------------------------ MODULE Registry ------------------------------
(***************************************************************************)
(* The table of named websocket connections of the proxy: the map wsConns  *)
(* of connectionManager (pkg/proxy/connectionmanager.go) and the handlers  *)
(* of GET /ws/:name (pkg/proxy/ws.go) that fill and empty it.              *)
(*                                                                         *)
(* Each request runs in a goroutine of its own.  addWSConn is not atomic:  *)
(* it takes the lock wsConnsMu three times, to look the name up, to close  *)
(* the connection it found, and to store its own.  Between the sections    *)
(* any other handler may run, so each section is an action here.           *)
(*                                                                         *)
(* closeWSConn compares RemoteAddr() values.  They are pointers stored     *)
(* in the accepted socket, so they are equal exactly when the two          *)
(* connections are the same one: the comparison is c = d below.            *)
(*                                                                         *)
(* Every connection of ws.go is created with Secure = true, so the refusal *)
(* in addWSConn of an insecure successor never happens and has no action.  *)
(***************************************************************************)

CONSTANTS Names,   \* the names of the paths /ws/:name
          Conns,   \* every websocket connection that is ever opened
          NoConn,  \* stands for a name that is not a key of wsConns
          NameOf   \* the name in the path of each connection's request

ASSUME RegistryAssumption ==
    /\ NameOf \in [Conns -> Names]
    /\ NoConn \notin Conns

VARIABLES
    wsConns,  \* the map: the connection stored under each name
    pc,       \* where the handler of each connection is
    found,    \* the local variable conn of addWSConn
    open,     \* the connections that the proxy has not closed
    raced     \* history: names for which two handlers were in addWSConn at once

vars == <<wsConns, pc, found, open, raced>>

(***************************************************************************)
(* A handler goes from "away" (no request yet) through the three sections  *)
(* of addWSConn, "lookup", "evict" and "store", to the read loop "read",   *)
(* and leaves it for the deferred closeWSConn, "cleanup", to be "gone".    *)
(***************************************************************************)
Adding == {"lookup", "evict", "store"}
Admitted == {"read", "cleanup", "gone"}

TypeOK ==
    /\ wsConns \in [Names -> Conns \cup {NoConn}]
    /\ pc \in [Conns -> {"away"} \cup Adding \cup Admitted]
    /\ found \in [Conns -> Conns \cup {NoConn}]
    /\ open \in SUBSET Conns
    /\ raced \in SUBSET Names

Init ==
    /\ wsConns = [n \in Names |-> NoConn]
    /\ pc = [c \in Conns |-> "away"]
    /\ found = [c \in Conns |-> NoConn]
    /\ open = {}
    /\ raced = {}

Goto(c, label) == pc' = [pc EXCEPT ![c] = label]

-----------------------------------------------------------------------------
(***************************************************************************)
(* closeWSConn: one critical section.  The connection is closed and taken  *)
(* out of the map only if the map still holds it; otherwise the code says  *)
(* "already closed" and returns.                                           *)
(***************************************************************************)

\* Slip: the entry is dropped but the socket is left open.
CloseWSConnNoClose(x) ==
    /\ UNCHANGED open
    /\ wsConns' = IF wsConns[NameOf[x]] = x
                  THEN [wsConns EXCEPT ![NameOf[x]] = NoConn] ELSE wsConns

\* Slip: the connection is closed but the entry stays.
CloseWSConnNoDelete(x) ==
    /\ open' = IF wsConns[NameOf[x]] = x THEN open \ {x} ELSE open
    /\ UNCHANGED wsConns

\* Slip: the identity test is forgotten, whoever has the name loses it.
CloseWSConnByName(x) ==
    /\ open' = open \ {wsConns[NameOf[x]]}
    /\ wsConns' = [wsConns EXCEPT ![NameOf[x]] = NoConn]

CloseWSConn(x) ==
    \/ /\ wsConns[NameOf[x]] = x
       /\ open' = open \ {x}
       /\ wsConns' = [wsConns EXCEPT ![NameOf[x]] = NoConn]
    \/ /\ wsConns[NameOf[x]] # x
       /\ UNCHANGED <<wsConns, open>>

-----------------------------------------------------------------------------
\* A client dials /ws/:name and the request is upgraded to a websocket.
Upgrade(c) ==
    /\ pc[c] = "away"
    /\ Goto(c, "lookup")
    /\ open' = open \cup {c}
    /\ raced' = raced \cup {n \in {NameOf[c]} :
                    \E d \in Conns \ {c} : NameOf[d] = n /\ pc[d] \in Adding}
    /\ UNCHANGED <<wsConns, found>>

\* addWSConn, first section: getWSConn(name).
Lookup(c) ==
    /\ pc[c] = "lookup"
    /\ found' = [found EXCEPT ![c] = wsConns[NameOf[c]]]
    /\ \/ wsConns[NameOf[c]] # NoConn /\ Goto(c, "evict")
       \/ wsConns[NameOf[c]] = NoConn /\ Goto(c, "store")
    /\ UNCHANGED <<wsConns, open, raced>>

\* addWSConn, second section: closeWSConn of the connection that was found.
Evict(c) ==
    /\ pc[c] = "evict"
    /\ CloseWSConn(found[c])
    /\ Goto(c, "store")
    /\ UNCHANGED <<found, raced>>

\* Slip: the map gets the connection as a key of its own, not its name.
StoreByConn(c) ==
    /\ pc[c] = "store"
    /\ wsConns' = [k \in Names \cup {c} |-> IF k = c THEN c ELSE wsConns[k]]
    /\ Goto(c, "read")
    /\ UNCHANGED <<found, open, raced>>

\* addWSConn, third section: wsConns[name] = c, whatever is there by now.
Store(c) ==
    /\ pc[c] = "store"
    /\ wsConns' = [wsConns EXCEPT ![NameOf[c]] = c]
    /\ Goto(c, "read")
    /\ UNCHANGED <<found, open, raced>>

\* ReadJSON returns an error and the loop ends: the peer closed or vanished,
\* it sent something that is no event, or the proxy closed the connection.
ReadFails(c) ==
    /\ pc[c] = "read"
    /\ Goto(c, "cleanup")
    /\ UNCHANGED <<wsConns, found, open, raced>>

\* Slip: a handler that ends gives the name back to whom it had displaced.
CleanupRestores(c) ==
    /\ pc[c] = "cleanup"
    /\ open' = open \ {c}
    /\ wsConns' = IF wsConns[NameOf[c]] = c
                  THEN [wsConns EXCEPT ![NameOf[c]] = found[c]] ELSE wsConns
    /\ Goto(c, "gone")
    /\ UNCHANGED <<found, raced>>

\* The deferred closeWSConn of the handler's own connection.
Cleanup(c) ==
    /\ pc[c] = "cleanup"
    /\ CloseWSConn(c)
    /\ Goto(c, "gone")
    /\ UNCHANGED <<found, raced>>

\* A handler that will never run again: every connection came and went.
Finished ==
    /\ \A c \in Conns : pc[c] = "gone"
    /\ UNCHANGED vars

Next ==
    \/ \E c \in Conns : \/ Upgrade(c) \/ Lookup(c) \/ Evict(c)
                        \/ Store(c) \/ ReadFails(c) \/ Cleanup(c)
    \/ Finished

Spec == Init /\ [][Next]_vars

\* The steps that a handler takes by itself, without its client.
HandlerRuns(c) == Lookup(c) \/ Evict(c) \/ Store(c) \/ Cleanup(c)

-----------------------------------------------------------------------------
(***************************************************************************)
(* Properties.                                                             *)
(***************************************************************************)

\* A name resolves to a connection of that name that the proxy has not
\* closed and whose handler has not returned: an event looked up through
\* the map is never written to a connection nobody serves.
RegisteredIsLive ==
    \A n \in Names : wsConns[n] # NoConn =>
        /\ NameOf[wsConns[n]] = n
        /\ wsConns[n] \in open
        /\ pc[wsConns[n]] \in {"read", "cleanup"}

\* A connection that was admitted and is no longer in the map has been
\* closed, unless two handlers of its name overlapped in addWSConn: no
\* socket leaks and no displaced client goes on sending in any other way.
LeakOnlyByRace ==
    \A c \in Conns :
        (pc[c] \in Admitted /\ c \in open /\ wsConns[NameOf[c]] # c)
            => NameOf[c] \in raced

\* A connection loses its name only through its own handler's cleanup or
\* through a newer handler of the same name that is inside addWSConn; the
\* late cleanup of a displaced handler never takes its successor down.
OnlySuccessorsDisplace ==
    [][\A n \in Names :
         LET old == wsConns[n] IN
         (old # NoConn /\ wsConns'[n] # old) =>
            \/ pc[old] = "cleanup" /\ pc'[old] = "gone"
            \/ \E d \in Conns \ {old} :
                  NameOf[d] = n /\ pc[d] \in {"evict", "store"} /\ pc'[d] # pc[d]
      ]_vars

\* The table is a Directory: one holder per name, one tenure per connection.
Dir == INSTANCE Directory
           WITH holder <- wsConns,
                retired <- {c \in Conns : pc[c] \in Admitted
                                          /\ wsConns[NameOf[c]] # c}

ImplementsDirectory == Dir!DirSpec

\* What the message "connection already closed" of closeWSConn says: when
\* a handler's deferred close finds another connection under its name, its
\* own has been closed before.
AlreadyClosed ==
    \A c \in Conns :
        (pc[c] = "cleanup" /\ wsConns[NameOf[c]] \notin {c, NoConn})
            => c \notin open
=============================================================================
