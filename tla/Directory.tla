----------------------------- MODULE Directory -----------------------------
(***************************************************************************)
(* What the proxy's connection table promises to the rest of the program:  *)
(* every name resolves to at most one websocket connection, a connection   *)
(* holds its name during one uninterrupted tenure, and once that tenure is *)
(* over the connection never holds the name again.                         *)
(*                                                                         *)
(* This is the abstract specification that Registry implements.  It says   *)
(* nothing of sockets, handlers or locks.                                  *)
(***************************************************************************)

CONSTANTS Names,   \* the names of the paths /ws/:name
          Conns,   \* every websocket connection that is ever opened
          NoConn   \* the value of a name that resolves to no connection

VARIABLES holder,  \* the connection each name resolves to
          retired  \* the connections whose tenure is over

dirVars == <<holder, retired>>

DirInit ==
    /\ holder = [n \in Names |-> NoConn]
    /\ retired = {}

\* The connection the name resolves to, as a set, so that it may be empty.
Incumbent(n) == {holder[n]} \ {NoConn}

\* A connection that has never held a name takes one; an incumbent retires.
Register(n, c) ==
    /\ c \notin retired
    /\ \A m \in Names : holder[m] # c
    /\ holder' = [holder EXCEPT ![n] = c]
    /\ retired' = retired \cup Incumbent(n)

\* A name is given up, and its holder retires.
Release(n) ==
    /\ holder[n] # NoConn
    /\ holder' = [holder EXCEPT ![n] = NoConn]
    /\ retired' = retired \cup Incumbent(n)

DirNext ==
    \/ \E n \in Names, c \in Conns : Register(n, c)
    \/ \E n \in Names : Release(n)

DirSpec == DirInit /\ [][DirNext]_dirVars
=============================================================================
