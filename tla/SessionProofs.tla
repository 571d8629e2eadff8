--------------------------- MODULE SessionProofs ----------------------------
(***************************************************************************)
(* Proofs about Session for every set of names, connections and ports, for *)
(* every name of the group, and for every bound.                           *)
(*                                                                         *)
(* Two arguments meet here.  For the group: the names in it are those of   *)
(* the connections that joined and were not robbed (MembersExact), so a    *)
(* send has before it the name of everyone it owes the event, and each of  *)
(* them is served, in the jobs, or still ahead (OwedOk); that needs a      *)
(* single observed sender (SendOk).  For what is written to whom: whoever  *)
(* is asking has a latest query whose port no later one has (AskingOk), so *)
(* what comes in at that port answers it or an earlier one; a message on   *)
(* its way is for the asker's name, or for a name that attached to the     *)
(* group (BoundFor), and the worker only turns the name into a connection; *)
(* and whoever asked has been admitted (AskersAdmitted), so it is never    *)
(* stored again once it has lost its name (InboxOk).                       *)
(***************************************************************************)
EXTENDS Session, SequenceTheorems, TLAPS

NameOk == \A n \in Names : wsConns[n] # NoConn => NameOf[wsConns[n]] = n

-----------------------------------------------------------------------------
(***************************************************************************)
(* The group and the observed event.                                       *)
(***************************************************************************)
MembersExact == members = {NameOf[c] : c \in joined \ robbed}

SendOk ==
    /\ \A c, d \in Conns : message[c] = Event /\ message[d] = Event => c = d
    /\ \A c \in Conns : message[c] = Event => observed = "sending"
    /\ \A c \in Conns : message[c] = Event \/ c \in shifted => doing[c] = "sending"

\* The event is under way to the name n.
Coming(n) ==
    \/ \E j \in jobs : j.to = n /\ j.msg = Event
    \/ \E c \in Conns \ shifted : message[c] = Event /\ n \in ahead[c]

OwedOk ==
    \A d \in owed :
        wsConns[NameOf[d]] = d /\ (Event \in inbox[d] \/ Coming(NameOf[d]))

GroupInv == MembersExact /\ SendOk /\ OwedOk

-----------------------------------------------------------------------------
(***************************************************************************)
(* The answers, and who gets what.                                         *)
(***************************************************************************)

\* q is the query c waits for: its latest, with a port that is not used again.
Pending(c, q) ==
    /\ queries[q].by = c
    /\ \A r \in q + 1..Len(queries) :
          queries[r].by # c /\ queries[r].port # queries[q].port

AskingOk ==
    \A c \in Conns : doing[c] = "asking" =>
        \E q \in 1..Len(queries) : Pending(c, q)

AskersAdmitted ==
    \A q \in 1..Len(queries) : pc[queries[q].by] \in Table!Admitted

\* The answer in a response is to its query, or to an earlier one of its port.
FitsQuery(m) ==
    m.answer # m.query =>
        m.answer < m.query /\ queries[m.answer].port = queries[m.query].port

\* A message may go to the name n.
BoundFor(m, n) ==
    /\ m = Event => n = Group \/ Attached(n)
    /\ m.type = "response" =>
          /\ FitsQuery(m)
          /\ LET asker == NameOf[queries[m.query].by] IN
             n = asker \/ (asker = Group /\ Attached(n))

\* What is sent to the group was sent to the name of the group.
SendersOk ==
    \A c \in Conns :
        /\ \A n \in ahead[c] : Attached(n)
        /\ BoundFor(message[c], Group)
        /\ message[c].type = "response" =>
              NameOf[queries[message[c].query].by] = Group

JobsOk == \A j \in jobs : BoundFor(j.msg, j.to)

InboxOk ==
    \A c \in Conns : \A m \in inbox[c] :
        /\ BoundFor(m, NameOf[c])
        /\ m.type = "response" =>
              LET asker == queries[m.query].by IN
              NameOf[c] = NameOf[asker] => c = asker \/ wsConns[NameOf[c]] # asker

AnswerInv == AskingOk /\ AskersAdmitted /\ SendersOk /\ JobsOk /\ InboxOk

IInv == TypeOK /\ NameOk /\ GroupInv /\ AnswerInv

-----------------------------------------------------------------------------
(***************************************************************************)
(* The steps.                                                              *)
(***************************************************************************)

\* One handler's action, with the connection named.
Step(c) ==
    \/ Handles(c) \/ Attach(c) \/ Detach(c)
    \/ SendBegins(c) \/ SendJob(c) \/ SendSkips(c) \/ SendEnds(c)
    \/ Query(c) \/ QueryRefused(c) \/ Receive(c) \/ Expire(c)

\* Every step is a handler's, a worker's, or a stutter.
LEMMA NextCases ==
    ASSUME [Next]_vars
    PROVE  \/ \E c \in Conns : Step(c)
           \/ \E j \in jobs : Serve(j)
           \/ UNCHANGED vars
BY DEF Next, Step, Finished

\* What a handler's step in the table does to the map and to the labels: an
\* entry stays, goes, or is replaced by a handler that was never admitted;
\* and who has been admitted stays admitted.
LEMMA TableStep ==
    ASSUME TypeOK, NameOk, NEW c \in Conns, Handles(c)
    PROVE  /\ Table!TypeOK'
           /\ \A n \in Names : \/ wsConns'[n] = wsConns[n]
                               \/ wsConns'[n] = NoConn
                               \/ /\ wsConns'[n] = c /\ NameOf[c] = n
                                  /\ pc[c] \notin Table!Admitted
           /\ \A d \in Conns : pc[d] \in Table!Admitted => pc'[d] \in Table!Admitted
<1> USE SessionAssumption
    DEF TypeOK, Table!TypeOK, Table!Adding, Table!Admitted, Table!Goto
<1>1. CASE Table!Upgrade(c)
  BY <1>1 DEF Table!Upgrade
<1>2. CASE Table!Lookup(c)
  BY <1>2 DEF Table!Lookup
<1>3. CASE Table!Evict(c)
  BY <1>3 DEF Table!Evict, Table!CloseWSConn
<1>4. CASE Table!Store(c)
  BY <1>4 DEF Table!Store
<1>5. CASE Table!ReadFails(c)
  BY <1>5 DEF Table!ReadFails
<1>6. CASE Table!Cleanup(c)
  BY <1>6 DEF Table!Cleanup, Table!CloseWSConn
<1>. QED
  BY <1>1, <1>2, <1>3, <1>4, <1>5, <1>6 DEF Handles, Table!HandlerRuns

\* The names stay right through a handler's step in the table.
LEMMA NameStep ==
    ASSUME TypeOK, NameOk, NEW c \in Conns, Handles(c)
    PROVE  NameOk'
BY TableStep DEF NameOk

\* The query that QueryOf chooses is the one that is pending.
LEMMA QueryOfPending ==
    ASSUME TypeOK, NEW c \in Conns, NEW q \in 1..Len(queries), Pending(c, q)
    PROVE  QueryOf(c) = q
<1> DEFINE P(i) == /\ queries[i].by = c
                   /\ \A r \in i + 1..Len(queries) : queries[r].by # c
<1>1. P(q)
  BY DEF Pending
<1>2. QueryOf(c) = CHOOSE i \in 1..Len(queries) : P(i)
  BY DEF QueryOf
<1> HIDE DEF P
<1>3. QueryOf(c) \in 1..Len(queries) /\ P(QueryOf(c))
  BY <1>1, <1>2
<1>4. Len(queries) \in Nat
  BY DEF TypeOK
<1>. QED
  BY <1>1, <1>3, <1>4 DEF P

\* An asker's query exists.
LEMMA AskerHasQuery ==
    ASSUME TypeOK, AskingOk, NEW c \in Conns, doing[c] = "asking"
    PROVE  QueryOf(c) \in 1..Len(queries) /\ Pending(c, QueryOf(c))
<1>1. PICK q \in 1..Len(queries) : Pending(c, q)
  BY DEF AskingOk
<1>. QED
  BY <1>1, QueryOfPending

-----------------------------------------------------------------------------
(***************************************************************************)
(* Types.                                                                  *)
(***************************************************************************)

\* The initial state satisfies the inductive invariant.
LEMMA InitIInv == Init => IInv
<1> SUFFICES ASSUME Init PROVE IInv
  OBVIOUS
<1> USE SessionAssumption DEF Init, Table!Init
<1>1. TypeOK
  <2>1. Table!TypeOK
    BY DEF Table!TypeOK
  <2>2. queries \in Seq([by : Conns, port : Ports]) /\ 0 \in 0..MaxEvents
    OBVIOUS
  <2>3. message \in [Conns -> Messages]
    BY DEF Messages
  <2>. QED
    BY <2>1, <2>2, <2>3 DEF TypeOK
<1>2. NameOk /\ MembersExact
  BY DEF NameOk, MembersExact
<1>3. SendOk /\ OwedOk
  BY DEF SendOk, OwedOk, Event, Error
<1>4. AskingOk /\ AskersAdmitted /\ SendersOk /\ JobsOk /\ InboxOk
  BY DEF AskingOk, AskersAdmitted, SendersOk, BoundFor, JobsOk, InboxOk, Event, Error
<1>. QED
  BY <1>1, <1>2, <1>3, <1>4 DEF IInv, GroupInv, AnswerInv

\* A response to a query with an answer there is, is a message.
LEMMA ResponseType ==
    ASSUME NEW q \in 1..Len(queries), NEW a \in 1..Len(queries)
    PROVE  Response(q, a) \in Messages
BY DEF Messages, Responses

\* Sending keeps the variables that it changes in their types.
LEMMA SendToType ==
    ASSUME TypeOK, NEW c \in Conns, NEW n \in Names, NEW m \in Messages,
           SendTo(c, n, m)
    PROVE  /\ doing' \in [Conns -> {"reading", "asking", "sending"}]
           /\ message' \in [Conns -> Messages]
           /\ ahead' \in [Conns -> SUBSET Names]
           /\ jobs' \in SUBSET Jobs
<1>1. [to |-> n, msg |-> m] \in Jobs
  BY DEF Jobs
<1>. QED
  BY <1>1 DEF SendTo, Now, TypeOK

\* A reply to the pending query keeps the types.
LEMMA ReplyType ==
    ASSUME TypeOK, NEW c \in Conns, NEW m \in Messages, Reply(c, m)
    PROVE  TypeOK'
<1>1. NameOf[c] \in Names
  BY SessionAssumption
<1>2. /\ doing' \in [Conns -> {"reading", "asking", "sending"}]
      /\ message' \in [Conns -> Messages]
      /\ ahead' \in [Conns -> SUBSET Names]
      /\ jobs' \in SUBSET Jobs
  BY <1>1, SendToType DEF Reply
<1>3. Table!TypeOK' /\ Messages' = Messages /\ Jobs' = Jobs
  BY DEF Reply, TypeOK, Table!TypeOK, tableVars, Jobs, Messages, Responses
<1>. QED
  BY <1>2, <1>3 DEF Reply, TypeOK, groupVars, eventVars

\* A new query makes room for its responses and keeps those there are.
LEMMA QueryType ==
    ASSUME TypeOK, NEW c \in Conns, Query(c)
    PROVE  TypeOK'
<1>1. PICK p \in Ports : queries' = Append(queries, [by |-> c, port |-> p])
  BY DEF Query
<1>2. queries' \in Seq([by : Conns, port : Ports]) /\ Len(queries') = Len(queries) + 1
  BY <1>1 DEF TypeOK
<1>3. Len(queries) \in Nat
  BY DEF TypeOK
<1>4. 1..Len(queries) \subseteq 1..Len(queries')
  BY <1>2, <1>3
<1>5. Responses \subseteq Responses'
  BY <1>4 DEF Responses
<1>6. Messages \subseteq Messages' /\ Jobs \subseteq Jobs'
  BY <1>5 DEF Messages, Jobs, Event, Error
<1>7. Table!TypeOK'
  BY DEF Query, TypeOK, Table!TypeOK, tableVars
<1>8. doing' \in [Conns -> {"reading", "asking", "sending"}] /\ events' \in 0..MaxEvents
  BY SessionAssumption DEF Query, ReadsEvent, TypeOK, Now
<1>9. message' \in [Conns -> Messages'] /\ ahead' \in [Conns -> SUBSET Names]
  BY <1>6 DEF Query, TypeOK, sendVars
<1>10. jobs' \in SUBSET Jobs' /\ inbox' \in [Conns -> SUBSET Messages']
  BY <1>6 DEF Query, TypeOK, sendVars
<1>. QED
  BY <1>2, <1>7, <1>8, <1>9, <1>10 DEF Query, TypeOK, groupVars, eventVars

\* Every step of a handler keeps the variables in their types.
LEMMA TypeStep ==
    ASSUME TypeOK, NameOk, AskingOk, NEW c \in Conns, Step(c)
    PROVE  TypeOK'
<1>0. Event \in Messages /\ Error \in Messages
  BY DEF Messages
<1>1. CASE Handles(c)
  <2>1. Table!TypeOK'
    BY <1>1, TableStep
  <2>. QED
    BY <1>1, <2>1 DEF Handles, TypeOK, Jobs, Messages, Responses, groupVars, sendVars
<1>2. CASE Query(c)
  BY <1>2, QueryType
<1> DEFINE Same == UNCHANGED <<tableVars, queries>>
<1>3. Same => Table!TypeOK' /\ Messages' = Messages /\ Jobs' = Jobs
  BY DEF TypeOK, Table!TypeOK, tableVars, Jobs, Messages, Responses
<1> USE DEF ReadsEvent, Now, groupVars, sendVars, eventVars
<1> HIDE DEF Same
<1>4. CASE Attach(c)
  <2>1. Same
    BY <1>4 DEF Attach, Same
  <2>. QED
    BY <1>3, <1>4, <2>1, SessionAssumption DEF Attach, TypeOK
<1>5. CASE Detach(c)
  <2>1. Same
    BY <1>5 DEF Detach, Same
  <2>. QED
    BY <1>3, <1>5, <2>1, SessionAssumption DEF Detach, Namesakes, TypeOK
<1>6. CASE SendBegins(c)
  <2>1. Same
    BY <1>6 DEF SendBegins, Same
  <2>2. /\ doing' \in [Conns -> {"reading", "asking", "sending"}]
        /\ message' \in [Conns -> Messages]
        /\ ahead' \in [Conns -> SUBSET Names]
        /\ jobs' \in SUBSET Jobs
    BY <1>0, <1>6, SendToType, SessionAssumption DEF SendBegins
  <2>3. owed' \in SUBSET Conns
    BY <1>6, SessionAssumption DEF SendBegins, TypeOK, Table!TypeOK
  <2>. QED
    BY <1>3, <1>6, <2>1, <2>2, <2>3, SessionAssumption DEF SendBegins, TypeOK
<1>7. CASE SendJob(c)
  <2>1. Same
    BY <1>7 DEF SendJob, Same
  <2>2. PICK n \in ahead[c] \cup members :
          /\ jobs' = jobs \cup {[to |-> n, msg |-> message[c]]}
          /\ ahead' = [ahead EXCEPT ![c] = @ \ {n}]
    BY <1>7 DEF SendJob
  <2>3. [to |-> n, msg |-> message[c]] \in Jobs
    BY DEF TypeOK, Jobs
  <2>. QED
    BY <1>3, <1>7, <2>1, <2>2, <2>3 DEF SendJob, TypeOK
<1>8. CASE SendSkips(c)
  <2>1. Same
    BY <1>8 DEF SendSkips, Same
  <2>. QED
    BY <1>3, <1>8, <2>1 DEF SendSkips, TypeOK
<1>9. CASE SendEnds(c)
  <2>1. Same
    BY <1>9 DEF SendEnds, Same
  <2>. QED
    BY <1>0, <1>3, <1>9, <2>1 DEF SendEnds, TypeOK
<1>10. CASE QueryRefused(c)
  <2>1. Same
    BY <1>10 DEF QueryRefused, Same
  <2>2. /\ doing' \in [Conns -> {"reading", "asking", "sending"}]
        /\ message' \in [Conns -> Messages]
        /\ ahead' \in [Conns -> SUBSET Names]
        /\ jobs' \in SUBSET Jobs
    BY <1>0, <1>10, SendToType DEF QueryRefused
  <2>. QED
    BY <1>3, <1>10, <2>1, <2>2, SessionAssumption DEF QueryRefused, TypeOK
<1>11. CASE Receive(c)
  <2>1. PICK a \in 1..Len(queries) : Reply(c, Response(QueryOf(c), a))
    BY <1>11 DEF Receive
  <2>2. Response(QueryOf(c), a) \in Messages
    BY <2>1, AskerHasQuery, ResponseType DEF Reply
  <2>. QED
    BY <2>1, <2>2, ReplyType
<1>12. CASE Expire(c)
  BY <1>0, <1>12, ReplyType DEF Expire
<1>. QED
  BY <1>1, <1>2, <1>4, <1>5, <1>6, <1>7, <1>8, <1>9, <1>10, <1>11, <1>12 DEF Step

\* So does a worker.
LEMMA TypeServe ==
    ASSUME TypeOK, NEW j \in jobs, Serve(j)
    PROVE  TypeOK'
<1>1. j.msg \in Messages
  BY DEF TypeOK, Jobs
<1>2. Table!TypeOK' /\ Messages' = Messages /\ Jobs' = Jobs
  BY DEF Serve, TypeOK, Table!TypeOK, tableVars, Jobs, Messages, Responses
<1>. QED
  BY <1>1, <1>2 DEF Serve, TypeOK, groupVars

-----------------------------------------------------------------------------
(***************************************************************************)
(* The group.                                                              *)
(***************************************************************************)

\* The names stay right through everything that is no step in the table.
LEMMA NameOther ==
    ASSUME NameOk, UNCHANGED tableVars
    PROVE  NameOk'
BY DEF NameOk, tableVars

\* What attaches adds its name, what detaches takes it from all namesakes.
LEMMA MembersStep ==
    ASSUME TypeOK, MembersExact, NEW c \in Conns, Attach(c) \/ Detach(c)
    PROVE  MembersExact'
<1>1. CASE Attach(c)
  <2>1. joined' \ robbed' = (joined \ robbed) \cup {c}
    BY <1>1 DEF Attach
  <2>. QED
    BY <1>1, <2>1 DEF Attach, MembersExact
<1>2. CASE Detach(c)
  <2>1. joined' \ robbed' = {d \in joined \ robbed : NameOf[d] # NameOf[c]}
    BY <1>2 DEF Detach, Namesakes, TypeOK
  <2>. QED
    BY <1>2, <2>1 DEF Detach, MembersExact
<1>. QED
  BY <1>1, <1>2

\* Sending something else leaves the observed event where it is.
LEMMA OtherSend ==
    ASSUME TypeOK, GroupInv, NEW c \in Conns, doing[c] # "sending",
           NEW n \in Names, NEW m, m # Event, SendTo(c, n, m),
           UNCHANGED <<wsConns, members, joined, robbed, shifted, inbox,
                       observed, owed>>
    PROVE  GroupInv'
<1>1. MembersExact'
  BY DEF GroupInv, MembersExact
<1>2. SendOk'
  BY DEF GroupInv, SendOk, SendTo, Now, TypeOK
<1>3. message[c] # Event
  BY DEF GroupInv, SendOk
<1>4. ASSUME NEW d \in owed, Coming(NameOf[d]) PROVE Coming(NameOf[d])'
  BY <1>3, <1>4 DEF Coming, SendTo, TypeOK
<1>5. OwedOk'
  BY <1>4 DEF GroupInv, OwedOk
<1>. QED
  BY <1>1, <1>2, <1>5 DEF GroupInv

\* The observed send has all those before it whom it owes the event, or the
\* one that has the name of the group.
LEMMA GroupBegins ==
    ASSUME TypeOK, NameOk, GroupInv, NEW c \in Conns, SendBegins(c)
    PROVE  GroupInv'
<1> USE DEF SendBegins, ReadsEvent, tableVars, groupVars, eventVars
<1>1. MembersExact'
  BY DEF GroupInv, MembersExact
<1>2. c \notin shifted /\ \A d \in Conns : message[d] # Event
  BY DEF GroupInv, SendOk
<1>3. SendOk'
  BY <1>2 DEF GroupInv, SendOk, SendTo, Now, TypeOK, Event
<1>4. CASE IsGroup(Group)
  <2>1. /\ message'[c] = Event /\ ahead'[c] = members /\ shifted' = shifted
        /\ owed' = {d \in joined \ robbed : wsConns[NameOf[d]] = d}
    BY <1>4 DEF SendTo, TypeOK
  <2>2. \A d \in owed' : NameOf[d] \in members
    BY <2>1 DEF GroupInv, MembersExact
  <2>3. \A d \in owed' : Coming(NameOf[d])'
    BY <1>2, <2>1, <2>2 DEF Coming
  <2>4. OwedOk'
    BY <2>1, <2>3 DEF OwedOk
  <2>. QED
    BY <1>1, <1>3, <2>4 DEF GroupInv
<1>5. CASE ~IsGroup(Group)
  <2>1. jobs' = jobs \cup {[to |-> Group, msg |-> Event]}
    BY <1>5 DEF SendTo
  <2>2. \A d \in owed' : NameOf[d] = Group /\ wsConns[Group] = d
    BY <1>5, SessionAssumption DEF NameOk
  <2>3. Coming(Group)'
    <3> DEFINE j == [to |-> Group, msg |-> Event]
    <3>1. j \in jobs' /\ j.to = Group /\ j.msg = Event
      BY <2>1
    <3>. QED
      BY <3>1 DEF Coming, Event
  <2>4. OwedOk'
    BY <2>2, <2>3 DEF OwedOk
  <2>. QED
    BY <1>1, <1>3, <2>4 DEF GroupInv
<1>. QED
  BY <1>4, <1>5

\* A name that the send moves into a job is still on its way.
LEMMA GroupJob ==
    ASSUME TypeOK, GroupInv, NEW c \in Conns, SendJob(c)
    PROVE  GroupInv'
<1> USE DEF SendJob, tableVars, groupVars, eventVars
<1>1. MembersExact' /\ SendOk'
  BY DEF GroupInv, MembersExact, SendOk
<1>2. PICK n \in ahead[c] \cup members :
        /\ jobs' = jobs \cup {[to |-> n, msg |-> message[c]]}
        /\ ahead' = [ahead EXCEPT ![c] = @ \ {n}]
  OBVIOUS
<1>3. ASSUME NEW k, Coming(k) PROVE Coming(k)'
  <2>1. CASE \E j \in jobs : j.to = k /\ j.msg = Event
    BY <1>2, <2>1 DEF Coming
  <2>2. ASSUME NEW d \in Conns \ shifted, message[d] = Event, k \in ahead[d]
        PROVE  Coming(k)'
    <3>1. CASE d = c /\ k = n
      <4> DEFINE j == [to |-> n, msg |-> message[c]]
      <4>1. j \in jobs' /\ j.to = k /\ j.msg = Event
        BY <1>2, <2>2, <3>1
      <4>. QED
        BY <4>1 DEF Coming, Event
    <3>2. CASE ~(d = c /\ k = n)
      BY <1>2, <2>2, <3>2 DEF Coming, TypeOK
    <3>. QED
      BY <3>1, <3>2
  <2>. QED
    BY <1>3, <2>1, <2>2 DEF Coming
<1>4. OwedOk'
  BY <1>3 DEF GroupInv, OwedOk
<1>. QED
  BY <1>1, <1>4 DEF GroupInv

\* Any step of a handler keeps the group, the one sender and what it owes.
LEMMA GroupStep ==
    ASSUME TypeOK, NameOk, GroupInv, NEW c \in Conns, Step(c)
    PROVE  GroupInv'
<1> USE DEF ReadsEvent, tableVars, groupVars, sendVars, eventVars
<1>1. CASE Handles(c)
  <2>1. MembersExact' /\ SendOk'
    BY <1>1 DEF GroupInv, Handles, MembersExact, SendOk
  <2>2. OwedOk'
    BY <1>1 DEF GroupInv, Handles, OwedOk, Coming
  <2>. QED
    BY <2>1, <2>2 DEF GroupInv
<1>2. CASE Attach(c)
  <2>1. MembersExact'
    BY <1>2, MembersStep DEF GroupInv
  <2>2. SendOk' /\ OwedOk'
    BY <1>2 DEF GroupInv, Attach, SendOk, OwedOk, Coming
  <2>. QED
    BY <2>1, <2>2 DEF GroupInv
<1>3. CASE Detach(c)
  <2>1. MembersExact'
    BY <1>3, MembersStep DEF GroupInv
  <2>2. SendOk'
    BY <1>3 DEF GroupInv, Detach, SendOk
  <2>3. CASE NameOf[c] \in members /\ observed = "sending"
    BY <1>3, <2>1, <2>2, <2>3 DEF GroupInv, Detach, OwedOk
  <2>4. CASE NameOf[c] \in members /\ observed # "sending"
    <3>1. \A d \in Conns : message[d] # Event
      BY <2>4 DEF GroupInv, SendOk
    <3>2. OwedOk'
      BY <1>3, <2>4, <3>1 DEF GroupInv, Detach, OwedOk, Coming
    <3>. QED
      BY <2>1, <2>2, <3>2 DEF GroupInv
  <2>5. CASE NameOf[c] \notin members
    <3>1. OwedOk'
      BY <1>3, <2>5 DEF GroupInv, Detach, OwedOk, Coming
    <3>. QED
      BY <2>1, <2>2, <3>1 DEF GroupInv
  <2>. QED
    BY <2>3, <2>4, <2>5
<1>4. CASE SendBegins(c)
  BY <1>4, GroupBegins
<1>5. CASE SendJob(c)
  BY <1>5, GroupJob
<1>6. CASE SendSkips(c)
  <2>1. MembersExact' /\ SendOk'
    BY <1>6 DEF GroupInv, SendSkips, MembersExact, SendOk
  <2>2. OwedOk'
    BY <1>6 DEF GroupInv, SendSkips, OwedOk, Coming, TypeOK
  <2>. QED
    BY <2>1, <2>2 DEF GroupInv
<1>7. CASE SendEnds(c)
  <2>1. MembersExact'
    BY <1>7 DEF GroupInv, SendEnds, MembersExact
  <2>2. SendOk'
    BY <1>7 DEF GroupInv, SendEnds, Now, SendOk, TypeOK, Event, Error
  <2>3. OwedOk'
    BY <1>7 DEF GroupInv, SendEnds, OwedOk, Coming, TypeOK
  <2>. QED
    BY <2>1, <2>2, <2>3 DEF GroupInv
<1>8. CASE Query(c)
  <2>1. MembersExact' /\ SendOk'
    BY <1>8 DEF GroupInv, Query, Now, MembersExact, SendOk, TypeOK
  <2>2. OwedOk'
    BY <1>8 DEF GroupInv, Query, OwedOk, Coming
  <2>. QED
    BY <2>1, <2>2 DEF GroupInv
<1>9. CASE QueryRefused(c)
  <2>1. PICK n \in Names : SendTo(c, n, Error)
    BY <1>9 DEF QueryRefused
  <2>2. Error # Event
    BY DEF Error, Event
  <2>. QED
    BY <1>9, <2>1, <2>2, OtherSend DEF QueryRefused
<1>10. ASSUME NEW m, m # Event, Reply(c, m) PROVE GroupInv'
  BY <1>10, OtherSend, SessionAssumption DEF Reply
<1>11. CASE Receive(c)
  <2>1. PICK a \in 1..Len(queries) : Reply(c, Response(QueryOf(c), a))
    BY <1>11 DEF Receive
  <2>2. Response(QueryOf(c), a) # Event
    BY DEF Response, Event
  <2>. QED
    BY <1>10, <2>1, <2>2
<1>12. CASE Expire(c)
  BY <1>10, <1>12 DEF Expire, Error, Event
<1>. QED
  BY <1>1, <1>2, <1>3, <1>4, <1>5, <1>6, <1>7, <1>8, <1>9, <1>11, <1>12 DEF Step

\* A worker writes to the one that has the name, and that is whom the event
\* is owed to, or the peer has not taken it.
LEMMA GroupServe ==
    ASSUME TypeOK, GroupInv, NEW j \in jobs, Serve(j)
    PROVE  GroupInv'
<1> USE DEF Serve, tableVars, groupVars
<1>1. MembersExact' /\ SendOk'
  BY DEF GroupInv, MembersExact, SendOk
<1>2. ASSUME NEW d \in owed'
      PROVE  wsConns[NameOf[d]] = d /\ (Event \in inbox'[d] \/ Coming(NameOf[d])')
  <2>1. d \in owed /\ d \in Conns /\ wsConns[NameOf[d]] = d
    BY DEF GroupInv, OwedOk, TypeOK
  <2>2. CASE Event \in inbox[d]
    BY <2>1, <2>2 DEF TypeOK
  <2>3. CASE j.to = NameOf[d] /\ j.msg = Event
    BY <2>1, <2>3 DEF TypeOK
  <2>4. CASE Coming(NameOf[d]) /\ ~(j.to = NameOf[d] /\ j.msg = Event)
    BY <2>1, <2>4 DEF Coming
  <2>. QED
    BY <2>1, <2>2, <2>3, <2>4 DEF GroupInv, OwedOk
<1>3. OwedOk'
  BY <1>2 DEF OwedOk
<1>. QED
  BY <1>1, <1>3 DEF GroupInv

-----------------------------------------------------------------------------
(***************************************************************************)
(* The answers, and who gets what.                                         *)
(***************************************************************************)

\* The names in the group attached: nobody is put there by another name.
LEMMA MembersAttached ==
    ASSUME TypeOK, MembersExact, NEW n \in members
    PROVE  Attached(n)
BY DEF TypeOK, MembersExact, Attached

\* Who has attached has attached for ever, so what may go to a name may do so
\* for ever.
LEMMA BoundStays ==
    ASSUME attached \subseteq attached', UNCHANGED queries, NEW n, NEW m
    PROVE  /\ Attached(n) => Attached(n)'
           /\ BoundFor(m, n) => BoundFor(m, n)'
BY DEF Attached, BoundFor, FitsQuery, Event

\* What was written stays right without a step in the table or a query.
LEMMA AnswerSame ==
    ASSUME AnswerInv, attached \subseteq attached',
           UNCHANGED <<wsConns, pc, queries, inbox>>,
           \A c \in Conns : doing'[c] = "asking" => doing[c] = "asking"
    PROVE  AskingOk' /\ AskersAdmitted' /\ InboxOk'
<1>1. AskingOk' /\ AskersAdmitted'
  BY DEF AnswerInv, AskingOk, Pending, AskersAdmitted
<1>2. InboxOk'
  BY BoundStays DEF AnswerInv, InboxOk
<1>. QED
  BY <1>1, <1>2

\* So does what is on its way if nothing is sent.
LEMMA SentSame ==
    ASSUME AnswerInv, attached \subseteq attached',
           UNCHANGED <<queries, message, ahead, jobs>>
    PROVE  SendersOk' /\ JobsOk'
BY BoundStays DEF AnswerInv, SendersOk, JobsOk

\* Every query was made by a connection.
LEMMA AskerIsConn ==
    ASSUME TypeOK, NEW q \in 1..Len(queries)
    PROVE  queries[q].by \in Conns
<1>1. queries \in Seq([by : Conns, port : Ports])
  BY DEF TypeOK
<1>2. queries[q] \in [by : Conns, port : Ports]
  BY <1>1, ElementOfSeq
<1>. QED
  BY <1>2

\* A response has its query and its answer among the queries.
LEMMA ResponseFields ==
    ASSUME NEW m \in Messages, m.type = "response"
    PROVE  m.query \in 1..Len(queries) /\ m.answer \in 1..Len(queries)
BY DEF Messages, Responses, Response, Event, Error

\* A step in the table gives no name to one that has asked.
LEMMA AnswerTable ==
    ASSUME TypeOK, NameOk, AnswerInv, NEW c \in Conns, Handles(c)
    PROVE  AnswerInv'
<1>1. \A q \in 1..Len(queries) : queries[q].by \in Conns
  BY AskerIsConn
<1> USE DEF Handles, groupVars, sendVars
<1>2. AskingOk'
  BY DEF AnswerInv, AskingOk, Pending
<1>3. AskersAdmitted'
  BY <1>1, TableStep DEF AnswerInv, AskersAdmitted
<1>4. SendersOk' /\ JobsOk'
  BY SentSame
<1>5. ASSUME NEW d \in Conns, NEW m \in inbox[d], m.type = "response",
             NameOf[d] = NameOf[queries[m.query].by], d # queries[m.query].by
      PROVE  wsConns'[NameOf[d]] # queries[m.query].by
  <2>1. m.query \in 1..Len(queries)
    BY <1>5, ResponseFields DEF TypeOK
  <2>2. wsConns[NameOf[d]] # queries[m.query].by
    BY <1>5 DEF AnswerInv, InboxOk
  <2>3. pc[queries[m.query].by] \in Table!Admitted
    BY <2>1 DEF AnswerInv, AskersAdmitted
  <2>. QED
    BY <1>1, <2>1, <2>2, <2>3, TableStep, SessionAssumption
<1>6. InboxOk'
  BY <1>5, BoundStays DEF AnswerInv, InboxOk
<1>. QED
  BY <1>2, <1>3, <1>4, <1>6 DEF AnswerInv

\* A new query changes nothing about the earlier ones, and its port is not
\* one at which an answer is awaited.
LEMMA AnswerQuery ==
    ASSUME TypeOK, NameOk, AnswerInv, NEW c \in Conns, Query(c)
    PROVE  AnswerInv'
<1> USE DEF AnswerInv
<1>1. PICK p \in Ports :
        /\ \A d \in Conns : doing[d] = "asking" => queries[QueryOf(d)].port # p
        /\ queries' = Append(queries, [by |-> c, port |-> p])
  BY DEF Query
<1> DEFINE L == Len(queries)
<1>2. /\ L \in Nat /\ Len(queries') = L + 1
      /\ \A q \in 1..L : queries'[q] = queries[q]
      /\ queries'[L + 1] = [by |-> c, port |-> p]
  BY <1>1 DEF TypeOK
<1>3. /\ UNCHANGED <<wsConns, pc, attached, message, ahead, jobs, inbox>>
      /\ pc[c] = "read" /\ doing[c] = "reading"
  BY DEF Query, ReadsEvent, tableVars, groupVars, sendVars
<1>4. doing' = [doing EXCEPT ![c] = "asking"]
  BY DEF Query, Now
<1> HIDE DEF L
<1>5. AskingOk'
  <2>1. ASSUME NEW d \in Conns, doing'[d] = "asking"
        PROVE  \E q \in 1..Len(queries') : Pending(d, q)'
    <3>1. CASE d = c
      BY <1>2, <3>1 DEF Pending
    <3>2. CASE d # c
      <4>1. doing[d] = "asking"
        BY <1>4, <2>1, <3>2 DEF TypeOK
      <4>2. PICK q \in 1..L : Pending(d, q)
        BY <4>1 DEF AskingOk, L
      <4>3. queries[q].port # p
        BY <1>1, <4>1, <4>2, QueryOfPending DEF L
      <4>4. \A r \in q + 1..L : queries[r].by # d /\ queries[r].port # queries[q].port
        BY <4>2 DEF Pending, L
      <4>5. \A r \in q + 1..L + 1 :
                queries'[r].by # d /\ queries'[r].port # queries'[q].port
        BY <1>2, <3>2, <4>2, <4>3, <4>4
      <4>6. Pending(d, q)'
        BY <1>2, <4>2, <4>5 DEF Pending, L
      <4>. QED
        BY <1>2, <4>2, <4>6
    <3>. QED
      BY <3>1, <3>2
  <2>. QED
    BY <2>1 DEF AskingOk
<1>6. AskersAdmitted'
  BY <1>2, <1>3 DEF AskersAdmitted, Table!Admitted, L
<1>7. ASSUME NEW m \in Messages, NEW n, BoundFor(m, n)
      PROVE  /\ BoundFor(m, n)'
             /\ m.type = "response" => queries'[m.query] = queries[m.query]
  <2>1. m.type = "response" => m.query \in 1..L /\ m.answer \in 1..L
    BY ResponseFields DEF L
  <2>. QED
    BY <1>2, <1>3, <1>7, <2>1 DEF BoundFor, FitsQuery, Attached
<1>8. SendersOk'
  BY <1>3, <1>7 DEF SendersOk, Attached, TypeOK
<1>9. JobsOk'
  BY <1>3, <1>7 DEF JobsOk, TypeOK, Jobs
<1>10. InboxOk'
  BY <1>3, <1>7 DEF InboxOk, TypeOK
<1>. QED
  BY <1>5, <1>6, <1>8, <1>9, <1>10

\* What is sent to a name to which it may go, as a job or to the group, is in
\* order, if a response is sent to its asker.
LEMMA SendToKeeps ==
    ASSUME TypeOK, MembersExact, AnswerInv, NEW c \in Conns, NEW n, NEW m,
           BoundFor(m, n),
           m.type = "response" => NameOf[queries[m.query].by] = n,
           SendTo(c, n, m), UNCHANGED <<attached, queries>>
    PROVE  SendersOk' /\ JobsOk'
<1>1. CASE IsGroup(n)
  <2>1. /\ message' = [message EXCEPT ![c] = m] /\ n = Group
        /\ ahead' = [ahead EXCEPT ![c] = members] /\ UNCHANGED jobs
    BY <1>1 DEF SendTo, IsGroup
  <2>2. ASSUME NEW d \in Conns
        PROVE  /\ \A k \in ahead'[d] : Attached(k)
               /\ BoundFor(message'[d], Group)
               /\ message'[d].type = "response" =>
                     NameOf[queries[message'[d].query].by] = Group
    <3>1. CASE d = c
      BY <2>1, <3>1, MembersAttached DEF TypeOK
    <3>2. CASE d # c
      BY <2>1, <3>2 DEF TypeOK, AnswerInv, SendersOk
    <3>. QED
      BY <3>1, <3>2
  <2>3. SendersOk'
    BY <2>2, BoundStays DEF SendersOk
  <2>4. JobsOk'
    BY <2>1, BoundStays DEF AnswerInv, JobsOk
  <2>. QED
    BY <2>3, <2>4
<1>2. CASE ~IsGroup(n)
  <2>1. jobs' = jobs \cup {[to |-> n, msg |-> m]} /\ UNCHANGED <<message, ahead>>
    BY <1>2 DEF SendTo
  <2>2. SendersOk'
    BY <2>1, BoundStays DEF AnswerInv, SendersOk
  <2>3. \A j \in jobs' : BoundFor(j.msg, j.to)
    BY <2>1 DEF AnswerInv, JobsOk
  <2>4. JobsOk'
    BY <2>3, BoundStays DEF JobsOk
  <2>. QED
    BY <2>2, <2>4
<1>. QED
  BY <1>1, <1>2

\* What came in at the port of the pending query is an answer to it, or to
\* an earlier query, and it is sent to the asker.
LEMMA AnswerReply ==
    ASSUME TypeOK, MembersExact, AnswerInv, NEW c \in Conns, Receive(c)
    PROVE  AnswerInv'
<1>1. PICK a \in 1..Len(queries) :
        /\ queries[a].port = queries[QueryOf(c)].port
        /\ Reply(c, Response(QueryOf(c), a))
  BY DEF Receive
<1>2. QueryOf(c) \in 1..Len(queries) /\ Pending(c, QueryOf(c)) /\ Len(queries) \in Nat
  BY <1>1, AskerHasQuery DEF Reply, AnswerInv, TypeOK
<1> DEFINE q == QueryOf(c)
           m == Response(q, a)
<1>3. a # q => a < q
  BY <1>1, <1>2 DEF Pending
<1>4. m.type = "response" /\ m.query = q /\ m.answer = a /\ m # Event
  BY DEF Response, Event
<1>5. queries[q].by = c /\ queries[a].port = queries[q].port
  BY <1>1, <1>2 DEF Pending
<1> HIDE DEF q, m
<1>6. BoundFor(m, NameOf[c])
  <2>1. FitsQuery(m)
    BY <1>3, <1>4, <1>5 DEF FitsQuery
  <2>2. NameOf[queries[m.query].by] = NameOf[c]
    BY <1>4, <1>5
  <2>. QED
    BY <1>4, <2>1, <2>2 DEF BoundFor
<1>7. Reply(c, m)
  BY <1>1 DEF m, q
<1>8. SendersOk' /\ JobsOk'
  BY <1>4, <1>5, <1>6, <1>7, SendToKeeps DEF Reply, groupVars
<1>9. AskingOk' /\ AskersAdmitted' /\ InboxOk'
  BY <1>7, AnswerSame DEF Reply, SendTo, Now, tableVars, groupVars, TypeOK
<1>. QED
  BY <1>8, <1>9 DEF AnswerInv

\* An error, or the observed event to the group, may be sent by anyone.
LEMMA AnswerSend ==
    ASSUME TypeOK, MembersExact, AnswerInv, NEW c \in Conns, NEW n,
           NEW m \in {Error, Event}, m = Event => n = Group, SendTo(c, n, m),
           UNCHANGED <<tableVars, groupVars, queries, inbox>>
    PROVE  AnswerInv'
<1>1. m.type # "response" /\ BoundFor(m, n)
  BY DEF BoundFor, Error, Event
<1>2. SendersOk' /\ JobsOk'
  BY <1>1, SendToKeeps DEF groupVars
<1>3. AskingOk' /\ AskersAdmitted' /\ InboxOk'
  BY AnswerSame DEF SendTo, Now, tableVars, groupVars, TypeOK
<1>. QED
  BY <1>2, <1>3 DEF AnswerInv

\* A job for the group is for a name that attached.
LEMMA AnswerJob ==
    ASSUME TypeOK, MembersExact, AnswerInv, NEW c \in Conns, SendJob(c)
    PROVE  AnswerInv'
<1> USE DEF SendJob, tableVars, groupVars
<1>1. PICK n \in ahead[c] \cup members :
        /\ jobs' = jobs \cup {[to |-> n, msg |-> message[c]]}
        /\ ahead' = [ahead EXCEPT ![c] = @ \ {n}]
  OBVIOUS
<1>2. Attached(n)
  BY MembersAttached DEF AnswerInv, SendersOk
<1>3. BoundFor(message[c], n)
  BY <1>2 DEF AnswerInv, SendersOk, BoundFor
<1>4. \A j \in jobs' : BoundFor(j.msg, j.to)
  BY <1>1, <1>3 DEF AnswerInv, JobsOk
<1>5. JobsOk'
  BY <1>4, BoundStays DEF JobsOk
<1>6. \A d \in Conns : ahead'[d] \subseteq ahead[d]
  BY <1>1 DEF TypeOK
<1>7. SendersOk'
  BY <1>6, BoundStays DEF AnswerInv, SendersOk
<1>8. AskingOk' /\ AskersAdmitted' /\ InboxOk'
  BY AnswerSame
<1>. QED
  BY <1>5, <1>7, <1>8 DEF AnswerInv

\* Any step of a handler keeps the answers in order.
LEMMA AnswerStep ==
    ASSUME TypeOK, NameOk, MembersExact, AnswerInv, NEW c \in Conns, Step(c)
    PROVE  AnswerInv'
<1>1. CASE Attach(c) \/ Detach(c)
  <2>1. /\ UNCHANGED <<wsConns, pc, queries, inbox, doing, message, ahead, jobs>>
        /\ attached \subseteq attached'
    BY <1>1 DEF Attach, Detach, tableVars, sendVars
  <2>. QED
    BY <2>1, AnswerSame, SentSame DEF AnswerInv
<1>2. CASE SendBegins(c)
  BY <1>2, AnswerSend DEF SendBegins
<1>3. CASE SendSkips(c)
  <2>1. \A d \in Conns : ahead'[d] \subseteq ahead[d]
    BY <1>3 DEF SendSkips, TypeOK
  <2>2. SendersOk' /\ JobsOk'
    BY <1>3, <2>1, BoundStays DEF SendSkips, groupVars, AnswerInv, SendersOk, JobsOk
  <2>. QED
    BY <1>3, <2>2, AnswerSame DEF SendSkips, tableVars, groupVars, AnswerInv
<1>4. CASE SendEnds(c)
  <2>1. /\ UNCHANGED <<wsConns, pc, queries, inbox, ahead, jobs, attached>>
        /\ doing' = [doing EXCEPT ![c] = "reading"]
        /\ message' = [message EXCEPT ![c] = Error]
    BY <1>4 DEF SendEnds, Now, tableVars, groupVars
  <2>2. BoundFor(Error, Group) /\ Error.type # "response"
    BY DEF BoundFor, Error, Event
  <2>3. SendersOk' /\ JobsOk'
    BY <2>1, <2>2, BoundStays DEF TypeOK, AnswerInv, SendersOk, JobsOk
  <2>. QED
    BY <2>1, <2>3, AnswerSame DEF AnswerInv, TypeOK
<1>5. CASE QueryRefused(c)
  <2>1. Error # Event
    BY DEF Error, Event
  <2>. QED
    BY <1>5, <2>1, AnswerSend DEF QueryRefused
<1>6. CASE Expire(c)
  <2>1. Error # Event
    BY DEF Error, Event
  <2>. QED
    BY <1>6, <2>1, AnswerSend DEF Expire, Reply
<1>. QED
  BY <1>1, <1>2, <1>3, <1>4, <1>5, <1>6, AnswerTable, AnswerQuery, AnswerReply,
     AnswerJob DEF Step

\* A worker writes to the one that has the name by now; an asker of that name
\* that is another one has lost it.
LEMMA AnswerServe ==
    ASSUME TypeOK, NameOk, AnswerInv, NEW j \in jobs, Serve(j)
    PROVE  AnswerInv'
<1> USE DEF Serve, tableVars, groupVars
<1>1. AskingOk' /\ AskersAdmitted'
  BY DEF AnswerInv, AskingOk, Pending, AskersAdmitted
<1>2. SendersOk' /\ JobsOk'
  BY BoundStays DEF AnswerInv, SendersOk, JobsOk
<1>3. CASE UNCHANGED inbox
  BY <1>1, <1>2, <1>3, AnswerSame DEF AnswerInv
<1>4. CASE /\ wsConns[j.to] # NoConn
           /\ inbox' = [inbox EXCEPT ![wsConns[j.to]] = @ \cup {j.msg}]
  <2>1. j.to \in Names /\ wsConns[j.to] \in Conns /\ NameOf[wsConns[j.to]] = j.to
    BY <1>4 DEF TypeOK, Table!TypeOK, Jobs, NameOk
  <2>2. BoundFor(j.msg, j.to)
    BY DEF AnswerInv, JobsOk
  <2>3. ASSUME NEW d \in Conns, NEW m \in inbox'[d]
        PROVE  /\ BoundFor(m, NameOf[d])
               /\ m.type = "response" =>
                    LET asker == queries[m.query].by IN
                    NameOf[d] = NameOf[asker] =>
                        d = asker \/ wsConns[NameOf[d]] # asker
    <3>1. CASE m \in inbox[d]
      BY <3>1 DEF AnswerInv, InboxOk
    <3>2. CASE m = j.msg /\ d = wsConns[j.to]
      BY <2>1, <2>2, <3>2
    <3>. QED
      BY <1>4, <2>1, <2>3, <3>1, <3>2 DEF TypeOK
  <2>4. InboxOk'
    BY <2>3, BoundStays DEF InboxOk
  <2>. QED
    BY <1>1, <1>2, <2>4 DEF AnswerInv
<1>. QED
  BY <1>3, <1>4

-----------------------------------------------------------------------------
(***************************************************************************)
(* The theorems.                                                           *)
(***************************************************************************)

\* Every step preserves the inductive invariant.
LEMMA NextIInv == IInv /\ [Next]_vars => IInv'
<1> SUFFICES ASSUME IInv, [Next]_vars PROVE IInv'
  OBVIOUS
<1> USE DEF IInv
<1>1. ASSUME NEW c \in Conns, Step(c) PROVE IInv'
  <2>1. TypeOK' /\ GroupInv' /\ AnswerInv'
    BY <1>1, TypeStep, GroupStep, AnswerStep DEF AnswerInv, GroupInv
  <2>2. NameOk'
    <3>1. CASE Handles(c)
      BY <3>1, NameStep
    <3>2. CASE ~Handles(c)
      BY <1>1, <3>2, NameOther
         DEF Step, Attach, Detach, SendBegins, SendJob, SendSkips, SendEnds,
             Query, QueryRefused, Receive, Expire, Reply
    <3>. QED
      BY <3>1, <3>2
  <2>. QED
    BY <2>1, <2>2
<1>2. ASSUME NEW j \in jobs, Serve(j) PROVE IInv'
  BY <1>2, TypeServe, NameOther, GroupServe, AnswerServe DEF Serve
<1>3. CASE UNCHANGED vars
  <2> USE <1>3 DEF vars, tableVars, groupVars, sendVars, eventVars
  <2>1. TypeOK'
    BY DEF TypeOK, Table!TypeOK, Jobs, Messages, Responses
  <2>2. NameOk' /\ GroupInv'
    BY DEF NameOk, GroupInv, MembersExact, SendOk, OwedOk, Coming
  <2>3. AnswerInv'
    BY AnswerSame, SentSame DEF AnswerInv
  <2>. QED
    BY <2>1, <2>2, <2>3
<1>. QED
  BY <1>1, <1>2, <1>3, NextCases

\* The inductive invariant holds in every reachable state.
THEOREM Inductive == Spec => []IInv
  BY InitIInv, NextIInv, PTL DEF Spec

\* The table, the group, the queries and the handlers keep their types.
THEOREM TypeCorrect == Spec => []TypeOK
<1>1. IInv => TypeOK
  BY DEF IInv
<1>. QED
  BY <1>1, Inductive, PTL

\* An undisturbed send reaches every connection that it owes the event.
THEOREM GroupIsReached == Spec => []GroupReached
<1>1. IInv => GroupReached
  BY DEF IInv, GroupInv, SendOk, OwedOk, Coming, GroupReached
<1>. QED
  BY <1>1, Inductive, PTL

\* An event to the group goes only to names that attached themselves.
THEOREM OnlyAttachedGet == Spec => []OnlyAttached
<1>1. IInv => OnlyAttached
  BY DEF IInv, AnswerInv, InboxOk, BoundFor, OnlyAttached
<1>. QED
  BY <1>1, Inductive, PTL

\* An answer reaches its asker, the heir of its name or, if the group has
\* that name, those who attached; and it fits its query unless a port was
\* used twice.
THEOREM AnswersFit == Spec => []AnswerFits
<1>1. IInv => AnswerFits
  BY DEF IInv, AnswerInv, InboxOk, BoundFor, FitsQuery, AnswerFits
<1>. QED
  BY <1>1, Inductive, PTL
=============================================================================
