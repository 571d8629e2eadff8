---------------------------- MODULE ServerProofs ----------------------------
(***************************************************************************)
(* Proofs about the two modules that model pkg/proxy/server.go, Server and *)
(* Templates, for any number of connections, workers, requests and pages.  *)
(*                                                                         *)
(* Server: ListExact is an invariant of every step but not enough by       *)
(* itself: what a handler that is about to add its connection, or to close *)
(* it, may rely on is that nobody else closes what is not on the list      *)
(* (Unlisted).                                                             *)
(*                                                                         *)
(* Templates: a warm cache stays warm because a request can only go to     *)
(* "parse" for a page that the cache lacks, which then is one that is      *)
(* missing; and such a request never writes (WritesExisting).  With debug  *)
(* set nobody writes (DebugReads).  The process can have died only of a    *)
(* write, so a dead process was not warm (DeadIsCold).                     *)
(***************************************************************************)
EXTENDS Server, Templates, SequenceTheorems, TLAPS

Listed(c) == Contains(echoConns, c)

Unlisted ==
    \A c \in Echoes :
        /\ pc[c] = "adding" => c \in open
        /\ pc[c] = "leaving" /\ ~Listed(c) => c \notin open

IInv == TypeOK /\ ListExact /\ Unlisted /\ \A c \in Displays : pc[c] # "adding"

HandlerStep(c) ==
    \/ Dial(c) \/ AddEchoConn(c) \/ Echo(c) \/ Cut(c) \/ IOFails(c)
    \/ CloseFrame(c) \/ Goodbye(c) \/ Leave(c) \/ Displaced(c)
WorkStep == (\E w \in Workers : WriteBegins(w) \/ WriteEnds(w)) \/ JobFails \/ Page
MainStep ==
    \/ Listen \/ ListenEnds \/ ListenFails
    \/ Signal \/ Drained \/ CloseAll \/ Shutdown \/ Wait \/ Exit

\* What the proofs need of a state: the list, and where everything is.
ListIs(s) ==
    /\ s \in Seq(Echoes)
    /\ \A i, j \in 1..Len(s) : s[i] = s[j] => i = j

-----------------------------------------------------------------------------
(***************************************************************************)
(* Sequences.                                                              *)
(***************************************************************************)

\* RemoveAt(s, i) is s without its place i.
LEMMA RemoveAtFacts ==
    ASSUME NEW S, NEW s \in Seq(S), NEW i \in 1..Len(s)
    PROVE  /\ RemoveAt(s, i) \in Seq(S)
           /\ Len(RemoveAt(s, i)) = Len(s) - 1
           /\ \A j \in 1..Len(s) - 1 :
                 RemoveAt(s, i)[j] = IF j < i THEN s[j] ELSE s[j + 1]
<1> DEFINE a == SubSeq(s, 1, i - 1)
           b == SubSeq(s, i + 1, Len(s))
<1>1. /\ a \in Seq(S) /\ Len(a) = i - 1
      /\ \A j \in 1..i - 1 : a[j] = s[j]
  OBVIOUS
<1>2. /\ b \in Seq(S) /\ Len(b) = Len(s) - i
      /\ \A j \in 1..Len(s) - i : b[j] = s[i + j]
  OBVIOUS
<1>3. RemoveAt(s, i) = a \o b
  BY DEF RemoveAt
<1> HIDE DEF a, b
<1>4. /\ a \o b \in Seq(S) /\ Len(a \o b) = Len(a) + Len(b)
      /\ \A j \in 1..Len(a) + Len(b) :
            (a \o b)[j] = IF j <= Len(a) THEN a[j] ELSE b[j - Len(a)]
  BY <1>1, <1>2, ConcatProperties
<1>. QED
  BY <1>1, <1>2, <1>3, <1>4

\* Without repetitions, taking c out takes out c and nothing else.
LEMMA TakenOut ==
    ASSUME NEW s, ListIs(s), NEW i \in 1..Len(s)
    PROVE  /\ ListIs(RemoveAt(s, i))
           /\ \A d : Contains(RemoveAt(s, i), d) <=> Contains(s, d) /\ d # s[i]
<1> DEFINE t == RemoveAt(s, i)
<1>1. /\ t \in Seq(Echoes) /\ Len(t) = Len(s) - 1
      /\ \A j \in 1..Len(s) - 1 : t[j] = IF j < i THEN s[j] ELSE s[j + 1]
  BY RemoveAtFacts DEF ListIs
<1> HIDE DEF t
<1>2. \A j \in 1..Len(t) : \E k \in 1..Len(s) :
         t[j] = s[k] /\ k = IF j < i THEN j ELSE j + 1
  BY <1>1 DEF ListIs
<1>3. \A k, m \in 1..Len(s) : s[k] = s[m] => k = m
  BY DEF ListIs
<1>4. ListIs(t)
  <2>1. ASSUME NEW j \in 1..Len(t), NEW k \in 1..Len(t), t[j] = t[k]
        PROVE  j = k
    <3>1. PICK m \in 1..Len(s) : t[j] = s[m] /\ m = IF j < i THEN j ELSE j + 1
      BY <1>2
    <3>2. PICK n \in 1..Len(s) : t[k] = s[n] /\ n = IF k < i THEN k ELSE k + 1
      BY <1>2
    <3>3. m = n
      BY <1>3, <2>1, <3>1, <3>2
    <3>. QED
      BY <1>1, <3>1, <3>2, <3>3
  <2>. QED
    BY <1>1, <2>1 DEF ListIs
<1>5. ASSUME NEW d, Contains(t, d) PROVE Contains(s, d) /\ d # s[i]
  <2>1. PICK j \in 1..Len(t) : t[j] = d
    BY <1>5 DEF Contains
  <2>2. PICK k \in 1..Len(s) : t[j] = s[k] /\ k = IF j < i THEN j ELSE j + 1
    BY <1>2
  <2>3. k # i
    BY <2>2
  <2>4. s[k] = d /\ s[k] # s[i]
    BY <1>3, <2>1, <2>2, <2>3
  <2>. QED
    BY <2>4 DEF Contains
<1>6. ASSUME NEW d, Contains(s, d), d # s[i] PROVE Contains(t, d)
  <2>1. PICK k \in 1..Len(s) : s[k] = d
    BY <1>6 DEF Contains
  <2>2. PICK j \in 1..Len(s) - 1 : j = IF k < i THEN k ELSE k - 1
    BY <1>6, <2>1 DEF ListIs
  <2>3. t[j] = d
    BY <1>1, <1>6, <2>1, <2>2 DEF ListIs
  <2>. QED
    BY <1>1, <2>3 DEF Contains
<1>. QED
  BY <1>4, <1>5, <1>6 DEF t

\* Appending what is not there keeps the list without repetitions.
LEMMA Appended ==
    ASSUME NEW s, ListIs(s), NEW c \in Echoes, ~Contains(s, c)
    PROVE  /\ ListIs(Append(s, c))
           /\ \A d : Contains(Append(s, c), d) <=> Contains(s, d) \/ d = c
BY DEF ListIs, Contains

-----------------------------------------------------------------------------
\* The types, and that the list has no repetitions.
LEMMA ListIsIt == IInv => ListIs(echoConns)
BY DEF IInv, TypeOK, ListExact, IsInjective, ListIs

\* The server starts without connections.
LEMMA InitIInv == Init => IInv
<1> SUFFICES ASSUME Init PROVE IInv
  OBVIOUS
<1> USE ServerAssumption DEF Init, Conns
<1>1. TypeOK
  <2>1. echoConns \in Seq(Echoes) /\ jobs \in 0..MaxJobs
    OBVIOUS
  <2>2. pc \in [Conns -> {"away"}] /\ worker \in [Workers -> {NoConn}]
    OBVIOUS
  <2>. QED
    BY <2>1, <2>2 DEF TypeOK
<1>2. \A c : ~Contains(echoConns, c)
  BY DEF Contains
<1>3. ListExact
  BY <1>2 DEF ListExact, IsInjective
<1>. QED
  BY <1>1, <1>3 DEF IInv, Unlisted

\* closeEchoConn takes c off the list and closes it, or it is not there.
LEMMA Closed ==
    ASSUME IInv, NEW c \in Conns, CloseEchoConn(c)
    PROVE  /\ ListIs(echoConns')
           /\ \A d : Contains(echoConns', d) <=> Listed(d) /\ d # c
           /\ open' = IF Listed(c) THEN open \ {c} ELSE open
<1> DEFINE Goal == /\ ListIs(echoConns')
                   /\ \A d : Contains(echoConns', d) <=> Listed(d) /\ d # c
                   /\ open' = IF Listed(c) THEN open \ {c} ELSE open
<1>1. CASE ~Listed(c) /\ UNCHANGED <<open, echoConns>>
  BY <1>1, ListIsIt DEF Listed
<1>2. ASSUME NEW i \in DOMAIN echoConns, echoConns[i] = c,
             open' = open \ {c}, echoConns' = RemoveAt(echoConns, i)
      PROVE  Goal
  <2>1. i \in 1..Len(echoConns)
    BY <1>2 DEF IInv, TypeOK
  <2>2. Listed(c)
    BY <1>2, <2>1 DEF Listed, Contains
  <2>3. /\ ListIs(RemoveAt(echoConns, i))
        /\ \A d : Contains(RemoveAt(echoConns, i), d) <=> Listed(d) /\ d # c
    BY <1>2, <2>1, TakenOut, ListIsIt DEF Listed
  <2>. QED
    BY <1>2, <2>2, <2>3
<1>. QED
  BY <1>1, <1>2 DEF CloseEchoConn, Listed

\* The invariant, with the list as far as it matters.
Exact ==
    /\ ListIs(echoConns)
    /\ \A c \in Echoes :
          /\ pc[c] \in {"serving", "writing", "goodbye"} => Listed(c)
          /\ Listed(c) =>
                /\ pc[c] \in {"serving", "writing", "goodbye", "leaving"}
                /\ main \in {"serving", "draining", "closing"} => c \in open
                /\ main \in {"shutdown", "waiting"} => c \notin open
          /\ pc[c] = "adding" => c \in open
          /\ pc[c] = "leaving" /\ ~Listed(c) => c \notin open
    /\ \A c \in Echoes : pc[c] = "gone" => c \notin open
    /\ \A c \in Displays : pc[c] # "adding" /\ ~Listed(c)

\* This is the same invariant.
LEMMA ExactIsIt == TypeOK => (Exact <=> IInv)
<1> SUFFICES ASSUME TypeOK PROVE Exact <=> IInv
  OBVIOUS
<1>1. \A c : Listed(c) => c \in Echoes
  BY DEF TypeOK, Listed, Contains
<1>2. \A c \in Displays : ~Listed(c)
  BY <1>1, ServerAssumption
<1>3. ListIs(echoConns) <=> IsInjective(echoConns)
  BY DEF TypeOK, ListIs, IsInjective
<1>. QED
  BY <1>2, <1>3 DEF Exact, IInv, ListExact, Unlisted, Listed

\* The handlers keep the types.
LEMMA HandlerTypes ==
    ASSUME IInv, NEW c \in Conns, HandlerStep(c)
    PROVE  TypeOK'
<1> USE ServerAssumption DEF IInv, TypeOK, Conns, Goto, workVars, mainVars
<1>1. CASE Dial(c)
  BY <1>1 DEF Dial
<1>2. CASE AddEchoConn(c)
  BY <1>2 DEF AddEchoConn
<1>3. CASE Echo(c)
  BY <1>3 DEF Echo
<1>4. CASE Cut(c) \/ IOFails(c) \/ CloseFrame(c)
  BY <1>4 DEF Cut, IOFails, CloseFrame
<1>5. CASE Goodbye(c)
  <2>1. echoConns' \in Seq(Echoes) /\ open' \in SUBSET Conns
    BY <1>5, Closed DEF Goodbye, ListIs
  <2>. QED
    BY <1>5, <2>1 DEF Goodbye
<1>6. CASE Leave(c)
  <2>1. echoConns' \in Seq(Echoes) /\ open' \in SUBSET Conns
    BY <1>6, Closed DEF Leave, CloseWSConn, ListIs
  <2>. QED
    BY <1>6, <2>1 DEF Leave
<1>7. CASE Displaced(c)
  BY <1>7 DEF Displaced
<1>. QED
  BY <1>1, <1>2, <1>3, <1>4, <1>5, <1>6, <1>7 DEF HandlerStep

\* The handlers keep the list exact.
LEMMA HandlerExact ==
    ASSUME IInv, NEW c \in Conns, HandlerStep(c)
    PROVE  Exact'
<1>0. TypeOK /\ Exact
  BY ExactIsIt DEF IInv
<1> USE <1>0, ServerAssumption
        DEF TypeOK, Exact, Conns, Goto, Alive, Locked, workVars, mainVars
<1>1. CASE Dial(c) \/ Echo(c) \/ Cut(c) \/ IOFails(c) \/ CloseFrame(c)
  <2>1. /\ ListIs(echoConns)'
        /\ \A d : Listed(d)' <=> Listed(d)
    BY <1>1 DEF Dial, Echo, Cut, IOFails, CloseFrame, Listed
  <2>2. CASE Dial(c)
    BY <2>1, <2>2 DEF Dial
  <2>3. CASE Echo(c)
    BY <2>1, <2>3 DEF Echo
  <2>4. CASE Cut(c) \/ IOFails(c) \/ CloseFrame(c)
    BY <2>1, <2>4 DEF Cut, IOFails, CloseFrame
  <2>. QED
    BY <1>1, <2>2, <2>3, <2>4
<1>2. CASE AddEchoConn(c)
  <2>1. c \in Echoes /\ ~Listed(c)
    BY <1>2 DEF AddEchoConn
  <2>2. /\ ListIs(echoConns)'
        /\ \A d : Listed(d)' <=> Listed(d) \/ d = c
    BY <1>2, <2>1, Appended DEF AddEchoConn, Listed
  <2>. QED
    BY <1>2, <2>1, <2>2 DEF AddEchoConn
<1>3. ASSUME CloseEchoConn(c)
      PROVE  /\ ListIs(echoConns)'
             /\ \A d : Listed(d)' <=> Listed(d) /\ d # c
             /\ open' = IF Listed(c) THEN open \ {c} ELSE open
  BY <1>3, Closed DEF Listed
<1>4. CASE Goodbye(c)
  BY <1>3, <1>4 DEF Goodbye
<1>5. CASE Leave(c)
  <2>1. CASE c \in Echoes /\ CloseEchoConn(c)
    BY <1>3, <1>5, <2>1 DEF Leave
  <2>2. CASE c \in Displays /\ CloseWSConn(c)
    <3>1. /\ ListIs(echoConns)'
          /\ \A d : Listed(d)' <=> Listed(d)
      BY <2>2 DEF CloseWSConn, Listed
    <3>. QED
      BY <1>5, <2>2, <3>1 DEF Leave, CloseWSConn
  <2>. QED
    BY <1>5, <2>1, <2>2 DEF Leave
<1>6. CASE Displaced(c)
  <2>1. /\ ListIs(echoConns)'
        /\ \A d : Listed(d)' <=> Listed(d)
    BY <1>6 DEF Displaced, Listed
  <2>. QED
    BY <1>6, <2>1 DEF Displaced
<1>. QED
  BY <1>1, <1>2, <1>4, <1>5, <1>6 DEF HandlerStep

\* The workers, the pages and main.
LEMMA OthersKeep ==
    ASSUME IInv, WorkStep \/ MainStep
    PROVE  IInv'
<1>0. TypeOK /\ Exact
  BY ExactIsIt DEF IInv
<1>1. TypeOK'
  <2> USE <1>0 DEF TypeOK, connVars, workVars
  <2>1. CASE WorkStep
    <3>1. ASSUME NEW w \in Workers, WriteBegins(w) PROVE TypeOK'
      BY <3>1, ServerAssumption DEF WriteBegins, mainVars
    <3>2. ASSUME NEW w \in Workers, WriteEnds(w) PROVE TypeOK'
      BY <3>2 DEF WriteEnds, mainVars
    <3>3. CASE JobFails
      BY <3>3, ServerAssumption DEF JobFails, mainVars
    <3>4. CASE Page
      BY <3>4 DEF Page
    <3>. QED
      BY <2>1, <3>1, <3>2, <3>3, <3>4 DEF WorkStep
  <2>2. CASE MainStep
    BY <2>2 DEF MainStep, Listen, ListenEnds, ListenFails, Signal, Drained,
                CloseAll, Shutdown,
                Wait, Exit
  <2>. QED
    BY <2>1, <2>2
<1>2. Exact'
  <2>1. /\ ListIs(echoConns)'
        /\ \A d : Listed(d)' <=> Listed(d)
    BY <1>0 DEF Exact, Listed, WorkStep, WriteBegins, WriteEnds, JobFails, Page,
          MainStep, Listen, ListenEnds, ListenFails, Signal, Drained,
                CloseAll, Shutdown,
          Wait, Exit, connVars
  <2>2. CASE CloseAll
    <3>1. open' = open \ {c \in Echoes : Listed(c)}
      BY <1>0, <2>2 DEF CloseAll, TypeOK, Range, Listed, Contains
    <3>. QED
      BY <1>0, <2>1, <2>2, <3>1 DEF CloseAll, Exact, Conns
  <2>3. CASE WorkStep
    <3>1. UNCHANGED <<pc, open, main>>
      BY <2>3 DEF WorkStep, WriteBegins, WriteEnds, JobFails, Page, connVars, mainVars
    <3>. QED
      BY <1>0, <2>1, <3>1 DEF Exact
  <2>4. CASE MainStep /\ ~CloseAll
    <3>1. UNCHANGED <<pc, open>>
      BY <2>4 DEF MainStep, Listen, ListenEnds, ListenFails, Signal, Drained, Shutdown, Wait,
                  Exit, connVars
    <3>2. /\ main' \in {"serving", "draining", "closing"}
                 => main \in {"serving", "draining", "closing"}
          /\ main' \in {"shutdown", "waiting"} => main \in {"shutdown", "waiting"}
      BY <2>4 DEF MainStep, Listen, ListenEnds, ListenFails, Signal, Drained, Shutdown, Wait, Exit
    <3>. QED
      BY <1>0, <2>1, <3>1, <3>2 DEF Exact
  <2>. QED
    BY <2>2, <2>3, <2>4
<1>3. TypeOK' => (Exact' <=> IInv')
  BY ExactIsIt, PTL
<1>. QED
  BY <1>1, <1>2, <1>3

\* Every step preserves the inductive invariant.
LEMMA NextIInv == IInv /\ [Next]_vars => IInv'
<1> SUFFICES ASSUME IInv, [Next]_vars PROVE IInv'
  OBVIOUS
<1>1. CASE UNCHANGED vars
  BY <1>1 DEF vars, IInv, TypeOK, ListExact, Unlisted, Listed
<1>2. ASSUME NEW c \in Conns, HandlerStep(c) PROVE IInv'
  <2>1. TypeOK' /\ Exact'
    BY <1>2, HandlerTypes, HandlerExact
  <2>2. TypeOK' => (Exact' <=> IInv')
    BY ExactIsIt, PTL
  <2>. QED
    BY <2>1, <2>2
<1>3. CASE WorkStep \/ MainStep
  BY <1>3, OthersKeep
<1>. QED
  BY <1>1, <1>2, <1>3 DEF Next, HandlerStep, WorkStep, MainStep, Terminated

\* The inductive invariant holds in every reachable state.
THEOREM Inductive == Spec => []IInv
  BY InitIInv, NextIInv, PTL DEF Spec

-----------------------------------------------------------------------------
(***************************************************************************)
(* The theorems about the server.                                          *)
(***************************************************************************)

\* The types are correct: only echo connections get on the list.
THEOREM TypeCorrect == Spec => []TypeOK
<1>1. IInv => TypeOK
  BY DEF IInv
<1>. QED
  BY <1>1, Inductive, PTL

\* The list is exact, through goodbyes, deferred closes and Stop.
THEOREM ListIsExact == Spec => []ListExact
<1>1. IInv => ListExact
  BY DEF IInv
<1>. QED
  BY <1>1, Inductive, PTL

-----------------------------------------------------------------------------
(***************************************************************************)
(* The template cache.                                                     *)
(***************************************************************************)
WritesExisting == \A r \in Requests : stage[r] = "write" => page[r] \notin Missing
DebugReads == debug => \A r \in Requests : stage[r] # "write"
DeadIsCold == dead => ~Warm

CacheIInv == CacheTypeOK /\ WritesExisting /\ DebugReads /\ DeadIsCold

CacheStep(r) == Request(r) \/ Lookup(r) \/ Parse(r) \/ Write(r) \/ Fatal(r) \/ Execute(r)

-----------------------------------------------------------------------------
\* The cache starts empty, and nobody is at work on it.
LEMMA InitCacheIInv == CacheInit => CacheIInv
BY DEF CacheInit, CacheIInv, CacheTypeOK, WritesExisting, DebugReads, DeadIsCold

\* Requests keep the types, and write what exists.
LEMMA CacheTypeStep ==
    ASSUME CacheIInv, NEW r \in Requests, CacheStep(r)
    PROVE  CacheTypeOK' /\ WritesExisting' /\ DebugReads'
<1> USE DEF CacheIInv, CacheTypeOK, WritesExisting, DebugReads, GotoStage
<1>1. CASE Request(r)
  BY <1>1 DEF Request
<1>2. CASE Lookup(r)
  BY <1>2 DEF Lookup
<1>3. CASE Parse(r)
  BY <1>3 DEF Parse
<1>4. CASE Write(r)
  BY <1>4 DEF Write
<1>5. CASE Fatal(r)
  BY <1>5 DEF Fatal
<1>6. CASE Execute(r)
  BY <1>6 DEF Execute
<1>. QED
  BY <1>1, <1>2, <1>3, <1>4, <1>5, <1>6 DEF CacheStep

\* A step from a warm cache leaves it warm, and the process alive.
LEMMA WarmStep ==
    ASSUME CacheIInv, NEW r \in Requests, CacheStep(r), Warm
    PROVE  Warm' /\ ~dead'
<1> USE DEF CacheIInv, CacheTypeOK, WritesExisting, DebugReads, DeadIsCold, Warm,
            GotoStage
<1>1. \A q \in Requests : stage[q] # "write"
  OBVIOUS
<1>2. ~OthersWrite(r)
  BY <1>1 DEF OthersWrite
<1>3. CASE Request(r)
  BY <1>3 DEF Request
<1>4. CASE Lookup(r)
  BY <1>2, <1>4 DEF Lookup
<1>5. CASE Parse(r)
  BY <1>5 DEF Parse
<1>6. CASE Execute(r)
  BY <1>6 DEF Execute
<1>7. CASE Write(r) \/ Fatal(r)
  BY <1>1, <1>2, <1>7 DEF Write, Fatal
<1>. QED
  BY <1>3, <1>4, <1>5, <1>6, <1>7 DEF CacheStep

\* Only a cold cache kills, and it is still cold then.
LEMMA ColdStep ==
    ASSUME CacheIInv, NEW r \in Requests, CacheStep(r)
    PROVE  DeadIsCold'
<1>1. CASE Warm
  BY <1>1, WarmStep DEF DeadIsCold
<1>2. CASE ~Warm /\ dead'
  <2>1. UNCHANGED <<debug, templates, stage, page>>
    BY <1>2 DEF CacheStep, Request, Lookup, Parse, Write, Fatal, Execute, GotoStage
  <2>. QED
    BY <1>2, <2>1 DEF DeadIsCold, Warm
<1>. QED
  BY <1>1, <1>2 DEF DeadIsCold

\* Every step preserves the inductive invariant.
LEMMA NextCacheIInv == CacheIInv /\ [CacheNext]_cacheVars => CacheIInv'
<1> SUFFICES ASSUME CacheIInv, [CacheNext]_cacheVars PROVE CacheIInv'
  OBVIOUS
<1>1. CASE UNCHANGED cacheVars
  BY <1>1 DEF cacheVars, CacheIInv, CacheTypeOK, WritesExisting, DebugReads, DeadIsCold,
              Warm
<1>2. CASE \E r \in Requests : CacheStep(r)
  BY <1>2, CacheTypeStep, ColdStep DEF CacheIInv
<1>. QED
  BY <1>1, <1>2 DEF CacheNext, CacheStep, CacheTerminated

\* The inductive invariant holds in every reachable state.
THEOREM CacheInductive == CacheSpec => []CacheIInv
  BY InitCacheIInv, NextCacheIInv, PTL DEF CacheSpec

-----------------------------------------------------------------------------
(***************************************************************************)
(* The theorems about the cache.                                           *)
(***************************************************************************)

\* The types are correct: only templates that exist are ever in the cache.
THEOREM CacheTypeCorrect == CacheSpec => []CacheTypeOK
<1>1. CacheIInv => CacheTypeOK
  BY DEF CacheIInv
<1>. QED
  BY <1>1, CacheInductive, PTL

\* From a warm cache on, the map never kills the process.
THEOREM WarmStaysSafe == CacheSpec => WarmIsSafe
<1>1. CacheIInv /\ Warm => ~dead
  BY DEF CacheIInv, DeadIsCold
<1>2. CacheIInv /\ Warm /\ [CacheNext]_cacheVars => Warm'
  <2> SUFFICES ASSUME CacheIInv, Warm, [CacheNext]_cacheVars PROVE Warm'
    OBVIOUS
  <2>1. CASE UNCHANGED cacheVars
    BY <2>1 DEF cacheVars, Warm
  <2>2. CASE \E r \in Requests : CacheStep(r)
    BY <2>2, WarmStep
  <2>. QED
    BY <2>1, <2>2 DEF CacheNext, CacheStep, CacheTerminated
<1>3. CacheSpec => [](Warm => []~dead)
  BY <1>1, <1>2, CacheInductive, PTL DEF CacheSpec
<1>. QED
  BY <1>3 DEF WarmIsSafe
=============================================================================
