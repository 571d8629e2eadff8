--------------------------- MODULE RegistryProofs ---------------------------
(***************************************************************************)
(* Proofs about Registry for every set of names and connections.           *)
(*                                                                         *)
(* The invariants RegisteredIsLive and LeakOnlyByRace are not inductive by *)
(* themselves.  A handler inside addWSConn must be known to still have     *)
(* its own connection open (AddingOpen), one that is about to evict to     *)
(* have found a connection of its own name (FoundOk); and as long as no    *)
(* two handlers of a name overlapped, the only one inside addWSConn must   *)
(* be known to see a map that only its own find or nothing can be in       *)
(* (AloneOk): that is why its Store overwrites nothing.                    *)
(***************************************************************************)
EXTENDS Registry, TLAPS

AddingOpen == \A c \in Conns : pc[c] \in Adding => c \in open

FoundOk ==
    \A c \in Conns : pc[c] = "evict" =>
        found[c] \in Conns /\ NameOf[found[c]] = NameOf[c]

AloneOk ==
    \A c \in Conns : NameOf[c] \notin raced =>
        /\ \A d \in Conns :
             (NameOf[d] = NameOf[c] /\ pc[c] \in Adding /\ pc[d] \in Adding)
                 => d = c
        /\ pc[c] = "store" => wsConns[NameOf[c]] = NoConn
        /\ pc[c] = "evict" => wsConns[NameOf[c]] \in {NoConn, found[c]}

IInv == /\ TypeOK /\ RegisteredIsLive /\ AddingOpen
        /\ FoundOk /\ AloneOk /\ LeakOnlyByRace

-----------------------------------------------------------------------------
\* One handler's action, with the connection named.
Step(c) == Upgrade(c) \/ Lookup(c) \/ Evict(c)
           \/ Store(c) \/ ReadFails(c) \/ Cleanup(c)

\* Every step is a handler's or a stutter.
LEMMA NextCases ==
    ASSUME [Next]_vars
    PROVE  (\E c \in Conns : Step(c)) \/ UNCHANGED vars
BY DEF Next, Step, Finished

\* The initial state satisfies the inductive invariant.
LEMMA InitIInv == Init => IInv
BY RegistryAssumption
   DEF Init, IInv, TypeOK, RegisteredIsLive, AddingOpen, FoundOk,
       AloneOk, LeakOnlyByRace, Adding, Admitted

\* Every step of a handler keeps the variables in their types.
LEMMA TypeStep ==
    ASSUME TypeOK, NEW c \in Conns, Step(c)
    PROVE  TypeOK'
<1> USE RegistryAssumption DEF TypeOK, Adding, Admitted, Goto
<1>1. CASE Upgrade(c)
  BY <1>1 DEF Upgrade
<1>2. CASE Lookup(c)
  BY <1>2 DEF Lookup
<1>3. CASE Evict(c)
  BY <1>3 DEF Evict, CloseWSConn
<1>4. CASE Store(c)
  BY <1>4 DEF Store
<1>5. CASE ReadFails(c)
  BY <1>5 DEF ReadFails
<1>6. CASE Cleanup(c)
  BY <1>6 DEF Cleanup, CloseWSConn
<1>. QED
  BY <1>1, <1>2, <1>3, <1>4, <1>5, <1>6 DEF Step

\* The map keeps resolving to open connections that are being served.
LEMMA LiveStep ==
    ASSUME TypeOK, RegisteredIsLive, AddingOpen, FoundOk,
           NEW c \in Conns, Step(c)
    PROVE  RegisteredIsLive'
<1> USE RegistryAssumption DEF TypeOK, RegisteredIsLive, Goto
<1>1. CASE Upgrade(c)
  BY <1>1 DEF Upgrade
<1>2. CASE Lookup(c)
  BY <1>2 DEF Lookup
<1>3. CASE Evict(c)
  BY <1>3 DEF Evict, CloseWSConn, FoundOk
<1>4. CASE Store(c)
  BY <1>4 DEF Store, AddingOpen, Adding
<1>5. CASE ReadFails(c)
  BY <1>5 DEF ReadFails
<1>6. CASE Cleanup(c)
  BY <1>6 DEF Cleanup, CloseWSConn
<1>. QED
  BY <1>1, <1>2, <1>3, <1>4, <1>5, <1>6 DEF Step

\* A handler that has not reached the map cannot lose its connection.
LEMMA AddingStep ==
    ASSUME TypeOK, RegisteredIsLive, AddingOpen, FoundOk,
           NEW c \in Conns, Step(c)
    PROVE  AddingOpen'
<1> USE RegistryAssumption
    DEF TypeOK, RegisteredIsLive, AddingOpen, Goto, Adding, Admitted
<1>1. CASE Upgrade(c)
  BY <1>1 DEF Upgrade
<1>2. CASE Lookup(c)
  BY <1>2 DEF Lookup
<1>3. CASE Evict(c)
  BY <1>3 DEF Evict, CloseWSConn, FoundOk
<1>4. CASE Store(c)
  BY <1>4 DEF Store
<1>5. CASE ReadFails(c)
  BY <1>5 DEF ReadFails
<1>6. CASE Cleanup(c)
  BY <1>6 DEF Cleanup, CloseWSConn
<1>. QED
  BY <1>1, <1>2, <1>3, <1>4, <1>5, <1>6 DEF Step

\* What a handler found has its own name: it was read from the map there.
LEMMA FoundStep ==
    ASSUME TypeOK, RegisteredIsLive, FoundOk, NEW c \in Conns, Step(c)
    PROVE  FoundOk'
<1> USE RegistryAssumption DEF TypeOK, FoundOk, Goto, Adding, Admitted
<1>1. CASE Upgrade(c)
  BY <1>1 DEF Upgrade
<1>2. CASE Lookup(c)
  BY <1>2 DEF Lookup, RegisteredIsLive
<1>3. CASE Evict(c)
  BY <1>3 DEF Evict
<1>4. CASE Store(c)
  BY <1>4 DEF Store
<1>5. CASE ReadFails(c)
  BY <1>5 DEF ReadFails
<1>6. CASE Cleanup(c)
  BY <1>6 DEF Cleanup
<1>. QED
  BY <1>1, <1>2, <1>3, <1>4, <1>5, <1>6 DEF Step

\* A handler that is alone in addWSConn knows what the map may hold: only
\* the entry it found, and nothing once that entry has been evicted.
LEMMA AloneStep ==
    ASSUME TypeOK, FoundOk, AloneOk, NEW c \in Conns, Step(c)
    PROVE  AloneOk'
<1> USE RegistryAssumption DEF TypeOK, AloneOk, Goto, Adding, Admitted
<1>1. CASE Upgrade(c)
  BY <1>1 DEF Upgrade
<1>2. CASE Lookup(c)
  BY <1>2 DEF Lookup
<1>3. CASE Evict(c)
  BY <1>3 DEF Evict, CloseWSConn, FoundOk
<1>4. CASE Store(c)
  BY <1>4 DEF Store
<1>5. CASE ReadFails(c)
  BY <1>5 DEF ReadFails
<1>6. CASE Cleanup(c)
  BY <1>6 DEF Cleanup, CloseWSConn
<1>. QED
  BY <1>1, <1>2, <1>3, <1>4, <1>5, <1>6 DEF Step

\* No step leaves an admitted connection open outside the map, unless its
\* name has been raced for.
LEMMA LeakStep ==
    ASSUME TypeOK, RegisteredIsLive, FoundOk, AloneOk, LeakOnlyByRace,
           NEW c \in Conns, Step(c)
    PROVE  LeakOnlyByRace'
<1> USE RegistryAssumption DEF TypeOK, LeakOnlyByRace, Goto, Adding, Admitted
<1>1. CASE Upgrade(c)
  BY <1>1 DEF Upgrade
<1>2. CASE Lookup(c)
  BY <1>2 DEF Lookup
<1>3. CASE Evict(c)
  BY <1>3 DEF Evict, CloseWSConn, FoundOk
<1>4. CASE Store(c)
  BY <1>4 DEF Store, AloneOk
<1>5. CASE ReadFails(c)
  BY <1>5 DEF ReadFails
<1>6. CASE Cleanup(c)
  BY <1>6 DEF Cleanup, CloseWSConn, RegisteredIsLive
<1>. QED
  BY <1>1, <1>2, <1>3, <1>4, <1>5, <1>6 DEF Step

\* Every step preserves the inductive invariant.
LEMMA NextIInv == IInv /\ [Next]_vars => IInv'
<1> SUFFICES ASSUME IInv, [Next]_vars PROVE IInv'
  OBVIOUS
<1>1. CASE UNCHANGED vars
  BY <1>1 DEF vars, IInv, TypeOK, RegisteredIsLive, AddingOpen, FoundOk,
              AloneOk, LeakOnlyByRace
<1>2. CASE \E c \in Conns : Step(c)
  BY <1>2, TypeStep, LiveStep, AddingStep, FoundStep, AloneStep, LeakStep
     DEF IInv
<1>. QED
  BY <1>1, <1>2, NextCases

\* The inductive invariant holds in every reachable state.
THEOREM Inductive == Spec => []IInv
  BY InitIInv, NextIInv, PTL DEF Spec

-----------------------------------------------------------------------------
(***************************************************************************)
(* The theorems.                                                           *)
(***************************************************************************)

\* The map, the handlers and the sockets keep their types.
THEOREM TypeCorrect == Spec => []TypeOK
<1>1. IInv => TypeOK
  BY DEF IInv
<1>. QED
  BY <1>1, Inductive, PTL

\* A name never resolves to a closed or an unserved connection.
THEOREM RegisteredAlwaysLive == Spec => []RegisteredIsLive
<1>1. IInv => RegisteredIsLive
  BY DEF IInv
<1>. QED
  BY <1>1, Inductive, PTL

\* Connections leak only where two handlers of a name overlapped.
THEOREM NoLeakWithoutRace == Spec => []LeakOnlyByRace
<1>1. IInv => LeakOnlyByRace
  BY DEF IInv
<1>. QED
  BY <1>1, Inductive, PTL

\* Only a newer handler of the same name, or its own handler's cleanup,
\* takes a connection's name away.
THEOREM SuccessorsOnly == Spec => OnlySuccessorsDisplace
<1> DEFINE Displaced(n) ==
       LET old == wsConns[n] IN
       (old # NoConn /\ wsConns'[n] # old) =>
          \/ pc[old] = "cleanup" /\ pc'[old] = "gone"
          \/ \E d \in Conns \ {old} :
                NameOf[d] = n /\ pc[d] \in {"evict", "store"} /\ pc'[d] # pc[d]
<1>1. ASSUME IInv, [Next]_vars, NEW n \in Names
      PROVE  Displaced(n)
  <2> USE RegistryAssumption DEF IInv, TypeOK, RegisteredIsLive, Goto,
                                 Adding, Admitted
  <2>1. CASE UNCHANGED vars
    BY <1>1, <2>1 DEF vars
  <2>2. ASSUME NEW c \in Conns, Upgrade(c) \/ Lookup(c) \/ ReadFails(c)
        PROVE  Displaced(n)
    BY <1>1, <2>2 DEF Upgrade, Lookup, ReadFails
  <2>3. ASSUME NEW c \in Conns, Evict(c)
        PROVE  Displaced(n)
    BY <1>1, <2>3 DEF Evict, CloseWSConn, FoundOk
  <2>4. ASSUME NEW c \in Conns, Store(c)
        PROVE  Displaced(n)
    BY <1>1, <2>4 DEF Store
  <2>5. ASSUME NEW c \in Conns, Cleanup(c)
        PROVE  Displaced(n)
    BY <1>1, <2>5 DEF Cleanup, CloseWSConn
  <2>. QED
    BY <1>1, <2>1, <2>2, <2>3, <2>4, <2>5, NextCases DEF Step
<1>2. IInv /\ [Next]_vars
        => [\A n \in Names : Displaced(n)]_vars
  BY <1>1
<1>3. Spec => [][\A n \in Names : Displaced(n)]_vars
  BY <1>2, Inductive, PTL DEF Spec
<1>. QED
  BY <1>3 DEF OnlySuccessorsDisplace

-----------------------------------------------------------------------------
(***************************************************************************)
(* Registry implements Directory.  Store is Register, an Evict or Cleanup  *)
(* that finds its connection in the map is Release, every other step is a  *)
(* stutter: in particular the cleanup of a displaced handler, which moves  *)
(* a connection that has already retired.                                  *)
(***************************************************************************)
Retired == {c \in Conns : pc[c] \in Admitted /\ wsConns[NameOf[c]] # c}

LEMMA StepSimulates ==
    ASSUME IInv, NEW c \in Conns, Step(c)
    PROVE  [Dir!DirNext]_(Dir!dirVars)
<1> USE RegistryAssumption DEF IInv, TypeOK, RegisteredIsLive, Goto,
                               Adding, Admitted
<1> DEFINE n == NameOf[c]
<1>1. n \in Names
  OBVIOUS
<1>2. CASE Upgrade(c) \/ Lookup(c) \/ ReadFails(c)
  <2>1. wsConns' = wsConns /\ Retired' = Retired
    BY <1>2 DEF Upgrade, Lookup, ReadFails, Retired
  <2>. QED
    BY <2>1 DEF Dir!dirVars, Retired
<1>3. CASE Evict(c)
  <2>1. CASE wsConns[n] = found[c]
    <3>1. /\ wsConns[n] # NoConn
          /\ wsConns' = [wsConns EXCEPT ![n] = NoConn]
      BY <1>3, <2>1 DEF Evict, CloseWSConn, FoundOk
    <3>2. Retired' = Retired \cup ({wsConns[n]} \ {NoConn})
      BY <1>3, <2>1, <3>1 DEF Evict, Retired, FoundOk
    <3>3. Dir!Release(n)
      BY <3>1, <3>2 DEF Dir!Release, Dir!Incumbent, Retired
    <3>. QED
      BY <3>3, <1>1 DEF Dir!DirNext
  <2>2. CASE wsConns[n] # found[c]
    <3>1. wsConns' = wsConns /\ Retired' = Retired
      BY <1>3, <2>2 DEF Evict, CloseWSConn, FoundOk, Retired
    <3>. QED
      BY <3>1 DEF Dir!dirVars, Retired
  <2>. QED
    BY <2>1, <2>2
<1>4. CASE Store(c)
  <2>1. /\ c \notin Retired
        /\ \A m \in Names : wsConns[m] # c
        /\ wsConns' = [wsConns EXCEPT ![n] = c]
    BY <1>4 DEF Store, Retired
  <2>2. Retired' = Retired \cup ({wsConns[n]} \ {NoConn})
    BY <1>4 DEF Store, Retired
  <2>3. Dir!Register(n, c)
    BY <2>1, <2>2 DEF Dir!Register, Dir!Incumbent, Retired
  <2>. QED
    BY <2>3, <1>1 DEF Dir!DirNext
<1>5. CASE Cleanup(c)
  <2>1. CASE wsConns[n] = c
    <3>1. /\ wsConns[n] # NoConn
          /\ wsConns' = [wsConns EXCEPT ![n] = NoConn]
      BY <1>5, <2>1 DEF Cleanup, CloseWSConn
    <3>2. Retired' = Retired \cup ({wsConns[n]} \ {NoConn})
      BY <1>5, <2>1, <3>1 DEF Cleanup, Retired
    <3>3. Dir!Release(n)
      BY <3>1, <3>2 DEF Dir!Release, Dir!Incumbent, Retired
    <3>. QED
      BY <3>3, <1>1 DEF Dir!DirNext
  <2>2. CASE wsConns[n] # c
    <3>1. wsConns' = wsConns /\ Retired' = Retired
      BY <1>5, <2>2 DEF Cleanup, CloseWSConn, Retired
    <3>. QED
      BY <3>1 DEF Dir!dirVars, Retired
  <2>. QED
    BY <2>1, <2>2
<1>. QED
  BY <1>2, <1>3, <1>4, <1>5 DEF Step

\* Every behaviour of the handlers is one that a Directory allows.
THEOREM RegistryImplementsDirectory == Spec => ImplementsDirectory
<1>1. Init => Dir!DirInit
  BY RegistryAssumption DEF Init, Dir!DirInit, Admitted
<1>2. IInv /\ [Next]_vars => [Dir!DirNext]_(Dir!dirVars)
  <2> SUFFICES ASSUME IInv, [Next]_vars
               PROVE  [Dir!DirNext]_(Dir!dirVars)
    OBVIOUS
  <2>1. CASE UNCHANGED vars
    BY <2>1 DEF vars, Dir!dirVars
  <2>2. CASE \E c \in Conns : Step(c)
    BY <2>2, StepSimulates
  <2>. QED
    BY <2>1, <2>2, NextCases
<1>. QED
  BY <1>1, <1>2, Inductive, PTL DEF Spec, ImplementsDirectory, Dir!DirSpec
=============================================================================
