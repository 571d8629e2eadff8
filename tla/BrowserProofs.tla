---------------------------- MODULE BrowserProofs ---------------------------
(***************************************************************************)
(* Proofs about Browser for any number of contexts.                        *)
(*                                                                         *)
(* HarmlessWhileAlive needs that the only context is not done, so that no  *)
(* look at it sends a caller into Close or Startup (Calm).  What is gone   *)
(* or lost stays so by the shape of the callers' paths, whatever the       *)
(* goroutines do that timed out.                                           *)
(***************************************************************************)
EXTENDS Browser, TLAPS

Quiet == {"idle", "check", "err", "run", "runwait", "acquire", "task", "taskwait"}

Calm ==
    ~died => /\ ~crashed /\ gens = 1 /\ taskCtx = 1 /\ cancel = 1
             /\ chrome[1] # "done"
             /\ \A p \in Callers : pc[p] \in Quiet

IInv == TypeOK /\ Calm

\* What a caller does, and what a goroutine does.
CallerStep(p) == Evaluate(p) \/ CallerRuns(p) \/ Acquire(p) \/ Timeout(p)
RunStep(r) == RunReads(r) \/ RunPanics(r) \/ Launch(r) \/ PageLoads(r) \/ RunEnds(r)

Step ==
    \/ \E p \in Callers : CallerStep(p)
    \/ \E r \in runs : RunStep(r)
    \/ \E g \in Gens : ChromeDies(g)

LEMMA NextCases ==
    ASSUME [Next]_vars
    PROVE  Step \/ UNCHANGED vars
BY DEF Next, Step, CallerStep, RunStep, Terminated

-----------------------------------------------------------------------------
\* NewBrowser leaves one context that nothing was launched in.
LEMMA InitIInv == Init => IInv
<1> SUFFICES ASSUME Init PROVE IInv
  OBVIOUS
<1> USE BrowserAssumption DEF Init
<1>1. gens \in 1..MaxGens /\ taskCtx \in 0..gens /\ cancel \in 0..gens
  OBVIOUS
<1>2. chrome \in [Gens -> {"none", "up", "done"}] /\ chrome[1] = "none"
  BY DEF Gens
<1>3. TypeOK
  BY <1>1, <1>2 DEF TypeOK, Callers, Nobody
<1>4. Calm
  BY <1>2 DEF Calm, Quiet, Callers
<1>. QED
  BY <1>3, <1>4 DEF IInv

\* The looks at the browser, and Close, keep the types.
LEMMA TypeLooks ==
    ASSUME TypeOK, NEW p \in Callers,
           \/ Evaluate(p) \/ CheckNil(p) \/ CheckErr(p) \/ CheckErrPanics(p)
           \/ CloseTest(p) \/ CloseCancel(p) \/ CloseCancelPanics(p) \/ CloseForget(p)
    PROVE  TypeOK'
<1> USE DEF TypeOK, At, Goto, Crash, NotRunning, Running, ctxVars, Gens, Runs
<1>1. CASE Evaluate(p)
  BY <1>1 DEF Evaluate
<1>2. CASE CheckNil(p)
  BY <1>2 DEF CheckNil
<1>3. CASE CheckErr(p)
  BY <1>3 DEF CheckErr
<1>4. CASE CheckErrPanics(p) \/ CloseCancelPanics(p)
  BY <1>4 DEF CheckErrPanics, CloseCancelPanics
<1>5. CASE CloseTest(p)
  BY <1>5 DEF CloseTest
<1>6. CASE CloseCancel(p)
  BY <1>6 DEF CloseCancel
<1>7. CASE CloseForget(p)
  BY <1>7 DEF CloseForget
<1>. QED
  BY <1>1, <1>2, <1>3, <1>4, <1>5, <1>6, <1>7

\* The end of a wait keeps the types.
LEMMA TypeContinue ==
    ASSUME TypeOK, NEW p \in Callers, Continue(p)
    PROVE  /\ pc' \in [Callers -> {"idle", "check", "err", "test", "cancel", "forget",
                         "startup", "listen", "run", "runwait", "acquire", "task", "taskwait"}]
           /\ op' \in [Callers -> {"start", "navigate", "evaluate", "tasks"}]
           /\ sem' \in Callers \cup {Nobody}
BY DEF TypeOK, Continue, Goto

\* Startup, and what is done with the semaphore and the goroutines.
LEMMA TypeWork ==
    ASSUME TypeOK, NEW p \in Callers,
           \/ Startup(p) \/ Listen(p) \/ ListenPanics(p) \/ Spawn(p)
           \/ Acquire(p) \/ Timeout(p)
    PROVE  TypeOK'
<1> USE BrowserAssumption
        DEF TypeOK, At, Goto, Crash, ctxVars, Gens
<1>1. CASE Startup(p)
  <2>1. Runs \subseteq Runs'
    BY <1>1 DEF Startup, Runs
  <2>. QED
    BY <1>1, <2>1 DEF Startup
<1>2. CASE Listen(p)
  BY <1>2 DEF Listen, Runs
<1>3. CASE ListenPanics(p)
  BY <1>3 DEF ListenPanics, Runs
<1>4. CASE Spawn(p)
  <2>1. \A k \in {"run", "task", "navigate"} : [for |-> p, kind |-> k, gen |-> 0] \in Runs
    BY DEF Runs
  <2>2. runs' \subseteq Runs /\ Runs' = Runs
    BY <1>4, <2>1 DEF Spawn, Runs
  <2>. QED
    BY <1>4, <2>2 DEF Spawn
<1>5. CASE Acquire(p)
  BY <1>5 DEF Acquire, Runs
<1>6. CASE Timeout(p)
  <2>1. PICK r \in runs :
            runs' = (runs \ {r}) \cup {q \in {[r EXCEPT !.for = Nobody]} : ~Spent(r)}
    BY <1>6 DEF Timeout
  <2>2. [r EXCEPT !.for = Nobody] \in Runs
    BY <2>1 DEF Runs
  <2>3. runs' \subseteq Runs /\ Runs' = Runs
    BY <1>6, <2>1, <2>2 DEF Timeout, Runs
  <2>. QED
    BY <1>6, <2>3, TypeContinue DEF Timeout
<1>. QED
  BY <1>1, <1>2, <1>3, <1>4, <1>5, <1>6

\* The goroutines, and Chrome, keep the types.
LEMMA TypeRun ==
    ASSUME TypeOK, NEW r \in runs, RunStep(r)
    PROVE  TypeOK'
<1> USE DEF TypeOK, Crash, ctxVars, Gens
<1>1. CASE RunReads(r)
  <2>1. [r EXCEPT !.gen = taskCtx] \in Runs /\ Runs' = Runs
    BY <1>1 DEF RunReads, Runs
  <2>. QED
    BY <1>1, <2>1 DEF RunReads
<1>2. CASE RunPanics(r)
  BY <1>2 DEF RunPanics, Runs
<1>3. CASE Launch(r)
  <2>1. r.gen \in Gens
    BY <1>3 DEF Launch, Runs
  <2>. QED
    BY <1>3, <2>1 DEF Launch, Runs
<1>4. CASE PageLoads(r)
  <2>1. /\ r.gen \in Gens
        /\ [r EXCEPT !.kind = "task"] \in Runs /\ Runs' = Runs
    BY <1>4 DEF PageLoads, Runs
  <2>. QED
    BY <1>4, <2>1 DEF PageLoads
<1>5. CASE RunEnds(r)
  <2>1. runs' \subseteq Runs /\ Runs' = Runs
    BY <1>5 DEF RunEnds, Runs
  <2>2. CASE r.for # Nobody /\ Continue(r.for)
    <3>1. r.for \in Callers
      BY <2>2 DEF Runs
    <3>. QED
      BY <1>5, <2>1, <2>2, <3>1, TypeContinue DEF RunEnds
  <2>3. CASE r.for = Nobody /\ UNCHANGED <<pc, op, sem>>
    BY <1>5, <2>1, <2>3 DEF RunEnds
  <2>. QED
    BY <1>5, <2>2, <2>3 DEF RunEnds
<1>. QED
  BY <1>1, <1>2, <1>3, <1>4, <1>5 DEF RunStep

\* Every step keeps the types.
LEMMA TypeStep ==
    ASSUME TypeOK, Step
    PROVE  TypeOK'
<1>1. CASE \E p \in Callers : CallerStep(p)
  BY <1>1, TypeLooks, TypeWork DEF CallerStep, CallerRuns
<1>2. CASE \E r \in runs : RunStep(r)
  BY <1>2, TypeRun
<1>3. CASE \E g \in Gens : ChromeDies(g)
  BY <1>3 DEF ChromeDies, TypeOK, Gens, Runs
<1>. QED
  BY <1>1, <1>2, <1>3 DEF Step

-----------------------------------------------------------------------------
\* While Chrome lives, no look leads into Close, and none finds nil.
LEMMA CalmCaller ==
    ASSUME IInv, NEW p \in Callers, CallerStep(p)
    PROVE  Calm'
<1> SUFFICES ASSUME ~died' PROVE Calm'
  BY DEF Calm
<1>1. ~died
  BY DEF CallerStep, CallerRuns, Evaluate, CheckNil, CheckErr, CheckErrPanics,
         CloseTest, CloseCancel, CloseCancelPanics, CloseForget, Startup, Listen,
         ListenPanics, Spawn, Acquire, Timeout, Crash
<1> USE <1>1 DEF IInv, TypeOK, Calm, Quiet, At, Goto, ctxVars
<1>2. CASE Evaluate(p) \/ Acquire(p)
  BY <1>2 DEF Evaluate, Acquire
<1>3. CASE CheckNil(p) \/ CheckErr(p)
  BY <1>3 DEF CheckNil, CheckErr, Running
<1>4. CASE CheckErrPanics(p) \/ CloseTest(p) \/ CloseCancel(p) \/ CloseCancelPanics(p)
           \/ CloseForget(p) \/ Startup(p) \/ Listen(p) \/ ListenPanics(p)
  BY <1>4 DEF CheckErrPanics, CloseTest, CloseCancel, CloseCancelPanics,
              CloseForget, Startup, Listen, ListenPanics
<1>5. CASE Spawn(p)
  BY <1>5 DEF Spawn
<1>6. CASE Timeout(p)
  BY <1>6 DEF Timeout, Continue
<1>. QED
  BY <1>2, <1>3, <1>4, <1>5, <1>6 DEF CallerStep, CallerRuns

\* The goroutines only launch a Chrome in the one context.
LEMMA CalmRun ==
    ASSUME IInv, NEW r \in runs, RunStep(r)
    PROVE  Calm'
<1> USE DEF IInv, TypeOK, Calm, Quiet, Goto, ctxVars, Gens
<1>1. CASE RunReads(r) \/ RunPanics(r)
  BY <1>1 DEF RunReads, RunPanics, Crash
<1>2. CASE Launch(r) \/ PageLoads(r)
  BY <1>2 DEF Launch, PageLoads
<1>3. CASE RunEnds(r)
  BY <1>3 DEF RunEnds, Continue
<1>. QED
  BY <1>1, <1>2, <1>3 DEF RunStep

\* Every step preserves the inductive invariant.
LEMMA NextIInv == IInv /\ [Next]_vars => IInv'
<1> SUFFICES ASSUME IInv, [Next]_vars PROVE IInv'
  OBVIOUS
<1>1. CASE UNCHANGED vars
  BY <1>1 DEF vars, IInv, TypeOK, Calm, Gens, Runs
<1>2. CASE Step
  <2>1. Calm'
    BY <1>2, CalmCaller, CalmRun DEF Step, ChromeDies, Calm
  <2>. QED
    BY <1>2, <2>1, TypeStep DEF IInv
<1>. QED
  BY <1>1, <1>2, NextCases

\* The inductive invariant holds in every reachable state.
THEOREM Inductive == Spec => []IInv
  BY InitIInv, NextIInv, PTL DEF Spec

-----------------------------------------------------------------------------
(***************************************************************************)
(* The theorems.                                                           *)
(***************************************************************************)

\* The types are correct.
THEOREM TypeCorrect == Spec => []TypeOK
<1>1. IInv => TypeOK
  BY DEF IInv
<1>. QED
  BY <1>1, Inductive, PTL

\* The looks without a lock are harmless until a Chrome dies by itself.
THEOREM HarmlessLooks == Spec => []HarmlessWhileAlive
<1>1. IInv => HarmlessWhileAlive
  BY DEF IInv, Calm, HarmlessWhileAlive
<1>. QED
  BY <1>1, Inductive, PTL

\* A browser that was closed is not started again by the events.
THEOREM GoneStaysGone == Spec => GoneForGood
<1>1. ASSUME IInv, [Next]_vars, Gone PROVE Gone'
  <2> USE <1>1 DEF Gone, Callers, At, Goto, Crash, ctxVars
  <2>1. ASSUME NEW p \in Callers, CallerStep(p) PROVE Gone'
    <3>1. CASE Evaluate(p)
      BY <3>1 DEF Evaluate, IInv, TypeOK
    <3>2. CASE CheckNil(p) \/ CloseTest(p)
      BY <3>2 DEF CheckNil, CloseTest, NotRunning, IInv, TypeOK
    <3>3. CASE CloseCancel(p) \/ CloseForget(p)
      BY <3>3 DEF CloseCancel, CloseForget, NotRunning, IInv, TypeOK
    <3>4. CASE CloseCancelPanics(p)
      BY <3>4 DEF CloseCancelPanics
    <3>5. CASE Timeout(p)
      BY <3>5 DEF Timeout, Continue
    <3>6. CASE CheckErr(p) \/ CheckErrPanics(p) \/ Startup(p) \/ Listen(p)
               \/ ListenPanics(p) \/ Spawn(p) \/ Acquire(p)
      BY <3>6 DEF CheckErr, CheckErrPanics, Startup, Listen, ListenPanics,
                  Spawn, Acquire
    <3>. QED
      BY <2>1, <3>1, <3>2, <3>3, <3>4, <3>5, <3>6 DEF CallerStep, CallerRuns
  <2>2. ASSUME NEW r \in runs, RunStep(r) PROVE Gone'
    <3>1. r.for \in Callers \cup {Nobody}
      BY DEF IInv, TypeOK, Runs
    <3>2. CASE RunEnds(r)
      BY <3>1, <3>2 DEF RunEnds, Continue
    <3>. QED
      BY <2>2, <3>2 DEF RunStep, RunReads, RunPanics, Launch, PageLoads
  <2>3. ASSUME NEW g \in Gens, ChromeDies(g) PROVE Gone'
    BY <2>3 DEF ChromeDies
  <2>4. CASE UNCHANGED vars
    BY <2>4 DEF vars
  <2>. QED
    BY <2>1, <2>2, <2>3, <2>4, NextCases DEF Step
<1>2. IInv /\ [Next]_vars => [Gone => Gone']_vars
  BY <1>1
<1>3. Spec => [][Gone => Gone']_vars
  BY <1>2, Inductive, PTL DEF Spec
<1>. QED
  BY <1>3 DEF GoneForGood

\* The player's page does not come back by itself.
THEOREM LostStaysLost == Spec => LostForGood
<1>1. ASSUME IInv, [Next]_vars, Lost PROVE Lost'
  <2> USE <1>1 DEF Lost, Callers, At, Goto, Crash, ctxVars, IInv, TypeOK, Gens
  <2>1. ASSUME NEW p \in Callers, CallerStep(p) PROVE Lost'
    <3>1. CASE Evaluate(p) \/ Acquire(p) \/ Listen(p) \/ ListenPanics(p)
      BY <3>1 DEF Evaluate, Acquire, Listen, ListenPanics
    <3>2. CASE CheckNil(p) \/ CheckErr(p) \/ CheckErrPanics(p)
      BY <3>2 DEF CheckNil, CheckErr, CheckErrPanics, NotRunning, Running
    <3>3. CASE CloseTest(p) \/ CloseForget(p) \/ CloseCancelPanics(p)
      BY <3>3 DEF CloseTest, CloseForget, CloseCancelPanics, NotRunning
    <3>4. CASE CloseCancel(p)
      BY <3>4 DEF CloseCancel
    <3>5. CASE Startup(p)
      BY <3>5 DEF Startup
    <3>6. CASE Spawn(p)
      BY <3>6 DEF Spawn
    <3>7. CASE Timeout(p)
      <4>1. PICK r \in runs :
               /\ r.for = p
               /\ runs' = (runs \ {r}) \cup {q \in {[r EXCEPT !.for = Nobody]} : ~Spent(r)}
        BY <3>7 DEF Timeout
      <4>2. [r EXCEPT !.for = Nobody].kind = r.kind
        BY <4>1 DEF Runs
      <4>3. \A q \in runs' : q.kind # "navigate"
        BY <4>1, <4>2
      <4>. QED
        BY <3>7, <4>3 DEF Timeout, Continue
    <3>. QED
      BY <2>1, <3>1, <3>2, <3>3, <3>4, <3>5, <3>6, <3>7 DEF CallerStep, CallerRuns
  <2>2. ASSUME NEW r \in runs, RunStep(r) PROVE Lost'
    <3>1. r.for \in Callers \cup {Nobody} /\ r.kind # "navigate"
      BY DEF Runs
    <3>2. CASE RunReads(r)
      <4>1. [r EXCEPT !.gen = taskCtx].kind = r.kind
        BY DEF Runs
      <4>. QED
        BY <3>2, <4>1 DEF RunReads
    <3>3. CASE RunEnds(r)
      BY <3>1, <3>3 DEF RunEnds, Continue
    <3>4. CASE RunPanics(r) \/ Launch(r) \/ PageLoads(r)
      BY <3>1, <3>4 DEF RunPanics, Launch, PageLoads
    <3>. QED
      BY <2>2, <3>2, <3>3, <3>4 DEF RunStep
  <2>3. ASSUME NEW g \in Gens, ChromeDies(g) PROVE Lost'
    BY <2>3 DEF ChromeDies
  <2>4. CASE UNCHANGED vars
    BY <2>4 DEF vars
  <2>. QED
    BY <2>1, <2>2, <2>3, <2>4, NextCases DEF Step
<1>2. IInv /\ [Next]_vars => [Lost => Lost']_vars
  BY <1>1
<1>3. Spec => [][Lost => Lost']_vars
  BY <1>2, Inductive, PTL DEF Spec
<1>. QED
  BY <1>3 DEF LostForGood
=============================================================================
