------------------------------ MODULE Browser ------------------------------
(***************************************************************************)
(* The display's browser: the contexts and the semaphore of Browser        *)
(* (pkg/browser/browser.go), with the goroutines that use it.  "main" runs *)
(* it and navigates to the player's page, once (genericplayer.Run);        *)
(* "reader" evaluates every event; "poller" asks for the status, every     *)
(* second from then on (pkg/genericplayer/player.go).                      *)
(*                                                                         *)
(* Startup makes a context, without a process; the first chromedp.Run on   *)
(* it launches Chrome; its context is done when Chrome dies.  Contexts are *)
(* the numbers 1, 2, ..., and 0 is nil.                                    *)
(*                                                                         *)
(* Only Tasks takes the semaphore.  Navigate and Evaluate look at the      *)
(* browser, and perhaps close it, before that and without any lock, so     *)
(* that every look at a field is a step of its own: a field that becomes   *)
(* nil between a test and its use is a nil pointer dereference, which ends *)
(* the display.  Close and Startup treat allocCancel like taskCancel: one  *)
(* variable, cancel, stands for both.                                      *)
(*                                                                         *)
(* Tasks and Run hand their work to a goroutine and wait 5 seconds for it. *)
(* Then they go on, and it too: Chrome may take any time, or for ever.     *)
(***************************************************************************)
EXTENDS Naturals

CONSTANT MaxGens    \* bound: contexts that are ever made

ASSUME BrowserAssumption == MaxGens \in Nat \ {0}

VARIABLES
    gens,    \* the contexts made so far
    taskCtx, \* TaskCtx
    cancel,  \* taskCancel: the context that it cancels
    chrome,  \* each context: "none" launched yet, "up", or "done"
    shown,   \* the contexts whose Chrome was navigated to the player's page
    sem,     \* who holds semAction
    pc,      \* where each caller is
    op,      \* on whose behalf it calls Run or IsRunning
    runs,    \* the goroutines that Tasks and Run have started
    crashed, \* the display has died of a panic
    died     \* history: a Chrome has died by itself

vars == <<gens, taskCtx, cancel, chrome, shown, sem, pc, op, runs, crashed, died>>
ctxVars == <<gens, taskCtx, cancel, chrome, shown>>

Callers == {"main", "reader", "poller"}
Nobody == "nobody"
Gens == 1..gens

(***************************************************************************)
(* A goroutine works for its caller, or for nobody once that has timed     *)
(* out, and has not read TaskCtx yet if gen is 0.  Those that nobody waits *)
(* for and that are alike count once.                                      *)
(***************************************************************************)
Runs == [for : Callers \cup {Nobody}, kind : {"run", "task", "navigate"}, gen : 0..gens]

TypeOK ==
    /\ gens \in 1..MaxGens
    /\ taskCtx \in 0..gens /\ cancel \in 0..gens
    /\ chrome \in [Gens -> {"none", "up", "done"}]
    /\ shown \in SUBSET Gens
    /\ sem \in Callers \cup {Nobody}
    /\ pc \in [Callers -> {"idle", "check", "err", "test", "cancel", "forget",
                 "startup", "listen", "run", "runwait", "acquire", "task", "taskwait"}]
    /\ op \in [Callers -> {"start", "navigate", "evaluate", "tasks"}]
    /\ runs \subseteq Runs
    /\ crashed \in BOOLEAN /\ died \in BOOLEAN

\* NewBrowser has called Startup, and NewPlayer is about to call Run.
Init ==
    /\ gens = 1 /\ taskCtx = 1 /\ cancel = 1
    /\ chrome = [g \in 1..1 |-> "none"]
    /\ shown = {}
    /\ sem = Nobody
    /\ pc = [p \in Callers |-> IF p = "main" THEN "run" ELSE "idle"]
    /\ op = [p \in Callers |-> IF p = "main" THEN "start" ELSE "evaluate"]
    /\ runs = {}
    /\ crashed = FALSE /\ died = FALSE

At(p, label) == ~crashed /\ pc[p] = label
Goto(p, label) == pc' = [pc EXCEPT ![p] = label]
Crash == crashed' = TRUE /\ UNCHANGED <<ctxVars, sem, pc, op, runs, died>>

-----------------------------------------------------------------------------
(***************************************************************************)
(* IsRunning and Close.                                                    *)
(***************************************************************************)

\* Slip: Evaluate, too, starts a browser when there is none.
NotRunningRestarts(p) ==
    Goto(p, IF op[p] = "evaluate" /\ taskCtx # 0 THEN "idle" ELSE "startup")

\* IsRunning returns false: Evaluate gives up, the others start a browser.
NotRunning(p) == Goto(p, IF op[p] = "evaluate" THEN "idle" ELSE "startup")

\* It returns true.
Running(p) == Goto(p, IF op[p] = "tasks" THEN "task" ELSE "acquire")

\* TaskCtx == nil?
CheckNil(p) ==
    /\ At(p, "check")
    /\ \/ taskCtx = 0 /\ NotRunning(p)
       \/ taskCtx # 0 /\ Goto(p, "err")
    /\ UNCHANGED <<ctxVars, sem, op, runs, crashed, died>>

\* Slip: a browser that has not been launched yet counts as dead.
CheckErrEager(p) ==
    /\ At(p, "err") /\ taskCtx # 0
    /\ \/ chrome[taskCtx] # "up" /\ Goto(p, "test")
       \/ chrome[taskCtx] = "up" /\ Running(p)
    /\ UNCHANGED <<ctxVars, sem, op, runs, crashed, died>>

\* TaskCtx.Err() != nil?
CheckErr(p) ==
    /\ At(p, "err") /\ taskCtx # 0
    /\ \/ chrome[taskCtx] = "done" /\ Goto(p, "test")
       \/ chrome[taskCtx] # "done" /\ Running(p)
    /\ UNCHANGED <<ctxVars, sem, op, runs, crashed, died>>

CheckErrPanics(p) == At(p, "err") /\ taskCtx = 0 /\ Crash

\* Close: if taskCancel != nil ...
CloseTest(p) ==
    /\ At(p, "test")
    /\ Goto(p, IF cancel = 0 THEN "forget" ELSE "cancel")
    /\ UNCHANGED <<ctxVars, sem, op, runs, crashed, died>>

\* ... taskCancel(); taskCancel = nil, whatever it cancels by now.
CloseCancel(p) ==
    /\ At(p, "cancel") /\ cancel # 0
    /\ chrome' = [chrome EXCEPT ![cancel] = "done"]
    /\ cancel' = 0
    /\ Goto(p, "forget")
    /\ UNCHANGED <<gens, taskCtx, shown, sem, op, runs, crashed, died>>

CloseCancelPanics(p) == At(p, "cancel") /\ cancel = 0 /\ Crash

\* The temporary directory is removed, and TaskCtx = nil.
CloseForget(p) ==
    /\ At(p, "forget")
    /\ taskCtx' = 0
    /\ NotRunning(p)
    /\ UNCHANGED <<gens, cancel, chrome, shown, sem, op, runs, crashed, died>>

-----------------------------------------------------------------------------
(***************************************************************************)
(* Startup and Run.                                                        *)
(***************************************************************************)

Startup(p) ==
    /\ At(p, "startup") /\ gens < MaxGens
    /\ gens' = gens + 1
    /\ chrome' = [g \in 1..gens + 1 |-> IF g \in Gens THEN chrome[g] ELSE "none"]
    /\ taskCtx' = gens + 1 /\ cancel' = gens + 1
    /\ Goto(p, "listen")
    /\ UNCHANGED <<shown, sem, op, runs, crashed, died>>

\* The end of Startup, ListenTarget, reads TaskCtx again.
Listen(p) ==
    /\ At(p, "listen") /\ taskCtx # 0
    /\ Goto(p, IF op[p] = "tasks" THEN "run" ELSE "acquire")
    /\ UNCHANGED <<ctxVars, sem, op, runs, crashed, died>>

ListenPanics(p) == At(p, "listen") /\ taskCtx = 0 /\ Crash

\* Slip: whoever starts a goroutine, it opens the player's page.
SpawnNavigates(p) ==
    /\ \/ At(p, "run") /\ Goto(p, "runwait")
       \/ At(p, "task") /\ Goto(p, "taskwait")
    /\ runs' = runs \cup {[for |-> p, kind |-> "navigate", gen |-> 0]}
    /\ UNCHANGED <<ctxVars, sem, op, crashed, died>>

\* Run or Tasks starts a goroutine and waits for it.
Spawn(p) ==
    /\ \/ /\ At(p, "run") /\ Goto(p, "runwait")
          /\ runs' = runs \cup {[for |-> p, kind |-> "run", gen |-> 0]}
       \/ /\ At(p, "task") /\ Goto(p, "taskwait")
          /\ runs' = runs \cup {[for |-> p, gen |-> 0,
                           kind |-> IF p = "main" THEN "navigate" ELSE "task"]}
    /\ UNCHANGED <<ctxVars, sem, op, crashed, died>>

\* What the caller does when its wait is over.
Continue(p) ==
    \/ /\ pc[p] = "runwait" /\ op[p] = "start"
       /\ Goto(p, "check") /\ op' = [op EXCEPT ![p] = "navigate"]
       /\ UNCHANGED sem
    \/ /\ pc[p] = "runwait" /\ op[p] = "tasks"
       /\ Goto(p, "task")
       /\ UNCHANGED <<op, sem>>
    \/ /\ pc[p] = "taskwait"
       /\ Goto(p, "idle") /\ op' = [op EXCEPT ![p] = "evaluate"]
       /\ sem' = Nobody

\* Slip: no time limit.
TimeoutNever(p) == FALSE /\ UNCHANGED <<vars, p>>

\* A task that runs in a launched Chrome has no effect any more.
Spent(r) == r.kind # "navigate" /\ r.gen # 0 /\ chrome[r.gen] # "none"

\* 5 seconds have passed; the goroutine goes on.
Timeout(p) ==
    /\ ~crashed
    /\ \E r \in runs :
          /\ r.for = p
          /\ runs' = (runs \ {r})
                \cup {q \in {[r EXCEPT !.for = Nobody]} : ~Spent(r)}
    /\ Continue(p)
    /\ UNCHANGED <<ctxVars, crashed, died>>

-----------------------------------------------------------------------------
(***************************************************************************)
(* The goroutines: chromedp.Run(browser.TaskCtx, ...).                     *)
(***************************************************************************)
RunReads(r) ==
    /\ ~crashed /\ r.gen = 0 /\ taskCtx # 0
    /\ runs' = (runs \ {r}) \cup {[r EXCEPT !.gen = taskCtx]}
    /\ UNCHANGED <<ctxVars, sem, pc, op, crashed, died>>

RunPanics(r) == ~crashed /\ r.gen = 0 /\ taskCtx = 0 /\ Crash

Launch(r) ==
    /\ ~crashed /\ r.gen # 0 /\ chrome[r.gen] = "none"
    /\ chrome' = [chrome EXCEPT ![r.gen] = "up"]
    /\ UNCHANGED <<gens, taskCtx, cancel, shown, sem, pc, op, runs, crashed, died>>

\* The page is there; what is left is to wait for its body.
PageLoads(r) ==
    /\ ~crashed /\ r.gen # 0 /\ chrome[r.gen] = "up" /\ r.kind = "navigate"
    /\ shown' = shown \cup {r.gen}
    /\ runs' = (runs \ {r}) \cup {[r EXCEPT !.kind = "task"]}
    /\ UNCHANGED <<gens, taskCtx, cancel, chrome, sem, pc, op, crashed, died>>

\* Done, or failed: at any time, for instance because Chrome was not found.
RunEnds(r) ==
    /\ ~crashed /\ r.gen # 0
    /\ runs' = runs \ {r}
    /\ \/ r.for # Nobody /\ Continue(r.for)
       \/ r.for = Nobody /\ UNCHANGED <<pc, op, sem>>
    /\ UNCHANGED <<ctxVars, crashed, died>>

ChromeDies(g) ==
    /\ ~crashed /\ chrome[g] = "up"
    /\ chrome' = [chrome EXCEPT ![g] = "done"]
    /\ died' = TRUE
    /\ UNCHANGED <<gens, taskCtx, cancel, shown, sem, pc, op, runs, crashed>>

-----------------------------------------------------------------------------
(***************************************************************************)
(* The callers.                                                            *)
(***************************************************************************)

\* An event, or the poller's second has passed.
Evaluate(p) ==
    /\ At(p, "idle") /\ p # "main"
    /\ p = "poller" => pc["main"] = "idle"
    /\ Goto(p, "check")
    /\ UNCHANGED <<ctxVars, sem, op, runs, crashed, died>>

\* Tasks: semAction.Acquire.
Acquire(p) ==
    /\ At(p, "acquire") /\ sem = Nobody
    /\ sem' = p
    /\ op' = [op EXCEPT ![p] = "tasks"]
    /\ Goto(p, "check")
    /\ UNCHANGED <<ctxVars, runs, crashed, died>>

\* Another context would be made, but the bound is reached.
Exhausted == gens = MaxGens /\ \E p \in Callers : pc[p] = "startup"
Terminated == (crashed \/ Exhausted) /\ UNCHANGED vars

CallerRuns(p) ==
    \/ CheckNil(p) \/ CheckErr(p) \/ CheckErrPanics(p)
    \/ CloseTest(p) \/ CloseCancel(p) \/ CloseCancelPanics(p) \/ CloseForget(p)
    \/ Startup(p) \/ Listen(p) \/ ListenPanics(p) \/ Spawn(p)

Next ==
    \/ \E p \in Callers : Evaluate(p) \/ CallerRuns(p) \/ Acquire(p) \/ Timeout(p)
    \/ \E r \in runs : \/ RunReads(r) \/ RunPanics(r) \/ Launch(r)
                       \/ PageLoads(r) \/ RunEnds(r)
    \/ \E g \in Gens : ChromeDies(g)
    \/ Terminated

Spec == Init /\ [][Next]_vars

(***************************************************************************)
(* Fairness: callers run, timers fire, and semAction serves its waiters in *)
(* the order in which they came.  Chrome owes nothing.                     *)
(***************************************************************************)
FairSpec ==
    /\ Spec
    /\ \A p \in Callers : /\ WF_vars(CallerRuns(p)) /\ WF_vars(Timeout(p))
                          /\ SF_vars(Acquire(p))

-----------------------------------------------------------------------------
(***************************************************************************)
(* Properties.                                                             *)
(***************************************************************************)

\* As long as no Chrome has died by itself, the looks without a lock do no
\* harm: nobody closes the browser, makes another, or dereferences nil,
\* however slow Chrome is and whatever has timed out.
HarmlessWhileAlive == ~died => ~crashed /\ taskCtx = 1 /\ cancel = 1

\* When the browser has been closed and no caller is past the look of
\* Evaluate, it is never started again: the display stays without a browser,
\* though Tasks would restart it.
Gone ==
    /\ taskCtx = 0 /\ pc["main"] = "idle"
    /\ \A p \in Callers : op[p] = "evaluate" /\
          pc[p] \in {"idle", "check", "test", "cancel", "forget"}
GoneForGood == [][Gone => Gone']_vars

\* After the navigation at the start the player's page does not come back,
\* not even into a browser that Tasks has restarted: that shows an empty page.
Lost ==
    /\ pc["main"] = "idle"
    /\ \A g \in shown : chrome[g] = "done"
    /\ \A r \in runs : r.kind # "navigate"
LostForGood == [][Lost => Lost']_vars

\* An event is dealt with, and a poll is over, after some seconds, however
\* Chrome hangs.
CallsReturn ==
    \A p \in Callers : []<>(pc[p] = "idle" \/ crashed \/ Exhausted)
=============================================================================
