------------------------------ MODULE ScriptTask ------------------------------
(***************************************************************************)
(* ScriptExecutable's control of the FreeRTOS task that runs a script      *)
(* (script_executable.cpp): executeAsTask(), pause(), restart(), kill(),   *)
(* free(), and taskMain(), the code of that task.                          *)
(*                                                                         *)
(* Sketch tasks and script tasks are the actors. Each call is a sequence   *)
(* of steps of its actor, cut where the code leaves a critical section or  *)
(* calls FreeRTOS: between two of them any other actor may run (two cores, *)
(* or a preemption). A portENTER_CRITICAL(&taskLock) section is one step.  *)
(*                                                                         *)
(* vTaskSuspend(), vTaskResume() and vTaskDelete() take effect at once. On *)
(* a task that has been deleted the first two do nothing here (the code    *)
(* has no defined behaviour there; SuspendTargetExists is the property).   *)
(***************************************************************************)
CONSTANTS
    Exec,     \* the ScriptExecutable objects
    Task,     \* the FreeRTOS tasks that may be created, in all
    Sketch,   \* the host's own tasks: loop(), a web server...
    SelfOps,  \* the calls a script may make on its own executable
    NoTask,   \* NULL, as a task handle or an unwind point
    NoExec    \* no executable

Ops == {"executeAsTask", "pause", "restart", "kill", "free"}

ASSUME TaskAssumption ==
    /\ Sketch \cap Task = {}
    /\ Exec \cap (Sketch \cup Task) = {}
    /\ NoTask \notin Sketch \cup Task
    /\ NoExec \notin Exec
    /\ SelfOps \subseteq {"pause", "restart", "kill"}

Actor == Sketch \cup Task

VARIABLES
    state,   \* state[e]   taskState
    handle,  \* handle[e]  taskHandle
    unwind,  \* unwind[e]  whose stack exe.runtimeUnwind points into
    loaded,  \* loaded[e]  the compiled code is in memory (isExeExists())
    rtos,    \* rtos[t]    what FreeRTOS does with task t
    self,    \* self[t]    the ScriptExecutable whose taskMain() t runs
    phase,   \* phase[t]   how far taskMain() has gone
    outer,   \* outer[t]   enterScript()'s local: the unwind point to restore
    pc,      \* pc[a]      the next step of the call actor a is making
    op       \* op[a]      that call's local variables

objVars  == <<state, handle, unwind, loaded>>
taskVars == <<rtos, self, phase, outer>>
callVars == <<pc, op>>
vars     == <<objVars, taskVars, callVars>>

ScriptState == {"notStarted", "running", "paused", "stopped"}
Phase == {"entry", "footer", "between", "main", "finish", "park"}
Step  == {"idle", "kill", "killUnwind", "killDelete", "saveState", "markRunning",
          "create", "undo", "freeExec", "pause", "pauseSuspend",
          "restart", "restartResume"}

\* What follows the kill() that a call begins with.
Then == {"idle", "saveState", "freeExec"}

NoCall == [exec |-> NoExec, task |-> NoTask, before |-> "notStarted", then |-> "idle"]

\* Types of the members, of the tasks and of the calls; a saved state is a
\* state, a saved handle a handle.
TypeOK ==
    /\ state  \in [Exec -> ScriptState]
    /\ handle \in [Exec -> Task \cup {NoTask}]
    /\ unwind \in [Exec -> Task \cup {NoTask}]
    /\ loaded \in [Exec -> BOOLEAN]
    /\ rtos   \in [Task -> {"none", "ready", "suspended", "deleted"}]
    /\ self   \in [Task -> Exec \cup {NoExec}]
    /\ phase  \in [Task -> Phase]
    /\ outer  \in [Task -> Task \cup {NoTask}]
    /\ pc     \in [Actor -> Step]
    /\ op     \in [Actor -> [exec : Exec \cup {NoExec}, task : Task \cup {NoTask},
                             before : ScriptState, then : Then]]

Init ==
    /\ state  = [e \in Exec |-> "notStarted"]
    /\ handle = [e \in Exec |-> NoTask]
    /\ unwind = [e \in Exec |-> NoTask]
    /\ loaded = [e \in Exec |-> TRUE]
    /\ rtos   = [t \in Task |-> "none"]
    /\ self   = [t \in Task |-> NoExec]
    /\ phase  = [t \in Task |-> "entry"]
    /\ outer  = [t \in Task |-> NoTask]
    /\ pc     = [a \in Actor |-> "idle"]
    /\ op     = [a \in Actor |-> NoCall]

\* Actor a can take a step: a script task only while FreeRTOS lets it run.
CanRun(a) == a \in Task => rtos[a] = "ready"

\* Task t is inside the compiled script: in its code, or in a host function
\* the script called.
InScript(t) == phase[t] \in {"footer", "main"}

\* The next step of a's call is k; the call is over when k is "idle".
GoTo(a, k) ==
    /\ pc' = [pc EXCEPT ![a] = k]
    /\ op' = IF k = "idle" THEN [op EXCEPT ![a] = NoCall] ELSE op

At(a, k) == pc[a] = k /\ CanRun(a)

-------------------------------------------------------------------------------
(* kill(), and the callers that begin with it: executeAsTask(), free().    *)

\* Mutant: kill() leaves taskHandle as it was.
KillLockKeepsHandle(a) ==
    LET e == op[a].exec
    IN  /\ At(a, "kill")
        /\ IF handle[e] = NoTask
           THEN GoTo(a, op[a].then) /\ UNCHANGED state
           ELSE /\ state' = [state EXCEPT ![e] = "stopped"]
                /\ pc' = [pc EXCEPT ![a] = "killUnwind"]
                /\ op' = [op EXCEPT ![a].task = handle[e]]
        /\ UNCHANGED <<handle, unwind, loaded, taskVars>>

KillLock(a) ==
    LET e == op[a].exec
    IN  /\ At(a, "kill")
        /\ handle' = [handle EXCEPT ![e] = NoTask]
        /\ IF handle[e] = NoTask
           THEN GoTo(a, op[a].then) /\ UNCHANGED state
           ELSE /\ state' = [state EXCEPT ![e] = "stopped"]
                /\ pc' = [pc EXCEPT ![a] = "killUnwind"]
                /\ op' = [op EXCEPT ![a].task = handle[e]]
        /\ UNCHANGED <<unwind, loaded, taskVars>>

\* Mutant: kill() returns before vTaskDelete().
KillUnwindReturns(a) ==
    /\ At(a, "killUnwind")
    /\ unwind' = [unwind EXCEPT ![op[a].exec] = NoTask]
    /\ GoTo(a, op[a].then)
    /\ UNCHANGED <<state, handle, loaded, taskVars>>

KillUnwind(a) ==
    /\ At(a, "killUnwind")
    /\ unwind' = [unwind EXCEPT ![op[a].exec] = NoTask]
    /\ pc' = [pc EXCEPT ![a] = "killDelete"]
    /\ UNCHANGED <<state, handle, loaded, taskVars, op>>

\* Mutant: a paused task is left alone.
KillDeleteReadyOnly(a) ==
    /\ At(a, "killDelete")
    /\ rtos' = IF rtos[op[a].task] = "ready" THEN [rtos EXCEPT ![op[a].task] = "deleted"] ELSE rtos
    /\ GoTo(a, op[a].then)
    /\ UNCHANGED <<objVars, self, phase, outer>>

\* vTaskDelete(): the task's stack goes, and with it whatever call it was
\* making, its own kill() included (it does not return).
KillDelete(a) ==
    LET t == op[a].task
        k == IF t = a THEN "idle" ELSE op[a].then
    IN  /\ At(a, "killDelete")
        /\ rtos' = [rtos EXCEPT ![t] = "deleted"]
        /\ pc' = [pc EXCEPT ![t] = "idle", ![a] = k]
        /\ op' = [op EXCEPT ![t] = NoCall,
                            ![a] = IF k = "idle" THEN NoCall
                                   ELSE [op[a] EXCEPT !.task = NoTask]]
        /\ phase' = [phase EXCEPT ![t] = "entry"]
        /\ outer' = [outer EXCEPT ![t] = NoTask]
        /\ self' = [self EXCEPT ![t] = NoExec]
        /\ UNCHANGED objVars

\* Mutant: the handle is saved in place of the state.
SaveHandle(a) ==
    /\ At(a, "saveState")
    /\ op' = [op EXCEPT ![a].before = handle[op[a].exec]]
    /\ pc' = [pc EXCEPT ![a] = "markRunning"]
    /\ UNCHANGED <<objVars, taskVars>>

\* executeAsTask(), after its kill().
SaveState(a) ==
    /\ At(a, "saveState")
    /\ op' = [op EXCEPT ![a].before = state[op[a].exec]]
    /\ pc' = [pc EXCEPT ![a] = "markRunning"]
    /\ UNCHANGED <<objVars, taskVars>>

MarkRunning(a) ==
    /\ At(a, "markRunning")
    /\ state' = [state EXCEPT ![op[a].exec] = "running"]
    /\ GoTo(a, "create")
    /\ UNCHANGED <<handle, unwind, loaded, taskVars>>

\* xTaskCreatePinnedToCore() stores the handle before the task is ready.
CreateTask(a, t) ==
    LET e == op[a].exec
    IN  /\ At(a, "create")
        /\ rtos[t] = "none"
        /\ handle' = [handle EXCEPT ![e] = t]
        /\ rtos' = [rtos EXCEPT ![t] = "ready"]
        /\ self' = [self EXCEPT ![t] = e]
        /\ GoTo(a, "idle")
        /\ UNCHANGED <<state, unwind, loaded, phase, outer>>

CreateFails(a) ==
    /\ At(a, "create")
    /\ handle' = [handle EXCEPT ![op[a].exec] = NoTask]
    /\ GoTo(a, "undo")
    /\ UNCHANGED <<state, unwind, loaded, taskVars>>

UndoState(a) ==
    /\ At(a, "undo")
    /\ state' = [state EXCEPT ![op[a].exec] = op[a].before]
    /\ GoTo(a, "idle")
    /\ UNCHANGED <<handle, unwind, loaded, taskVars>>

\* free(), after its kill(): freeExecutable().
FreeExec(a) ==
    /\ At(a, "freeExec")
    /\ loaded' = [loaded EXCEPT ![op[a].exec] = FALSE]
    /\ GoTo(a, "idle")
    /\ UNCHANGED <<state, handle, unwind, taskVars>>

-------------------------------------------------------------------------------
(* pause() and restart(): the state changes under the lock, the task is    *)
(* suspended or resumed after it.                                          *)

\* The critical section of both: from `here` to `there`, then the step k.
Switch(a, here, there, k) ==
    LET e == op[a].exec
        applies == state[e] = here
    IN  /\ state' = IF applies THEN [state EXCEPT ![e] = there] ELSE state
        /\ IF applies /\ handle[e] # NoTask
           THEN /\ pc' = [pc EXCEPT ![a] = k]
                /\ op' = [op EXCEPT ![a].task = handle[e]]
           ELSE GoTo(a, "idle")
        /\ UNCHANGED <<handle, unwind, loaded, taskVars>>

PauseLock(a)   == At(a, "pause") /\ Switch(a, "running", "paused", "pauseSuspend")
RestartLock(a) == At(a, "restart") /\ Switch(a, "paused", "running", "restartResume")

\* FreeRTOS moves op[a].task, unless it is gone.
Move(a, there) ==
    LET t == op[a].task
    IN  /\ rtos' = IF rtos[t] = "deleted" THEN rtos ELSE [rtos EXCEPT ![t] = there]
        /\ GoTo(a, "idle")
        /\ UNCHANGED <<objVars, self, phase, outer>>

PauseSuspend(a) == At(a, "pauseSuspend") /\ Move(a, "suspended")

\* Mutant: restart() changes the state and does not resume the task.
RestartForgets(a) ==
    /\ At(a, "restartResume")
    /\ GoTo(a, "idle")
    /\ UNCHANGED <<objVars, taskVars>>

RestartResume(a) == At(a, "restartResume") /\ Move(a, "ready")

-------------------------------------------------------------------------------
(* The calls: a sketch task controls any executable, a script its own.     *)

\* Mutants: free() does not kill; executeAsTask() does not kill.
FirstStepFreeOnly == [executeAsTask |-> "kill", kill |-> "kill", free |-> "freeExec",
                      pause |-> "pause", restart |-> "restart"]
FirstStepNoKill == [executeAsTask |-> "saveState", kill |-> "kill", free |-> "kill",
                    pause |-> "pause", restart |-> "restart"]

FirstStep == [executeAsTask |-> "kill", kill |-> "kill", free |-> "kill",
              pause |-> "pause", restart |-> "restart"]
AfterKill == [executeAsTask |-> "saveState", kill |-> "idle", free |-> "freeExec",
              pause |-> "idle", restart |-> "idle"]

Call(a, e, o) ==
    /\ At(a, "idle")
    /\ pc' = [pc EXCEPT ![a] = FirstStep[o]]
    /\ op' = [op EXCEPT ![a] = [exec |-> e, task |-> NoTask, before |-> "notStarted",
                                then |-> AfterKill[o]]]
    /\ UNCHANGED <<objVars, taskVars>>

SelfCall(t, o) == InScript(t) /\ Call(t, self[t], o)

\* One step of the call actor a is making.
CallStep(a) ==
    \/ KillLock(a) \/ KillUnwind(a) \/ KillDelete(a)
    \/ SaveState(a) \/ MarkRunning(a)
    \/ (\E t \in Task : CreateTask(a, t)) \/ CreateFails(a) \/ UndoState(a)
    \/ FreeExec(a)
    \/ PauseLock(a) \/ PauseSuspend(a)
    \/ RestartLock(a) \/ RestartResume(a)

-------------------------------------------------------------------------------
(* taskMain(): execute(name), that is the footer and then the function,    *)
(* each through enterScript(); then wait to be deleted.                    *)

Runs(t, here, there) ==
    /\ At(t, "idle")
    /\ phase[t] = here
    /\ phase' = [phase EXCEPT ![t] = there]

\* enterScript() arms an unwind point on the task's own stack.
Enter(t, here, there) ==
    /\ Runs(t, here, there)
    /\ loaded[self[t]]
    /\ outer' = [outer EXCEPT ![t] = unwind[self[t]]]
    /\ unwind' = [unwind EXCEPT ![self[t]] = t]
    /\ UNCHANGED <<state, handle, loaded, rtos, self, callVars>>

\* The function, or a safe_mode error in it, comes back to enterScript().
Leave(t, here, there) ==
    /\ Runs(t, here, there)
    /\ unwind' = [unwind EXCEPT ![self[t]] = outer[t]]
    /\ outer' = [outer EXCEPT ![t] = NoTask]
    /\ UNCHANGED <<state, handle, loaded, rtos, self, callVars>>

\* callFunction() finds nothing to call: no footer, or the code is freed.
Skip(t, here, there) ==
    /\ Runs(t, here, there)
    /\ UNCHANGED <<objVars, rtos, self, outer, callVars>>

EnterFooter(t) == Enter(t, "entry", "footer")
SkipFooter(t)  == Skip(t, "entry", "between")
LeaveFooter(t) == Leave(t, "footer", "between")
EnterMain(t)   == Enter(t, "between", "main")
SkipMain(t)    == Skip(t, "between", "finish") /\ ~loaded[self[t]]
LeaveMain(t)   == Leave(t, "main", "finish")

\* The function returned on its own: record it.
Finish(t) ==
    /\ Runs(t, "finish", "park")
    /\ state' = [state EXCEPT ![self[t]] = "stopped"]
    /\ UNCHANGED <<handle, unwind, loaded, rtos, self, outer, callVars>>

\* while (true) vTaskSuspend(NULL)
Park(t) ==
    /\ At(t, "idle")
    /\ phase[t] = "park"
    /\ rtos' = [rtos EXCEPT ![t] = "suspended"]
    /\ UNCHANGED <<objVars, self, phase, outer, callVars>>

TaskStep(t) ==
    \/ EnterFooter(t) \/ SkipFooter(t) \/ LeaveFooter(t)
    \/ EnterMain(t) \/ SkipMain(t) \/ LeaveMain(t)
    \/ Finish(t) \/ Park(t)

-------------------------------------------------------------------------------
SketchCall(a) == \E e \in Exec, o \in Ops : Call(a, e, o)

Next ==
    \/ \E a \in Sketch : SketchCall(a)
    \/ \E t \in Task, o \in SelfOps : SelfCall(t, o)
    \/ \E a \in Actor : CallStep(a)
    \/ \E t \in Task : TaskStep(t)

Spec == Init /\ [][Next]_vars

-------------------------------------------------------------------------------
(* Properties.                                                             *)

Live(t) == rtos[t] \in {"ready", "suspended"}

\* The calls under way on e, and those of them that have taken t to delete it.
CallsOn(e) == {a \in Actor : pc[a] # "idle" /\ op[a].exec = e}
Killing(t) == {a \in Actor : pc[a] \in {"killUnwind", "killDelete"} /\ op[a].task = t}
Owners(t) == {e \in Exec : handle[e] = t} \cup Killing(t)

\* Every task that exists is in the charge of exactly one place that will
\* delete it: its script's taskHandle, or one kill() under way. A task that
\* is gone, or not created yet, is in the charge of none, so that none is
\* deleted twice and none is forgotten.
OneOwner ==
    \A t \in Task :
        IF Live(t) THEN \E x \in Exec \cup Actor : Owners(t) = {x} ELSE Owners(t) = {}

\* state() tells the truth when no call is under way. A script that is not
\* started, or stopped, has no task left in its code; a running one has a
\* task whose function has not returned (it is marked before the task can
\* run, so the mark never overwrites the task's own "stopped"); the task of a
\* paused one does not run.
StoppedIsQuiet(e) == \A t \in Task : Live(t) /\ self[t] = e => phase[t] = "park"
RunningHasTask(e) == handle[e] # NoTask /\ phase[handle[e]] # "park"
PausedIsSuspended(e) == handle[e] # NoTask /\ rtos[handle[e]] = "suspended"

StateIsTrue ==
    \A e \in Exec : CallsOn(e) = {} =>
        /\ state[e] \in {"notStarted", "stopped"} => StoppedIsQuiet(e)
        /\ state[e] = "running" => RunningHasTask(e)
        /\ state[e] = "paused" => PausedIsSuspended(e)

\* free() never takes the code from under a task that will go back to it.
CodeOutlivesRuns ==
    \A t \in Task : Live(t) /\ InScript(t) /\ t \notin Killing(t) => loaded[self[t]]

\* pause() and restart() act on a task that still exists: the task is kept
\* when its function returns "so that no pause()/kill() can be acting on a
\* task that has just disappeared".
SuspendTargetExists ==
    \A a \in Actor : pc[a] \in {"pauseSuspend", "restartResume"} => Live(op[a].task)

\* restart() carries on from where the script stopped: a script that is
\* running, with no call under way, is not left suspended.
RunningIsNotSuspended ==
    \A e \in Exec : state[e] = "running" /\ CallsOn(e) = {} /\ handle[e] # NoTask
        => rtos[handle[e]] = "ready"

\* The runs of script e, as ScriptRuns sees them. A run is over once its
\* task is deleted, has parked, or is past the point of no return of a
\* kill() of its own.
LifeOf(t) ==
    IF rtos[t] = "none" THEN "none"
    ELSE IF rtos[t] = "deleted" \/ phase[t] = "park" \/ t \in Killing(t) THEN "over"
    ELSE IF rtos[t] = "suspended" THEN "paused" ELSE "running"

Runs1 == INSTANCE ScriptRuns WITH Run <- Task, life <- [t \in Task |-> LifeOf(t)]

\* With one executable, every step of ScriptTask is a step of ScriptRuns, or
\* none: the code starts, pauses, resumes and ends the runs of a script one
\* at a time, whatever the order of the steps of its calls.
ImplementsScriptRuns == Runs1!Spec
===============================================================================
