--------------------------- MODULE ScriptStateProofs ---------------------------
(***************************************************************************)
(* What a ScriptExecutable promises its caller, for any number of          *)
(* executables and tasks, when one sketch task at a time controls the      *)
(* scripts (OneController) and the scripts may control themselves:         *)
(*   - the steps of ScriptTask implement ScriptRuns: the runs of a script  *)
(*     start, pause, resume and end one at a time;                         *)
(*   - free() takes no code from under a task that will go back to it;     *)
(*   - state() tells the truth when no call is under way;                  *)
(*   - pause() and restart() act on a task that exists, if no script kills *)
(*     itself, and leave no running script suspended, if no script pauses  *)
(*     or restarts itself.                                                 *)
(***************************************************************************)
EXTENDS ScriptTaskProofs

USE TaskAssumption DEF Actor

\* A step of a's call leaves the calls of the others alone, unless it deletes
\* the task that makes one.
LEMMA OthersWait ==
    ASSUME Typed, NEW a \in Actor, CallStep(a), pc[a] # "killDelete"
    PROVE  \A b \in Actor : b # a => pc'[b] = pc[b] /\ op'[b] = op[b]
<1> USE DEF Typed
<1>0. \A k \in Step : GoTo(a, k) => \A b \in Actor : b # a => pc'[b] = pc[b] /\ op'[b] = op[b]
    BY GoToTyped
<1>1. CASE KillLock(a)
  <2>1. CASE handle[op[a].exec] = NoTask
      BY <1>0, <1>1, <2>1 DEF KillLock, TypeOK, Then, Step
  <2>2. CASE handle[op[a].exec] # NoTask
      BY <1>1, <2>2 DEF KillLock, TypeOK
  <2>3. QED BY <2>1, <2>2
<1>2. CASE KillUnwind(a)
    BY <1>2 DEF KillUnwind, TypeOK
<1>3. CASE SaveState(a)
    BY <1>3 DEF SaveState, TypeOK
<1>4. CASE \/ MarkRunning(a) \/ (\E t \in Task : CreateTask(a, t)) \/ CreateFails(a) \/ UndoState(a) \/ FreeExec(a)
           \/ PauseSuspend(a) \/ RestartResume(a)
    BY <1>0, <1>4 DEF MarkRunning, CreateTask, CreateFails, UndoState, FreeExec, PauseSuspend, RestartResume,
                      Move, Step
<1>5. ASSUME NEW here, NEW there, NEW k, Switch(a, here, there, k)
      PROVE  \A b \in Actor : b # a => pc'[b] = pc[b] /\ op'[b] = op[b]
  <2>1. CASE state[op[a].exec] = here /\ handle[op[a].exec] # NoTask
      BY <1>5, <2>1 DEF Switch, TypeOK
  <2>2. CASE ~(state[op[a].exec] = here /\ handle[op[a].exec] # NoTask)
      BY <1>0, <1>5, <2>2 DEF Switch, Step
  <2>3. QED BY <2>1, <2>2
<1>6. QED BY <1>1, <1>2, <1>3, <1>4, <1>5 DEF CallStep, KillDelete, PauseLock, RestartLock, At
-------------------------------------------------------------------------------
(* The runs.                                                               *)

\* There is one executable: ScriptRuns is about the runs of one script.
OneScript == \A e, f \in Exec : e = f

Lives == [t \in Task |-> LifeOf(t)]

\* The life of a task depends on FreeRTOS, on taskMain() and on a kill() of
\* its own.
LEMMA SameLife ==
    ASSUME NEW t \in Task, rtos'[t] = rtos[t], phase'[t] = phase[t], Kills(t, t)' <=> Kills(t, t)
    PROVE  LifeOf(t)' = LifeOf(t)
BY DEF LifeOf, Killing, Kills, KillSteps

\* The steps of one task that ScriptRuns has a name for.
Begins(t) == LifeOf(t) = "none" /\ LifeOf(t)' = "running" /\ \A q \in Task : LifeOf(q) \notin {"running", "paused"}
Stops(t)  == LifeOf(t) = "running" /\ LifeOf(t)' = "paused"
Resumes(t) == LifeOf(t) = "paused" /\ LifeOf(t)' = "running"
Ends(t) == LifeOf(t) \in {"running", "paused"} /\ LifeOf(t)' = "over"

LEMMA OneLifeMoves ==
    ASSUME NEW t \in Task, \A x \in Task : x # t => LifeOf(x)' = LifeOf(x),
           LifeOf(t)' = LifeOf(t) \/ Begins(t) \/ Stops(t) \/ Resumes(t) \/ Ends(t)
    PROVE  [Runs1!Next]_Lives
<1> DEFINE Moves(s) == Lives' = [Lives EXCEPT ![t] = s]
<1>1. ASSUME LifeOf(t)' = LifeOf(t) PROVE UNCHANGED Lives
    BY <1>1 DEF Lives
<1>2. ASSUME NEW s, LifeOf(t)' = s PROVE Moves(s)
    BY <1>2 DEF Lives
<1>3. CASE Begins(t)
    BY <1>2, <1>3 DEF Begins, Runs1!Next, Runs1!Start, Runs1!Current, Lives
<1>4. CASE Stops(t)
    BY <1>2, <1>4 DEF Stops, Runs1!Next, Runs1!Pause, Lives
<1>5. CASE Resumes(t)
    BY <1>2, <1>5 DEF Resumes, Runs1!Next, Runs1!Restart, Lives
<1>6. CASE Ends(t)
    BY <1>2, <1>6 DEF Ends, Runs1!Next, Runs1!End, Runs1!Current, Lives
<1>7. QED BY <1>1, <1>3, <1>4, <1>5, <1>6

\* A step that leaves FreeRTOS, taskMain() and every kill() where they are.
LEMMA NoLifeMoves ==
    ASSUME UNCHANGED <<rtos, phase>>, \A t \in Task : Kills(t, t)' <=> Kills(t, t)
    PROVE  UNCHANGED Lives
<1>1. \A t \in Task : LifeOf(t)' = LifeOf(t)
    BY SameLife
<1>2. QED BY <1>1 DEF Lives

\* The same, of a step of a's call that neither begins nor ends a kill().
LEMMA CallMovesNoLife ==
    ASSUME UNCHANGED <<rtos, phase>>, NEW a \in Actor,
           pc[a] \notin KillSteps, pc'[a] \notin KillSteps,
           \A b \in Actor : b # a => pc'[b] = pc[b] /\ op'[b] = op[b]
    PROVE  UNCHANGED Lives
<1>1. \A t \in Task : Kills(t, t)' <=> Kills(t, t)
    BY DEF Kills
<1>2. QED BY <1>1, NoLifeMoves

\* A task that is not created is at the start of taskMain().
Fresh == \A t \in Task : rtos[t] = "none" => phase[t] = "entry"

\* The task that kill() takes ends its run at once if it is the script's own
\* call: it does not go back to its code.
LEMMA KillLockLife ==
    ASSUME Ownership, NEW a \in Actor, KillLock(a)
    PROVE  [Runs1!Next]_Lives
<1> USE DEF Ownership, Typed
<1>0. /\ pc[a] = "kill" /\ UNCHANGED <<rtos, phase>> /\ CanRun(a)
      /\ op[a].then \in Step /\ op[a].then \notin KillSteps
    BY DEF KillLock, At, TypeOK, Then, Step, KillSteps, taskVars
<1>1. CASE handle[op[a].exec] = NoTask
  <2>1. GoTo(a, op[a].then)
      BY <1>1 DEF KillLock
  <2>2. /\ pc'[a] = op[a].then
        /\ \A b \in Actor : b # a => pc'[b] = pc[b] /\ op'[b] = op[b]
      BY <1>0, <2>1, GoToTyped
  <2>3. UNCHANGED Lives
      BY <1>0, <2>2, CallMovesNoLife DEF KillSteps
  <2>4. QED BY <2>3
<1>2. CASE handle[op[a].exec] # NoTask
  <2>1. /\ op' = [op EXCEPT ![a].task = handle[op[a].exec]]
        /\ pc' = [pc EXCEPT ![a] = "killUnwind"]
      BY <1>2 DEF KillLock
  <2>2. \A b \in Actor : b # a => pc'[b] = pc[b] /\ op'[b] = op[b]
      BY <2>1 DEF TypeOK
  <2>3. CASE a \in Task
    <3>1. \A x \in Task : x # a => LifeOf(x)' = LifeOf(x)
        BY <1>0, <2>2, SameLife DEF Kills
    <3>2. rtos[a] = "ready" /\ ~Kills(a, a)
        BY <1>0, <2>3 DEF CanRun, Kills, KillSteps
    <3>3. LifeOf(a)' = LifeOf(a) \/ LifeOf(a)' = "over"
        BY <1>0, <3>2 DEF LifeOf, Killing
    <3>4. LifeOf(a) \in {"running", "over"}
        BY <3>2 DEF LifeOf
    <3>5. QED BY <2>3, <3>1, <3>3, <3>4, OneLifeMoves DEF Ends
  <2>4. CASE a \notin Task
    <3>1. \A t \in Task : Kills(t, t)' <=> Kills(t, t)
        BY <2>2, <2>4 DEF Kills
    <3>2. UNCHANGED Lives
        BY <1>0, <3>1, NoLifeMoves
    <3>3. QED BY <3>2
  <2>5. QED BY <2>3, <2>4
<1>3. QED BY <1>1, <1>2

\* vTaskDelete() ends the run, unless it had ended before.
LEMMA KillDeleteLife ==
    ASSUME Ownership, NEW a \in Actor, KillDelete(a)
    PROVE  [Runs1!Next]_Lives
<1> USE DEF Ownership, Typed
<1>a. PICK t \in Task : t = op[a].task
    BY DEF KillDelete, At, Wired, CallWired, OnTask
<1>0. /\ pc[a] \in KillSteps /\ Live(t) /\ (a \in Task => a = t)
    BY <1>a DEF KillDelete, At, Taken, KillSteps
<1>1. /\ rtos'[t] = "deleted"
      /\ \A x \in Task : x # t => rtos'[x] = rtos[x] /\ phase'[x] = phase[x]
      /\ \A x \in Task : x # t /\ x # a => pc'[x] = pc[x] /\ op'[x] = op[x]
    BY <1>a DEF KillDelete, TypeOK
<1>2. \A x \in Task : x # t => LifeOf(x)' = LifeOf(x)
    BY <1>0, <1>1, SameLife DEF Kills
<1>3. LifeOf(t)' = "over" /\ LifeOf(t) \in {"running", "paused", "over"}
    BY <1>0, <1>1 DEF LifeOf, Live
<1>4. QED BY <1>2, <1>3, OneLifeMoves DEF Ends

\* xTaskCreatePinnedToCore() starts a run; no other one is under way.
LEMMA CreateLife ==
    ASSUME OneController, OneScript, Ownership, Fresh, NEW a \in Actor, NEW t \in Task, CreateTask(a, t)
    PROVE  [Runs1!Next]_Lives
<1> USE DEF Ownership, Typed
<1>0. /\ pc[a] = "create" /\ op[a].exec \in Exec /\ a \in Sketch /\ handle[op[a].exec] = NoTask
      /\ rtos[t] = "none" /\ phase[t] = "entry"
    BY DEF CreateTask, At, Wired, CallWired, ScriptCall, SelfSteps, SketchHolds, AfterLock, Fresh
<1>1. /\ rtos'[t] = "ready" /\ UNCHANGED phase
      /\ \A x \in Task : x # t => rtos'[x] = rtos[x]
      /\ \A b \in Actor : b # a => pc'[b] = pc[b] /\ op'[b] = op[b]
    BY GoToTyped DEF CreateTask, TypeOK, Step
<1>2. \A x \in Task : x # t => LifeOf(x)' = LifeOf(x)
    BY <1>0, <1>1, SameLife DEF Kills
<1>3. LifeOf(t) = "none"
    BY <1>0 DEF LifeOf
<1>4. ~Kills(t, t)' /\ LifeOf(t)' = "running"
    <2>1. ~Kills(t, t)
      BY <1>0 DEF Kills, Taken, Live
    <2>2. pc[t] \notin KillSteps
      BY <1>0 DEF ScriptCall, Live, KillSteps
    <2>3. pc'[t] \notin KillSteps
      BY <2>2, <1>0, <1>1
    <2>4. QED BY <2>3, <1>0, <1>1 DEF LifeOf, Killing, Kills, KillSteps
<1>5. ASSUME NEW q \in Task PROVE LifeOf(q) \notin {"running", "paused"}
    <2>1. CASE ~Live(q)
      BY <2>1 DEF LifeOf, Live, TypeOK
    <2>2. CASE Live(q)
      <3>1. self[q] = op[a].exec
        BY <2>2, <1>0 DEF OneScript, Wired, SelfWired
      <3>2. PICK b \in Actor : Kills(b, q)
        BY <2>2, <3>1, <1>0 DEF Owned
      <3>3. b \in Task
        BY <3>2, <1>0 DEF Kills, KillSteps, OneController
      <3>4. b = q
        BY <3>2, <3>3 DEF Kills, Taken
      <3>5. QED BY <2>2, <3>2, <3>4 DEF LifeOf, Killing, Kills, KillSteps, Live
    <2>3. QED BY <2>1, <2>2
<1>6. QED BY <1>2, <1>3, <1>4, <1>5, OneLifeMoves DEF Begins

\* vTaskSuspend() and vTaskResume() pause and resume the run, unless it is
\* over, or the task was suspended, or ready, before.
LEMMA MoveLife ==
    ASSUME Ownership, NEW a \in Actor, NEW there \in {"suspended", "ready"},
           pc[a] \in {"pauseSuspend", "restartResume"}, Move(a, there)
    PROVE  [Runs1!Next]_Lives
<1> USE DEF Ownership, Typed
<1>a. PICK t \in Task : t = op[a].task
    BY DEF Wired, CallWired, OnTask
<1>0. rtos[t] # "none"
    BY <1>a DEF Wired, CallWired, OnTask
<1>1. /\ UNCHANGED phase /\ pc'[a] = "idle"
      /\ \A b \in Actor : b # a => pc'[b] = pc[b] /\ op'[b] = op[b]
    BY GoToTyped DEF Move, Step
<1>2. /\ \A x \in Task : x # t => rtos'[x] = rtos[x]
      /\ rtos'[t] \in {rtos[t], there} /\ (rtos'[t] = "deleted" <=> rtos[t] = "deleted") 
    BY <1>a DEF Move, TypeOK
<1>3. \A x \in Task : Kills(x, x)' <=> Kills(x, x)
    BY <1>1 DEF Kills, KillSteps
<1>4. \A x \in Task : x # t => LifeOf(x)' = LifeOf(x)
    BY <1>1, <1>2, <1>3, SameLife
<1>5. t \in Killing(t) <=> Kills(t, t)
    BY DEF Killing, Kills, KillSteps
<1>6. (t \in Killing(t))' <=> Kills(t, t)'
    BY DEF Killing, Kills, KillSteps
<1>7. \/ LifeOf(t)' = LifeOf(t)
      \/ LifeOf(t) \in {"running", "paused"} /\ LifeOf(t)' \in {"running", "paused"}
    BY <1>0, <1>1, <1>2, <1>3, <1>5, <1>6 DEF LifeOf, TypeOK
<1>8. QED BY <1>4, <1>7, OneLifeMoves DEF Stops, Resumes

LEMMA CallStepLife ==
    ASSUME OneController, OneScript, Ownership, Fresh, NEW a \in Actor, CallStep(a)
    PROVE  [Runs1!Next]_Lives
<1> USE DEF At
<1>0. \A k \in Step : GoTo(a, k) => /\ pc'[a] = k
                                    /\ \A b \in Actor : b # a => pc'[b] = pc[b] /\ op'[b] = op[b]
    BY GoToTyped DEF Ownership
<1>1. CASE KillLock(a)
    BY <1>1, KillLockLife
<1>2. CASE KillUnwind(a)
  <2>1. \A t \in Task : Kills(t, t)' <=> Kills(t, t)
    BY <1>2 DEF KillUnwind, Kills, KillSteps, Ownership, Typed, TypeOK
  <2>2. UNCHANGED Lives
    BY <1>2, <2>1, NoLifeMoves DEF KillUnwind, taskVars
  <2>3. QED BY <2>2
<1>3. CASE KillDelete(a)
    BY <1>3, KillDeleteLife
<1>4. CASE SaveState(a)
  <2>1. /\ pc[a] = "saveState" /\ pc'[a] = "markRunning" /\ UNCHANGED <<rtos, phase>>
        /\ \A b \in Actor : b # a => pc'[b] = pc[b] /\ op'[b] = op[b]
    BY <1>4 DEF SaveState, Ownership, Typed, TypeOK, taskVars
  <2>2. UNCHANGED Lives
    BY <2>1, CallMovesNoLife DEF KillSteps
  <2>3. QED BY <2>2
<1>5. CASE MarkRunning(a) \/ CreateFails(a) \/ UndoState(a) \/ FreeExec(a)
  <2>1. UNCHANGED <<rtos, phase>> /\ pc[a] \notin KillSteps /\ \E k \in Step \ KillSteps : GoTo(a, k)
    BY <1>5 DEF MarkRunning, CreateFails, UndoState, FreeExec, taskVars, Step, KillSteps
  <2>2. UNCHANGED Lives
    BY <1>0, <2>1, CallMovesNoLife
  <2>3. QED BY <2>2
<1>6. CASE \E t \in Task : CreateTask(a, t)
    BY <1>6, CreateLife
<1>7. CASE PauseLock(a) \/ RestartLock(a)
  <2>1. /\ UNCHANGED <<rtos, phase>> /\ pc[a] \notin KillSteps
        /\ \/ GoTo(a, "idle")
           \/ /\ \E k \in {"pauseSuspend", "restartResume"} : pc' = [pc EXCEPT ![a] = k]
              /\ op' = [op EXCEPT ![a].task = handle[op[a].exec]]
    BY <1>7 DEF PauseLock, RestartLock, Switch, taskVars, KillSteps
  <2>2. /\ pc'[a] \notin KillSteps
        /\ \A b \in Actor : b # a => pc'[b] = pc[b] /\ op'[b] = op[b]
    <3>1. CASE GoTo(a, "idle")
      BY <3>1, <1>0 DEF Step, KillSteps
    <3>2. CASE /\ \E k \in {"pauseSuspend", "restartResume"} : pc' = [pc EXCEPT ![a] = k]
               /\ op' = [op EXCEPT ![a].task = handle[op[a].exec]]
      BY <3>2 DEF KillSteps, Ownership, Typed, TypeOK
    <3>3. QED BY <2>1, <3>1, <3>2
  <2>3. UNCHANGED Lives
    BY <2>1, <2>2, CallMovesNoLife
  <2>4. QED BY <2>3
<1>8. CASE PauseSuspend(a) \/ RestartResume(a)
    BY <1>8, MoveLife DEF PauseSuspend, RestartResume
<1>9. QED BY <1>1, <1>2, <1>3, <1>4, <1>5, <1>6, <1>7, <1>8 DEF CallStep

\* taskMain() ends the run when it records that the function returned; that
\* task then waits to be deleted and is not run again.
LEMMA TaskStepLife ==
    ASSUME Ownership, NEW t \in Task, TaskStep(t)
    PROVE  [Runs1!Next]_Lives
<1> USE DEF Ownership, Typed
<1>0. /\ pc[t] = "idle" /\ rtos[t] = "ready" /\ UNCHANGED <<pc, op>>
      /\ \A x \in Task : x # t => rtos'[x] = rtos[x] /\ phase'[x] = phase[x]
    BY DEF TaskStep, EnterFooter, SkipFooter, LeaveFooter, EnterMain, SkipMain, LeaveMain, Finish, Park,
           Enter, Leave, Skip, Runs, At, CanRun, TypeOK, objVars, callVars
<1>1. \/ rtos'[t] = "ready" /\ phase[t] # "park"
      \/ rtos'[t] = "suspended" /\ phase'[t] = phase[t] /\ phase[t] = "park"
    BY <1>0 DEF TaskStep, EnterFooter, SkipFooter, LeaveFooter, EnterMain, SkipMain, LeaveMain, Finish, Park,
           Enter, Leave, Skip, Runs, At, CanRun, TypeOK, objVars, callVars
<1>2. \A x \in Task : Kills(x, x)' <=> Kills(x, x)
    BY <1>0 DEF Kills
<1>3. \A x \in Task : x # t => LifeOf(x)' = LifeOf(x)
    BY <1>0, <1>2, SameLife
<1>4. LifeOf(t)' = LifeOf(t) \/ Ends(t)
  <2>1. t \notin Killing(t) /\ (t \notin Killing(t))'
    BY <1>0 DEF Killing
  <2>2. QED BY <2>1, <1>0, <1>1 DEF LifeOf, Ends
<1>5. QED BY <1>3, <1>4, OneLifeMoves

LEMMA CallFresh ==
    ASSUME Ownership, Fresh, NEW a \in Actor, CallStep(a)
    PROVE  Fresh'
<1>1. pc[a] \in OnTask => op[a].task \in Task /\ rtos[op[a].task] # "none"
    BY DEF Ownership, Typed, Wired, CallWired
<1>2. UNCHANGED <<rtos, phase>> \/ KillDelete(a) \/ (\E t \in Task : CreateTask(a, t)) \/ PauseSuspend(a) \/ RestartResume(a)
    BY DEF CallStep, KillLock, KillUnwind, SaveState, MarkRunning, CreateFails, UndoState, FreeExec,
           PauseLock, RestartLock, Switch, taskVars
<1>3. QED BY <1>1, <1>2 DEF Fresh, Ownership, Typed, TypeOK, KillDelete, CreateTask, PauseSuspend, RestartResume,
                            Move, At, OnTask

LEMMA NextFresh == Ownership /\ Fresh /\ [Next]_vars => Fresh'
<1> SUFFICES ASSUME Ownership, Fresh, [Next]_vars PROVE Fresh'
    OBVIOUS
<1>1. CASE \E a \in Actor : CallStep(a)
    BY <1>1, CallFresh
<1>2. CASE \E t \in Task : TaskStep(t)
    BY <1>2 DEF Fresh, Ownership, Typed, TypeOK, TaskStep, EnterFooter, SkipFooter, LeaveFooter, EnterMain,
                SkipMain, LeaveMain, Finish, Park, Enter, Leave, Skip, Runs, At, CanRun, objVars
<1>3. CASE UNCHANGED <<rtos, phase>>
    BY <1>3 DEF Fresh
<1>4. QED BY <1>1, <1>2, <1>3 DEF Next, SketchCall, SelfCall, Call, vars, taskVars

LEMMA NextLife == OneController /\ OneScript /\ Ownership /\ Fresh /\ [Next]_vars => [Runs1!Next]_Lives
<1> SUFFICES ASSUME OneController, OneScript, Ownership, Fresh, [Next]_vars PROVE [Runs1!Next]_Lives
    OBVIOUS
<1>1. CASE \E a \in Actor : CallStep(a)
    BY <1>1, CallStepLife
<1>2. CASE \E t \in Task : TaskStep(t)
    BY <1>2, TaskStepLife
<1>3. ASSUME NEW a \in Actor, NEW e, NEW o \in Ops, Call(a, e, o) PROVE [Runs1!Next]_Lives
  <2>1. /\ pc[a] = "idle" /\ pc'[a] \in {"kill", "pause", "restart"} /\ UNCHANGED <<rtos, phase>>
        /\ \A b \in Actor : b # a => pc'[b] = pc[b] /\ op'[b] = op[b]
    BY <1>3 DEF Call, At, Ops, FirstStep, Ownership, Typed, TypeOK, taskVars
  <2>2. UNCHANGED Lives
    BY <2>1, CallMovesNoLife DEF KillSteps
  <2>3. QED BY <2>2
<1>4. CASE UNCHANGED vars
  <2>1. UNCHANGED Lives
    BY <1>4, NoLifeMoves DEF vars, taskVars, callVars, Kills
  <2>2. QED BY <2>1
<1>5. SelfOps \subseteq Ops
    BY DEF Ops
<1>6. QED BY <1>1, <1>2, <1>3, <1>4, <1>5 DEF Next, SketchCall, SelfCall

\* With one sketch task controlling one script, the calls start, pause, resume
\* and end its runs one at a time, whatever the order of their steps.
THEOREM ImplementsRuns == ASSUME OneController, OneScript PROVE Spec => ImplementsScriptRuns
<1>1. Init => Runs1!Init
  <2>1. Init => \A t \in Task : LifeOf(t) = "none"
    BY DEF Init, LifeOf
  <2>2. QED BY <2>1 DEF Runs1!Init
<1>2. Init => Fresh
    BY DEF Init, Fresh
<1>3. Ownership /\ Fresh /\ [Next]_vars => [Runs1!Next]_([t \in Task |-> LifeOf(t)])
    BY NextLife DEF Lives
<1>4. QED BY <1>1, <1>2, <1>3, InitOwnership, NextOwned, NextFresh, PTL DEF Spec, ImplementsScriptRuns, Runs1!Spec

\* So two tasks of one script are never both in its life at once.
THEOREM RunsOneAtATime == ASSUME OneController, OneScript PROVE Spec => [](Runs1!OneRun)
<1>1. Runs1!Spec => [](Runs1!TypeOK /\ Runs1!OneRun)
    BY Runs1!Sequential
<1>2. QED BY <1>1, ImplementsRuns, PTL DEF ImplementsScriptRuns
-------------------------------------------------------------------------------
(* free(): the code goes when the script has no task left, but one that is *)
(* past the lock of its own kill() and does not go back to the code.       *)

\* A task that is not killing itself is in the charge of its handle, or of a
\* kill() of the sketch, which has emptied the handle.
LEMMA Whose ==
    ASSUME Ownership, NEW t \in Task, Live(t), pc[t] \notin KillSteps
    PROVE  /\ self[t] \in Exec
           /\ \/ handle[self[t]] = t
              \/ handle[self[t]] = NoTask /\ \E s \in Sketch : Kills(s, t) /\ op[s].exec = self[t]
<1> USE DEF Ownership
<1>1. self[t] \in Exec
    BY DEF Typed, Wired, SelfWired
<1>2. CASE \E b \in Actor : Kills(b, t)
  <2>1. PICK b \in Actor : Kills(b, t)
      BY <1>2
  <2>2. b \in Sketch /\ pc[b] \in AfterLock /\ op[b].exec = self[t]
      BY <2>1 DEF Kills, KillSteps, Taken, AfterLock
  <2>3. handle[self[t]] = NoTask
      BY <2>2 DEF SketchHolds
  <2>4. QED BY <1>1, <2>1, <2>2, <2>3
<1>3. QED BY <1>1, <1>2 DEF Owned

CodeKept(t) == Live(t) /\ InScript(t) /\ ~Kills(t, t) => loaded[self[t]]

LEMMA CallStepKeepsCode ==
    ASSUME OneController, Ownership, Fresh, \A t \in Task : CodeKept(t),
           NEW a \in Actor, CallStep(a), NEW t \in Task
    PROVE  CodeKept(t)'
<1> USE DEF Ownership, Typed, At
<1>0. \A k \in Step : GoTo(a, k) => \A b \in Actor : b # a => pc'[b] = pc[b] /\ op'[b] = op[b]
    BY GoToTyped
<1>1. CASE FreeExec(a)
  <2> SUFFICES ASSUME Live(t)', InScript(t)', ~Kills(t, t)' PROVE loaded'[self'[t]]
      BY DEF CodeKept
  <2>1. /\ pc[a] = "freeExec" /\ op[a].exec \in Exec /\ a \in Sketch
        /\ UNCHANGED taskVars /\ loaded' = [loaded EXCEPT ![op[a].exec] = FALSE]
      BY <1>1 DEF FreeExec, Wired, CallWired, ScriptCall, SelfSteps
  <2>2. \A b \in Actor : b # a => pc'[b] = pc[b] /\ op'[b] = op[b]
      BY <1>0, <1>1 DEF FreeExec, Step
  <2>3. Live(t) /\ InScript(t) /\ ~Kills(t, t) /\ loaded[self[t]] /\ self'[t] = self[t]
      BY <2>1, <2>2 DEF CodeKept, Live, InScript, Kills, taskVars
  <2>4. pc[t] \notin KillSteps
      BY <2>3 DEF Kills, Taken
  <2>5. self[t] # op[a].exec
      <3>1. \A s \in Sketch : s = a
        BY <2>1 DEF OneController
      <3>2. CASE handle[self[t]] = t
        BY <2>1, <3>2 DEF SketchHolds, AfterLock
      <3>3. CASE \E s \in Sketch : Kills(s, t)
        BY <2>1, <3>1, <3>3 DEF Kills, KillSteps
      <3>4. QED BY <2>3, <2>4, <3>2, <3>3, Whose
  <2>6. QED BY <2>1, <2>3, <2>5, Whose, <2>4 DEF TypeOK
<1>2. CASE KillDelete(a)
  <2>a. PICK x \in Task : x = op[a].task
      BY <1>2 DEF KillDelete, Wired, CallWired, OnTask
  <2>1. /\ rtos'[x] = "deleted" /\ (a \in Task => a = x)
        /\ \A y \in Task : y # x => rtos'[y] = rtos[y] /\ phase'[y] = phase[y] /\ self'[y] = self[y]
        /\ \A y \in Task : y # x /\ y # a => pc'[y] = pc[y] /\ op'[y] = op[y]
        /\ loaded' = loaded
      BY <1>2, <2>a DEF KillDelete, TypeOK, Taken, KillSteps, objVars
  <2>2. QED BY <2>1 DEF CodeKept, Live, InScript, Kills
<1>3. CASE \E x \in Task : CreateTask(a, x)
  <2>1. PICK x \in Task : CreateTask(a, x)
      BY <1>3
  <2>2. /\ pc[a] = "create" /\ a \notin Task /\ rtos[x] = "none" /\ UNCHANGED <<phase, loaded>>
        /\ \A y \in Task : y # x => rtos'[y] = rtos[y] /\ self'[y] = self[y]
      BY <2>1 DEF CreateTask, TypeOK, ScriptCall, SelfSteps
  <2>0. phase[x] = "entry"
      BY <2>2 DEF Fresh
  <2>3. \A b \in Actor : b # a => pc'[b] = pc[b] /\ op'[b] = op[b]
      BY <1>0, <2>1 DEF CreateTask, Step
  <2>4. CASE t = x
      BY <2>0, <2>2, <2>4 DEF CodeKept, InScript
  <2>5. CASE t # x
      BY <2>2, <2>3, <2>5 DEF CodeKept, Live, InScript, Kills
  <2>6. QED BY <2>4, <2>5
<1>4. CASE KillUnwind(a)
    BY <1>4 DEF KillUnwind, CodeKept, Live, InScript, Kills, KillSteps, TypeOK, taskVars
<1>5. ASSUME UNCHANGED <<phase, self, loaded>>, pc[a] \notin KillSteps, \A x \in Task : Live(x)' => Live(x),
             \A b \in Actor : b # a => pc'[b] = pc[b] /\ op'[b] = op[b]
      PROVE  CodeKept(t)'
    BY <1>5 DEF CodeKept, InScript, Kills
<1>6. CASE \/ KillLock(a) \/ SaveState(a) \/ MarkRunning(a) \/ CreateFails(a) \/ UndoState(a)
           \/ PauseLock(a) \/ RestartLock(a)
  <2>1. /\ UNCHANGED <<phase, self, loaded>> /\ pc[a] \notin KillSteps /\ (\A x \in Task : Live(x)' => Live(x))
      BY <1>6 DEF KillLock, SaveState, MarkRunning, CreateFails, UndoState, PauseLock, RestartLock, Switch,
                  Live, KillSteps, objVars, taskVars
  <2>3. \A b \in Actor : b # a => pc'[b] = pc[b] /\ op'[b] = op[b]
      BY <1>6, OthersWait DEF KillLock, SaveState, MarkRunning, CreateFails, UndoState, PauseLock, RestartLock,
                              CallStep
  <2>4. QED BY <1>5, <2>1, <2>3
<1>7. CASE PauseSuspend(a) \/ RestartResume(a)
  <2>1. /\ UNCHANGED <<phase, self, loaded>> /\ pc[a] \notin KillSteps /\ GoTo(a, "idle")
        /\ \A x \in Task : Live(x)' => Live(x)
      BY <1>7 DEF PauseSuspend, RestartResume, Move, Live, KillSteps, TypeOK, objVars, Wired, CallWired, OnTask
  <2>2. QED BY <1>0, <1>5, <2>1 DEF Step
<1>8. QED BY <1>1, <1>2, <1>3, <1>4, <1>6, <1>7 DEF CallStep

LEMMA NextKeepsCode ==
    OneController /\ Ownership /\ Fresh /\ (\A t \in Task : CodeKept(t)) /\ [Next]_vars
        => (\A t \in Task : CodeKept(t))'
<1> SUFFICES ASSUME OneController, Ownership, Fresh, \A t \in Task : CodeKept(t), [Next]_vars, NEW t \in Task
             PROVE  CodeKept(t)'
    OBVIOUS
<1> USE DEF Ownership, Typed
<1>1. CASE \E a \in Actor : CallStep(a)
    BY <1>1, CallStepKeepsCode
<1>2. ASSUME NEW x \in Task, TaskStep(x) PROVE CodeKept(t)'
  <2>1. /\ UNCHANGED <<pc, op, loaded, self>> /\ rtos[x] = "ready"
        /\ \A y \in Task : y # x => rtos'[y] = rtos[y] /\ phase'[y] = phase[y]
        /\ phase'[x] \in {"footer", "main"} => loaded[self[x]]
      BY <1>2 DEF TaskStep, EnterFooter, SkipFooter, LeaveFooter, EnterMain, SkipMain, LeaveMain, Finish, Park,
                  Enter, Leave, Skip, Runs, At, CanRun, TypeOK, objVars, callVars, CodeKept, InScript, Live
  <2>2. QED BY <2>1 DEF CodeKept, Live, InScript, Kills
<1>3. ASSUME NEW a \in Actor, NEW e, NEW o \in Ops, Call(a, e, o) PROVE CodeKept(t)'
    BY <1>3 DEF Call, At, CodeKept, Live, InScript, Kills, KillSteps, TypeOK, objVars, taskVars
<1>4. CASE UNCHANGED vars
    BY <1>4 DEF vars, objVars, taskVars, callVars, CodeKept, Live, InScript, Kills
<1>5. SelfOps \subseteq Ops
    BY DEF Ops
<1>6. QED BY <1>1, <1>2, <1>3, <1>4, <1>5 DEF Next, SketchCall, SelfCall

\* free() never takes the code from under a task that will go back to it.
THEOREM CodeStays == ASSUME OneController PROVE Spec => []CodeOutlivesRuns
<1>1. Init => Fresh /\ \A t \in Task : CodeKept(t)
    BY DEF Init, Fresh, CodeKept, Live
<1>2. Ownership /\ (\A t \in Task : CodeKept(t)) => CodeOutlivesRuns
    BY DEF CodeOutlivesRuns, CodeKept, Killing, Kills, KillSteps
<1>3. QED BY <1>1, <1>2, InitOwnership, NextOwned, NextFresh, NextKeepsCode, PTL DEF Spec
-------------------------------------------------------------------------------
(* state().                                                                *)

Over == {"notStarted", "stopped"}
Moving == {"pauseSuspend", "restartResume"}
Marking == {"create", "undo"}

\* The task of the handle has finished when the state says so, and only then.
Marked(e) == handle[e] # NoTask => (state[e] \in Over <=> phase[handle[e]] = "park")
\* Without a task, an executable is over, or executeAsTask() has marked it and
\* is about to create the task.
Starting(s, e) == pc[s] \in Marking /\ op[s].exec = e
Unstarted(e) ==
    handle[e] = NoTask => \/ state[e] \in Over
                          \/ state[e] = "running" /\ \E s \in Sketch : Starting(s, e)
\* The task of a paused executable is suspended, or a call is about to.
Pausing(s, e) == pc[s] = "pauseSuspend" /\ op[s].exec = e
Suspending(e) ==
    state[e] = "paused" => \/ rtos[handle[e]] = "suspended"
                           \/ pc[handle[e]] = "pauseSuspend"
                           \/ \E s \in Sketch : Pausing(s, e)
\* A script moves its own task; the sketch moves that of the handle, unless
\* the script has killed itself since. A task that restart() is about to
\* resume does nothing before, but suspend itself.
ScriptMoves(t) == pc[t] \in Moving => op[t].task = t
SketchPauses(s) == pc[s] = "pauseSuspend" => handle[op[s].exec] \in {op[s].task, NoTask}
SketchResumes(s) ==
    pc[s] = "restartResume" => /\ state[op[s].exec] = "running" /\ handle[op[s].exec] = op[s].task
                               /\ rtos[op[s].task] = "suspended" \/ pc[op[s].task] = "pauseSuspend"
\* executeAsTask(): what it saves is a state without a task; once it has
\* marked the script, nobody changes the state until the call is over.
SketchMarks(s) ==
    /\ pc[s] \in Marking \cup {"markRunning"} => op[s].before \in Over
    /\ pc[s] \in Marking => state[op[s].exec] = "running"
    /\ pc[s] \in AfterLock \ Marking => state[op[s].exec] \in Over
SketchCalls(s) == SketchPauses(s) /\ SketchResumes(s) /\ SketchMarks(s)

Truth ==
    /\ Ownership
    /\ Fresh
    /\ \A e \in Exec : Marked(e)
    /\ \A e \in Exec : Unstarted(e)
    /\ \A e \in Exec : Suspending(e)
    /\ \A t \in Task : ScriptMoves(t)
    /\ \A s \in Sketch : SketchCalls(s)

LEMMA InitTruth == Init => Truth
BY InitOwnership DEF Init, Truth, Fresh, Marked, Unstarted, Suspending, ScriptMoves, SketchCalls, SketchPauses,
                     SketchResumes, SketchMarks, Over, Moving, Marking, AfterLock

\* A paused executable has a task.
LEMMA PausedHasTask ==
    ASSUME Truth, NEW e \in Exec, state[e] = "paused"
    PROVE  /\ handle[e] # NoTask /\ handle[e] \in Task
           /\ Live(handle[e]) /\ self[handle[e]] = e
<1>1. handle[e] # NoTask
    BY DEF Truth, Unstarted, Over
<1>2. QED BY <1>1 DEF Truth, Ownership, Typed, TypeOK, Handled

\* The invariant says what state() promises.
LEMMA TruthIsTold == Truth => StateIsTrue
<1> SUFFICES ASSUME Truth, NEW e \in Exec, CallsOn(e) = {}
             PROVE  /\ state[e] \in {"notStarted", "stopped"} => StoppedIsQuiet(e)
                    /\ state[e] = "running" => RunningHasTask(e)
                    /\ state[e] = "paused" => PausedIsSuspended(e)
    BY DEF StateIsTrue
<1> USE DEF Truth, Ownership, Typed
<1>1. \A a \in Actor : pc[a] = "idle" \/ op[a].exec # e
    BY DEF CallsOn
<1>2. handle[e] = NoTask => state[e] \in Over
    BY <1>1 DEF Unstarted, Starting, Marking
<1>3. handle[e] # NoTask => /\ handle[e] \in Task /\ Live(handle[e]) /\ self[handle[e]] = e
                            /\ state[e] \in Over <=> phase[handle[e]] = "park"
    BY DEF Marked, Handled, TypeOK
<1>4. ASSUME state[e] \in Over, NEW t \in Task, Live(t), self[t] = e PROVE phase[t] = "park"
  <2>1. pc[t] = "idle"
      BY <1>1, <1>4 DEF ScriptCall
  <2>2. handle[e] = t
      BY <1>1, <1>4, <2>1, Whose DEF Kills, KillSteps
  <2>3. QED BY <1>3, <1>4, <2>2
<1>5. ASSUME state[e] = "paused" PROVE PausedIsSuspended(e)
  <2>1. handle[e] # NoTask
      BY <1>2, <1>5 DEF Over
  <2>2. pc[handle[e]] = "idle"
      BY <1>1, <1>3, <2>1 DEF ScriptCall
  <2>3. ~ \E s \in Sketch : Pausing(s, e)
      BY <1>1 DEF Pausing
  <2>4. QED BY <1>5, <2>1, <2>2, <2>3 DEF Suspending, PausedIsSuspended
<1>6. QED BY <1>2, <1>3, <1>4, <1>5 DEF Over, StoppedIsQuiet, RunningHasTask

\* A step of a's call that changes no state, handle or task.
LEMMA OnlyCall ==
    ASSUME OneController, Truth, Ownership', Fresh', NEW a \in Actor,
           UNCHANGED <<state, handle, rtos, phase>>,
           \A b \in Actor : b # a => pc'[b] = pc[b] /\ op'[b] = op[b],
           pc[a] \notin Moving, pc'[a] \notin Moving,
           pc[a] \in Marking => pc'[a] \in Marking /\ op'[a].exec = op[a].exec,
           a \in Sketch => SketchMarks(a)'
    PROVE  Truth'
<1> USE DEF Truth, Ownership, Typed
<1>1. ASSUME NEW e \in Exec PROVE Unstarted(e)'
    BY DEF Unstarted, Starting
<1>2. ASSUME NEW e \in Exec PROVE Suspending(e)'
  <2>1. SUFFICES ASSUME state[e] = "paused" PROVE Suspending(e)'
      BY DEF Suspending
  <2>2. handle[e] \in Task
      BY <2>1, PausedHasTask
  <2>3. pc[handle[e]] = "pauseSuspend" => pc'[handle[e]] = "pauseSuspend"
      BY <2>2 DEF Moving
  <2>4. (\E s \in Sketch : Pausing(s, e)) => (\E s \in Sketch : Pausing(s, e))'
      BY DEF Pausing, Moving
  <2>5. QED BY <2>1, <2>3, <2>4 DEF Suspending
<1>3. ASSUME NEW t \in Task PROVE ScriptMoves(t)'
    BY DEF ScriptMoves
<1>4. ASSUME NEW s \in Sketch PROVE SketchCalls(s)'
  <2>1. CASE s = a
      BY <2>1 DEF SketchCalls, SketchPauses, SketchResumes, Moving
  <2>2. CASE s # a
    <3>1. pc'[s] = pc[s] /\ op'[s] = op[s] /\ SketchCalls(s)
        BY <2>2
    <3>2. pc[s] = "restartResume" => op[s].task \in Task
        BY DEF Wired, CallWired, OnTask
    <3>3. pc[s] = "restartResume" /\ pc[op[s].task] = "pauseSuspend" => pc'[op[s].task] = "pauseSuspend"
        BY <3>2 DEF Moving
    <3>4. QED BY <3>1, <3>3 DEF SketchCalls, SketchPauses, SketchResumes, SketchMarks
  <2>3. QED BY <2>1, <2>2
<1>5. QED BY <1>1, <1>2, <1>3, <1>4 DEF Marked

\* The handle that a script's own call finds is its own.
LEMMA OwnHandle ==
    ASSUME Truth, NEW a \in Task, pc[a] # "idle", pc[a] \notin KillSteps
    PROVE  /\ Live(a) /\ self[a] = op[a].exec /\ op[a].exec \in Exec
           /\ handle[op[a].exec] # NoTask => handle[op[a].exec] = a
BY Whose DEF Truth, Ownership, ScriptCall

\* kill() takes the task: the script is over, and without a task.
LEMMA KillLockTrue ==
    ASSUME OneController, Truth, Ownership', Fresh', NEW a \in Actor, KillLock(a), handle[op[a].exec] # NoTask
    PROVE  Truth'
<1> DEFINE e == op[a].exec
<1> USE DEF Truth, Ownership, Typed
<1>a. pc[a] = "kill" /\ CanRun(a) /\ e \in Exec
    BY DEF KillLock, At, Wired, CallWired
<1>b. a \in Task => handle[e] = a
    BY <1>a, OwnHandle DEF KillSteps
<1>0. /\ pc[a] = "kill" /\ e \in Exec /\ handle[e] \in Task /\ Live(handle[e])
      /\ (a \in Task => handle[e] = a /\ rtos[a] = "ready")
    BY <1>a, <1>b DEF CanRun, TypeOK, Handled
<1>1. /\ pc' = [pc EXCEPT ![a] = "killUnwind"] /\ op' = [op EXCEPT ![a].task = handle[e]]
      /\ UNCHANGED <<rtos, phase>>
    BY DEF KillLock, taskVars
<1>2. /\ pc'[a] = "killUnwind" /\ op'[a].exec = e
      /\ \A b \in Actor : b # a => pc'[b] = pc[b] /\ op'[b] = op[b]
    BY <1>0, <1>1, OpTaskTyped DEF TypeOK
<1>3. /\ state'[e] = "stopped" /\ handle'[e] = NoTask
      /\ \A x \in Exec : x # e => state'[x] = state[x] /\ handle'[x] = handle[x]
    BY <1>0 DEF KillLock, TypeOK
<1>4. ASSUME NEW x \in Exec PROVE Marked(x)' /\ Unstarted(x)'
  <2>1. CASE x = e
      BY <2>1, <1>3 DEF Marked, Unstarted, Over
  <2>2. CASE x # e
      BY <2>2, <1>0, <1>1, <1>2, <1>3 DEF Marked, Unstarted, Starting, Marking
  <2>3. QED BY <2>1, <2>2
<1>5. ASSUME NEW x \in Exec PROVE Suspending(x)'
  <2>1. SUFFICES ASSUME state'[x] = "paused" PROVE Suspending(x)'
      BY DEF Suspending
  <2>2. x # e /\ state[x] = "paused"
      BY <2>1, <1>3
  <2>3. handle[x] \in Task /\ handle'[x] = handle[x]
      BY <2>2, <1>3, PausedHasTask
  <2>4. pc[handle[x]] = "pauseSuspend" => pc'[handle[x]] = "pauseSuspend"
      BY <2>3, <1>0, <1>2
  <2>5. (\E s \in Sketch : Pausing(s, x)) => (\E s \in Sketch : Pausing(s, x))'
      BY <1>0, <1>2 DEF Pausing
  <2>6. QED BY <2>2, <2>3, <2>4, <2>5, <1>1 DEF Suspending
<1>6. ASSUME NEW t \in Task PROVE ScriptMoves(t)'
    BY <1>2 DEF ScriptMoves, Moving
<1>7. ASSUME NEW s \in Sketch PROVE SketchCalls(s)'
  <2>1. CASE s = a
      BY <2>1, <1>2, <1>3 DEF SketchCalls, SketchPauses, SketchResumes, SketchMarks, Marking, Over
  <2>2. CASE s # a
    <3>1. a \in Task /\ handle[e] = a /\ rtos[a] = "ready"
        BY <2>2, <1>0 DEF OneController
    <3>2. pc'[s] = pc[s] /\ op'[s] = op[s] /\ SketchCalls(s) /\ (pc[s] # "idle" => op[s].exec \in Exec)
        BY <2>2, <1>2 DEF Wired, CallWired
    <3>3. pc[s] = "restartResume" => op[s].exec # e /\ op[s].task \in Task
        BY <3>1, <3>2, <1>0 DEF SketchCalls, SketchResumes, Wired, CallWired, OnTask
    <3>4. pc[s] \in AfterLock => op[s].exec # e
        BY <1>0 DEF SketchHolds
    <3>5. SketchPauses(s)'
        BY <3>2, <1>3 DEF SketchCalls, SketchPauses
    <3>6. SketchResumes(s)'
        BY <3>2, <3>3, <1>0, <1>1, <1>2, <1>3 DEF SketchCalls, SketchResumes
    <3>7. SketchMarks(s)'
        BY <3>2, <3>4, <1>3 DEF SketchCalls, SketchMarks, AfterLock, Marking
    <3>8. QED BY <3>5, <3>6, <3>7 DEF SketchCalls
  <2>3. QED BY <2>1, <2>2
<1>8. QED BY <1>4, <1>5, <1>6, <1>7

\* vTaskDelete(): the task is nobody's any more.
LEMMA KillDeleteTrue ==
    ASSUME OneController, Truth, Ownership', Fresh', NEW a \in Actor, KillDelete(a)
    PROVE  Truth'
<1> USE DEF Truth, Ownership, Typed
<1>a. PICK t \in Task : t = op[a].task
    BY DEF KillDelete, At, Wired, CallWired, OnTask
<1>0. /\ pc[a] = "killDelete" /\ Live(t) /\ self[t] = op[a].exec /\ op[a].exec \in Exec
      /\ handle[op[a].exec] # t /\ (a \in Task => a = t)
    BY <1>a DEF KillDelete, At, Taken, KillSteps, Wired, CallWired, OnTask
<1>1. /\ UNCHANGED <<state, handle>>
      /\ \A x \in Task : x # t => rtos'[x] = rtos[x] /\ phase'[x] = phase[x]
      /\ \A b \in Actor : b # a /\ b # t => pc'[b] = pc[b] /\ op'[b] = op[b]
      /\ pc'[t] = "idle"
    BY <1>a, <1>0 DEF KillDelete, TypeOK, objVars
<1>2. a # t => pc'[a] = op[a].then /\ (pc'[a] # "idle" => op'[a].exec = op[a].exec)
    BY <1>a, <1>0 DEF KillDelete, TypeOK
<1>3. \A x \in Exec : handle[x] # t
    BY <1>0 DEF Handled
<1>4. ASSUME NEW x \in Exec PROVE Marked(x)'
    BY <1>1, <1>3 DEF Marked, TypeOK
<1>5. ASSUME NEW x \in Exec PROVE Unstarted(x)'
    BY <1>0, <1>1 DEF Unstarted, Starting, Marking
<1>6. ASSUME NEW x \in Exec PROVE Suspending(x)'
  <2>1. SUFFICES ASSUME state[x] = "paused" PROVE Suspending(x)'
      BY <1>1 DEF Suspending
  <2>2. handle[x] \in Task /\ handle[x] # t /\ handle[x] # a
      BY <2>1, <1>0, <1>3, PausedHasTask
  <2>3. (\E s \in Sketch : Pausing(s, x)) => (\E s \in Sketch : Pausing(s, x))'
      BY <1>0, <1>1 DEF Pausing
  <2>4. QED BY <2>1, <2>2, <2>3, <1>1 DEF Suspending
<1>7. ASSUME NEW x \in Task PROVE ScriptMoves(x)'
    BY <1>0, <1>1 DEF ScriptMoves, Moving
<1>8. ASSUME NEW s \in Sketch PROVE SketchCalls(s)'
  <2>1. CASE s = a
    <3>1. pc'[a] \in {"idle", "saveState", "freeExec"} /\ (pc'[a] # "idle" => op'[a].exec = op[a].exec)
        BY <2>1, <1>2 DEF TypeOK, Then
    <3>2. state[op[a].exec] \in Over
        BY <2>1, <1>0 DEF SketchCalls, SketchMarks, AfterLock, Marking
    <3>3. QED BY <2>1, <3>1, <3>2, <1>1 DEF SketchCalls, SketchPauses, SketchResumes, SketchMarks, Marking, AfterLock
  <2>2. CASE s # a
    <3>1. a \in Task /\ a = t
        BY <2>2, <1>0 DEF OneController
    <3>2. pc'[s] = pc[s] /\ op'[s] = op[s] /\ SketchCalls(s) /\ (pc[s] # "idle" => op[s].exec \in Exec)
        BY <2>2, <3>1, <1>1 DEF Wired, CallWired
    <3>3. pc[s] = "restartResume" => op[s].task \in Task /\ op[s].task # t
        BY <3>2, <1>3 DEF SketchCalls, SketchResumes, Wired, CallWired, OnTask
    <3>4. QED BY <3>1, <3>2, <3>3, <1>1 DEF SketchCalls, SketchPauses, SketchResumes, SketchMarks
  <2>3. QED BY <2>1, <2>2
<1>9. QED BY <1>4, <1>5, <1>6, <1>7, <1>8

\* executeAsTask() writes the state of a script that has no task: no task of it
\* is in its code to write another one.
LEMMA WritesState ==
    ASSUME OneController, Truth, Ownership', Fresh', NEW a \in Sketch, NEW e \in Exec, NEW v \in Over \cup {"running"},
           e = op[a].exec, handle[e] = NoTask, pc[a] \notin Moving, pc'[a] \notin Moving,
           UNCHANGED <<handle, rtos, phase>>, state' = [state EXCEPT ![e] = v],
           \A b \in Actor : b # a => pc'[b] = pc[b] /\ op'[b] = op[b],
           v = "running" => Starting(a, e)', SketchMarks(a)'
    PROVE  Truth'
<1> USE DEF Truth, Ownership, Typed
<1>0. state'[e] = v /\ (\A x \in Exec : x # e => state'[x] = state[x]) /\ \A s \in Sketch : s = a
    BY DEF TypeOK, OneController
<1>1. ASSUME NEW x \in Exec PROVE Marked(x)'
    BY <1>0 DEF Marked
<1>2. ASSUME NEW x \in Exec PROVE Unstarted(x)'
  <2>1. CASE x = e
      BY <2>1, <1>0 DEF Unstarted
  <2>2. CASE x # e
      BY <2>2, <1>0 DEF Unstarted, Starting
  <2>3. QED BY <2>1, <2>2
<1>3. ASSUME NEW x \in Exec PROVE Suspending(x)'
  <2>1. SUFFICES ASSUME state'[x] = "paused" PROVE Suspending(x)'
      BY DEF Suspending
  <2>2. x # e /\ state[x] = "paused"
      BY <2>1, <1>0 DEF Over
  <2>3. handle[x] \in Task /\ handle[x] # a
      BY <2>2, PausedHasTask
  <2>4. ~ \E s \in Sketch : Pausing(s, x)
      BY <1>0 DEF Pausing, Moving
  <2>5. QED BY <2>2, <2>3, <2>4 DEF Suspending
<1>4. ASSUME NEW t \in Task PROVE ScriptMoves(t)'
    BY DEF ScriptMoves
<1>5. ASSUME NEW s \in Sketch PROVE SketchCalls(s)'
    BY <1>0 DEF SketchCalls, SketchPauses, SketchResumes, Moving
<1>6. QED BY <1>1, <1>2, <1>3, <1>4, <1>5

LEMMA MarkTrue ==
    ASSUME OneController, Truth, Ownership', Fresh', NEW a \in Actor, MarkRunning(a) \/ UndoState(a)
    PROVE  Truth'
<1> USE DEF Truth, Ownership, Typed
<1>0. /\ pc[a] \in {"markRunning", "undo"} /\ op[a].exec \in Exec /\ a \in Sketch
      /\ handle[op[a].exec] = NoTask /\ op[a].before \in Over
    BY DEF MarkRunning, UndoState, At, Wired, CallWired, ScriptCall, SelfSteps, SketchHolds, AfterLock,
           SketchCalls, SketchMarks, Marking
<1>1. \A b \in Actor : b # a => pc'[b] = pc[b] /\ op'[b] = op[b]
    BY <1>0, OthersWait DEF CallStep
<1>2. CASE MarkRunning(a)
  <2>1. pc'[a] = "create" /\ op'[a] = op[a] /\ state' = [state EXCEPT ![op[a].exec] = "running"]
      BY <1>2, GoToTyped DEF MarkRunning, Step
  <2>2. Starting(a, op[a].exec)' /\ SketchMarks(a)'
      BY <1>0, <2>1 DEF Starting, SketchMarks, Marking, TypeOK
  <2>3. QED BY <1>0, <1>1, <1>2, <2>1, <2>2, WritesState DEF MarkRunning, taskVars, Moving
<1>3. CASE UndoState(a)
  <2>1. pc'[a] = "idle" /\ state' = [state EXCEPT ![op[a].exec] = op[a].before]
      BY <1>3, GoToTyped DEF UndoState, Step
  <2>2. SketchMarks(a)' /\ op[a].before # "running"
      BY <1>0, <2>1 DEF SketchMarks, Marking, AfterLock, Over
  <2>3. QED BY <1>0, <1>1, <1>3, <2>1, <2>2, WritesState DEF UndoState, taskVars, Moving
<1>4. QED BY <1>2, <1>3

\* The new task has its function to run, and its script is marked running.
LEMMA CreateTrue ==
    ASSUME OneController, Truth, Ownership', Fresh', NEW a \in Actor, NEW t \in Task, CreateTask(a, t)
    PROVE  Truth'
<1> USE DEF Truth, Ownership, Typed
<1>0. /\ pc[a] = "create" /\ op[a].exec \in Exec /\ a \in Sketch
      /\ rtos[t] = "none" /\ phase[t] = "entry"
      /\ state[op[a].exec] = "running" /\ \A s \in Sketch : s = a
    BY DEF CreateTask, At, Wired, CallWired, ScriptCall, SelfSteps, SketchCalls, SketchMarks, Marking, Fresh,
           OneController
<1>1. /\ UNCHANGED <<state, phase>> /\ handle'[op[a].exec] = t
      /\ \A x \in Exec : x # op[a].exec => handle'[x] = handle[x]
      /\ \A x \in Task : x # t => rtos'[x] = rtos[x]
    BY <1>0 DEF CreateTask, TypeOK
<1>2. pc'[a] = "idle" /\ \A b \in Actor : b # a => pc'[b] = pc[b] /\ op'[b] = op[b]
    BY GoToTyped DEF CreateTask, Step
<1>3. \A x \in Exec : handle[x] # t
    BY <1>0 DEF Handled, Live
<1>4. ASSUME NEW x \in Exec PROVE Marked(x)'
    BY <1>0, <1>1 DEF Marked, Over
<1>5. ASSUME NEW x \in Exec PROVE Unstarted(x)'
    BY <1>0, <1>1, <1>2 DEF Unstarted, Starting
<1>6. ASSUME NEW x \in Exec PROVE Suspending(x)'
  <2>1. SUFFICES ASSUME state[x] = "paused" PROVE Suspending(x)'
      BY <1>1 DEF Suspending
  <2>2. x # op[a].exec /\ handle[x] \in Task /\ handle[x] # t
      BY <2>1, <1>0, <1>3, PausedHasTask
  <2>3. ~ \E s \in Sketch : Pausing(s, x)
      BY <1>0 DEF Pausing
  <2>4. QED BY <2>1, <2>2, <2>3, <1>0, <1>1, <1>2 DEF Suspending
<1>7. ASSUME NEW x \in Task PROVE ScriptMoves(x)'
    BY <1>0, <1>2 DEF ScriptMoves
<1>8. ASSUME NEW s \in Sketch PROVE SketchCalls(s)'
    BY <1>0, <1>2 DEF SketchCalls, SketchPauses, SketchResumes, SketchMarks, Marking, AfterLock
<1>9. QED BY <1>4, <1>5, <1>6, <1>7, <1>8

\* pause() and restart() that find nothing to do.
LEMMA SwitchedNothing ==
    ASSUME OneController, Truth, Ownership', Fresh', NEW a \in Actor, PauseLock(a) \/ RestartLock(a),
           UNCHANGED state, GoTo(a, "idle")
    PROVE  Truth'
<1>1. pc[a] \notin Moving \cup Marking /\ UNCHANGED <<handle, rtos, phase>>
    BY DEF PauseLock, RestartLock, Switch, At, taskVars, Moving, Marking
<1>2. pc'[a] = "idle" /\ \A b \in Actor : b # a => pc'[b] = pc[b] /\ op'[b] = op[b]
    BY GoToTyped DEF Truth, Ownership, Step
<1>3. SketchMarks(a)'
    BY <1>2 DEF SketchMarks, Marking, AfterLock
<1>4. QED BY <1>1, <1>2, <1>3, OnlyCall DEF Moving

\* A running or paused executable, for which no task is being created, has one.
LEMMA SwitchHasTask ==
    ASSUME OneController, Truth, NEW a \in Actor, pc[a] \in {"pause", "restart"}, op[a].exec \in Exec,
           state[op[a].exec] \in {"running", "paused"}
    PROVE  handle[op[a].exec] # NoTask
<1> USE DEF Truth, Ownership
<1> SUFFICES ASSUME handle[op[a].exec] = NoTask PROVE FALSE
    OBVIOUS
<1>1. PICK s \in Sketch : Starting(s, op[a].exec)
    BY DEF Unstarted, Over
<1>2. a \in Task
    BY <1>1 DEF Starting, Marking, OneController
<1>3. PICK r \in Sketch : Kills(r, a)
    BY <1>2, Whose DEF ScriptCall, KillSteps
<1>4. QED BY <1>1, <1>3 DEF Starting, Marking, Kills, KillSteps, OneController

\* pause() marks the script and has its task in hand: nobody is resuming it.
LEMMA PauseTrue ==
    ASSUME OneController, Truth, Ownership', Fresh', NEW a \in Actor, PauseLock(a)
    PROVE  Truth'
<1> DEFINE e == op[a].exec
<1> USE DEF Truth, Ownership, Typed
<1>0. pc[a] = "pause" /\ CanRun(a) /\ e \in Exec /\ UNCHANGED <<handle, rtos, phase>>
    BY DEF PauseLock, Switch, At, Wired, CallWired, taskVars
<1>1. CASE state[e] # "running"
  <2>1. UNCHANGED state /\ GoTo(a, "idle")
      BY <1>1 DEF PauseLock, Switch
  <2>2. QED BY <2>1, SwitchedNothing
<1>2. CASE state[e] = "running"
  <2>0. handle[e] # NoTask /\ handle[e] \in Task
      BY <1>0, <1>2, SwitchHasTask DEF TypeOK
  <2>1. /\ pc' = [pc EXCEPT ![a] = "pauseSuspend"] /\ op' = [op EXCEPT ![a].task = handle[e]]
        /\ state' = [state EXCEPT ![e] = "paused"]
      BY <1>2, <2>0 DEF PauseLock, Switch
  <2>2. /\ pc'[a] = "pauseSuspend" /\ op'[a].exec = e /\ op'[a].task = handle[e]
        /\ \A b \in Actor : b # a => pc'[b] = pc[b] /\ op'[b] = op[b]
      BY <2>0, <2>1, OpTaskTyped DEF TypeOK
  <2>3. state'[e] = "paused" /\ \A x \in Exec : x # e => state'[x] = state[x]
      BY <1>0, <2>1 DEF TypeOK
  <2>4. a \in Task => handle[e] = a /\ rtos[a] = "ready"
      <3>1. a \in Task => handle[e] = a
        BY <1>0, <2>0, OwnHandle DEF KillSteps
      <3>2. QED BY <1>0, <3>1 DEF CanRun
  <2>5. ASSUME NEW x \in Exec PROVE Marked(x)' /\ Unstarted(x)'
    <3>1. CASE x = e
        BY <3>1, <1>0, <1>2, <2>0, <2>3 DEF Marked, Unstarted, Over
    <3>2. CASE x # e
        BY <3>2, <1>0, <2>2, <2>3 DEF Marked, Unstarted, Starting, Marking
    <3>3. QED BY <3>1, <3>2
  <2>6. ASSUME NEW x \in Exec PROVE Suspending(x)'
    <3>1. CASE x = e
        BY <3>1, <1>0, <2>2, <2>4 DEF Suspending, Pausing
    <3>2. CASE x # e
      <4>1. SUFFICES ASSUME state[x] = "paused" PROVE Suspending(x)'
          BY <3>2, <2>3 DEF Suspending
      <4>2. pc[handle[x]] = "pauseSuspend" => pc'[handle[x]] = "pauseSuspend"
          BY <4>1, <1>0, <2>2, PausedHasTask
      <4>3. (\E s \in Sketch : Pausing(s, x)) => (\E s \in Sketch : Pausing(s, x))'
          BY <1>0, <2>2 DEF Pausing
      <4>4. QED BY <4>1, <4>2, <4>3, <1>0 DEF Suspending
    <3>3. QED BY <3>1, <3>2
  <2>7. ASSUME NEW t \in Task PROVE ScriptMoves(t)'
      BY <2>2, <2>4 DEF ScriptMoves
  <2>8. ASSUME NEW s \in Sketch PROVE SketchCalls(s)'
    <3>1. CASE s = a
        BY <3>1, <1>0, <2>2 DEF SketchCalls, SketchPauses, SketchResumes, SketchMarks, AfterLock, Marking
    <3>2. CASE s # a
      <4>1. a \in Task
          BY <3>2 DEF OneController
      <4>2. /\ pc'[s] = pc[s] /\ op'[s] = op[s] /\ SketchCalls(s)
            /\ pc[s] # "idle" => op[s].exec \in Exec
          BY <3>2, <2>2 DEF Wired, CallWired
      <4>3. pc[s] = "restartResume" => op[s].exec # e /\ op[s].task \in Task
          BY <4>1, <4>2, <1>0, <2>4 DEF SketchCalls, SketchResumes, Wired, CallWired, OnTask
      <4>4. pc[s] \in AfterLock => op[s].exec # e
          BY <2>0 DEF SketchHolds
      <4>5. SketchPauses(s)'
          BY <4>2, <1>0 DEF SketchCalls, SketchPauses
      <4>6. SketchResumes(s)'
          BY <4>2, <4>3, <1>0, <2>2, <2>3 DEF SketchCalls, SketchResumes
      <4>7. SketchMarks(s)'
          BY <4>2, <4>4, <2>3 DEF SketchCalls, SketchMarks, AfterLock, Marking
      <4>8. QED BY <4>5, <4>6, <4>7 DEF SketchCalls
    <3>3. QED BY <3>1, <3>2
  <2>9. QED BY <2>5, <2>6, <2>7, <2>8
<1>3. QED BY <1>1, <1>2

\* restart() marks the script, whose task is suspended, or is about to suspend
\* itself.
LEMMA RestartTrue ==
    ASSUME OneController, Truth, Ownership', Fresh', NEW a \in Actor, RestartLock(a)
    PROVE  Truth'
<1> DEFINE e == op[a].exec
<1> USE DEF Truth, Ownership, Typed
<1>0. pc[a] = "restart" /\ CanRun(a) /\ e \in Exec /\ UNCHANGED <<handle, rtos, phase>>
    BY DEF RestartLock, Switch, At, Wired, CallWired, taskVars
<1>1. CASE state[e] # "paused"
  <2>1. UNCHANGED state /\ GoTo(a, "idle")
      BY <1>1 DEF RestartLock, Switch
  <2>2. QED BY <2>1, SwitchedNothing
<1>2. CASE state[e] = "paused"
  <2>0. handle[e] # NoTask /\ handle[e] \in Task
      BY <1>0, <1>2, PausedHasTask
  <2>1. /\ pc' = [pc EXCEPT ![a] = "restartResume"] /\ op' = [op EXCEPT ![a].task = handle[e]]
        /\ state' = [state EXCEPT ![e] = "running"]
      BY <1>2, <2>0 DEF RestartLock, Switch
  <2>2. /\ pc'[a] = "restartResume" /\ op'[a].exec = e /\ op'[a].task = handle[e]
        /\ \A b \in Actor : b # a => pc'[b] = pc[b] /\ op'[b] = op[b]
      BY <2>0, <2>1, OpTaskTyped DEF TypeOK
  <2>3. state'[e] = "running" /\ \A x \in Exec : x # e => state'[x] = state[x]
      BY <1>0, <2>1 DEF TypeOK
  <2>4. a \in Task => handle[e] = a
      BY <1>0, <2>0, OwnHandle DEF KillSteps
  <2>5. ASSUME NEW x \in Exec PROVE Marked(x)' /\ Unstarted(x)'
    <3>1. CASE x = e
        BY <3>1, <1>0, <1>2, <2>0, <2>3 DEF Marked, Unstarted, Over
    <3>2. CASE x # e
        BY <3>2, <1>0, <2>2, <2>3 DEF Marked, Unstarted, Starting, Marking
    <3>3. QED BY <3>1, <3>2
  <2>6. ASSUME NEW x \in Exec PROVE Suspending(x)'
    <3>1. CASE x = e
        BY <3>1, <2>3 DEF Suspending
    <3>2. CASE x # e
      <4>1. SUFFICES ASSUME state[x] = "paused" PROVE Suspending(x)'
          BY <3>2, <2>3 DEF Suspending
      <4>2. pc[handle[x]] = "pauseSuspend" => pc'[handle[x]] = "pauseSuspend"
          BY <4>1, <1>0, <2>2, PausedHasTask
      <4>3. (\E s \in Sketch : Pausing(s, x)) => (\E s \in Sketch : Pausing(s, x))'
          BY <1>0, <2>2 DEF Pausing
      <4>4. QED BY <4>1, <4>2, <4>3, <1>0 DEF Suspending
    <3>3. QED BY <3>1, <3>2
  <2>7. ASSUME NEW t \in Task PROVE ScriptMoves(t)'
      BY <2>2, <2>4 DEF ScriptMoves
  <2>8. ASSUME NEW s \in Sketch PROVE SketchCalls(s)'
    <3>1. CASE s = a
      <4>1. ~ \E r \in Sketch : Pausing(r, e)
          BY <3>1, <1>0 DEF Pausing, OneController
      <4>2. rtos[handle[e]] = "suspended" \/ (pc[handle[e]] = "pauseSuspend" /\ handle[e] # a)
          BY <4>1, <1>0, <1>2 DEF Suspending
      <4>3. rtos'[handle[e]] = "suspended" \/ pc'[handle[e]] = "pauseSuspend"
          BY <4>2, <1>0, <2>0, <2>2
      <4>4. QED BY <3>1, <4>3, <1>0, <2>2, <2>3
                DEF SketchCalls, SketchPauses, SketchResumes, SketchMarks, AfterLock, Marking
    <3>2. CASE s # a
      <4>2. /\ pc'[s] = pc[s] /\ op'[s] = op[s] /\ SketchCalls(s)
            /\ pc[s] # "idle" => op[s].exec \in Exec
          BY <3>2, <2>2 DEF Wired, CallWired
      <4>3. pc[s] = "restartResume" => op[s].exec # e /\ op[s].task \in Task
          BY <4>2, <1>2 DEF SketchCalls, SketchResumes, Wired, CallWired, OnTask
      <4>4. pc[s] \in AfterLock => op[s].exec # e
          BY <2>0 DEF SketchHolds
      <4>5. SketchPauses(s)'
          BY <4>2, <1>0 DEF SketchCalls, SketchPauses
      <4>6. SketchResumes(s)'
          BY <4>2, <4>3, <1>0, <2>2, <2>3 DEF SketchCalls, SketchResumes
      <4>7. SketchMarks(s)'
          BY <4>2, <4>4, <2>3 DEF SketchCalls, SketchMarks, AfterLock, Marking
      <4>8. QED BY <4>5, <4>6, <4>7 DEF SketchCalls
    <3>3. QED BY <3>1, <3>2
  <2>9. QED BY <2>5, <2>6, <2>7, <2>8
<1>3. QED BY <1>1, <1>2

\* vTaskSuspend() of the task in hand.
LEMMA SuspendTrue ==
    ASSUME OneController, Truth, Ownership', Fresh', NEW a \in Actor, PauseSuspend(a)
    PROVE  Truth'
<1> USE DEF Truth, Ownership, Typed
<1>a. PICK t \in Task : t = op[a].task
    BY DEF PauseSuspend, At, Wired, CallWired, OnTask
<1>0. /\ pc[a] = "pauseSuspend" /\ CanRun(a) /\ op[a].exec \in Exec
      /\ UNCHANGED <<state, handle, phase>>
      /\ \A x \in Task : x # t => rtos'[x] = rtos[x]
      /\ rtos[t] # "deleted" => rtos'[t] = "suspended"
    BY <1>a DEF PauseSuspend, At, Move, TypeOK, Wired, CallWired, objVars
<1>1. pc'[a] = "idle" /\ \A b \in Actor : b # a => pc'[b] = pc[b] /\ op'[b] = op[b]
    BY GoToTyped DEF PauseSuspend, Move, Step
<1>2. \A x \in Task : rtos[x] = "suspended" => rtos'[x] = "suspended"
    BY <1>0
<1>3. a \in Task => a = t /\ rtos[a] = "ready"
    BY <1>a, <1>0 DEF ScriptMoves, Moving, CanRun
<1>4. ASSUME NEW x \in Exec PROVE Marked(x)' /\ Unstarted(x)'
    BY <1>0, <1>1 DEF Marked, Unstarted, Starting, Marking
<1>5. ASSUME NEW x \in Exec PROVE Suspending(x)'
  <2>1. SUFFICES ASSUME state[x] = "paused" PROVE Suspending(x)'
      BY <1>0 DEF Suspending
  <2>2. handle[x] # NoTask /\ handle[x] \in Task /\ Live(handle[x])
      BY <2>1, PausedHasTask
  <2>3. CASE rtos[handle[x]] = "suspended"
      BY <2>2, <2>3, <1>0, <1>2 DEF Suspending
  <2>4. CASE pc[handle[x]] = "pauseSuspend"
    <3>1. CASE handle[x] = a
        BY <3>1, <2>2, <1>0, <1>3 DEF Suspending
    <3>2. CASE handle[x] # a
        BY <3>2, <2>2, <2>4, <1>0, <1>1 DEF Suspending
    <3>3. QED BY <3>1, <3>2
  <2>5. CASE \E s \in Sketch : Pausing(s, x)
    <3>1. PICK s \in Sketch : Pausing(s, x)
        BY <2>5
    <3>2. CASE s = a
      <4>1. handle[x] = t
          BY <1>a, <2>2, <3>1, <3>2 DEF SketchCalls, SketchPauses, Pausing
      <4>2. QED BY <4>1, <2>2, <1>0 DEF Suspending, Live
    <3>3. CASE s # a
        BY <3>1, <3>3, <1>0, <1>1 DEF Suspending, Pausing
    <3>4. QED BY <3>2, <3>3
  <2>6. QED BY <2>1, <2>3, <2>4, <2>5 DEF Suspending
<1>6. ASSUME NEW x \in Task PROVE ScriptMoves(x)'
    BY <1>1 DEF ScriptMoves, Moving
<1>7. ASSUME NEW s \in Sketch PROVE SketchCalls(s)'
  <2>1. CASE s = a
      BY <2>1, <1>1 DEF SketchCalls, SketchPauses, SketchResumes, SketchMarks, Marking, AfterLock
  <2>2. CASE s # a
    <3>1. pc'[s] = pc[s] /\ op'[s] = op[s] /\ SketchCalls(s) /\ a = t /\ rtos'[a] = "suspended"
        BY <2>2, <1>0, <1>1, <1>3 DEF OneController
    <3>2. pc[s] = "restartResume" => op[s].task \in Task
        BY DEF Wired, CallWired, OnTask
    <3>3. SketchResumes(s)'
      <4>1. SUFFICES ASSUME pc[s] = "restartResume" PROVE SketchResumes(s)'
          BY <3>1 DEF SketchResumes
      <4>2. CASE op[s].task = a
          BY <4>1, <4>2, <3>1, <1>0 DEF SketchCalls, SketchResumes
      <4>3. CASE op[s].task # a
          BY <4>1, <4>3, <3>1, <3>2, <1>0, <1>1 DEF SketchCalls, SketchResumes
      <4>4. QED BY <4>2, <4>3
    <3>4. QED BY <3>1, <3>3, <1>0 DEF SketchCalls, SketchPauses, SketchMarks
  <2>3. QED BY <2>1, <2>2
<1>8. QED BY <1>4, <1>5, <1>6, <1>7

\* vTaskResume(): the script that the task runs is not marked paused.
LEMMA ResumeTrue ==
    ASSUME OneController, Truth, Ownership', Fresh', NEW a \in Actor, RestartResume(a)
    PROVE  Truth'
<1> USE DEF Truth, Ownership, Typed
<1>a. PICK t \in Task : t = op[a].task
    BY DEF RestartResume, At, Wired, CallWired, OnTask
<1>0. /\ pc[a] = "restartResume" /\ CanRun(a) /\ op[a].exec \in Exec
      /\ UNCHANGED <<state, handle, phase>>
      /\ \A x \in Task : x # t => rtos'[x] = rtos[x]
      /\ rtos[t] = "ready" => rtos'[t] = "ready"
    BY <1>a DEF RestartResume, At, Move, TypeOK, Wired, CallWired, objVars
<1>1. pc'[a] = "idle" /\ \A b \in Actor : b # a => pc'[b] = pc[b] /\ op'[b] = op[b]
    BY GoToTyped DEF RestartResume, Move, Step
<1>2. a \in Task => a = t /\ rtos[a] = "ready"
    BY <1>a, <1>0 DEF ScriptMoves, Moving, CanRun
<1>3. a \in Task => UNCHANGED rtos
    BY <1>a, <1>2 DEF RestartResume, Move, TypeOK
<1>4. ASSUME NEW x \in Exec PROVE Marked(x)' /\ Unstarted(x)'
    BY <1>0, <1>1 DEF Marked, Unstarted, Starting, Marking
<1>5. ASSUME NEW x \in Exec PROVE Suspending(x)'
  <2>1. SUFFICES ASSUME state[x] = "paused" PROVE Suspending(x)'
      BY <1>0 DEF Suspending
  <2>2. handle[x] # NoTask /\ handle[x] \in Task /\ Live(handle[x]) /\ self[handle[x]] = x
      BY <2>1, PausedHasTask
  <2>3. rtos[handle[x]] = "suspended" => rtos'[handle[x]] = "suspended"
    <3>1. CASE a \in Task
        BY <3>1, <1>3
    <3>2. CASE a \in Sketch
      <4>1. state[op[a].exec] = "running" /\ handle[op[a].exec] = t
          BY <1>a, <1>0, <3>2 DEF SketchCalls, SketchResumes
      <4>2. handle[x] # t
          BY <4>1, <2>1, <2>2, <1>0 DEF Handled
      <4>3. QED BY <4>2, <2>2, <1>0
    <3>3. QED BY <3>1, <3>2
  <2>4. pc[handle[x]] = "pauseSuspend" => pc'[handle[x]] = "pauseSuspend"
      BY <2>2, <1>0, <1>1
  <2>5. (\E s \in Sketch : Pausing(s, x)) => (\E s \in Sketch : Pausing(s, x))'
      BY <1>0, <1>1 DEF Pausing
  <2>6. QED BY <2>1, <2>3, <2>4, <2>5, <1>0 DEF Suspending
<1>6. ASSUME NEW x \in Task PROVE ScriptMoves(x)'
    BY <1>1 DEF ScriptMoves, Moving
<1>7. ASSUME NEW s \in Sketch PROVE SketchCalls(s)'
  <2>1. CASE s = a
      BY <2>1, <1>1 DEF SketchCalls, SketchPauses, SketchResumes, SketchMarks, Marking, AfterLock
  <2>2. CASE s # a
    <3>1. pc'[s] = pc[s] /\ op'[s] = op[s] /\ SketchCalls(s) /\ UNCHANGED rtos
        BY <2>2, <1>1, <1>3 DEF OneController
    <3>2. pc[s] = "restartResume" => op[s].task \in Task
        BY DEF Wired, CallWired, OnTask
    <3>3. pc[s] = "restartResume" /\ pc[op[s].task] = "pauseSuspend" => pc'[op[s].task] = "pauseSuspend"
        BY <3>2, <1>0, <1>1
    <3>4. QED BY <3>1, <3>3, <1>0 DEF SketchCalls, SketchPauses, SketchResumes, SketchMarks
  <2>3. QED BY <2>1, <2>2
<1>8. QED BY <1>4, <1>5, <1>6, <1>7

\* taskMain(): the task that finishes is that of the handle, or is being
\* killed by a call that leaves the script stopped; nobody is resuming it.
LEMMA TaskStepTrue ==
    ASSUME OneController, Truth, Ownership', Fresh', NEW t \in Task, TaskStep(t)
    PROVE  Truth'
<1> USE DEF Truth, Ownership, Typed
<1>0. /\ pc[t] = "idle" /\ rtos[t] = "ready" /\ UNCHANGED <<pc, op, handle>>
      /\ \A x \in Task : x # t => rtos'[x] = rtos[x] /\ phase'[x] = phase[x]
    BY DEF TaskStep, EnterFooter, SkipFooter, LeaveFooter, EnterMain, SkipMain, LeaveMain, Finish, Park,
           Enter, Leave, Skip, Runs, At, CanRun, TypeOK, objVars, callVars
<1>1. /\ self[t] \in Exec
      /\ \/ handle[self[t]] = t
         \/ handle[self[t]] = NoTask /\ \E s \in Sketch : Kills(s, t) /\ op[s].exec = self[t]
    BY <1>0, Whose DEF Live, KillSteps
<1>2. \/ UNCHANGED state /\ (phase'[t] = "park" <=> phase[t] = "park")
      \/ state' = [state EXCEPT ![self[t]] = "stopped"] /\ phase'[t] = "park"
    BY <1>0 DEF TaskStep, EnterFooter, SkipFooter, LeaveFooter, EnterMain, SkipMain, LeaveMain, Finish, Park,
           Enter, Leave, Skip, Runs, At, TypeOK, objVars
<1>3. \A x \in Exec : state'[x] = state[x] \/ (x = self[t] /\ state'[x] = "stopped")
    BY <1>1, <1>2 DEF TypeOK
<1>4. ASSUME NEW x \in Exec PROVE Marked(x)'
  <2>1. CASE handle[x] = t
      BY <2>1, <1>0, <1>1, <1>2 DEF Marked, Handled, Over, TypeOK
  <2>2. CASE handle[x] # t
    <3>1. x = self[t] => handle[x] = NoTask
        BY <2>2, <1>1
    <3>2. handle[x] # NoTask => state'[x] = state[x] /\ phase'[handle[x]] = phase[handle[x]]
        BY <2>2, <3>1, <1>0, <1>3 DEF TypeOK
    <3>3. QED BY <3>2, <1>0 DEF Marked
  <2>3. QED BY <2>1, <2>2
<1>5. ASSUME NEW x \in Exec PROVE Unstarted(x)'
    BY <1>0, <1>3 DEF Unstarted, Over, Starting
<1>6. ASSUME NEW x \in Task, rtos[x] = "suspended" PROVE rtos'[x] = "suspended"
    BY <1>6, <1>0
<1>7. ASSUME NEW x \in Exec PROVE Suspending(x)'
  <2>1. SUFFICES ASSUME state'[x] = "paused" PROVE Suspending(x)'
      BY DEF Suspending
  <2>2. state[x] = "paused"
      BY <2>1, <1>3
  <2>3. handle[x] \in Task
      BY <2>2, PausedHasTask
  <2>4. rtos[handle[x]] = "suspended" => rtos'[handle[x]] = "suspended"
      BY <2>3, <1>6
  <2>5. QED BY <2>2, <2>4, <1>0 DEF Suspending, Pausing
<1>8. ASSUME NEW x \in Task PROVE ScriptMoves(x)'
    BY <1>0 DEF ScriptMoves
<1>9. ASSUME NEW s \in Sketch PROVE SketchCalls(s)'
  <2>1. SketchCalls(s) /\ (pc[s] # "idle" => op[s].exec \in Exec) /\ (pc[s] = "restartResume" => op[s].task \in Task)
      BY DEF Wired, CallWired, OnTask
  <2>2. SketchPauses(s)'
      BY <2>1, <1>0 DEF SketchCalls, SketchPauses
  <2>3. SketchResumes(s)'
    <3>1. SUFFICES ASSUME pc[s] = "restartResume" PROVE SketchResumes(s)'
        BY <1>0 DEF SketchResumes
    <3>2. op[s].task # t /\ handle[op[s].exec] = op[s].task
        BY <3>1, <2>1, <1>0 DEF SketchCalls, SketchResumes
    <3>3. op[s].exec # self[t]
        BY <3>1, <3>2, <2>1, <1>1
    <3>4. state'[op[s].exec] = state[op[s].exec] /\ (rtos[op[s].task] = "suspended" => rtos'[op[s].task] = "suspended")
        BY <3>1, <3>3, <2>1, <1>3, <1>6
    <3>5. QED BY <3>1, <3>4, <2>1, <1>0 DEF SketchCalls, SketchResumes
  <2>4. SketchMarks(s)'
    <3>1. CASE pc[s] \in Marking
      <4>1. op[s].exec # self[t]
          BY <3>1, <1>0, <1>1 DEF SketchHolds, AfterLock, Marking, Kills, KillSteps, OneController
      <4>2. QED BY <3>1, <4>1, <2>1, <1>0, <1>3 DEF SketchCalls, SketchMarks, Marking
    <3>2. CASE pc[s] \notin Marking
        BY <3>2, <2>1, <1>0, <1>3 DEF SketchCalls, SketchMarks, Over, AfterLock
    <3>3. QED BY <3>1, <3>2
  <2>5. QED BY <2>2, <2>3, <2>4 DEF SketchCalls
<1>10. QED BY <1>4, <1>5, <1>7, <1>8, <1>9

LEMMA CallStepTrue ==
    ASSUME OneController, Truth, NEW a \in Actor, CallStep(a)
    PROVE  Truth'
<1> USE DEF Truth, Ownership, Typed
<1>a. Ownership' /\ Fresh'
    BY CallStepOwned, CallFresh
<1>b. pc[a] # "killDelete" => \A b \in Actor : b # a => pc'[b] = pc[b] /\ op'[b] = op[b]
    BY OthersWait
<1>c. \A k \in Step : GoTo(a, k) => pc'[a] = k /\ (k # "idle" => op'[a] = op[a])
    BY GoToTyped
<1>1. CASE KillLock(a) /\ handle[op[a].exec] # NoTask
    BY <1>1, <1>a, KillLockTrue
<1>2. CASE KillLock(a) /\ handle[op[a].exec] = NoTask
  <2>1. /\ pc[a] = "kill" /\ UNCHANGED <<state, rtos, phase>> /\ GoTo(a, op[a].then)
        /\ op[a].then \in Step \cap Then
      BY <1>2 DEF KillLock, At, TypeOK, Then, Step, taskVars
  <2>2. op[a].exec \in Exec /\ UNCHANGED handle
      BY <1>2, <2>1 DEF KillLock, TypeOK, Wired, CallWired
  <2>3. pc'[a] = op[a].then /\ (pc'[a] # "idle" => op'[a] = op[a])
      BY <1>c, <2>1
  <2>4. a \in Sketch => state[op[a].exec] \in Over
      BY <1>2, <2>1, <2>2 DEF Unstarted, Starting, Marking, OneController
  <2>5. a \in Sketch => SketchMarks(a)'
      BY <2>1, <2>3, <2>4 DEF SketchMarks, Then, Marking, AfterLock
  <2>6. QED BY <1>a, <1>b, <2>1, <2>2, <2>3, <2>5, OnlyCall DEF Moving, Marking, Then
<1>3. CASE KillUnwind(a)
  <2>1. /\ pc[a] = "killUnwind" /\ pc'[a] = "killDelete" /\ op' = op /\ UNCHANGED <<state, handle, rtos, phase>>
      BY <1>3 DEF KillUnwind, At, TypeOK, taskVars
  <2>2. a \in Sketch => SketchMarks(a)'
      BY <2>1 DEF SketchCalls, SketchMarks, Marking, AfterLock
  <2>3. QED BY <1>a, <1>b, <2>1, <2>2, OnlyCall DEF Moving, Marking
<1>4. CASE KillDelete(a)
    BY <1>4, <1>a, KillDeleteTrue
<1>5. CASE SaveState(a)
  <2>0. op[a].exec \in Exec /\ pc[a] = "saveState"
      BY <1>5 DEF SaveState, At, Wired, CallWired
  <2>1. state[op[a].exec] \in ScriptState
      BY <2>0 DEF TypeOK
  <2>2. op' = [op EXCEPT ![a].before = state[op[a].exec]]
      BY <1>5 DEF SaveState
  <2>3. op'[a].exec = op[a].exec
      BY <2>1, <2>2, OpBeforeTyped
  <2>4. op'[a].before = state[op[a].exec]
      BY <2>2 DEF TypeOK
  <2>5. pc'[a] = "markRunning" /\ UNCHANGED <<state, handle, rtos, phase>>
      BY <1>5 DEF SaveState, TypeOK, objVars, taskVars
  <2>6. a \in Sketch => SketchMarks(a)'
      BY <2>0, <2>3, <2>4, <2>5 DEF SketchCalls, SketchMarks, Marking, AfterLock
  <2>7. QED BY <1>a, <1>b, <2>0, <2>3, <2>5, <2>6, OnlyCall DEF Moving, Marking
<1>6. CASE MarkRunning(a) \/ UndoState(a)
    BY <1>6, <1>a, MarkTrue
<1>7. CASE \E t \in Task : CreateTask(a, t)
    BY <1>7, <1>a, CreateTrue
<1>8. CASE CreateFails(a)
  <2>1. /\ pc[a] = "create" /\ op[a].exec \in Exec /\ a \in Sketch /\ handle[op[a].exec] = NoTask
      BY <1>8 DEF CreateFails, At, Wired, CallWired, ScriptCall, SelfSteps, SketchHolds, AfterLock
  <2>2. pc'[a] = "undo" /\ op'[a] = op[a] /\ UNCHANGED <<state, handle, rtos, phase>>
      BY <1>8, <1>c, <2>1 DEF CreateFails, Step, TypeOK, taskVars
  <2>3. SketchMarks(a)'
      BY <2>1, <2>2 DEF SketchCalls, SketchMarks, Marking
  <2>4. QED BY <1>a, <1>b, <2>1, <2>2, <2>3, OnlyCall DEF Moving, Marking
<1>9. CASE FreeExec(a)
  <2>1. pc[a] = "freeExec" /\ pc'[a] = "idle" /\ UNCHANGED <<state, handle, rtos, phase>>
      BY <1>9, <1>c DEF FreeExec, At, Step, taskVars
  <2>2. SketchMarks(a)'
      BY <2>1 DEF SketchMarks, Marking, AfterLock
  <2>3. QED BY <1>a, <1>b, <2>1, <2>2, OnlyCall DEF Moving, Marking
<1>10. CASE PauseLock(a)
    BY <1>10, <1>a, PauseTrue
<1>11. CASE RestartLock(a)
    BY <1>11, <1>a, RestartTrue
<1>12. CASE PauseSuspend(a)
    BY <1>12, <1>a, SuspendTrue
<1>13. CASE RestartResume(a)
    BY <1>13, <1>a, ResumeTrue
<1>14. QED
    BY <1>1, <1>2, <1>3, <1>4, <1>5, <1>6, <1>7, <1>8, <1>9, <1>10, <1>11, <1>12, <1>13 DEF CallStep

LEMMA NextTrue == OneController /\ Truth /\ [Next]_vars => Truth'
<1> SUFFICES ASSUME OneController, Truth, [Next]_vars PROVE Truth'
    OBVIOUS
<1>a. Ownership' /\ Fresh'
    BY NextOwned, NextFresh DEF Truth
<1>1. CASE \E a \in Actor : CallStep(a)
    BY <1>1, CallStepTrue
<1>2. CASE \E t \in Task : TaskStep(t)
    BY <1>2, <1>a, TaskStepTrue
<1>3. ASSUME NEW a \in Actor, NEW e, NEW o \in Ops, Call(a, e, o) PROVE Truth'
  <2>1. /\ pc[a] = "idle" /\ pc'[a] \in {"kill", "pause", "restart"} /\ UNCHANGED <<state, handle, rtos, phase>>
        /\ \A b \in Actor : b # a => pc'[b] = pc[b] /\ op'[b] = op[b]
    BY <1>3 DEF Call, At, Ops, FirstStep, Truth, Ownership, Typed, TypeOK, objVars, taskVars
  <2>2. SketchMarks(a)'
    BY <2>1 DEF SketchMarks, Marking, AfterLock
  <2>3. QED BY <1>a, <2>1, <2>2, OnlyCall DEF Moving, Marking
<1>4. CASE UNCHANGED vars
    BY <1>4, <1>a DEF Truth, Marked, Unstarted, Starting, Suspending, Pausing, ScriptMoves, SketchCalls,
                      SketchPauses, SketchResumes, SketchMarks, vars, objVars, taskVars, callVars
<1>5. SelfOps \subseteq Ops
    BY DEF Ops
<1>6. QED BY <1>1, <1>2, <1>3, <1>4, <1>5 DEF Next, SketchCall, SelfCall

\* state() tells the truth when no call on the executable is under way,
\* however the script's calls on itself and the sketch's overlapped before.
THEOREM StateTellsTheTruth == ASSUME OneController PROVE Spec => []StateIsTrue
<1>1. QED BY InitTruth, NextTrue, TruthIsTold, PTL DEF Spec
-------------------------------------------------------------------------------
(* pause() and restart(), with scripts that do not kill themselves, or do  *)
(* not pause and restart themselves.                                       *)

KillCall == {"kill", "killUnwind", "killDelete"}
MoveCall == {"pause", "pauseSuspend", "restart", "restartResume"}

ScriptsDoNotKill == "kill" \notin SelfOps
\* No script is in a kill(); the task that the sketch is moving keeps its handle.
Keeps ==
    /\ \A t \in Task : pc[t] \notin KillCall
    /\ \A s \in Sketch : pc[s] \in Moving => handle[op[s].exec] = op[s].task

ScriptsOnlyKill == SelfOps \subseteq {"kill"}
\* No script is in a pause() or restart(). The script that the sketch is
\* suspending is not running, and the task is of no other script; a running
\* one is not suspended, or the sketch is about to resume it.
Resuming(s, e) == pc[s] = "restartResume" /\ op[s].exec = e
Moved ==
    /\ \A t \in Task : pc[t] \notin MoveCall
    /\ \A s \in Sketch : pc[s] = "pauseSuspend" =>
          /\ state[op[s].exec] # "running"
          /\ \A e \in Exec : handle[e] = op[s].task => e = op[s].exec
    /\ \A e \in Exec : state[e] = "running" /\ handle[e] # NoTask =>
          rtos[handle[e]] = "ready" \/ \E s \in Sketch : Resuming(s, e)

\* The steps of a call that is not a kill(): it does not become one, and takes
\* the task of the handle, if any.
LEMMA NotKilling ==
    ASSUME Typed, NEW a \in Actor, CallStep(a), pc[a] \notin KillCall
    PROVE  /\ pc'[a] \notin KillCall
           /\ pc'[a] \in MoveCall => /\ pc[a] \in {"pause", "restart"}
                                     /\ op'[a].exec = op[a].exec /\ op'[a].task = handle[op[a].exec]
                                     /\ op[a].exec \in Exec /\ handle[op[a].exec] # NoTask
                                     /\ UNCHANGED <<handle, rtos>>
                                     /\ pc'[a] = "pauseSuspend" => state'[op[a].exec] = "paused"
                                     /\ pc'[a] = "restartResume" => pc[a] = "restart"
<1> USE DEF Typed
<1>c. \A k \in Step : GoTo(a, k) => pc'[a] = k
    BY GoToTyped
<1>1. CASE \/ MarkRunning(a) \/ (\E t \in Task : CreateTask(a, t)) \/ CreateFails(a) \/ UndoState(a) \/ FreeExec(a)
           \/ PauseSuspend(a) \/ RestartResume(a)
    BY <1>1, <1>c DEF MarkRunning, CreateTask, CreateFails, UndoState, FreeExec, PauseSuspend, RestartResume, Move,
                      Step, KillCall, MoveCall
<1>2. CASE SaveState(a)
    BY <1>2 DEF SaveState, TypeOK, KillCall, MoveCall
<1>3. ASSUME NEW here, NEW there \in ScriptState, NEW k \in Moving, Switch(a, here, there, k), op[a].exec \in Exec
      PROVE  \/ pc'[a] = "idle"
             \/ /\ pc'[a] = k /\ op'[a].exec = op[a].exec /\ op'[a].task = handle[op[a].exec]
                /\ handle[op[a].exec] # NoTask
                /\ UNCHANGED <<handle, rtos>> /\ state'[op[a].exec] = there
  <2>1. CASE state[op[a].exec] = here /\ handle[op[a].exec] # NoTask
    <3>1. op' = [op EXCEPT ![a].task = handle[op[a].exec]] /\ handle[op[a].exec] \in Task
        BY <1>3, <2>1 DEF Switch, TypeOK
    <3>2. op'[a].exec = op[a].exec /\ op'[a].task = handle[op[a].exec]
        BY <3>1, OpTaskTyped
    <3>3. QED BY <1>3, <2>1, <3>2 DEF Switch, TypeOK, taskVars, Moving
  <2>2. CASE ~(state[op[a].exec] = here /\ handle[op[a].exec] # NoTask)
      BY <1>c, <1>3, <2>2 DEF Switch, Step
  <2>3. QED BY <2>1, <2>2
<1>4. CASE PauseLock(a)
  <2>1. op[a].exec \in Exec /\ pc[a] = "pause" /\ Switch(a, "running", "paused", "pauseSuspend")
      BY <1>4 DEF PauseLock, At, Wired, CallWired
  <2>2. QED BY <1>3, <2>1 DEF Moving, ScriptState, KillCall, MoveCall
<1>5. CASE RestartLock(a)
  <2>1. op[a].exec \in Exec /\ pc[a] = "restart" /\ Switch(a, "paused", "running", "restartResume")
      BY <1>5 DEF RestartLock, At, Wired, CallWired
  <2>2. QED BY <1>3, <2>1 DEF Moving, ScriptState, KillCall, MoveCall
<1>6. QED BY <1>1, <1>2, <1>4, <1>5 DEF CallStep, KillLock, KillUnwind, KillDelete, At, KillCall

\* Only the sketch's kill() and executeAsTask() touch a handle, and the sketch
\* makes one call at a time.
LEMMA CallStepKeeps ==
    ASSUME OneController, Ownership, Keeps, NEW a \in Actor, CallStep(a)
    PROVE  Keeps'
<1> USE DEF Ownership, Typed
<1>1. CASE pc[a] \in KillCall
  <2>1. a \in Sketch
      BY <1>1 DEF Keeps
  <2>2. \A s \in Sketch : pc'[s] \notin Moving
    <3>1. pc'[a] \notin Moving
      <4>1. op[a].then \in Step /\ op[a].then \notin Moving
          BY DEF TypeOK, Then, Step, Moving
      <4>2. CASE KillLock(a)
        <5>1. CASE handle[op[a].exec] = NoTask
            BY <4>1, <4>2, <5>1, GoToTyped DEF KillLock
        <5>2. CASE handle[op[a].exec] # NoTask
            BY <4>2, <5>2 DEF KillLock, TypeOK, Moving
        <5>3. QED BY <5>1, <5>2
      <4>3. CASE KillUnwind(a)
          BY <4>3 DEF KillUnwind, TypeOK, Moving
      <4>4. CASE KillDelete(a)
        <5>1. op[a].task \in Task /\ op[a].task # a
            BY <2>1, <4>4 DEF KillDelete, At, Wired, CallWired, OnTask
        <5>2. QED BY <4>1, <4>4, <5>1 DEF KillDelete, TypeOK
      <4>5. QED BY <1>1, <4>2, <4>3, <4>4
                DEF CallStep, SaveState, MarkRunning, CreateTask, CreateFails, UndoState, FreeExec, PauseLock,
                    PauseSuspend, RestartLock, RestartResume, At, KillCall
    <3>2. QED BY <2>1, <3>1 DEF OneController
  <2>3. ASSUME NEW t \in Task PROVE pc'[t] \notin KillCall
    <3>1. t # a
        BY <2>1
    <3>2. CASE pc[a] # "killDelete"
        BY <3>1, <3>2, OthersWait DEF Keeps
    <3>3. CASE pc[a] = "killDelete"
      <4>1. KillDelete(a)
          BY <3>3 DEF CallStep, KillLock, KillUnwind, SaveState, MarkRunning, CreateTask, CreateFails, UndoState,
                      FreeExec, PauseLock, PauseSuspend, RestartLock, RestartResume, At
      <4>2. op[a].task \in Task
          BY <3>3 DEF Wired, CallWired, OnTask
      <4>3. pc'[t] \in {"idle", pc[t]}
          BY <3>1, <4>1, <4>2 DEF KillDelete, TypeOK
      <4>4. QED BY <4>3 DEF Keeps, KillCall
    <3>4. QED BY <3>2, <3>3
  <2>4. QED BY <2>2, <2>3 DEF Keeps
<1>2. CASE pc[a] \notin KillCall
  <2>1. \A b \in Actor : b # a => pc'[b] = pc[b] /\ op'[b] = op[b]
      BY <1>2, OthersWait DEF KillCall
  <2>2. \A t \in Task : pc'[t] \notin KillCall
      BY <1>2, <2>1, NotKilling DEF Keeps
  <2>3. ASSUME NEW s \in Sketch, pc'[s] \in Moving PROVE handle'[op'[s].exec] = op'[s].task
    <3>1. CASE s = a
        BY <1>2, <2>3, <3>1, NotKilling DEF Moving, MoveCall
    <3>2. CASE s # a
      <4>1. a \in Task /\ pc[s] \in Moving /\ op'[s] = op[s]
          BY <2>1, <2>3, <3>2 DEF OneController
      <4>2. UNCHANGED handle
          BY <1>2, <4>1 DEF CallStep, KillLock, KillUnwind, KillDelete, SaveState, MarkRunning, CreateTask,
                            CreateFails, UndoState, FreeExec, PauseLock, PauseSuspend, RestartLock, RestartResume,
                            Move, Switch, At, KillCall, ScriptCall, SelfSteps, objVars
      <4>3. QED BY <4>1, <4>2 DEF Keeps
    <3>3. QED BY <3>1, <3>2
  <2>4. QED BY <2>2, <2>3 DEF Keeps
<1>3. QED BY <1>1, <1>2

LEMMA NextKeeps == OneController /\ ScriptsDoNotKill /\ Ownership /\ Keeps /\ [Next]_vars => Keeps'
<1> SUFFICES ASSUME OneController, ScriptsDoNotKill, Ownership, Keeps, [Next]_vars PROVE Keeps'
    OBVIOUS
<1>1. CASE \E a \in Actor : CallStep(a)
    BY <1>1, CallStepKeeps
<1>2. CASE \E t \in Task : TaskStep(t)
    BY <1>2 DEF Keeps, TaskStep, EnterFooter, SkipFooter, LeaveFooter, EnterMain, SkipMain, LeaveMain, Finish, Park,
                Enter, Leave, Skip, Runs, objVars, callVars
<1>3. ASSUME NEW a \in Actor, NEW e, NEW o \in Ops, Call(a, e, o), a \in Task => o # "kill" /\ o \in SelfOps
      PROVE  Keeps'
  <2>1. /\ pc'[a] \in {"kill", "pause", "restart"} /\ UNCHANGED handle /\ (a \in Task => pc'[a] # "kill")
        /\ \A b \in Actor : b # a => pc'[b] = pc[b] /\ op'[b] = op[b]
    BY <1>3 DEF Call, At, Ops, FirstStep, Ownership, Typed, TypeOK, objVars
  <2>2. QED BY <2>1 DEF Keeps, Moving, KillCall
<1>4. CASE UNCHANGED vars
    BY <1>4 DEF Keeps, vars, objVars, callVars
<1>5. SelfOps \subseteq Ops /\ "kill" \notin SelfOps
    BY DEF Ops, ScriptsDoNotKill
<1>6. QED BY <1>1, <1>2, <1>3, <1>4, <1>5 DEF Next, SketchCall, SelfCall

\* pause() and restart() act on a task that still exists, unless a script
\* deletes its own task.
THEOREM MovesLiveTasks == ASSUME OneController, ScriptsDoNotKill PROVE Spec => []SuspendTargetExists
<1>1. Init => Keeps
    BY DEF Init, Keeps, KillCall, Moving
<1>2. Truth /\ Keeps => SuspendTargetExists
  <2> SUFFICES ASSUME Truth, Keeps, NEW a \in Actor, pc[a] \in Moving PROVE Live(op[a].task)
      BY DEF SuspendTargetExists, Moving
  <2> USE DEF Truth, Ownership, Typed
  <2>1. op[a].exec \in Exec /\ op[a].task \in Task
      BY DEF Wired, CallWired, OnTask, Moving
  <2>2. CASE a \in Sketch
    <3>1. handle[op[a].exec] = op[a].task
        BY <2>2 DEF Keeps
    <3>2. QED BY <2>1, <3>1 DEF Handled
  <2>3. CASE a \in Task
      BY <2>3 DEF ScriptMoves, ScriptCall, Moving
  <2>4. QED BY <2>2, <2>3
<1>4. Truth => Ownership
    BY DEF Truth
<1>5. QED BY <1>1, <1>2, <1>4, InitTruth, NextTrue, NextKeeps, PTL DEF Spec

\* The sketch's own calls: the task it suspends is that of a script it has
\* marked paused, the one it resumes that of a running one.
LEMMA CallStepMoved ==
    ASSUME OneController, Truth, Moved, NEW a \in Actor, CallStep(a)
    PROVE  Moved'
<1> USE DEF Truth, Ownership, Typed
<1>a. \A e \in Exec : handle[e] # NoTask => handle[e] \in Task /\ Live(handle[e]) /\ self[handle[e]] = e
    BY DEF Handled, TypeOK
<1>1. CASE pc[a] \in KillCall
  <2>1. /\ pc'[a] \notin MoveCall
        /\ \A b \in Actor : b # a => (pc'[b] = pc[b] /\ op'[b] = op[b]) \/ pc'[b] = "idle"
        /\ \A e \in Exec : /\ (handle'[e] = handle[e] /\ state'[e] = state[e]) \/ (handle'[e] = NoTask /\ state'[e] = "stopped")
        /\ \A t \in Task : rtos'[t] = rtos[t] \/ \A e \in Exec : handle[e] # t
    <3>1. CASE KillLock(a)
      <4>0. op[a].exec \in Exec /\ op[a].then \in Step /\ op[a].then \notin MoveCall /\ pc[a] # "killDelete"
          BY <3>1 DEF KillLock, At, Wired, CallWired, TypeOK, Then, Step, MoveCall
      <4>1. UNCHANGED rtos /\ \A b \in Actor : b # a => pc'[b] = pc[b] /\ op'[b] = op[b]
          BY <3>1, <4>0, OthersWait DEF KillLock, taskVars, CallStep
      <4>2. CASE handle[op[a].exec] = NoTask
          BY <3>1, <4>0, <4>1, <4>2, GoToTyped DEF KillLock, TypeOK
      <4>3. CASE handle[op[a].exec] # NoTask
          BY <3>1, <4>0, <4>1, <4>3 DEF KillLock, TypeOK, MoveCall
      <4>4. QED BY <4>2, <4>3
    <3>2. CASE KillUnwind(a)
        BY <3>2 DEF KillUnwind, TypeOK, MoveCall, taskVars
    <3>3. CASE KillDelete(a)
      <4>a. PICK t \in Task : t = op[a].task
          BY <3>3 DEF KillDelete, At, Wired, CallWired, OnTask
      <4>0. /\ pc[a] \in KillSteps /\ (a \in Task => a = t) /\ op[a].then \notin MoveCall
            /\ \A e \in Exec : handle[e] # t
          BY <3>3, <4>a DEF KillDelete, At, Taken, Handled, KillSteps, TypeOK, Then, MoveCall
      <4>1. QED BY <3>3, <4>a, <4>0 DEF KillDelete, TypeOK, MoveCall, objVars
    <3>4. QED BY <1>1, <3>1, <3>2, <3>3
              DEF CallStep, SaveState, MarkRunning, CreateTask, CreateFails, UndoState, FreeExec, PauseLock,
                  PauseSuspend, RestartLock, RestartResume, At, KillCall
  <2>2. \A t \in Task : pc'[t] \notin MoveCall
      BY <2>1 DEF Moved, MoveCall
  <2>3. ASSUME NEW s \in Sketch, pc'[s] = "pauseSuspend"
        PROVE  /\ state'[op'[s].exec] # "running"
               /\ \A e \in Exec : handle'[e] = op'[s].task => e = op'[s].exec
    <3>1. pc[s] = "pauseSuspend" /\ op'[s] = op[s] /\ op[s].exec \in Exec /\ op[s].task \in Task
        BY <2>1, <2>3 DEF MoveCall, Wired, CallWired, OnTask
    <3>2. QED BY <3>1, <2>1 DEF Moved
  <2>4. ASSUME NEW e \in Exec, state'[e] = "running", handle'[e] # NoTask
        PROVE  rtos'[handle'[e]] = "ready" \/ \E s \in Sketch : Resuming(s, e)'
    <3>1. handle'[e] = handle[e] /\ state[e] = "running" /\ rtos'[handle[e]] = rtos[handle[e]]
        BY <2>1, <2>4, <1>a
    <3>2. CASE rtos[handle[e]] = "ready"
        BY <3>1, <3>2
    <3>3. CASE \E s \in Sketch : Resuming(s, e)
      <4>1. PICK s \in Sketch : Resuming(s, e)
          BY <3>3
      <4>2. s # a /\ a \in Task
          BY <1>1, <4>1 DEF Resuming, KillCall, OneController
      <4>3. pc'[s] = pc[s] /\ op'[s] = op[s]
        <5>1. CASE KillDelete(a)
          <6>1. op[a].task = a
              BY <4>2, <5>1 DEF KillDelete, At, Taken, KillSteps
          <6>2. QED BY <4>2, <5>1, <6>1 DEF KillDelete, TypeOK
        <5>2. CASE pc[a] # "killDelete"
            BY <4>2, <5>2, OthersWait
        <5>3. QED BY <5>1, <5>2
                  DEF CallStep, KillLock, KillUnwind, SaveState, MarkRunning, CreateTask, CreateFails, UndoState,
                      FreeExec, PauseLock, PauseSuspend, RestartLock, RestartResume, At
      <4>4. QED BY <4>1, <4>3 DEF Resuming
    <3>4. QED BY <2>4, <3>1, <3>2, <3>3 DEF Moved
  <2>5. QED BY <2>2, <2>3, <2>4 DEF Moved
<1>2. CASE pc[a] \notin KillCall
  <2>1. a \in Sketch /\ \A s \in Sketch : s = a
      BY <1>2 DEF Moved, ScriptCall, SelfSteps, MoveCall, KillCall, OneController, CallStep, KillLock, KillUnwind,
                  KillDelete, SaveState, MarkRunning, CreateTask, CreateFails, UndoState, FreeExec, PauseLock,
                  PauseSuspend, RestartLock, RestartResume, At
  <2>2. \A b \in Actor : b # a => pc'[b] = pc[b] /\ op'[b] = op[b]
      BY <1>2, OthersWait DEF KillCall
  <2>3. \A t \in Task : pc'[t] \notin MoveCall
      BY <2>1, <2>2 DEF Moved
  <2>4. pc[a] # "idle" => op[a].exec \in Exec
      BY DEF Wired, CallWired
  <2>5. pc'[a] = "pauseSuspend" => /\ state'[op'[a].exec] # "running"
                                   /\ \A e \in Exec : handle'[e] = op'[a].task => e = op'[a].exec
    <3>1. SUFFICES ASSUME pc'[a] = "pauseSuspend"
                   PROVE  /\ state'[op'[a].exec] # "running"
                          /\ \A e \in Exec : handle'[e] = op'[a].task => e = op'[a].exec
        OBVIOUS
    <3>2. /\ op'[a].exec = op[a].exec /\ op'[a].task = handle[op[a].exec] /\ UNCHANGED handle
          /\ state'[op[a].exec] = "paused" /\ pc[a] \in {"pause", "restart"}
        BY <1>2, <3>1, NotKilling DEF MoveCall
    <3>3. op[a].exec \in Exec /\ handle[op[a].exec] # NoTask
        BY <1>2, <3>1, NotKilling DEF MoveCall
    <3>5. QED BY <3>2, <3>3, <1>a
  <2>6. ASSUME NEW e \in Exec, state'[e] = "running", handle'[e] # NoTask
        PROVE  rtos'[handle'[e]] = "ready" \/ \E s \in Sketch : Resuming(s, e)'
    <3>0. state[e] = "running" /\ handle[e] # NoTask /\ pc[a] # "restartResume" => rtos[handle[e]] = "ready"
        BY <2>1 DEF Moved, Resuming
    <3>1. CASE MarkRunning(a) \/ UndoState(a)
      <4>1. handle[op[a].exec] = NoTask /\ op[a].exec \in Exec /\ pc[a] # "restartResume"
          BY <2>1, <2>4, <3>1 DEF MarkRunning, UndoState, At, SketchHolds, AfterLock
      <4>2. UNCHANGED <<handle, rtos>> /\ (e # op[a].exec => state'[e] = state[e])
          BY <3>1, <4>1 DEF MarkRunning, UndoState, TypeOK, taskVars
      <4>3. QED BY <2>6, <3>0, <4>1, <4>2
    <3>2. CASE SaveState(a) \/ CreateFails(a) \/ FreeExec(a)
      <4>1. /\ state'[e] = state[e] /\ rtos' = rtos /\ pc[a] # "restartResume"
            /\ handle'[e] = NoTask \/ handle'[e] = handle[e]
          BY <3>2, <2>4 DEF SaveState, CreateFails, FreeExec, At, TypeOK, objVars, taskVars
      <4>2. QED BY <2>6, <3>0, <4>1
    <3>3. CASE \E t \in Task : CreateTask(a, t)
      <4>1. PICK t \in Task : CreateTask(a, t)
          BY <3>3
      <4>2. /\ op[a].exec \in Exec /\ pc[a] = "create" /\ UNCHANGED state
            /\ handle'[op[a].exec] = t /\ \A x \in Exec : x # op[a].exec => handle'[x] = handle[x]
            /\ rtos'[t] = "ready" /\ \A x \in Task : x # t => rtos'[x] = rtos[x]
          BY <2>4, <4>1 DEF CreateTask, At, TypeOK
      <4>3. CASE handle'[e] = t
          BY <4>2, <4>3
      <4>4. CASE handle'[e] # t
          BY <2>6, <3>0, <4>2, <4>4, <1>a
      <4>5. QED BY <4>3, <4>4
    <3>4. CASE PauseLock(a)
      <4>1. /\ UNCHANGED <<handle, rtos>> /\ pc[a] # "restartResume" /\ op[a].exec \in Exec
            /\ state'[e] = "running" => state[e] = "running"
          BY <3>4, <2>4 DEF PauseLock, Switch, At, TypeOK, taskVars
      <4>2. QED BY <2>6, <3>0, <4>1
    <3>5. CASE RestartLock(a)
      <4>1. UNCHANGED <<handle, rtos>> /\ pc[a] # "restartResume" /\ op[a].exec \in Exec
          BY <3>5, <2>4 DEF RestartLock, Switch, At, taskVars
      <4>2. CASE state[e] = "running"
          BY <2>6, <3>0, <4>1, <4>2
      <4>3. CASE state[e] # "running"
        <5>1. e = op[a].exec /\ state[e] = "paused" /\ handle[e] # NoTask
            BY <2>6, <3>5, <4>1, <4>3 DEF RestartLock, Switch, TypeOK
        <5>2. /\ pc'[a] = "restartResume" /\ handle[e] \in Task
              /\ op' = [op EXCEPT ![a].task = handle[e]]
            BY <3>5, <5>1, <1>a DEF RestartLock, Switch, TypeOK
        <5>3. op'[a].exec = e
            BY <5>1, <5>2, OpTaskTyped
        <5>4. QED BY <2>1, <5>2, <5>3 DEF Resuming
      <4>4. QED BY <4>2, <4>3
    <3>6. CASE PauseSuspend(a)
      <4>1. /\ pc[a] = "pauseSuspend" /\ UNCHANGED <<state, handle>> /\ op[a].task \in Task
            /\ \A x \in Task : x # op[a].task => rtos'[x] = rtos[x]
          BY <3>6 DEF PauseSuspend, At, Move, TypeOK, Wired, CallWired, OnTask, objVars
      <4>2. handle[e] # op[a].task
          BY <2>1, <2>6, <4>1 DEF Moved
      <4>3. QED BY <2>6, <3>0, <4>1, <4>2, <1>a
    <3>7. CASE RestartResume(a)
      <4>1. /\ pc[a] = "restartResume" /\ UNCHANGED <<state, handle>> /\ op[a].task \in Task
            /\ \A x \in Task : rtos[x] = "ready" => rtos'[x] = "ready"
            /\ rtos[op[a].task] # "deleted" => rtos'[op[a].task] = "ready"
          BY <3>7 DEF RestartResume, At, Move, TypeOK, Wired, CallWired, OnTask, objVars
      <4>2. handle[op[a].exec] = op[a].task /\ op[a].exec \in Exec
          BY <2>1, <2>4, <4>1 DEF SketchCalls, SketchResumes
      <4>3. CASE e = op[a].exec
          BY <2>6, <4>1, <4>2, <4>3, <1>a DEF Live
      <4>4. CASE e # op[a].exec
          BY <2>1, <2>6, <4>1, <4>4, <1>a DEF Moved, Resuming
      <4>5. QED BY <4>3, <4>4
    <3>8. QED BY <1>2, <3>1, <3>2, <3>3, <3>4, <3>5, <3>6, <3>7
              DEF CallStep, KillLock, KillUnwind, KillDelete, At, KillCall
  <2>7. QED BY <2>1, <2>3, <2>5, <2>6 DEF Moved
<1>3. QED BY <1>1, <1>2

LEMMA NextMoved == OneController /\ ScriptsOnlyKill /\ Truth /\ Moved /\ [Next]_vars => Moved'
<1> SUFFICES ASSUME OneController, ScriptsOnlyKill, Truth, Moved, [Next]_vars PROVE Moved'
    OBVIOUS
<1> USE DEF Truth, Ownership, Typed
<1>1. CASE \E a \in Actor : CallStep(a)
    BY <1>1, CallStepMoved
<1>2. ASSUME NEW t \in Task, TaskStep(t) PROVE Moved'
  <2>1. /\ rtos[t] = "ready" /\ UNCHANGED <<pc, op, handle>> /\ (rtos'[t] = "ready" \/ (phase[t] = "park" /\ UNCHANGED state))
        /\ \A x \in Task : x # t => rtos'[x] = rtos[x]
        /\ \A e \in Exec : state'[e] = state[e] \/ state'[e] = "stopped"
      BY <1>2 DEF TaskStep, EnterFooter, SkipFooter, LeaveFooter, EnterMain, SkipMain, LeaveMain, Finish, Park,
                  Enter, Leave, Skip, Runs, At, CanRun, TypeOK, objVars, callVars, Wired, SelfWired, Live
  <2>2. ASSUME NEW e \in Exec, state[e] = "running", handle[e] # NoTask PROVE handle[e] \in Task /\ phase[handle[e]] # "park"
      BY <2>2 DEF Marked, Over, TypeOK
  <2>3. ASSUME NEW e \in Exec, state'[e] = "running", handle'[e] # NoTask
        PROVE  rtos'[handle'[e]] = "ready" \/ \E s \in Sketch : Resuming(s, e)'
    <3>1. state[e] = "running" /\ handle'[e] = handle[e] /\ handle[e] \in Task /\ phase[handle[e]] # "park"
        BY <2>1, <2>2, <2>3
    <3>2. rtos[handle[e]] = "ready" => rtos'[handle[e]] = "ready"
        BY <2>1, <3>1
    <3>3. QED BY <2>1, <2>3, <3>1, <3>2 DEF Moved, Resuming
  <2>4. ASSUME NEW s \in Sketch, pc[s] = "pauseSuspend" PROVE state'[op[s].exec] # "running"
      BY <2>1, <2>4 DEF Moved, Wired, CallWired
  <2>5. QED BY <2>1, <2>3, <2>4 DEF Moved
<1>3. ASSUME NEW a \in Actor, NEW e, NEW o \in Ops, Call(a, e, o), a \in Task => o = "kill"
      PROVE  Moved'
  <2>1. /\ pc[a] = "idle" /\ pc'[a] \in {"kill", "pause", "restart"} /\ UNCHANGED <<state, handle, rtos>>
        /\ (a \in Task => pc'[a] = "kill")
        /\ \A b \in Actor : b # a => pc'[b] = pc[b] /\ op'[b] = op[b]
    BY <1>3 DEF Call, At, Ops, FirstStep, TypeOK, objVars, taskVars
  <2>2. \A t \in Task : pc'[t] \notin MoveCall
    BY <2>1 DEF Moved, MoveCall
  <2>3. QED BY <2>1, <2>2 DEF Moved, Resuming
<1>4. CASE UNCHANGED vars
    BY <1>4 DEF Moved, Resuming, vars, objVars, taskVars, callVars
<1>5. \A o \in SelfOps : o = "kill" /\ o \in Ops
    BY DEF Ops, ScriptsOnlyKill
<1>6. QED BY <1>1, <1>2, <1>3, <1>4, <1>5 DEF Next, SketchCall, SelfCall

\* restart() carries on from where the script stopped, unless scripts pause or
\* restart themselves.
THEOREM RunningScriptRuns == ASSUME OneController, ScriptsOnlyKill PROVE Spec => []RunningIsNotSuspended
<1>1. Init => Moved
    BY DEF Init, Moved, MoveCall
<1>2. Truth /\ Moved => RunningIsNotSuspended
    BY DEF RunningIsNotSuspended, Moved, Resuming, CallsOn
<1>3. QED BY <1>1, <1>2, InitTruth, NextTrue, NextMoved, PTL DEF Spec
===============================================================================
