--------------------------- MODULE ScriptTaskProofs ---------------------------
(***************************************************************************)
(* For any number of executables and tasks:                                *)
(*   - ScriptTask keeps its types, whoever the callers are;                *)
(*   - when one sketch task at a time controls the scripts (OneController, *)
(*     which the documentation of pause() asks for), every task that       *)
(*     exists is in the charge of exactly one place that will delete it.   *)
(***************************************************************************)
EXTENDS ScriptTask, TLAPS

USE TaskAssumption DEF Actor

(* Types. TypeOK alone is not inductive: a step reads state[op[a].exec] or  *)
(* unwind[self[t]], which has a type only when there is an executable.     *)

\* A call under way is on an executable, and the tasks that calls and
\* handles refer to have been created; a task that exists runs an executable.
OnTask == {"killUnwind", "killDelete", "pauseSuspend", "restartResume"}
CallWired(a) ==
    /\ pc[a] # "idle" => op[a].exec \in Exec
    /\ pc[a] \in OnTask => op[a].task \in Task /\ rtos[op[a].task] # "none"
HandleWired(e) == handle[e] # NoTask => rtos[handle[e]] # "none"
SelfWired(t) == Live(t) => self[t] \in Exec

Wired ==
    /\ \A a \in Actor : CallWired(a)
    /\ \A e \in Exec : HandleWired(e)
    /\ \A t \in Task : SelfWired(t)

Typed == TypeOK /\ Wired

Call_ == [exec : Exec \cup {NoExec}, task : Task \cup {NoTask}, before : ScriptState, then : Then]

LEMMA InitTyped == Init => Typed
BY DEF Init, Typed, TypeOK, Wired, CallWired, OnTask, HandleWired, SelfWired, Live, NoCall, ScriptState, Phase, Then, Step

\* What GoTo leaves in op and pc.
LEMMA GoToTyped ==
    ASSUME Typed, NEW a \in Actor, NEW k \in Step, GoTo(a, k)
    PROVE  /\ pc' \in [Actor -> Step]
           /\ op' \in [Actor -> Call_]
           /\ pc'[a] = k
           /\ \A b \in Actor : b # a => pc'[b] = pc[b] /\ op'[b] = op[b]
           /\ k # "idle" => op'[a] = op[a]
BY DEF GoTo, Typed, TypeOK, NoCall, Call_, ScriptState, Then, Step

\* A call that starts keeps the types, whatever operation it is of.
LEMMA CallTyped ==
    ASSUME Typed, NEW a \in Actor, NEW e \in Exec, NEW o \in Ops, Call(a, e, o)
    PROVE  Typed'
<1> DEFINE c == [exec |-> e, task |-> NoTask, before |-> "notStarted", then |-> AfterKill[o]]
<1>1. AfterKill[o] \in Then /\ FirstStep[o] \in {"kill", "pause", "restart"}
    BY DEF Ops, AfterKill, FirstStep, Then
<1>2. c \in Call_
    BY <1>1 DEF Call_, ScriptState
<1>3. op' = [op EXCEPT ![a] = c] /\ pc' = [pc EXCEPT ![a] = FirstStep[o]]
    BY DEF Call
<1>4. op' \in [Actor -> Call_] /\ pc' \in [Actor -> Step]
    BY <1>1, <1>2, <1>3 DEF Typed, TypeOK, Call_, Step
<1>5. TypeOK'
    BY <1>4 DEF Call, Typed, TypeOK, Call_, objVars, taskVars
<1>6. Wired'
    BY <1>1, <1>3 DEF Call, Typed, TypeOK, Wired, CallWired, OnTask, HandleWired, SelfWired, Live, objVars, taskVars
<1>7. QED BY <1>5, <1>6 DEF Typed

\* What the calls do to one field of op.
LEMMA OpTaskTyped ==
    ASSUME Typed, NEW a \in Actor, NEW t \in Task \cup {NoTask}, op' = [op EXCEPT ![a].task = t]
    PROVE  /\ op' \in [Actor -> Call_]
           /\ op'[a].task = t /\ op'[a].exec = op[a].exec /\ op'[a].then = op[a].then
           /\ \A b \in Actor : b # a => op'[b] = op[b]
<1>1. op \in [Actor -> Call_]
    BY DEF Typed, TypeOK, Call_
<1>2. [op[a] EXCEPT !.task = t] \in Call_
    BY <1>1 DEF Call_
<1>3. op' = [op EXCEPT ![a] = [op[a] EXCEPT !.task = t]]
    OBVIOUS
<1>4. op'[a] = [op[a] EXCEPT !.task = t]
    BY <1>1, <1>3
<1>5. op'[a].task = t /\ op'[a].exec = op[a].exec /\ op'[a].then = op[a].then
    BY <1>1, <1>4 DEF Call_
<1>6. QED BY <1>1, <1>2, <1>3, <1>5

LEMMA OpBeforeTyped ==
    ASSUME Typed, NEW a \in Actor, NEW s \in ScriptState, op' = [op EXCEPT ![a].before = s]
    PROVE  /\ op' \in [Actor -> Call_]
           /\ \A b \in Actor : op'[b].exec = op[b].exec /\ op'[b].task = op[b].task
                               /\ op'[b].then = op[b].then
BY DEF Typed, TypeOK, Call_

\* A step of a call that takes no task in hand, and forgets none, leaves every
\* call wired.
Created == \A t \in Task : rtos[t] # "none" => rtos'[t] # "none"

LEMMA GoToWired ==
    ASSUME Typed, NEW a \in Actor, NEW k \in Step \ OnTask, GoTo(a, k), Created,
           k # "idle" => op[a].exec \in Exec
    PROVE  \A b \in Actor : CallWired(b)'
<1> SUFFICES ASSUME NEW b \in Actor PROVE CallWired(b)'
    OBVIOUS
<1>1. CASE b = a
    BY <1>1, GoToTyped DEF CallWired, OnTask
<1>2. CASE b # a
    BY <1>2, GoToTyped DEF CallWired, OnTask, Created, Typed, Wired
<1>3. QED BY <1>1, <1>2

\* A step that takes a task in hand.
LEMMA TakeWired ==
    ASSUME Typed, NEW a \in Actor, NEW k \in OnTask, NEW t \in Task, rtos[t] # "none", Created,
           op[a].exec \in Exec, pc' = [pc EXCEPT ![a] = k], op' = [op EXCEPT ![a].task = t]
    PROVE  \A b \in Actor : CallWired(b)'
<1> SUFFICES ASSUME NEW b \in Actor PROVE CallWired(b)'
    OBVIOUS
<1>0. k # "idle"
    BY DEF OnTask
<1>1. CASE b = a
    BY <1>0, <1>1, OpTaskTyped DEF CallWired, Created, Typed, TypeOK
<1>2. CASE b # a
    BY <1>2, OpTaskTyped DEF CallWired, OnTask, Created, Typed, TypeOK, Wired
<1>3. QED BY <1>1, <1>2

\* Every step of a call keeps the types.
LEMMA CallStepTyped ==
    ASSUME Typed, NEW a \in Actor, CallStep(a)
    PROVE  Typed'
<1> USE DEF Typed, At
<1>0. /\ pc[a] # "idle" => op[a].exec \in Exec
      /\ pc[a] \in OnTask => op[a].task \in Task /\ rtos[op[a].task] # "none"
      /\ op[a].then \in Step \ OnTask
    BY DEF Wired, CallWired, TypeOK, Then, Step, OnTask
<1>1. CASE KillLock(a) /\ handle[op[a].exec] = NoTask
  <2>1. GoTo(a, op[a].then) /\ UNCHANGED <<state, rtos>>
    BY <1>1 DEF KillLock, taskVars
  <2>2. Created /\ op[a].exec \in Exec
    BY <1>1, <1>0, <2>1 DEF KillLock, Created
  <2>3. TypeOK'
    BY <1>1, <1>0, <2>1, GoToTyped DEF KillLock, TypeOK, Call_, taskVars
  <2>4. \A b \in Actor : CallWired(b)'
    BY <1>0, <2>1, <2>2, GoToWired
  <2>5. (\A e \in Exec : HandleWired(e)') /\ (\A t \in Task : SelfWired(t)')
    BY <1>1, <2>1, <2>2 DEF KillLock, TypeOK, Wired, HandleWired, SelfWired, Live, taskVars
  <2>6. QED BY <2>3, <2>4, <2>5 DEF Wired
<1>2. CASE KillLock(a) /\ handle[op[a].exec] # NoTask
  <2> DEFINE e == op[a].exec
             t == handle[op[a].exec]
  <2>0. e \in Exec /\ t \in Task /\ rtos[t] # "none"
    BY <1>2, <1>0 DEF KillLock, TypeOK, Wired, HandleWired
  <2>1. /\ pc' = [pc EXCEPT ![a] = "killUnwind"]
        /\ op' = [op EXCEPT ![a].task = t]
        /\ state' = [state EXCEPT ![e] = "stopped"]
        /\ handle' = [handle EXCEPT ![e] = NoTask]
        /\ UNCHANGED <<unwind, loaded, taskVars>>
    BY <1>2 DEF KillLock
  <2>2. op' \in [Actor -> Call_]
    BY <2>0, <2>1, OpTaskTyped
  <2>3. TypeOK'
    BY <2>0, <2>1, <2>2 DEF TypeOK, Call_, Step, ScriptState, taskVars
  <2>4. \A b \in Actor : CallWired(b)'
    BY <2>0, <2>1, TakeWired DEF OnTask, Created, taskVars
  <2>5. (\A x \in Exec : HandleWired(x)') /\ (\A x \in Task : SelfWired(x)')
    BY <2>0, <2>1 DEF TypeOK, Wired, HandleWired, SelfWired, Live, taskVars
  <2>6. QED BY <2>3, <2>4, <2>5 DEF Wired
<1>3. CASE KillUnwind(a)
  <2>1. TypeOK'
    BY <1>3, <1>0 DEF KillUnwind, TypeOK, Step, taskVars
  <2>2. Wired'
    BY <1>3, <1>0 DEF KillUnwind, TypeOK, Wired, CallWired, OnTask, HandleWired, SelfWired, Live, taskVars
  <2>3. QED BY <2>1, <2>2
<1>4. CASE KillDelete(a)
  <2> DEFINE t == op[a].task
  <2>0. t \in Task /\ rtos[t] # "none" /\ NoCall \in Call_
    BY <1>4, <1>0 DEF KillDelete, OnTask, NoCall, Call_, ScriptState, Then
  <2>1. pc' \in [Actor -> Step] /\ Created
    BY <1>0, <1>4, <2>0 DEF KillDelete, TypeOK, Step, Created
  <2>2. op' \in [Actor -> Call_]
    <3> DEFINE k == IF t = a THEN "idle" ELSE op[a].then
               c == IF k = "idle" THEN NoCall ELSE [op[a] EXCEPT !.task = NoTask]
    <3>1. op \in [Actor -> Call_]
      BY DEF TypeOK, Call_
    <3>2. [op[a] EXCEPT !.task = NoTask] \in Call_
      BY <3>1 DEF Call_
    <3>3. c \in Call_
      BY <2>0, <3>2
    <3>4. op' = [op EXCEPT ![t] = NoCall, ![a] = c]
      BY <1>4 DEF KillDelete
    <3>5. QED BY <2>0, <3>1, <3>3, <3>4
  <2>3. TypeOK'
    BY <2>0, <2>1, <2>2, <1>4 DEF KillDelete, TypeOK, Call_, Phase, objVars
  <2>4. ASSUME NEW b \in Actor PROVE CallWired(b)'
    <3>1. CASE b = t
      BY <3>1, <2>0, <2>1, <1>0, <1>4 DEF KillDelete, TypeOK, CallWired, OnTask
    <3>2. CASE b # t /\ b = a
      BY <3>2, <2>0, <2>1, <1>0, <1>4 DEF KillDelete, TypeOK, CallWired, OnTask
    <3>3. CASE b # t /\ b # a
      BY <3>3, <2>0, <2>1, <1>0, <1>4 DEF KillDelete, TypeOK, Wired, CallWired, Created
    <3>4. QED BY <3>1, <3>2, <3>3
  <2>5. (\A x \in Exec : HandleWired(x)') /\ (\A x \in Task : SelfWired(x)')
    BY <1>4, <2>0 DEF KillDelete, TypeOK, Wired, HandleWired, SelfWired, Live, objVars
  <2>6. QED BY <2>3, <2>4, <2>5 DEF Wired
<1>5. CASE SaveState(a)
  <2>1. TypeOK'
    BY <1>5, <1>0, OpBeforeTyped DEF SaveState, TypeOK, Call_, Step, objVars, taskVars
  <2>2. Wired'
    BY <1>5, <1>0, OpBeforeTyped
    DEF SaveState, TypeOK, Wired, CallWired, OnTask, HandleWired, SelfWired, Live, objVars, taskVars
  <2>3. QED BY <2>1, <2>2
<1>6. CASE MarkRunning(a)
  <2>1. GoTo(a, "create") /\ "create" \in Step \ OnTask
    BY <1>6 DEF MarkRunning, Step, OnTask
  <2>2. Created /\ op[a].exec \in Exec
    BY <1>6, <1>0 DEF MarkRunning, TypeOK, Created, taskVars
  <2>3. TypeOK'
    BY <1>6, <1>0, <2>1, GoToTyped DEF MarkRunning, TypeOK, Call_, ScriptState, taskVars
  <2>4. \A b \in Actor : CallWired(b)'
    BY <2>1, <2>2, GoToWired
  <2>5. (\A e \in Exec : HandleWired(e)') /\ (\A t \in Task : SelfWired(t)')
    BY <1>6, <2>2 DEF MarkRunning, TypeOK, Wired, HandleWired, SelfWired, Live, taskVars
  <2>6. QED BY <2>3, <2>4, <2>5 DEF Wired
<1>7. CASE \E t \in Task : CreateTask(a, t)
  <2>0. PICK t \in Task : CreateTask(a, t)
    BY <1>7
  <2>1. GoTo(a, "idle") /\ "idle" \in Step \ OnTask
    BY <2>0 DEF CreateTask, Step, OnTask
  <2>2. Created /\ op[a].exec \in Exec
    BY <2>0, <1>0 DEF CreateTask, TypeOK, Created
  <2>3. TypeOK'
    BY <2>0, <1>0, <2>1, GoToTyped DEF CreateTask, TypeOK, Call_
  <2>4. \A b \in Actor : CallWired(b)'
    BY <2>1, <2>2, GoToWired
  <2>5. (\A x \in Exec : HandleWired(x)') /\ (\A x \in Task : SelfWired(x)')
    BY <2>0, <2>2 DEF CreateTask, TypeOK, Wired, HandleWired, SelfWired, Live
  <2>6. QED BY <2>3, <2>4, <2>5 DEF Wired
<1>8. CASE CreateFails(a)
  <2>1. GoTo(a, "undo") /\ "undo" \in Step \ OnTask
    BY <1>8 DEF CreateFails, Step, OnTask
  <2>2. Created /\ op[a].exec \in Exec
    BY <1>8, <1>0 DEF CreateFails, TypeOK, Created, taskVars
  <2>3. TypeOK'
    BY <1>8, <1>0, <2>1, GoToTyped DEF CreateFails, TypeOK, Call_, taskVars
  <2>4. \A b \in Actor : CallWired(b)'
    BY <2>1, <2>2, GoToWired
  <2>5. (\A e \in Exec : HandleWired(e)') /\ (\A t \in Task : SelfWired(t)')
    BY <1>8, <2>2 DEF CreateFails, TypeOK, Wired, HandleWired, SelfWired, Live, taskVars
  <2>6. QED BY <2>3, <2>4, <2>5 DEF Wired
<1>9. CASE UndoState(a)
  <2>1. GoTo(a, "idle") /\ "idle" \in Step \ OnTask
    BY <1>9 DEF UndoState, Step, OnTask
  <2>2. Created /\ op[a].exec \in Exec
    BY <1>9, <1>0 DEF UndoState, TypeOK, Created, taskVars
  <2>3. TypeOK'
    BY <1>9, <1>0, <2>1, GoToTyped DEF UndoState, TypeOK, Call_, taskVars
  <2>4. \A b \in Actor : CallWired(b)'
    BY <2>1, <2>2, GoToWired
  <2>5. (\A e \in Exec : HandleWired(e)') /\ (\A t \in Task : SelfWired(t)')
    BY <1>9, <2>2 DEF UndoState, TypeOK, Wired, HandleWired, SelfWired, Live, taskVars
  <2>6. QED BY <2>3, <2>4, <2>5 DEF Wired
<1>10. CASE FreeExec(a)
  <2>1. GoTo(a, "idle") /\ "idle" \in Step \ OnTask
    BY <1>10 DEF FreeExec, Step, OnTask
  <2>2. Created /\ op[a].exec \in Exec
    BY <1>10, <1>0 DEF FreeExec, TypeOK, Created, taskVars
  <2>3. TypeOK'
    BY <1>10, <1>0, <2>1, GoToTyped DEF FreeExec, TypeOK, Call_, taskVars
  <2>4. \A b \in Actor : CallWired(b)'
    BY <2>1, <2>2, GoToWired
  <2>5. (\A e \in Exec : HandleWired(e)') /\ (\A t \in Task : SelfWired(t)')
    BY <1>10, <2>2 DEF FreeExec, TypeOK, Wired, HandleWired, SelfWired, Live, taskVars
  <2>6. QED BY <2>3, <2>4, <2>5 DEF Wired
<1>11. CASE PauseLock(a)
  <2> DEFINE e == op[a].exec
             t == handle[op[a].exec]
  <2>0. e \in Exec /\ UNCHANGED <<handle, unwind, loaded, taskVars>>
    BY <1>11, <1>0 DEF PauseLock, Switch
  <2>1. state' \in [Exec -> ScriptState]
    BY <1>11, <2>0 DEF PauseLock, Switch, TypeOK, ScriptState
  <2>2. (\A x \in Exec : HandleWired(x)') /\ (\A x \in Task : SelfWired(x)')
    BY <2>0 DEF Wired, HandleWired, SelfWired, Live, taskVars
  <2>3. CASE state[e] = "running" /\ t # NoTask
    <3>1. t \in Task /\ rtos[t] # "none"
      BY <2>0, <2>3 DEF TypeOK, Wired, HandleWired
    <3>2. op' = [op EXCEPT ![a].task = t] /\ pc' = [pc EXCEPT ![a] = "pauseSuspend"]
      BY <1>11, <2>3 DEF PauseLock, Switch
    <3>3. TypeOK'
      BY <2>0, <2>1, <3>1, <3>2, OpTaskTyped DEF TypeOK, Call_, Step, taskVars
    <3>4. \A b \in Actor : CallWired(b)'
      BY <2>0, <3>1, <3>2, TakeWired DEF OnTask, Created, taskVars
    <3>5. QED BY <2>2, <3>3, <3>4 DEF Wired
  <2>4. CASE ~(state[e] = "running" /\ t # NoTask)
    <3>1. GoTo(a, "idle") /\ "idle" \in Step \ OnTask
      BY <1>11, <2>4 DEF PauseLock, Switch, Step, OnTask
    <3>2. TypeOK'
      BY <2>0, <2>1, <3>1, GoToTyped DEF TypeOK, Call_, taskVars
    <3>3. \A b \in Actor : CallWired(b)'
      BY <2>0, <3>1, GoToWired DEF Created, taskVars
    <3>4. QED BY <2>2, <3>2, <3>3 DEF Wired
  <2>5. QED BY <2>3, <2>4
<1>12. CASE RestartLock(a)
  <2> DEFINE e == op[a].exec
             t == handle[op[a].exec]
  <2>0. e \in Exec /\ UNCHANGED <<handle, unwind, loaded, taskVars>>
    BY <1>12, <1>0 DEF RestartLock, Switch
  <2>1. state' \in [Exec -> ScriptState]
    BY <1>12, <2>0 DEF RestartLock, Switch, TypeOK, ScriptState
  <2>2. (\A x \in Exec : HandleWired(x)') /\ (\A x \in Task : SelfWired(x)')
    BY <2>0 DEF Wired, HandleWired, SelfWired, Live, taskVars
  <2>3. CASE state[e] = "paused" /\ t # NoTask
    <3>1. t \in Task /\ rtos[t] # "none"
      BY <2>0, <2>3 DEF TypeOK, Wired, HandleWired
    <3>2. op' = [op EXCEPT ![a].task = t] /\ pc' = [pc EXCEPT ![a] = "restartResume"]
      BY <1>12, <2>3 DEF RestartLock, Switch
    <3>3. TypeOK'
      BY <2>0, <2>1, <3>1, <3>2, OpTaskTyped DEF TypeOK, Call_, Step, taskVars
    <3>4. \A b \in Actor : CallWired(b)'
      BY <2>0, <3>1, <3>2, TakeWired DEF OnTask, Created, taskVars
    <3>5. QED BY <2>2, <3>3, <3>4 DEF Wired
  <2>4. CASE ~(state[e] = "paused" /\ t # NoTask)
    <3>1. GoTo(a, "idle") /\ "idle" \in Step \ OnTask
      BY <1>12, <2>4 DEF RestartLock, Switch, Step, OnTask
    <3>2. TypeOK'
      BY <2>0, <2>1, <3>1, GoToTyped DEF TypeOK, Call_, taskVars
    <3>3. \A b \in Actor : CallWired(b)'
      BY <2>0, <3>1, GoToWired DEF Created, taskVars
    <3>4. QED BY <2>2, <3>2, <3>3 DEF Wired
  <2>5. QED BY <2>3, <2>4
<1>13. CASE PauseSuspend(a)
  <2>1. GoTo(a, "idle") /\ "idle" \in Step \ OnTask
    BY <1>13 DEF PauseSuspend, Move, Step, OnTask
  <2>2. op[a].exec \in Exec /\ op[a].task \in Task /\ rtos[op[a].task] # "none"
    BY <1>13, <1>0 DEF PauseSuspend, OnTask
  <2>3. rtos' = [rtos EXCEPT ![op[a].task] = IF rtos[op[a].task] = "deleted" THEN "deleted" ELSE "suspended"]
    BY <1>13, <2>2 DEF PauseSuspend, Move, TypeOK
  <2>4. Created
    BY <2>2, <2>3 DEF TypeOK, Created
  <2>5. TypeOK'
    BY <1>13, <2>1, <2>2, <2>3, GoToTyped DEF PauseSuspend, Move, TypeOK, Call_, objVars
  <2>6. \A b \in Actor : CallWired(b)'
    BY <2>1, <2>2, <2>4, GoToWired
  <2>7. (\A x \in Exec : HandleWired(x)') /\ (\A x \in Task : SelfWired(x)')
    BY <1>13, <2>2, <2>3, <2>4 DEF PauseSuspend, Move, TypeOK, Wired, HandleWired, SelfWired, Live, Created, objVars
  <2>8. QED BY <2>5, <2>6, <2>7 DEF Wired
<1>14. CASE RestartResume(a)
  <2>1. GoTo(a, "idle") /\ "idle" \in Step \ OnTask
    BY <1>14 DEF RestartResume, Move, Step, OnTask
  <2>2. op[a].exec \in Exec /\ op[a].task \in Task /\ rtos[op[a].task] # "none"
    BY <1>14, <1>0 DEF RestartResume, OnTask
  <2>3. rtos' = [rtos EXCEPT ![op[a].task] = IF rtos[op[a].task] = "deleted" THEN "deleted" ELSE "ready"]
    BY <1>14, <2>2 DEF RestartResume, Move, TypeOK
  <2>4. Created
    BY <2>2, <2>3 DEF TypeOK, Created
  <2>5. TypeOK'
    BY <1>14, <2>1, <2>2, <2>3, GoToTyped DEF RestartResume, Move, TypeOK, Call_, objVars
  <2>6. \A b \in Actor : CallWired(b)'
    BY <2>1, <2>2, <2>4, GoToWired
  <2>7. (\A x \in Exec : HandleWired(x)') /\ (\A x \in Task : SelfWired(x)')
    BY <1>14, <2>2, <2>3, <2>4 DEF RestartResume, Move, TypeOK, Wired, HandleWired, SelfWired, Live, Created, objVars
  <2>8. QED BY <2>5, <2>6, <2>7 DEF Wired
<1>15. QED
    BY <1>1, <1>2, <1>3, <1>4, <1>5, <1>6, <1>7, <1>8, <1>9, <1>10, <1>11, <1>12, <1>13, <1>14
    DEF CallStep

\* Every step of taskMain() keeps the types.
LEMMA TaskStepTyped ==
    ASSUME Typed, NEW t \in Task, TaskStep(t)
    PROVE  Typed'
<1> USE DEF Typed, Runs, At, CanRun
<1>0. rtos[t] = "ready" => self[t] \in Exec
    BY DEF Wired, SelfWired, Live
<1>1. CASE EnterFooter(t)
    BY <1>0, <1>1 DEF EnterFooter, Enter, TypeOK, Wired, CallWired, HandleWired, SelfWired, Live, Phase, callVars
<1>2. CASE SkipFooter(t)
    BY <1>2 DEF SkipFooter, Skip, TypeOK, Wired, CallWired, HandleWired, SelfWired, Live, Phase, objVars, callVars
<1>3. CASE LeaveFooter(t)
    BY <1>0, <1>3 DEF LeaveFooter, Leave, TypeOK, Wired, CallWired, HandleWired, SelfWired, Live, Phase, callVars
<1>4. CASE EnterMain(t)
    BY <1>0, <1>4 DEF EnterMain, Enter, TypeOK, Wired, CallWired, HandleWired, SelfWired, Live, Phase, callVars
<1>5. CASE SkipMain(t)
    BY <1>5 DEF SkipMain, Skip, TypeOK, Wired, CallWired, HandleWired, SelfWired, Live, Phase, objVars, callVars
<1>6. CASE LeaveMain(t)
    BY <1>0, <1>6 DEF LeaveMain, Leave, TypeOK, Wired, CallWired, HandleWired, SelfWired, Live, Phase, callVars
<1>7. CASE Finish(t)
    BY <1>0, <1>7 DEF Finish, TypeOK, Wired, CallWired, HandleWired, SelfWired, Live, Phase, ScriptState, callVars
<1>8. CASE Park(t)
    BY <1>0, <1>8 DEF Park, TypeOK, Wired, CallWired, HandleWired, SelfWired, Live, objVars, callVars
<1>9. QED
    BY <1>1, <1>2, <1>3, <1>4, <1>5, <1>6, <1>7, <1>8 DEF TaskStep

LEMMA NextTyped == Typed /\ [Next]_vars => Typed'
<1> SUFFICES ASSUME Typed, [Next]_vars PROVE Typed'
    OBVIOUS
<1>1. CASE \E a \in Sketch : SketchCall(a)
    BY <1>1, CallTyped DEF SketchCall
<1>2. CASE \E t \in Task, o \in SelfOps : SelfCall(t, o)
  <2>1. PICK t \in Task, o \in SelfOps : SelfCall(t, o)
      BY <1>2
  <2>2. self[t] \in Exec /\ o \in Ops
      BY <2>1 DEF Typed, Wired, SelfWired, Live, SelfCall, Call, At, CanRun, Ops
  <2>3. QED BY <2>1, <2>2, CallTyped DEF SelfCall
<1>3. CASE \E a \in Actor : CallStep(a)
    BY <1>3, CallStepTyped
<1>4. CASE \E t \in Task : TaskStep(t)
    BY <1>4, TaskStepTyped
<1>5. CASE UNCHANGED vars
    BY <1>5 DEF Typed, TypeOK, Wired, CallWired, HandleWired, SelfWired, Live, vars, objVars, taskVars, callVars
<1>6. QED BY <1>1, <1>2, <1>3, <1>4, <1>5 DEF Next

\* The variables keep their types, for any executables, tasks and callers.
THEOREM TypeCorrect == Spec => []TypeOK
<1>1. Typed => TypeOK
    BY DEF Typed
<1>2. QED BY <1>1, InitTyped, NextTyped, PTL DEF Spec
-------------------------------------------------------------------------------
(* Ownership.                                                              *)

\* The sketch controls its scripts from one task at a time.
OneController == \A s, r \in Sketch : s = r

KillSteps == {"killUnwind", "killDelete"}
SelfSteps == {"kill", "killUnwind", "killDelete", "pause", "pauseSuspend", "restart", "restartResume"}
AfterLock == {"killUnwind", "killDelete", "saveState", "markRunning", "create", "undo", "freeExec"}
Kills(a, t) == pc[a] \in KillSteps /\ op[a].task = t

\* A script calls pause(), restart() or kill(), on its own executable.
ScriptCall(t) ==
    pc[t] # "idle" => /\ Live(t) /\ pc[t] \in SelfSteps
                      /\ op[t].exec = self[t] /\ op[t].then = "idle"
\* A handle is that of a task that exists and runs that executable.
Handled(e) == handle[e] # NoTask => Live(handle[e]) /\ self[handle[e]] = e
\* A kill() under way has taken its task off the handle; a script's takes
\* its own task.
Taken(a) ==
    pc[a] \in KillSteps => /\ Live(op[a].task) /\ self[op[a].task] = op[a].exec
                           /\ handle[op[a].exec] # op[a].task
                           /\ a \in Task => op[a].task = a
OneKiller == \A t \in Task : \A a, b \in Actor : Kills(a, t) /\ Kills(b, t) => a = b
\* Once the sketch's kill() is past its lock, the executable has no task
\* until the call creates one.
SketchHolds(s) == pc[s] \in AfterLock => handle[op[s].exec] = NoTask
Owned(t) == Live(t) => handle[self[t]] = t \/ \E a \in Actor : Kills(a, t)

Ownership ==
    /\ Typed
    /\ \A t \in Task : ScriptCall(t)
    /\ \A e \in Exec : Handled(e)
    /\ \A a \in Actor : Taken(a)
    /\ OneKiller
    /\ \A s \in Sketch : SketchHolds(s)
    /\ \A t \in Task : Owned(t)

LEMMA InitOwnership == Init => Ownership
BY InitTyped DEF Init, Ownership, ScriptCall, Handled, Taken, OneKiller, SketchHolds, Owned, Kills,
                 KillSteps, AfterLock, Live

\* A step that creates, deletes and takes no task keeps the ownership.
LEMMA Quiet ==
    ASSUME Ownership, Typed', NEW a \in Actor,
           UNCHANGED <<handle, self>>,
           \A t \in Task : Live(t)' = Live(t),
           \A b \in Actor : b # a => pc'[b] = pc[b] /\ op'[b] = op[b],
           pc'[a] \in KillSteps <=> pc[a] \in KillSteps,
           pc[a] \in KillSteps => op'[a] = op[a],
           a \in Task => ScriptCall(a)',
           a \in Sketch => SketchHolds(a)'
    PROVE  Ownership'
<1> USE DEF Ownership
<1>0. \A b \in Actor : pc'[b] \in KillSteps <=> pc[b] \in KillSteps
    OBVIOUS
<1>1. \A b \in Actor : pc[b] \in KillSteps => op'[b] = op[b]
    OBVIOUS
<1>2. \A b \in Actor : pc[b] \in KillSteps => op[b].task \in Task
    BY DEF Typed, Wired, CallWired, OnTask, KillSteps
<1>3. ASSUME NEW t \in Task PROVE ScriptCall(t)'
    <2>1. CASE t = a
      BY <2>1
    <2>2. CASE t # a
      BY <2>2 DEF ScriptCall
    <2>3. QED BY <2>1, <2>2
<1>4. \A e \in Exec : Handled(e)'
    BY DEF Handled, Typed, TypeOK
<1>5. \A b \in Actor : Taken(b)'
    BY <1>0, <1>1, <1>2 DEF Taken
<1>6. OneKiller'
    BY <1>0, <1>1 DEF OneKiller, Kills
<1>7. ASSUME NEW s \in Sketch PROVE SketchHolds(s)'
    <2>1. CASE s = a
      BY <2>1
    <2>2. CASE s # a
      BY <2>2 DEF SketchHolds
    <2>3. QED BY <2>1, <2>2
<1>8. \A t \in Task : Owned(t)'
    BY <1>0, <1>1 DEF Owned, Kills
<1>9. QED BY <1>3, <1>4, <1>5, <1>6, <1>7, <1>8

\* A call that starts.
LEMMA CallOwned ==
    ASSUME Ownership, NEW a \in Actor, NEW e \in Exec, NEW o \in Ops, Call(a, e, o),
           a \in Task => o \in SelfOps /\ e = self[a] /\ Live(a)
    PROVE  Ownership'
<1>1. Typed'
    BY CallTyped DEF Ownership
<1>2. /\ pc[a] = "idle" /\ pc' = [pc EXCEPT ![a] = FirstStep[o]]
      /\ op' = [op EXCEPT ![a] = [exec |-> e, task |-> NoTask, before |-> "notStarted",
                                  then |-> AfterKill[o]]]
      /\ UNCHANGED <<objVars, taskVars>>
    BY DEF Call, At
<1>3. FirstStep[o] \in {"kill", "pause", "restart"} /\ (o \in SelfOps => AfterKill[o] = "idle")
    BY DEF Ops, AfterKill, FirstStep
<1>4. pc'[a] = FirstStep[o] /\ op'[a].exec = e /\ op'[a].then = AfterKill[o]
    BY <1>2 DEF Ownership, Typed, TypeOK
<1>5. a \in Task => ScriptCall(a)'
    BY <1>2, <1>3, <1>4 DEF ScriptCall, SelfSteps, Live, taskVars
<1>6. a \in Sketch => SketchHolds(a)'
    BY <1>3, <1>4 DEF SketchHolds, AfterLock
<1>7. \A b \in Actor : b # a => pc'[b] = pc[b] /\ op'[b] = op[b]
    BY <1>2 DEF Ownership, Typed, TypeOK
<1>8. UNCHANGED <<handle, self>> /\ \A t \in Task : Live(t)' = Live(t)
    BY <1>2 DEF Live, objVars, taskVars
<1>9. QED
    BY <1>1, <1>2, <1>3, <1>4, <1>5, <1>6, <1>7, <1>8, Quiet DEF KillSteps

\* A step of a call that goes on, or ends, and takes nothing.
LEMMA GoToQuiet ==
    ASSUME Ownership, Typed', NEW a \in Actor, NEW k \in Step, GoTo(a, k),
           pc[a] \notin KillSteps, k \notin KillSteps,
           UNCHANGED <<handle, self>>,
           \A t \in Task : Live(t)' = Live(t),
           a \in Task => k = "idle",
           a \in Sketch /\ k \in AfterLock => handle[op[a].exec] = NoTask
    PROVE  Ownership'
<1>1. /\ pc'[a] = k /\ (k # "idle" => op'[a] = op[a])
      /\ \A b \in Actor : b # a => pc'[b] = pc[b] /\ op'[b] = op[b]
    BY GoToTyped DEF Ownership
<1>2. a \in Task => ScriptCall(a)'
    BY <1>1 DEF ScriptCall
<1>3. a \in Sketch => SketchHolds(a)'
    BY <1>1 DEF SketchHolds, AfterLock
<1>4. QED BY <1>1, <1>2, <1>3, Quiet

\* A step that has a script's task in hand and moves on within pause() or
\* restart().
LEMMA TakeQuiet ==
    ASSUME Ownership, Typed', NEW a \in Actor, NEW k \in {"pauseSuspend", "restartResume"},
           NEW t \in Task, pc' = [pc EXCEPT ![a] = k], op' = [op EXCEPT ![a].task = t],
           pc[a] \in {"pause", "restart"}, UNCHANGED <<handle, self, rtos>>
    PROVE  Ownership'
<1>1. /\ pc'[a] = k /\ op'[a].exec = op[a].exec /\ op'[a].then = op[a].then
      /\ \A b \in Actor : b # a => pc'[b] = pc[b] /\ op'[b] = op[b]
    BY OpTaskTyped DEF Ownership, Typed, TypeOK
<1>2. \A x \in Task : Live(x)' = Live(x)
    BY DEF Live
<1>3. a \in Task => ScriptCall(a)'
    BY <1>1, <1>2 DEF Ownership, ScriptCall, SelfSteps
<1>4. a \in Sketch => SketchHolds(a)'
    BY <1>1 DEF SketchHolds, AfterLock
<1>5. QED BY <1>1, <1>2, <1>3, <1>4, Quiet DEF KillSteps

\* kill() takes the task off the handle: from there on the call owns it.
LEMMA KillLockOwned ==
    ASSUME Ownership, Typed', NEW a \in Actor, KillLock(a), handle[op[a].exec] # NoTask
    PROVE  Ownership'
<1> DEFINE e == op[a].exec
           t == handle[op[a].exec]
<1> USE DEF Ownership
<1>0. /\ pc[a] = "kill" /\ e \in Exec /\ t \in Task /\ t # NoTask
      /\ Live(t) /\ self[t] = e
    BY DEF KillLock, At, Typed, TypeOK, Wired, CallWired, Handled
<1>1. /\ pc' = [pc EXCEPT ![a] = "killUnwind"] /\ op' = [op EXCEPT ![a].task = t]
      /\ handle' = [handle EXCEPT ![e] = NoTask] /\ UNCHANGED taskVars
    BY DEF KillLock
<1>2. /\ pc'[a] = "killUnwind" /\ op'[a].task = t /\ op'[a].exec = e /\ op'[a].then = op[a].then
      /\ \A b \in Actor : b # a => pc'[b] = pc[b] /\ op'[b] = op[b]
    BY <1>0, <1>1, OpTaskTyped DEF Typed, TypeOK
<1>3. /\ handle'[e] = NoTask
      /\ \A x \in Exec : x # e => handle'[x] = handle[x]
    BY <1>0, <1>1 DEF Typed, TypeOK
<1>4. \A x \in Task : (Live(x)' <=> Live(x)) /\ self'[x] = self[x]
    BY <1>1 DEF Live, taskVars
\* A script's kill() of its executable is of its own task.
<1>5. a \in Task => t = a
    <2>1. SUFFICES ASSUME a \in Task PROVE t = a
      OBVIOUS
    <2>2. Live(a) /\ self[a] = e
      BY <1>0, <2>1 DEF ScriptCall
    <2>3. CASE handle[self[a]] = a
      BY <2>2, <2>3
    <2>4. CASE \E b \in Actor : Kills(b, a)
      <3>1. PICK b \in Actor : pc[b] \in KillSteps /\ op[b].task = a
        BY <2>4 DEF Kills
      <3>2. b \notin Task
        BY <3>1, <1>0, <2>1 DEF Taken, KillSteps
      <3>3. op[b].exec = e
        BY <2>1, <2>2, <3>1 DEF Taken
      <3>4. QED BY <1>0, <3>1, <3>2, <3>3 DEF SketchHolds, AfterLock, KillSteps
    <2>5. QED BY <2>1, <2>2, <2>3, <2>4 DEF Owned
\* No other call has this task.
<1>6. \A b \in Actor : ~Kills(b, t)
    BY <1>0 DEF Kills, Taken
<1>7. ASSUME NEW x \in Task PROVE ScriptCall(x)'
    BY <1>0, <1>2, <1>4 DEF ScriptCall, SelfSteps
<1>8. ASSUME NEW x \in Exec PROVE Handled(x)'
    BY <1>3, <1>4 DEF Handled, Typed, TypeOK
<1>9. ASSUME NEW b \in Actor PROVE Taken(b)'
    <2>1. CASE b = a
      BY <2>1, <1>0, <1>2, <1>3, <1>4, <1>5 DEF Taken
    <2>2. CASE b # a
      <3>1. pc[b] \in KillSteps => op[b].task \in Task /\ op[b].exec \in Exec
        BY DEF Typed, Wired, CallWired, OnTask, KillSteps
      <3>2. QED BY <2>2, <3>1, <1>0, <1>2, <1>3, <1>4 DEF Taken
    <2>3. QED BY <2>1, <2>2
<1>10. OneKiller'
    BY <1>2, <1>6 DEF OneKiller, Kills
<1>11. ASSUME NEW s \in Sketch PROVE SketchHolds(s)'
    <2>1. CASE s = a
      BY <2>1, <1>2, <1>3 DEF SketchHolds
    <2>2. CASE s # a
      <3>1. pc[s] \in AfterLock => op[s].exec \in Exec
        BY DEF Typed, Wired, CallWired, AfterLock
      <3>2. QED BY <2>2, <3>1, <1>2, <1>3 DEF SketchHolds
    <2>3. QED BY <2>1, <2>2
<1>12. ASSUME NEW x \in Task PROVE Owned(x)'
    <2>1. CASE x = t
      BY <2>1, <1>2 DEF Owned, Kills, KillSteps
    <2>2. CASE x # t
      <3>1. Live(x) => self[x] \in Exec
        BY DEF Typed, Wired, SelfWired
      <3>2. \A b \in Actor : Kills(b, x) => Kills(b, x)'
        BY <1>0, <1>2 DEF Kills, KillSteps
      <3>3. QED BY <2>2, <3>1, <3>2, <1>3, <1>4 DEF Owned
    <2>3. QED BY <2>1, <2>2
<1>13. QED BY <1>7, <1>8, <1>9, <1>10, <1>11, <1>12

\* vTaskDelete(): the task is gone, and no place refers to it.
LEMMA KillDeleteOwned ==
    ASSUME Ownership, Typed', NEW a \in Actor, KillDelete(a)
    PROVE  Ownership'
<1> USE DEF Ownership
<1>a. PICK t \in Task : t = op[a].task
    BY DEF KillDelete, At, Typed, Wired, CallWired, OnTask
<1>0. /\ pc[a] = "killDelete" /\ pc[a] \in KillSteps /\ t \in Task /\ op[a].exec \in Exec
      /\ Live(t) /\ self[t] = op[a].exec
      /\ handle[op[a].exec] # t /\ (a \in Task => a = t)
    BY <1>a DEF KillDelete, At, Typed, Wired, CallWired, OnTask, Taken, KillSteps
<1>1. \A x \in Exec : handle[x] # t
    BY <1>a, <1>0 DEF Handled
<1>2. \A b \in Actor : b # a => ~Kills(b, t)
    BY <1>a, <1>0 DEF OneKiller, Kills
<1>3. /\ UNCHANGED handle /\ ~Live(t)'
      /\ \A x \in Task : x # t => (Live(x)' <=> Live(x)) /\ self'[x] = self[x]
    BY <1>a, <1>0 DEF KillDelete, Live, Typed, TypeOK, objVars
<1>4. pc'[t] = "idle"
    BY <1>a, <1>0 DEF KillDelete, Typed, TypeOK
<1>5. pc'[a] \notin KillSteps /\ (a # t => pc'[a] = op[a].then)
    BY <1>a, <1>0 DEF KillDelete, Typed, TypeOK, KillSteps, Then
<1>6. \A b \in Actor : b # a /\ b # t => pc'[b] = pc[b] /\ op'[b] = op[b]
    BY <1>a, <1>0 DEF KillDelete, Typed, TypeOK
<1>7. a # t /\ pc'[a] # "idle" => op'[a].exec = op[a].exec
    BY <1>a, <1>0 DEF KillDelete, Typed, TypeOK
<1>8. \A b \in Actor : pc'[b] \in KillSteps => b # a /\ b # t
    BY <1>4, <1>5 DEF KillSteps
<1>9. ASSUME NEW x \in Task PROVE ScriptCall(x)'
    BY <1>0, <1>3, <1>4, <1>6 DEF ScriptCall
<1>10. ASSUME NEW x \in Exec PROVE Handled(x)'
    BY <1>1, <1>3 DEF Handled, Typed, TypeOK
<1>11. ASSUME NEW b \in Actor PROVE Taken(b)'
    <2>1. SUFFICES ASSUME pc'[b] \in KillSteps PROVE Taken(b)'
      BY DEF Taken
    <2>2. b # a /\ b # t /\ pc[b] \in KillSteps /\ op'[b] = op[b]
      BY <2>1, <1>6, <1>8
    <2>3. op[b].task # t /\ op[b].task \in Task
      BY <2>2, <1>2, <1>a DEF Kills, Typed, Wired, CallWired, OnTask, KillSteps
    <2>4. QED BY <2>2, <2>3, <1>3 DEF Taken
<1>12. OneKiller'
    BY <1>6, <1>8 DEF OneKiller, Kills
<1>13. ASSUME NEW s \in Sketch PROVE SketchHolds(s)'
    <2>1. CASE s = a
      BY <2>1, <1>0, <1>3, <1>5, <1>7 DEF SketchHolds, AfterLock
    <2>2. CASE s # a
      BY <2>2, <1>0, <1>3, <1>6 DEF SketchHolds
    <2>3. QED BY <2>1, <2>2
<1>14. ASSUME NEW x \in Task PROVE Owned(x)'
    <2>1. CASE x = t
      BY <2>1, <1>3 DEF Owned
    <2>2. CASE x # t
      <3>1. ASSUME NEW b \in Actor, Kills(b, x) PROVE Kills(b, x)'
        <4>1. b # a
          BY <1>a, <2>2, <3>1 DEF Kills
        <4>2. b # t
          BY <2>2, <3>1, <1>a, <1>0 DEF Kills, Taken
        <4>3. QED BY <3>1, <4>1, <4>2, <1>6 DEF Kills
      <3>2. QED BY <2>2, <3>1, <1>3 DEF Owned
    <2>3. QED BY <2>1, <2>2
<1>15. QED BY <1>9, <1>10, <1>11, <1>12, <1>13, <1>14

\* xTaskCreatePinnedToCore(): the new task is in the charge of the handle,
\* which was empty: no other task loses its owner.
LEMMA CreateOwned ==
    ASSUME OneController, Ownership, Typed', NEW a \in Actor, NEW t \in Task, CreateTask(a, t)
    PROVE  Ownership'
<1> DEFINE e == op[a].exec
<1> USE DEF Ownership
<1>0. pc[a] = "create" /\ rtos[t] = "none" /\ e \in Exec /\ ~Live(t)
    BY DEF CreateTask, At, Live, Typed, Wired, CallWired
<1>1. a \in Sketch /\ handle[e] = NoTask
    BY <1>0 DEF ScriptCall, SelfSteps, SketchHolds, AfterLock
<1>2. /\ handle'[e] = t /\ \A x \in Exec : x # e => handle'[x] = handle[x]
    BY <1>0 DEF CreateTask, Typed, TypeOK
<1>3. /\ Live(t)' /\ self'[t] = e
      /\ \A x \in Task : x # t => (Live(x)' <=> Live(x)) /\ self'[x] = self[x]
    BY <1>0 DEF CreateTask, Live, Typed, TypeOK
<1>4. /\ pc'[a] = "idle"
      /\ \A b \in Actor : b # a => pc'[b] = pc[b] /\ op'[b] = op[b]
    BY GoToTyped DEF CreateTask, Step
<1>5. \A b \in Actor : ~Kills(b, t)
    BY <1>0 DEF Kills, Taken
<1>6. ASSUME NEW x \in Task PROVE ScriptCall(x)'
    BY <1>0, <1>1, <1>3, <1>4 DEF ScriptCall
<1>7. ASSUME NEW x \in Exec PROVE Handled(x)'
    <2>1. CASE x = e
      BY <2>1, <1>2, <1>3 DEF Handled
    <2>2. CASE x # e
      BY <2>2, <1>0, <1>2, <1>3 DEF Handled, Typed, TypeOK
    <2>3. QED BY <2>1, <2>2
<1>8. ASSUME NEW b \in Actor PROVE Taken(b)'
    <2>1. SUFFICES ASSUME pc'[b] \in KillSteps PROVE Taken(b)'
      BY DEF Taken
    <2>2. b # a /\ pc[b] \in KillSteps /\ op'[b] = op[b]
      BY <2>1, <1>4 DEF KillSteps
    <2>3. /\ op[b].task # t /\ op[b].task \in Task /\ op[b].exec \in Exec
      BY <2>2, <1>5 DEF Kills, Typed, Wired, CallWired, OnTask, KillSteps
    <2>4. QED BY <2>2, <2>3, <1>2, <1>3 DEF Taken
<1>9. OneKiller'
    BY <1>4 DEF OneKiller, Kills, KillSteps
<1>10. ASSUME NEW s \in Sketch PROVE SketchHolds(s)'
    BY <1>1, <1>4 DEF SketchHolds, AfterLock, OneController
<1>11. ASSUME NEW x \in Task PROVE Owned(x)'
    <2>1. CASE x = t
      BY <2>1, <1>2, <1>3 DEF Owned
    <2>2. CASE x # t
      <3>1. \A b \in Actor : Kills(b, x) => Kills(b, x)'
        BY <1>0, <1>4 DEF Kills, KillSteps
      <3>2. Live(x) => self[x] \in Exec
        BY DEF Typed, Wired, SelfWired
      <3>3. QED BY <2>2, <3>1, <3>2, <1>1, <1>2, <1>3 DEF Owned, Typed, TypeOK
    <2>3. QED BY <2>1, <2>2
<1>12. QED BY <1>6, <1>7, <1>8, <1>9, <1>10, <1>11

\* Every step of a call keeps the ownership.
LEMMA CallStepOwned ==
    ASSUME OneController, Ownership, NEW a \in Actor, CallStep(a)
    PROVE  Ownership'
<1>0. Typed'
    BY CallStepTyped DEF Ownership
<1>1. /\ pc[a] # "idle" => op[a].exec \in Exec
      /\ pc[a] \in OnTask => op[a].task \in Task /\ rtos[op[a].task] # "none"
      /\ op[a].then \in Step /\ op[a].then \notin KillSteps
      /\ a \in Task => pc[a] \notin {"saveState", "markRunning", "create", "undo", "freeExec"}
      /\ a \in Task /\ pc[a] # "idle" => op[a].then = "idle"
      /\ a \in Sketch /\ pc[a] \in AfterLock => handle[op[a].exec] = NoTask
    BY DEF Ownership, Typed, Wired, CallWired, TypeOK, Then, Step, KillSteps, ScriptCall, SelfSteps, SketchHolds
<1> USE DEF At
<1>2. CASE KillLock(a) /\ handle[op[a].exec] = NoTask
  <2>1. GoTo(a, op[a].then) /\ UNCHANGED taskVars /\ pc[a] = "kill" /\ op[a].exec \in Exec
    BY <1>2, <1>1 DEF KillLock
  <2>2. handle' = handle
    BY <1>2, <2>1 DEF KillLock, Ownership, Typed, TypeOK
  <2>3. QED BY <1>0, <1>1, <1>2, <2>1, <2>2, GoToQuiet DEF Live, taskVars, KillSteps
<1>3. CASE KillLock(a) /\ handle[op[a].exec] # NoTask
    BY <1>0, <1>3, KillLockOwned
<1>4. CASE KillUnwind(a)
  <2>1. /\ pc'[a] = "killDelete" /\ pc[a] = "killUnwind"
        /\ UNCHANGED <<handle, taskVars, op>>
        /\ \A b \in Actor : b # a => pc'[b] = pc[b] /\ op'[b] = op[b]
    BY <1>4 DEF KillUnwind, Ownership, Typed, TypeOK
  <2>2. \A t \in Task : Live(t)' = Live(t)
    BY <2>1 DEF Live, taskVars
  <2>3. a \in Task => ScriptCall(a)'
    BY <2>1, <2>2 DEF Ownership, ScriptCall, SelfSteps, taskVars
  <2>4. a \in Sketch => SketchHolds(a)'
    BY <2>1, <1>1 DEF SketchHolds, AfterLock
  <2>5. QED BY <1>0, <2>1, <2>2, <2>3, <2>4, Quiet DEF KillSteps, taskVars
<1>5. CASE KillDelete(a)
    BY <1>0, <1>5, KillDeleteOwned
<1>6. CASE SaveState(a)
  <2>1. /\ pc'[a] = "markRunning" /\ pc[a] = "saveState" /\ a \in Sketch
        /\ op'[a].exec = op[a].exec
        /\ UNCHANGED <<objVars, taskVars>>
        /\ \A b \in Actor : b # a => pc'[b] = pc[b] /\ op'[b] = op[b]
    BY <1>6, <1>1 DEF SaveState, Ownership, Typed, TypeOK
  <2>2. a \in Sketch => SketchHolds(a)'
    BY <2>1, <1>1 DEF SketchHolds, AfterLock, objVars
  <2>3. a \notin Task
    BY <2>1
  <2>4. QED BY <1>0, <2>1, <2>2, <2>3, Quiet DEF KillSteps, Live, objVars, taskVars
<1>7. CASE MarkRunning(a)
    BY <1>0, <1>1, <1>7, GoToQuiet DEF MarkRunning, Step, KillSteps, AfterLock, Live, taskVars
<1>8. CASE \E t \in Task : CreateTask(a, t)
    BY <1>0, <1>8, CreateOwned
<1>9. CASE CreateFails(a)
  <2>1. pc[a] = "create" /\ a \in Sketch /\ handle[op[a].exec] = NoTask /\ op[a].exec \in Exec
    BY <1>9, <1>1 DEF CreateFails, AfterLock
  <2>2. handle' = handle /\ UNCHANGED taskVars /\ GoTo(a, "undo")
    BY <1>9, <2>1 DEF CreateFails, Ownership, Typed, TypeOK
  <2>3. a \notin Task
    BY <2>1
  <2>4. QED BY <1>0, <1>1, <2>1, <2>2, <2>3, GoToQuiet DEF Step, KillSteps, AfterLock, Live, taskVars
<1>10. CASE UndoState(a)
    BY <1>0, <1>1, <1>10, GoToQuiet DEF UndoState, Step, KillSteps, AfterLock, Live, taskVars
<1>11. CASE FreeExec(a)
    BY <1>0, <1>1, <1>11, GoToQuiet DEF FreeExec, Step, KillSteps, AfterLock, Live, taskVars
<1>12. CASE PauseLock(a)
  <2> DEFINE t == handle[op[a].exec]
  <2>0. pc[a] = "pause" /\ op[a].exec \in Exec /\ UNCHANGED <<handle, taskVars>>
    BY <1>12, <1>1 DEF PauseLock, Switch
  <2>1. CASE state[op[a].exec] = "running" /\ t # NoTask
    <3>1. t \in Task /\ op' = [op EXCEPT ![a].task = t] /\ pc' = [pc EXCEPT ![a] = "pauseSuspend"]
      BY <1>12, <2>0, <2>1 DEF PauseLock, Switch, Ownership, Typed, TypeOK
    <3>2. QED BY <1>0, <2>0, <3>1, TakeQuiet DEF taskVars
  <2>2. CASE ~(state[op[a].exec] = "running" /\ t # NoTask)
    <3>1. GoTo(a, "idle")
      BY <1>12, <2>2 DEF PauseLock, Switch
    <3>2. QED BY <1>0, <2>0, <3>1, GoToQuiet DEF Step, KillSteps, AfterLock, Live, taskVars
  <2>3. QED BY <2>1, <2>2
<1>13. CASE RestartLock(a)
  <2> DEFINE t == handle[op[a].exec]
  <2>0. pc[a] = "restart" /\ op[a].exec \in Exec /\ UNCHANGED <<handle, taskVars>>
    BY <1>13, <1>1 DEF RestartLock, Switch
  <2>1. CASE state[op[a].exec] = "paused" /\ t # NoTask
    <3>1. t \in Task /\ op' = [op EXCEPT ![a].task = t] /\ pc' = [pc EXCEPT ![a] = "restartResume"]
      BY <1>13, <2>0, <2>1 DEF RestartLock, Switch, Ownership, Typed, TypeOK
    <3>2. QED BY <1>0, <2>0, <3>1, TakeQuiet DEF taskVars
  <2>2. CASE ~(state[op[a].exec] = "paused" /\ t # NoTask)
    <3>1. GoTo(a, "idle")
      BY <1>13, <2>2 DEF RestartLock, Switch
    <3>2. QED BY <1>0, <2>0, <3>1, GoToQuiet DEF Step, KillSteps, AfterLock, Live, taskVars
  <2>3. QED BY <2>1, <2>2
<1>14. CASE PauseSuspend(a)
  <2>1. /\ GoTo(a, "idle") /\ UNCHANGED <<handle, self>> /\ pc[a] = "pauseSuspend"
        /\ op[a].task \in Task /\ rtos[op[a].task] # "none"
    BY <1>14, <1>1 DEF PauseSuspend, Move, OnTask, objVars
  <2>2. \A t \in Task : Live(t)' = Live(t)
    BY <1>14, <2>1 DEF PauseSuspend, Move, Live, Ownership, Typed, TypeOK
  <2>3. QED BY <1>0, <2>1, <2>2, GoToQuiet DEF Step, KillSteps, AfterLock
<1>15. CASE RestartResume(a)
  <2>1. /\ GoTo(a, "idle") /\ UNCHANGED <<handle, self>> /\ pc[a] = "restartResume"
        /\ op[a].task \in Task /\ rtos[op[a].task] # "none"
    BY <1>15, <1>1 DEF RestartResume, Move, OnTask, objVars
  <2>2. \A t \in Task : Live(t)' = Live(t)
    BY <1>15, <2>1 DEF RestartResume, Move, Live, Ownership, Typed, TypeOK
  <2>3. QED BY <1>0, <2>1, <2>2, GoToQuiet DEF Step, KillSteps, AfterLock
<1>16. QED
    BY <1>2, <1>3, <1>4, <1>5, <1>6, <1>7, <1>8, <1>9, <1>10, <1>11, <1>12, <1>13, <1>14, <1>15
    DEF CallStep

\* taskMain() creates, deletes and takes no task: parked, its task is still
\* there to be deleted.
LEMMA TaskStepOwned ==
    ASSUME Ownership, NEW t \in Task, TaskStep(t)
    PROVE  Ownership'
<1>1. Typed'
    BY TaskStepTyped DEF Ownership
<1>2. UNCHANGED <<handle, self, pc, op>> /\ pc[t] = "idle"
    BY DEF TaskStep, EnterFooter, SkipFooter, LeaveFooter, EnterMain, SkipMain, LeaveMain, Finish, Park,
           Enter, Leave, Skip, Runs, At, objVars, callVars
<1>3. \A x \in Task : Live(x)' = Live(x)
    BY DEF TaskStep, EnterFooter, SkipFooter, LeaveFooter, EnterMain, SkipMain, LeaveMain, Finish, Park,
           Enter, Leave, Skip, Runs, At, CanRun, Live, Ownership, Typed, TypeOK
<1>4. ScriptCall(t)' /\ (t \in Sketch => SketchHolds(t)')
    BY <1>2 DEF ScriptCall, SketchHolds, AfterLock
<1>5. QED BY <1>1, <1>2, <1>3, <1>4, Quiet DEF KillSteps

LEMMA NextOwned == OneController /\ Ownership /\ [Next]_vars => Ownership'
<1> SUFFICES ASSUME OneController, Ownership, [Next]_vars PROVE Ownership'
    OBVIOUS
<1>1. CASE \E a \in Sketch : SketchCall(a)
  <2>1. PICK a \in Sketch, e \in Exec, o \in Ops : Call(a, e, o)
      BY <1>1 DEF SketchCall
  <2>2. a \in Actor /\ a \notin Task
      OBVIOUS
  <2>3. QED BY <2>1, <2>2, CallOwned
<1>2. CASE \E t \in Task, o \in SelfOps : SelfCall(t, o)
  <2>1. PICK t \in Task, o \in SelfOps : SelfCall(t, o)
      BY <1>2
  <2>2. Live(t) /\ self[t] \in Exec /\ o \in Ops
      BY <2>1 DEF Ownership, Typed, Wired, SelfWired, Live, SelfCall, Call, At, CanRun, Ops
  <2>3. QED BY <2>1, <2>2, CallOwned DEF SelfCall
<1>3. CASE \E a \in Actor : CallStep(a)
    BY <1>3, CallStepOwned
<1>4. CASE \E t \in Task : TaskStep(t)
    BY <1>4, TaskStepOwned
<1>5. CASE UNCHANGED vars
    BY <1>5 DEF Ownership, Typed, TypeOK, Wired, CallWired, HandleWired, SelfWired, Live, ScriptCall,
                Handled, Taken, OneKiller, SketchHolds, Owned, Kills, vars, objVars, taskVars, callVars
<1>6. QED BY <1>1, <1>2, <1>3, <1>4, <1>5 DEF Next

\* With one controlling task, no task is orphaned and none is deleted twice,
\* however the script's own calls and the sketch's overlap.
THEOREM EveryTaskHasOneOwner == ASSUME OneController PROVE Spec => []OneOwner
<1>1. Ownership => OneOwner
  <2> SUFFICES ASSUME Ownership, NEW t \in Task
               PROVE  IF Live(t) THEN \E x \in Exec \cup Actor : Owners(t) = {x} ELSE Owners(t) = {}
      BY DEF OneOwner
  <2> USE DEF Ownership
  <2>2. Killing(t) = {a \in Actor : Kills(a, t)}
      BY DEF Killing, Kills, KillSteps
  <2>3. \A e \in Exec : handle[e] = t => e = self[t] /\ Live(t)
      BY DEF Handled
  <2>4. \A a \in Actor : Kills(a, t) => Live(t) /\ \A e \in Exec : handle[e] # t
      BY DEF Handled, Taken, Kills
  <2>5. CASE Live(t)
    <3>1. self[t] \in Exec
        BY <2>5 DEF Typed, Wired, SelfWired
    <3>2. CASE handle[self[t]] = t
      <4>1. Owners(t) = {self[t]}
          BY <2>2, <2>3, <2>4, <3>1, <3>2 DEF Owners
      <4>2. QED BY <2>5, <3>1, <4>1
    <3>3. CASE \E a \in Actor : Kills(a, t)
      <4>1. PICK a \in Actor : Kills(a, t)
          BY <3>3
      <4>2. Owners(t) = {a}
          BY <2>2, <2>4, <4>1 DEF Owners, OneKiller
      <4>3. QED BY <2>5, <4>1, <4>2
    <3>4. QED BY <2>5, <3>2, <3>3 DEF Owned
  <2>6. CASE ~Live(t)
    <3>1. Owners(t) = {}
        BY <2>2, <2>3, <2>4, <2>6 DEF Owners
    <3>2. QED BY <2>6, <3>1
  <2>7. QED BY <2>5, <2>6
<1>2. QED BY <1>1, InitOwnership, NextOwned, PTL DEF Spec
===============================================================================
