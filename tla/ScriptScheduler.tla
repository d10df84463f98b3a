--------------------------- MODULE ScriptScheduler ---------------------------
(***************************************************************************)
(* scriptScheduler (script_scheduler.cpp): the registry of named scripts,  *)
(* an array of slots behind a mutex, over the executables of ScriptTask.   *)
(*                                                                         *)
(* Any task may call it: the sketch's, and a script's own through a bound  *)
(* host function. A function body under the mutex is one step, except      *)
(* where it calls into a ScriptExecutable, whose own steps (ScriptTask)    *)
(* interleave with the tasks of the scripts. The mutex itself, and its     *)
(* creation on first use, is LazyMutex.                                    *)
(***************************************************************************)
EXTENDS ScriptTask, Naturals

CONSTANTS
    Name,         \* script names
    MaxScripts,   \* SCRIPT_SCHEDULER_MAX
    SketchFns,    \* SketchFns[a]: the functions sketch task a calls
    ScriptFns,    \* the functions a script calls
    NoName

Fns == {"add", "run", "execute", "pause", "restart", "kill", "remove", "info",
        "killAll", "removeAll"}

ASSUME SchedulerAssumption ==
    /\ MaxScripts \in Nat \ {0}
    /\ SketchFns \in [Sketch -> SUBSET Fns]
    /\ ScriptFns \subseteq Fns \ {"execute"}
    /\ NoName \notin Name
    /\ SelfOps = {}

Slot == 1 .. MaxScripts

VARIABLES
    slots,    \* slots[i]: its name and its executable, when it is used
    lock,     \* who holds the registry's mutex
    object,   \* object[e]: "none", "alive" (new) or "deleted"
    spc,      \* spc[a]: the next step of a's call of the registry
    call,     \* call[a]: that call's local variables
    inside    \* inside[a]: the executable whose code sketch task a is running

regVars == <<slots, lock, object>>
allVars == <<vars, regVars, spc, call, inside>>

FreeSlot == [used |-> FALSE, name |-> NoName, exec |-> NoExec]

\* fn is the function being run, for the loop or the add() that called it;
\* at is the index killAll() and removeAll() have reached.
NoFn == [fn |-> "none", for |-> "none", name |-> NoName, exec |-> NoExec,
         task |-> NoTask, at |-> 0]

RegStep == {"idle", "enter", "body", "inExec", "delete", "inFree", "leave",
            "selfLeave", "selfCall", "execLeave", "useTask"}

\* Types of the registry; killAll() and removeAll() stay within its slots.
SchedulerTypeOK ==
    /\ TypeOK
    /\ slots \in [Slot -> [used : BOOLEAN, name : Name \cup {NoName},
                           exec : Exec \cup {NoExec}]]
    /\ lock \in Actor \cup {NoTask}
    /\ object \in [Exec -> {"none", "alive", "deleted"}]
    /\ spc \in [Actor -> RegStep]
    /\ call \in [Actor -> [fn : Fns \cup {"none", "scan"}, for : Fns \cup {"none"},
                           name : Name \cup {NoName}, exec : Exec \cup {NoExec},
                           task : Task \cup {NoTask}, at : 0 .. MaxScripts]]
    /\ inside \in [Sketch -> Exec \cup {NoExec}]

SchedulerInit ==
    /\ Init
    /\ slots = [i \in Slot |-> FreeSlot]
    /\ lock = NoTask
    /\ object = [e \in Exec |-> "none"]
    /\ spc = [a \in Actor |-> "idle"]
    /\ call = [a \in Actor |-> NoFn]
    /\ inside = [a \in Sketch |-> NoExec]

-------------------------------------------------------------------------------
\* a is about to take step k of a call; a call into a ScriptExecutable that
\* it made has come back.
RegAt(a, k) == spc[a] = k /\ At(a, "idle")

\* findSlot(): the first used slot of that name, as an executable.
Matches(n) == {i \in Slot : slots[i].used /\ slots[i].name = n}
FirstOf(S) == CHOOSE i \in S : \A j \in S : i <= j
Found(n) == IF Matches(n) = {} THEN NoExec ELSE slots[FirstOf(Matches(n))].exec

\* Mutant: a script's call on itself is not recognised.
NeverSelf(a, e) == FALSE

\* The calling task is the one that runs e: exec->task() == current.
IsSelf(a, e) == e # NoExec /\ handle[e] = a

Proceed(a, k) == spc' = [spc EXCEPT ![a] = k]

\* a calls operation o of executable e, and is at k when it comes back.
Into(a, e, o, k) ==
    /\ Call(a, e, o)
    /\ Proceed(a, k)

\* Mutant: killAll() and removeAll() go one slot too far.
DoneTooFar(a) ==
    LET c == call[a]
    IN  IF c.for = "add" /\ c.fn = "remove"
        THEN /\ call' = [call EXCEPT ![a] = [NoFn EXCEPT !.fn = "add", !.name = c.name]]
             /\ Proceed(a, "enter")
        ELSE IF c.for \in {"killAll", "removeAll"} /\ c.at <= MaxScripts
        THEN /\ call' = [call EXCEPT ![a] =
                            [NoFn EXCEPT !.fn = "scan", !.for = c.for, !.at = c.at + 1]]
             /\ Proceed(a, "enter")
        ELSE /\ call' = [call EXCEPT ![a] = NoFn]
             /\ Proceed(a, "idle")

\* What a does once function fn has returned: the rest of add(), the next
\* turn of killAll() or removeAll(), or nothing.
Done(a) ==
    LET c == call[a]
        again == c.for \in {"killAll", "removeAll"} /\ c.at < MaxScripts
    IN  IF c.for = "add" /\ c.fn = "remove"
        THEN /\ call' = [call EXCEPT ![a] = [NoFn EXCEPT !.fn = "add", !.name = c.name]]
             /\ Proceed(a, "enter")
        ELSE IF again
        THEN /\ call' = [call EXCEPT ![a] =
                            [NoFn EXCEPT !.fn = "scan", !.for = c.for, !.at = c.at + 1]]
             /\ Proceed(a, "enter")
        ELSE /\ call' = [call EXCEPT ![a] = NoFn]
             /\ Proceed(a, "idle")

\* Mutant: add() does not remove the script of that name.
BeginAddOnly(a, f, n) ==
    /\ RegAt(a, "idle")
    /\ call' = [call EXCEPT ![a] =
          IF f \in {"killAll", "removeAll"}
          THEN [NoFn EXCEPT !.fn = "scan", !.for = f, !.at = 1]
          ELSE [NoFn EXCEPT !.fn = f, !.name = n]]
    /\ Proceed(a, "enter")
    /\ UNCHANGED <<vars, regVars, inside>>

Begin(a, f, n) ==
    /\ RegAt(a, "idle")
    /\ call' = [call EXCEPT ![a] =
          CASE f = "add" -> [NoFn EXCEPT !.fn = "remove", !.for = "add", !.name = n]
            [] f \in {"killAll", "removeAll"} -> [NoFn EXCEPT !.fn = "scan", !.for = f, !.at = 1]
            [] OTHER -> [NoFn EXCEPT !.fn = f, !.name = n]]
    /\ Proceed(a, "enter")
    /\ UNCHANGED <<vars, regVars, inside>>

SketchBegin(a) == \E f \in SketchFns[a], n \in Name : Begin(a, f, n)
ScriptBegin(t) == InScript(t) /\ \E f \in ScriptFns, n \in Name : Begin(t, f, n)

EnterRegistry(a) ==
    /\ RegAt(a, "enter")
    /\ lock = NoTask
    /\ lock' = a
    /\ Proceed(a, "body")
    /\ UNCHANGED <<vars, slots, object, call, inside>>

LeaveRegistry(a) ==
    /\ RegAt(a, "leave")
    /\ lock' = NoTask
    /\ Done(a)
    /\ UNCHANGED <<vars, slots, object, inside>>

Body(a, f) == RegAt(a, "body") /\ call[a].fn = f

\* A function that has nothing to do for this name.
Refuse(a) == Proceed(a, "leave") /\ UNCHANGED <<vars, call>>

-------------------------------------------------------------------------------
\* add(), once remove() is done: the first free slot, a script that compiles.
AddBody(a) ==
    /\ Body(a, "add")
    /\ \/ /\ \E i \in Slot, e \in Exec :
              /\ ~slots[i].used
              /\ \A j \in Slot : ~slots[j].used => i <= j
              /\ object[e] = "none"
              /\ slots' = [slots EXCEPT ![i] = [used |-> TRUE, name |-> call[a].name, exec |-> e]]
              /\ object' = [object EXCEPT ![e] = "alive"]
       \/ UNCHANGED <<slots, object>>   \* no slot left, or it does not compile
    /\ Proceed(a, "leave")
    /\ UNCHANGED <<vars, lock, call, inside>>

\* Mutant: refusing to run does not let go of the mutex.
RunBodyKeepsLock(a) ==
    LET e == Found(call[a].name)
    IN  /\ Body(a, "run")
        /\ IF e = NoExec \/ IsSelf(a, e)
           THEN Done(a) /\ UNCHANGED vars
           ELSE Into(a, e, "executeAsTask", "leave") /\ UNCHANGED call
        /\ UNCHANGED <<regVars, inside>>

RunBody(a) ==
    LET e == Found(call[a].name)
    IN  /\ Body(a, "run")
        /\ IF e = NoExec \/ IsSelf(a, e)
           THEN Refuse(a)
           ELSE Into(a, e, "executeAsTask", "leave") /\ UNCHANGED call
        /\ UNCHANGED <<regVars, inside>>

\* Mutant: pause() and kill() let go of the registry whoever the task is.
StopBodyUnlocked(a, f) ==
    LET e == Found(call[a].name)
    IN  /\ Body(a, f)
        /\ IF e = NoExec
           THEN Refuse(a)
           ELSE /\ call' = [call EXCEPT ![a].exec = e]
                /\ Proceed(a, "selfLeave")
                /\ UNCHANGED vars
        /\ UNCHANGED <<regVars, inside>>

\* pause() and kill(): on the calling task's own script, let go of the
\* registry before the call, which stops the caller.
StopBody(a, f) ==
    LET e == Found(call[a].name)
    IN  /\ Body(a, f)
        /\ IF e = NoExec
           THEN Refuse(a)
           ELSE IF IsSelf(a, e)
           THEN /\ call' = [call EXCEPT ![a].exec = e]
                /\ Proceed(a, "selfLeave")
                /\ UNCHANGED vars
           ELSE Into(a, e, f, "leave") /\ UNCHANGED call
        /\ UNCHANGED <<regVars, inside>>

SelfLeave(a) ==
    /\ RegAt(a, "selfLeave")
    /\ lock' = NoTask
    /\ Proceed(a, "selfCall")
    /\ UNCHANGED <<vars, slots, object, call, inside>>

StopSelf(a) ==
    /\ RegAt(a, "selfCall")
    /\ Call(a, call[a].exec, call[a].fn)
    /\ Done(a)
    /\ UNCHANGED <<regVars, inside>>

RestartBody(a) ==
    LET e == Found(call[a].name)
    IN  /\ Body(a, "restart")
        /\ IF e = NoExec THEN Refuse(a) ELSE Into(a, e, "restart", "leave") /\ UNCHANGED call
        /\ UNCHANGED <<regVars, inside>>

\* Mutant: remove() leaves the slot as it was.
RemoveBodyKeepsSlot(a) ==
    LET e == Found(call[a].name)
    IN  /\ Body(a, "remove")
        /\ IF e = NoExec \/ IsSelf(a, e)
           THEN Refuse(a)
           ELSE /\ call' = [call EXCEPT ![a].exec = e]
                /\ Into(a, e, "kill", "delete")
        /\ UNCHANGED <<regVars, inside>>

\* remove(): empty the slot, kill the task, delete the executable (whose
\* destructor kills again, and frees the code).
RemoveBody(a) ==
    LET n == call[a].name
        e == Found(n)
    IN  /\ Body(a, "remove")
        /\ IF e = NoExec \/ IsSelf(a, e)
           THEN Refuse(a) /\ UNCHANGED slots
           ELSE /\ slots' = [slots EXCEPT ![FirstOf(Matches(n))].used = FALSE,
                                          ![FirstOf(Matches(n))].exec = NoExec]
                /\ call' = [call EXCEPT ![a].exec = e]
                /\ Into(a, e, "kill", "delete")
        /\ UNCHANGED <<lock, object, inside>>

RemoveDelete(a) ==
    /\ RegAt(a, "delete")
    /\ Into(a, call[a].exec, "free", "inFree")
    /\ UNCHANGED <<regVars, call, inside>>

RemoveFreed(a) ==
    /\ RegAt(a, "inFree")
    /\ object' = [object EXCEPT ![call[a].exec] = "deleted"]
    /\ Proceed(a, "leave")
    /\ UNCHANGED <<vars, slots, lock, call, inside>>

\* execute(): the pointer is read under the lock, the script runs after it.
ExecuteBody(a) ==
    /\ Body(a, "execute")
    /\ call' = [call EXCEPT ![a].exec = Found(call[a].name)]
    /\ Proceed(a, "execLeave")
    /\ UNCHANGED <<vars, regVars, inside>>

ExecuteLeave(a) ==
    /\ RegAt(a, "execLeave")
    /\ lock' = NoTask
    /\ inside' = [inside EXCEPT ![a] = call[a].exec]
    /\ Done(a)
    /\ UNCHANGED <<vars, slots, object>>

\* The script sketch task a was running returns. Until then a may make other
\* calls, from the host functions the script calls.
ExecuteReturn(a) ==
    /\ RegAt(a, "idle")
    /\ inside[a] # NoExec
    /\ inside' = [inside EXCEPT ![a] = NoExec]
    /\ UNCHANGED <<vars, regVars, spc, call>>

\* info(), sample(): the handle is read, then given to FreeRTOS.
InfoBody(a) ==
    LET e == Found(call[a].name)
    IN  /\ Body(a, "info")
        /\ IF e = NoExec \/ handle[e] = NoTask
           THEN Proceed(a, "leave") /\ UNCHANGED call
           ELSE /\ call' = [call EXCEPT ![a].task = handle[e]]
                /\ Proceed(a, "useTask")
        /\ UNCHANGED <<vars, regVars, inside>>

InfoTask(a) ==
    /\ RegAt(a, "useTask")
    /\ Proceed(a, "leave")
    /\ call' = [call EXCEPT ![a].task = NoTask]
    /\ UNCHANGED <<vars, regVars, inside>>

\* killAll(), removeAll(): copy the name of slot `at`, let go, and then kill
\* or remove whatever has that name by then.
ScanBody(a) ==
    LET c == call[a]
        s == slots[c.at]
    IN  /\ Body(a, "scan")
        /\ lock' = NoTask
        /\ IF s.used
           THEN /\ call' = [call EXCEPT ![a].name = s.name,
                                        ![a].fn = IF c.for = "killAll" THEN "kill" ELSE "remove"]
                /\ Proceed(a, "enter")
           ELSE Done(a)
        /\ UNCHANGED <<vars, slots, object, inside>>

RegistryStep(a) ==
    \/ LeaveRegistry(a) \/ AddBody(a) \/ RunBody(a) \/ StopBody(a, "pause") \/ StopBody(a, "kill")
    \/ SelfLeave(a) \/ StopSelf(a) \/ RestartBody(a)
    \/ RemoveBody(a) \/ RemoveDelete(a) \/ RemoveFreed(a)
    \/ ExecuteBody(a) \/ ExecuteLeave(a)
    \/ InfoBody(a) \/ InfoTask(a) \/ ScanBody(a)

-------------------------------------------------------------------------------
\* A step inside a ScriptExecutable. A task it deletes makes no more calls;
\* the mutex, if it held it, stays taken.
ExecStep(a) ==
    /\ CallStep(a)
    /\ spc' = [b \in Actor |-> IF b \in Task /\ rtos'[b] = "deleted" THEN "idle" ELSE spc[b]]
    /\ call' = [b \in Actor |-> IF b \in Task /\ rtos'[b] = "deleted" THEN NoFn ELSE call[b]]
    /\ UNCHANGED <<regVars, inside>>

ScriptStep(t) ==
    /\ spc[t] = "idle"
    /\ TaskStep(t)
    /\ UNCHANGED <<regVars, spc, call, inside>>

SchedulerNext ==
    \/ \E a \in Sketch : SketchBegin(a) \/ ExecuteReturn(a)
    \/ \E t \in Task : ScriptBegin(t) \/ ScriptStep(t)
    \/ \E a \in Actor : EnterRegistry(a) \/ RegistryStep(a) \/ ExecStep(a)

SchedulerSpec == SchedulerInit /\ [][SchedulerNext]_allVars

\* FreeRTOS runs every ready task again and again, and hands the mutex to
\* each of the tasks (of one priority) that wait for it in turn.
SchedulerFairness ==
    /\ \A a \in Actor : WF_allVars(RegistryStep(a)) /\ WF_allVars(ExecStep(a))
    /\ \A a \in Actor : SF_allVars(EnterRegistry(a))
    /\ \A t \in Task : WF_allVars(ScriptStep(t) /\ ~InScript(t))

SchedulerFairSpec == SchedulerSpec /\ SchedulerFairness

-------------------------------------------------------------------------------
(* Properties.                                                             *)

\* add() replaces the script of that name: no two slots have one name.
UniqueNames ==
    \A i, j \in Slot : slots[i].used /\ slots[j].used /\ slots[i].name = slots[j].name => i = j

\* The calls that will delete e: a remove() past the slot it has emptied.
Removing(e) == {a \in Actor : spc[a] \in {"delete", "inFree"} /\ call[a].exec = e}
Holding(e) == {i \in Slot : slots[i].used /\ slots[i].exec = e}

\* Each compiled script is in exactly one slot, or in the hands of the one
\* remove() that deletes it: none is leaked, deleted twice, or shared.
OneKeeper ==
    \A e \in Exec :
        IF object[e] = "alive"
        THEN \E x \in Slot \cup Actor :
                (x \in Slot /\ Holding(e) = {x} /\ Removing(e) = {})
             \/ (x \in Actor /\ Removing(e) = {x} /\ Holding(e) = {})
        ELSE Holding(e) = {} /\ Removing(e) = {}

\* No call works on a deleted executable, no task is left that would run its
\* code, and the handle info() and sample() give to FreeRTOS is that of a task
\* that still exists: remove() and run() free only what nothing uses.
NoUseAfterDelete ==
    /\ \A a \in Actor : op[a].exec # NoExec => object[op[a].exec] = "alive"
    /\ \A t \in Task : Live(t) => object[self[t]] = "alive"
    /\ \A a \in Actor : spc[a] = "useTask" => Live(call[a].task)

\* "A script cannot remove itself (its code would be freed under it)": the
\* code of a script that execute() runs on the caller's task stays loaded.
ExecutedCodeStays ==
    \A a \in Sketch : inside[a] # NoExec => loaded[inside[a]]

\* The task that holds the registry's mutex is not suspended nor deleted
\* there, which would leave every later call waiting for ever: pause() and
\* kill() of another task are made under the mutex, those of the caller
\* itself after letting go of it.
HolderCanRun == lock \in Task => rtos[lock] = "ready"

\* Whoever makes the calls, a script has at most one run at a time.
OneRunPerScript ==
    \A t, u \in Task :
        LifeOf(t) \in {"running", "paused"} /\ LifeOf(u) \in {"running", "paused"}
        /\ self[t] = self[u] => t = u

\* Every call of the registry by a sketch task comes back.
RegistryReturns == \A a \in Sketch : (spc[a] # "idle") ~> (spc[a] = "idle" /\ pc[a] = "idle")

\* A task whose executable gave up its handle is deleted, and not forgotten.
KilledIsDeleted == \A t \in Task : (Killing(t) # {}) ~> ~Live(t)
===============================================================================
