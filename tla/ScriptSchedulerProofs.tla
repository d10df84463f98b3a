------------------------ MODULE ScriptSchedulerProofs ------------------------
(***************************************************************************)
(* For any number of scripts, names, slots, tasks and callers, the registry *)
(* keeps its promises because a call into an executable is made under its   *)
(* mutex, or by the executable's own task on itself.                        *)
(***************************************************************************)
EXTENDS ScriptScheduler, ScriptTaskProofs, WellFoundedInduction

USE TaskAssumption, SchedulerAssumption DEF Actor, Slot

-------------------------------------------------------------------------------
(* The invariants.                                                         *)

\* Types: what a call of the registry refers to at the steps that use it.
Call2_ == [fn : Fns \cup {"none", "scan"}, for : Fns \cup {"none"},
           name : Name \cup {NoName}, exec : Exec \cup {NoExec},
           task : Task \cup {NoTask}, at : 0 .. MaxScripts]

CallFits(a) ==
    /\ call[a].fn = "scan" => call[a].at \in Slot
    /\ spc[a] \in {"delete", "inFree", "selfLeave", "selfCall"} => call[a].exec \in Exec
    /\ spc[a] \in {"selfLeave", "selfCall"} => call[a].fn \in {"pause", "kill"}
    /\ spc[a] = "useTask" => call[a].task \in Task
SlotFits(i) == slots[i].used => slots[i].exec \in Exec

SchedulerTyped ==
    /\ Typed
    /\ SchedulerTypeOK
    /\ \A a \in Actor : CallFits(a)
    /\ \A i \in Slot : SlotFits(i)

\* The mutex: who is past EnterRegistry and has not let go of it. A script's
\* task that has it is ready, and runs the script the call found to be its own.
HeldSteps == {"body", "delete", "inFree", "leave", "selfLeave", "execLeave", "useTask"}
Holds(a) == spc[a] \in HeldSteps
Mutex ==
    /\ \A a \in Actor : Holds(a) <=> lock = a
    /\ \A t \in Task : Holds(t) => rtos[t] = "ready"
    /\ \A t \in Task : spc[t] # "idle" => Live(t)
    /\ \A a \in Actor : spc[a] \in {"selfLeave", "selfCall"} => a \in Task /\ call[a].exec = self[a]

\* A call into an executable: of the holder of the mutex, on another task
\* than its own; or of a script's task on itself, without the mutex.
Foreign(a) ==
    /\ pc[a] \in {"kill", "pause"} => handle[op[a].exec] # a
    /\ pc[a] \in {"killUnwind", "killDelete", "pauseSuspend"} => op[a].task # a
    /\ pc[a] \in AfterLock => handle[op[a].exec] = NoTask
OwnSteps == {"kill", "killUnwind", "killDelete", "pause", "pauseSuspend"}
Own(a) ==
    /\ a \in Task /\ Live(a) /\ spc[a] \in {"idle", "enter"}
    /\ pc[a] \in OwnSteps /\ op[a].then = "idle"
    /\ op[a].exec = self[a]
    /\ pc[a] \in OnTask => op[a].task = a
CallMade(a) == pc[a] # "idle" => IF Holds(a) THEN Foreign(a) ELSE Own(a)

\* remove() does not delete the script whose task is calling.
NotItself(a) == spc[a] \in {"delete", "inFree"} => handle[call[a].exec] # a

\* As in ScriptTaskProofs, whoever makes the call.
InHand(a) ==
    pc[a] \in KillSteps => /\ Live(op[a].task) /\ self[op[a].task] = op[a].exec
                           /\ handle[op[a].exec] # op[a].task

Charge ==
    /\ SchedulerTyped
    /\ Mutex
    /\ \A a \in Actor : CallMade(a) /\ NotItself(a)
    /\ \A a \in Actor : InHand(a)
    /\ \A e \in Exec : Handled(e)
    /\ OneKiller
    /\ \A t \in Task : Owned(t)

\* Each executable is in one place.
Kept ==
    /\ \A i \in Slot : slots[i].used => object[slots[i].exec] = "alive"
    /\ \A i, j \in Slot : slots[i].used /\ slots[j].used /\ slots[i].exec = slots[j].exec => i = j
    /\ \A a \in Actor : spc[a] \in {"delete", "inFree"} =>
          /\ object[call[a].exec] = "alive"
          /\ \A i \in Slot : slots[i].used => slots[i].exec # call[a].exec
    /\ \A e \in Exec : object[e] = "alive" =>
          \/ \E i \in Slot : slots[i].used /\ slots[i].exec = e
          \/ \E a \in Actor : spc[a] \in {"delete", "inFree"} /\ call[a].exec = e

\* One task of the sketch adds scripts.
OneAdder ==
    /\ \A a, b \in Sketch : "add" \in SketchFns[a] /\ "add" \in SketchFns[b] => a = b
    /\ "add" \notin ScriptFns
Adder(a) == a \in Sketch /\ "add" \in SketchFns[a]
NameFits(a) ==
    /\ call[a].fn = "add" \/ call[a].for = "add" => Adder(a)
    /\ call[a].for = "add" => call[a].fn = "remove"
    /\ spc[a] \in {"execLeave", "useTask"} => call[a].for # "add"
    /\ \/ call[a].fn = "add" /\ spc[a] \in {"enter", "body"}
       \/ call[a].for = "add" /\ spc[a] \in {"delete", "inFree", "leave"}
       => Matches(call[a].name) = {}
Named ==
    /\ UniqueNames
    /\ \A a \in Actor : NameFits(a)

\* No script stops its own task through the registry.
NoSelfKill == "kill" \notin ScriptFns /\ "killAll" \notin ScriptFns
NotOnItself(t) ==
    /\ call[t].fn # "kill" /\ call[t].for # "killAll"
    /\ ~Holds(t) => pc[t] \in {"idle", "pause", "pauseSuspend"}

\* A call is on an executable that exists, and acts on a task that exists.
OnAlive(a) ==
    /\ pc[a] = "idle" => op[a] = NoCall
    /\ pc[a] # "idle" => object[op[a].exec] = "alive"
    /\ pc[a] \in {"pauseSuspend", "restartResume"} => Live(op[a].task)

\* remove() kills, then frees, the executable it deletes; once it has killed,
\* no task would run its code.
Removes(a) == spc[a] \in {"delete", "inFree"}
Cleared(a) == spc[a] = "inFree" \/ (spc[a] = "delete" /\ pc[a] = "idle")
Unused(e) == \A t \in Task : Live(t) => self[t] # e
Deleting(a) ==
    /\ Removes(a) /\ pc[a] # "idle" =>
          /\ op[a].exec = call[a].exec
          /\ pc[a] \in {"kill", "killUnwind", "killDelete", "freeExec"}
          /\ op[a].then \in {"idle", "freeExec"}
          /\ spc[a] = "delete" => op[a].then = "idle" /\ pc[a] # "freeExec"
    /\ Cleared(a) => Unused(call[a].exec)

\* info() and sample() read the task of a handle under the mutex.
Reading(a) == spc[a] = "useTask" => pc[a] = "idle" /\ Live(call[a].task)

SafeCall(a) == OnAlive(a) /\ Deleting(a) /\ Reading(a) /\ (a \in Task => NotOnItself(a))
Safe ==
    /\ \A a \in Actor : SafeCall(a)
    /\ \A t \in Task : Live(t) => object[self[t]] = "alive"

-------------------------------------------------------------------------------
(* Types.                                                                  *)

\* A set of numbers that is not empty has a smallest one.
LEMMA LeastNumber ==
    ASSUME NEW S, S \subseteq Nat, S # {}
    PROVE  \E i \in S : \A j \in S : i <= j
<1>1. IsWellFoundedOn(OpToRel(<, Nat), Nat)
    BY NatLessThanWellFounded
<1>2. PICK i \in S : \A j \in S : ~(<<j, i>> \in OpToRel(<, Nat))
    BY <1>1, WFMin
<1>3. \A j \in S : ~(j < i)
    BY <1>2 DEF OpToRel
<1>4. QED BY <1>3

\* findSlot() returns the first slot of that name.
LEMMA FirstMatch ==
    ASSUME NEW n, Matches(n) # {}
    PROVE  FirstOf(Matches(n)) \in Matches(n)
<1>1. Matches(n) \subseteq Nat
    BY DEF Matches
<1>2. \E i \in Matches(n) : \A j \in Matches(n) : i <= j
    BY <1>1, LeastNumber
<1>3. QED BY <1>2 DEF FirstOf

\* What it finds is in a slot that is used.
LEMMA FoundTyped ==
    ASSUME SchedulerTyped, NEW n
    PROVE  /\ Found(n) \in Exec \cup {NoExec}
           /\ Found(n) = NoExec <=> Matches(n) = {}
           /\ Found(n) # NoExec => /\ FirstOf(Matches(n)) \in Slot
                                   /\ slots[FirstOf(Matches(n))].used
                                   /\ slots[FirstOf(Matches(n))].name = n
                                   /\ slots[FirstOf(Matches(n))].exec = Found(n)
<1>1. CASE Matches(n) = {}
    BY <1>1 DEF Found
<1>2. CASE Matches(n) # {}
  <2>1. FirstOf(Matches(n)) \in Matches(n)
    BY <1>2, FirstMatch
  <2>2. FirstOf(Matches(n)) \in Slot /\ slots[FirstOf(Matches(n))].used
        /\ slots[FirstOf(Matches(n))].name = n
    BY <2>1 DEF Matches
  <2>3. slots[FirstOf(Matches(n))].exec \in Exec
    BY <2>2 DEF SchedulerTyped, SlotFits
  <2>4. Found(n) = slots[FirstOf(Matches(n))].exec
    BY <1>2 DEF Found
  <2>5. Found(n) \in Exec /\ Found(n) # NoExec
    BY <2>3, <2>4
  <2>6. QED BY <1>2, <2>2, <2>4, <2>5
<1>3. QED BY <1>1, <1>2

LEMMA InitSchedulerTyped == SchedulerInit => SchedulerTyped
<1> SUFFICES ASSUME SchedulerInit PROVE SchedulerTyped
    OBVIOUS
<1>1. Typed
    BY InitTyped DEF SchedulerInit
<1>2. NoFn \in Call2_ /\ FreeSlot \in [used : BOOLEAN, name : Name \cup {NoName}, exec : Exec \cup {NoExec}]
    BY DEF NoFn, Call2_, FreeSlot, Fns
<1>3. SchedulerTypeOK
    BY <1>1, <1>2 DEF SchedulerInit, SchedulerTypeOK, Typed, Call2_, RegStep
<1>4. (\A a \in Actor : CallFits(a)) /\ (\A i \in Slot : SlotFits(i))
    BY DEF SchedulerInit, CallFits, SlotFits, NoFn, FreeSlot
<1>5. QED BY <1>1, <1>3, <1>4 DEF SchedulerTyped

\* The local variables of a call of function f.
Fn(f, g, n, i) == [fn |-> f, for |-> g, name |-> n, exec |-> NoExec, task |-> NoTask, at |-> i]

LEMMA FnNamed ==
    ASSUME NEW f, NEW g, NEW n
    PROVE  /\ [NoFn EXCEPT !.fn = f, !.name = n] = Fn(f, "none", n, 0)
           /\ [NoFn EXCEPT !.fn = f, !.for = g, !.name = n] = Fn(f, g, n, 0)
<1>1. NoFn = Fn("none", "none", NoName, 0)
    BY DEF NoFn, Fn
<1>2. [Fn("none", "none", NoName, 0) EXCEPT !.fn = f] = Fn(f, "none", NoName, 0)
    BY DEF Fn
<1>3. [Fn(f, "none", NoName, 0) EXCEPT !.name = n] = Fn(f, "none", n, 0)
    BY DEF Fn
<1>4. [Fn(f, "none", NoName, 0) EXCEPT !.for = g] = Fn(f, g, NoName, 0)
    BY DEF Fn
<1>5. [Fn(f, g, NoName, 0) EXCEPT !.name = n] = Fn(f, g, n, 0)
    BY DEF Fn
<1>6. QED BY <1>1, <1>2, <1>3, <1>4, <1>5, Zenon

LEMMA FnScan ==
    ASSUME NEW g, NEW i
    PROVE  [NoFn EXCEPT !.fn = "scan", !.for = g, !.at = i] = Fn("scan", g, NoName, i)
<1>1. NoFn = Fn("none", "none", NoName, 0)
    BY DEF NoFn, Fn
<1>2. [Fn("none", "none", NoName, 0) EXCEPT !.fn = "scan"] = Fn("scan", "none", NoName, 0)
    BY DEF Fn
<1>3. [Fn("scan", "none", NoName, 0) EXCEPT !.for = g] = Fn("scan", g, NoName, 0)
    BY DEF Fn
<1>4. [Fn("scan", g, NoName, 0) EXCEPT !.at = i] = Fn("scan", g, NoName, i)
    BY DEF Fn
<1>5. QED BY <1>1, <1>2, <1>3, <1>4, Zenon

\* What the rest of a call is after one of its functions.
LEMMA DoneTyped ==
    ASSUME SchedulerTyped, NEW a \in Actor, Done(a)
    PROVE  /\ spc' \in [Actor -> RegStep] /\ spc'[a] \in {"idle", "enter"}
           /\ call' \in [Actor -> Call2_]
           /\ call'[a].fn = "scan" => call'[a].at \in Slot
           /\ call'[a].fn \in {"none", "add", "scan"}
           /\ call'[a].fn = "add" => call[a].for = "add" /\ call[a].fn = "remove" /\ call'[a].name = call[a].name
           /\ call'[a].for \in {"none", "killAll", "removeAll"}
           /\ call'[a].for # "none" => call'[a].for = call[a].for
           /\ \A b \in Actor : b # a => spc'[b] = spc[b] /\ call'[b] = call[b]
<1>1. call \in [Actor -> Call2_] /\ spc \in [Actor -> RegStep]
    BY DEF SchedulerTyped, SchedulerTypeOK, Call2_
<1> DEFINE c == call[a]
           add == Fn("add", "none", c.name, 0)
           scan == Fn("scan", c.for, NoName, c.at + 1)
<1>2. CASE c.for = "add" /\ c.fn = "remove"
  <2>0. [NoFn EXCEPT !.fn = "add", !.name = c.name] = add
    BY FnNamed
  <2>1. call' = [call EXCEPT ![a] = add] /\ spc' = [spc EXCEPT ![a] = "enter"]
    BY <1>2, <2>0 DEF Done, Proceed
  <2>2. add \in Call2_ /\ add.fn = "add" /\ add.for = "none" /\ add.name = c.name
    BY <1>1 DEF Call2_, Fn, Fns
  <2>3. QED BY <1>1, <1>2, <2>1, <2>2 DEF RegStep
<1>3. CASE ~(c.for = "add" /\ c.fn = "remove") /\ c.for \in {"killAll", "removeAll"} /\ c.at < MaxScripts
  <2> DEFINE next == c.at + 1
  <2> HIDE DEF next
  <2>a. [NoFn EXCEPT !.fn = "scan", !.for = c.for, !.at = next] = Fn("scan", c.for, NoName, next)
    BY FnScan
  <2>0. [NoFn EXCEPT !.fn = "scan", !.for = c.for, !.at = c.at + 1] = scan
    BY <2>a, Zenon DEF next
  <2>1. call' = [call EXCEPT ![a] = scan] /\ spc' = [spc EXCEPT ![a] = "enter"]
    BY <1>3, <2>0 DEF Done, Proceed
  <2>2. c.at \in 0 .. MaxScripts
    BY <1>1 DEF Call2_
  <2>3. scan \in Call2_ /\ scan.fn = "scan" /\ scan.for = c.for /\ scan.at \in Slot
    BY <1>1, <1>3, <2>2 DEF Call2_, Fn, Fns
  <2>4. QED BY <1>1, <1>3, <2>1, <2>3 DEF RegStep
<1>4. CASE ~(c.for = "add" /\ c.fn = "remove") /\ ~(c.for \in {"killAll", "removeAll"} /\ c.at < MaxScripts)
  <2>1. call' = [call EXCEPT ![a] = NoFn] /\ spc' = [spc EXCEPT ![a] = "idle"]
    BY <1>4 DEF Done, Proceed
  <2>2. NoFn \in Call2_ /\ NoFn.fn = "none" /\ NoFn.for = "none"
    BY DEF Call2_, NoFn
  <2>3. QED BY <1>1, <2>1, <2>2 DEF RegStep
<1>5. QED BY <1>2, <1>3, <1>4
Others(a) == \A b \in Actor : b # a => spc'[b] = spc[b] /\ call'[b] = call[b]

\* What the assignments to one local variable of a call leave.
LEMMA SetExec ==
    ASSUME SchedulerTyped, NEW a \in Actor, NEW e \in Exec \cup {NoExec},
           call' = [call EXCEPT ![a].exec = e]
    PROVE  /\ call' \in [Actor -> Call2_]
           /\ call'[a].exec = e /\ call'[a].fn = call[a].fn /\ call'[a].for = call[a].for
           /\ call'[a].name = call[a].name /\ call'[a].at = call[a].at
           /\ \A b \in Actor : b # a => call'[b] = call[b]
<1>1. call \in [Actor -> Call2_]
    BY DEF SchedulerTyped, SchedulerTypeOK, Call2_
<1>2. [call[a] EXCEPT !.exec = e] \in Call2_
    BY <1>1 DEF Call2_
<1>3. call' = [call EXCEPT ![a] = [call[a] EXCEPT !.exec = e]]
    OBVIOUS
<1>4. call'[a] = [call[a] EXCEPT !.exec = e]
    BY <1>1, <1>3
<1>5. /\ call'[a].exec = e /\ call'[a].fn = call[a].fn /\ call'[a].for = call[a].for
      /\ call'[a].name = call[a].name /\ call'[a].at = call[a].at
    BY <1>1, <1>4 DEF Call2_
<1>6. QED BY <1>1, <1>2, <1>3, <1>5

LEMMA SetTask ==
    ASSUME SchedulerTyped, NEW a \in Actor, NEW t \in Task \cup {NoTask},
           call' = [call EXCEPT ![a].task = t]
    PROVE  /\ call' \in [Actor -> Call2_]
           /\ call'[a].task = t /\ call'[a].fn = call[a].fn /\ call'[a].for = call[a].for
           /\ call'[a].name = call[a].name /\ call'[a].at = call[a].at /\ call'[a].exec = call[a].exec
           /\ \A b \in Actor : b # a => call'[b] = call[b]
<1>1. call \in [Actor -> Call2_]
    BY DEF SchedulerTyped, SchedulerTypeOK, Call2_
<1>2. [call[a] EXCEPT !.task = t] \in Call2_
    BY <1>1 DEF Call2_
<1>3. call' = [call EXCEPT ![a] = [call[a] EXCEPT !.task = t]]
    OBVIOUS
<1>4. call'[a] = [call[a] EXCEPT !.task = t]
    BY <1>1, <1>3
<1>5. /\ call'[a].task = t /\ call'[a].fn = call[a].fn /\ call'[a].for = call[a].for
      /\ call'[a].name = call[a].name /\ call'[a].at = call[a].at /\ call'[a].exec = call[a].exec
    BY <1>1, <1>4 DEF Call2_
<1>6. QED BY <1>1, <1>2, <1>3, <1>5

LEMMA SetNameFn ==
    ASSUME SchedulerTyped, NEW a \in Actor, NEW n \in Name \cup {NoName}, NEW f \in {"kill", "remove"},
           call' = [call EXCEPT ![a].name = n, ![a].fn = f]
    PROVE  /\ call' \in [Actor -> Call2_]
           /\ call'[a].name = n /\ call'[a].fn = f /\ call'[a].for = call[a].for
           /\ \A b \in Actor : b # a => call'[b] = call[b]
<1>1. call \in [Actor -> Call2_]
    BY DEF SchedulerTyped, SchedulerTypeOK, Call2_
<1> DEFINE c == [[call[a] EXCEPT !.name = n] EXCEPT !.fn = f]
<1>2. [call[a] EXCEPT !.name = n] \in Call2_
    BY <1>1 DEF Call2_
<1>3. c \in Call2_
    BY <1>2 DEF Call2_, Fns
<1>4. c.name = n /\ c.fn = f /\ c.for = call[a].for
    BY <1>1, <1>2 DEF Call2_
<1>5. call' = [call EXCEPT ![a] = c]
    BY <1>1
<1>6. QED BY <1>1, <1>3, <1>4, <1>5

\* A slot that is emptied.
LEMMA EmptySlot ==
    ASSUME SchedulerTyped, NEW i \in Slot, slots' = [slots EXCEPT ![i].used = FALSE, ![i].exec = NoExec]
    PROVE  /\ slots' \in [Slot -> [used : BOOLEAN, name : Name \cup {NoName}, exec : Exec \cup {NoExec}]]
           /\ ~slots'[i].used
           /\ \A j \in Slot : j # i => slots'[j] = slots[j]
<1>1. slots \in [Slot -> [used : BOOLEAN, name : Name \cup {NoName}, exec : Exec \cup {NoExec}]]
    BY DEF SchedulerTyped, SchedulerTypeOK
<1> DEFINE s == [[slots[i] EXCEPT !.used = FALSE] EXCEPT !.exec = NoExec]
<1>2. [slots[i] EXCEPT !.used = FALSE] \in [used : {FALSE}, name : Name \cup {NoName}, exec : Exec \cup {NoExec}]
    BY <1>1
<1>3. s \in [used : {FALSE}, name : Name \cup {NoName}, exec : Exec \cup {NoExec}]
    BY <1>2
<1>4. slots' = [slots EXCEPT ![i] = s]
    BY <1>1
<1>5. QED BY <1>1, <1>3, <1>4

\* A step of a's call that keeps the types of what it writes.
LEMMA RegistryTyped ==
    ASSUME SchedulerTyped, NEW a \in Actor, Typed', Others(a),
           slots' \in [Slot -> [used : BOOLEAN, name : Name \cup {NoName}, exec : Exec \cup {NoExec}]],
           lock' \in Actor \cup {NoTask},
           object' \in [Exec -> {"none", "alive", "deleted"}],
           inside' \in [Sketch -> Exec \cup {NoExec}],
           spc' \in [Actor -> RegStep], call' \in [Actor -> Call2_],
           CallFits(a)', \A i \in Slot : SlotFits(i)'
    PROVE  SchedulerTyped'
<1>1. SchedulerTypeOK'
    BY DEF SchedulerTypeOK, Typed, Call2_
<1>2. ASSUME NEW b \in Actor PROVE CallFits(b)'
    <2>1. CASE b = a
      BY <2>1
    <2>2. CASE b # a
      BY <2>2 DEF Others, CallFits, SchedulerTyped
    <2>3. QED BY <2>1, <2>2
<1>3. QED BY <1>1, <1>2 DEF SchedulerTyped

LEMMA TypedUnchanged == Typed /\ UNCHANGED vars => Typed'
BY DEF Typed, TypeOK, Wired, CallWired, HandleWired, SelfWired, Live, vars, objVars, taskVars, callVars

\* A call of the registry that starts.
LEMMA BeginTyped ==
    ASSUME SchedulerTyped, NEW a \in Actor, NEW f \in Fns, NEW n \in Name, Begin(a, f, n)
    PROVE  /\ call' \in [Actor -> Call2_] /\ spc' = [spc EXCEPT ![a] = "enter"]
           /\ call'[a].fn = "scan" => call'[a].at \in Slot
           /\ call'[a].fn = "add" => FALSE
           /\ call'[a].for = "add" => f = "add" /\ call'[a].fn = "remove"
           /\ call'[a].fn = "kill" => f = "kill"
           /\ call'[a].for = "killAll" => f = "killAll"
           /\ \A b \in Actor : b # a => call'[b] = call[b]
<1>1. call \in [Actor -> Call2_]
    BY DEF SchedulerTyped, SchedulerTypeOK, Call2_
<1> DEFINE first == CASE f = "add" -> Fn("remove", "add", n, 0)
                      [] f \in {"killAll", "removeAll"} -> Fn("scan", f, NoName, 1)
                      [] OTHER -> Fn(f, "none", n, 0)
<1>2. call' = [call EXCEPT ![a] = first] /\ spc' = [spc EXCEPT ![a] = "enter"]
  <2>1. /\ [NoFn EXCEPT !.fn = "remove", !.for = "add", !.name = n] = Fn("remove", "add", n, 0)
        /\ [NoFn EXCEPT !.fn = f, !.name = n] = Fn(f, "none", n, 0)
    BY FnNamed
  <2>2. [NoFn EXCEPT !.fn = "scan", !.for = f, !.at = 1] = Fn("scan", f, NoName, 1)
    BY FnScan
  <2>3. QED BY <2>1, <2>2, Zenon DEF Begin, Proceed
<1>3. CASE f = "add"
  <2>1. first = Fn("remove", "add", n, 0)
    BY <1>3
  <2>2. first \in Call2_ /\ first.fn = "remove" /\ first.for = "add"
    BY <2>1 DEF Fn, Call2_, Fns
  <2>3. QED BY <1>1, <1>2, <1>3, <2>2
<1>4. CASE f \in {"killAll", "removeAll"}
  <2>1. first = Fn("scan", f, NoName, 1)
    BY <1>4
  <2>2. first \in Call2_ /\ first.fn = "scan" /\ first.for = f /\ first.at = 1
    BY <2>1 DEF Fn, Call2_
  <2>3. QED BY <1>1, <1>2, <1>4, <2>2
<1>5. CASE f # "add" /\ f \notin {"killAll", "removeAll"}
  <2>1. first = Fn(f, "none", n, 0)
    BY <1>5
  <2>2. first \in Call2_ /\ first.fn = f /\ first.for = "none"
    BY <2>1 DEF Fn, Call2_
  <2>3. f # "scan"
    BY DEF Fns
  <2>4. QED BY <1>1, <1>2, <1>5, <2>2, <2>3
<1>6. QED BY <1>3, <1>4, <1>5

\* Every step of the registry's functions keeps the types.
LEMMA RegistryStepTyped ==
    ASSUME SchedulerTyped, NEW a \in Actor, RegistryStep(a)
    PROVE  SchedulerTyped'
<1> USE DEF RegAt, Body
<1>0. /\ Typed /\ CallFits(a) /\ \A i \in Slot : SlotFits(i)
      /\ slots \in [Slot -> [used : BOOLEAN, name : Name \cup {NoName}, exec : Exec \cup {NoExec}]]
      /\ lock \in Actor \cup {NoTask}
      /\ object \in [Exec -> {"none", "alive", "deleted"}]
      /\ inside \in [Sketch -> Exec \cup {NoExec}]
      /\ spc \in [Actor -> RegStep] /\ call \in [Actor -> Call2_]
    BY DEF SchedulerTyped, SchedulerTypeOK, Call2_
<1>a. Found(call[a].name) \in Exec \cup {NoExec}
    BY FoundTyped
\* A step that leaves the slots as they are, and goes to k.
<1>b. ASSUME NEW k \in RegStep, Proceed(a, k), Typed', call' \in [Actor -> Call2_],
             \A b \in Actor : b # a => call'[b] = call[b],
             UNCHANGED <<slots, object, inside>>, lock' \in {lock, NoTask}, CallFits(a)'
      PROVE  SchedulerTyped'
  <2>1. spc' \in [Actor -> RegStep] /\ Others(a) /\ \A i \in Slot : SlotFits(i)'
    BY <1>0, <1>b DEF Proceed, Others, SlotFits
  <2>2. QED BY <1>0, <1>b, <2>1, RegistryTyped
\* The same, with the local variables as they are.
<1>c. ASSUME NEW k \in {"leave", "selfLeave", "selfCall", "inFree", "delete"}, Proceed(a, k), Typed',
             UNCHANGED <<call, slots, object, inside>>, lock' \in {lock, NoTask},
             k \in {"delete", "inFree", "selfLeave", "selfCall"} => call[a].exec \in Exec,
             k \in {"selfLeave", "selfCall"} => call[a].fn \in {"pause", "kill"}
      PROVE  SchedulerTyped'
  <2>1. spc'[a] = k /\ k \in RegStep
    BY <1>0, <1>c DEF Proceed, RegStep
  <2>2. CallFits(a)'
    BY <1>0, <1>c, <2>1 DEF CallFits
  <2>3. QED BY <1>0, <1>b, <1>c, <2>1, <2>2
\* The end of a function.
<1>d. ASSUME Done(a), Typed', UNCHANGED <<slots, object>>, inside' \in [Sketch -> Exec \cup {NoExec}],
             lock' \in {lock, NoTask}
      PROVE  SchedulerTyped'
  <2>1. CallFits(a)' /\ Others(a) /\ spc' \in [Actor -> RegStep] /\ call' \in [Actor -> Call2_]
    BY <1>d, DoneTyped DEF CallFits, Others
  <2>2. \A i \in Slot : SlotFits(i)'
    BY <1>0, <1>d DEF SlotFits
  <2>3. QED BY <1>0, <1>d, <2>1, <2>2, RegistryTyped
\* A call into an executable.
<1>e. ASSUME NEW e \in Exec, NEW o \in Ops, Call(a, e, o) PROVE Typed'
    BY <1>0, <1>e, CallTyped
<1>1. CASE LeaveRegistry(a)
    BY <1>0, <1>1, <1>d, TypedUnchanged DEF LeaveRegistry
<1>2. CASE AddBody(a)
  <2>1. Typed' /\ Proceed(a, "leave") /\ UNCHANGED <<lock, call, inside>>
    BY <1>0, <1>2, TypedUnchanged DEF AddBody
  <2>2. spc' \in [Actor -> RegStep] /\ Others(a) /\ CallFits(a)'
    BY <1>0, <2>1 DEF Proceed, Others, CallFits, RegStep
  <2>3. CASE UNCHANGED <<slots, object>>
    BY <1>0, <2>1, <2>2, <2>3, RegistryTyped DEF SlotFits
  <2>4. CASE \E i \in Slot, e \in Exec :
              /\ slots' = [slots EXCEPT ![i] = [used |-> TRUE, name |-> call[a].name, exec |-> e]]
              /\ object' = [object EXCEPT ![e] = "alive"]
    <3>1. PICK i \in Slot, e \in Exec :
              /\ slots' = [slots EXCEPT ![i] = [used |-> TRUE, name |-> call[a].name, exec |-> e]]
              /\ object' = [object EXCEPT ![e] = "alive"]
      BY <2>4
    <3>2. call[a].name \in Name \cup {NoName}
      BY <1>0 DEF Call2_
    <3>3. slots' \in [Slot -> [used : BOOLEAN, name : Name \cup {NoName}, exec : Exec \cup {NoExec}]]
      BY <1>0, <3>1, <3>2
    <3>4. \A j \in Slot : SlotFits(j)'
      BY <1>0, <3>1 DEF SlotFits
    <3>5. QED BY <1>0, <2>1, <2>2, <3>1, <3>3, <3>4, RegistryTyped
  <2>5. QED BY <1>2, <2>3, <2>4 DEF AddBody
<1>3. CASE RunBody(a)
  <2>1. CASE Refuse(a)
    BY <1>0, <1>3, <2>1, <1>c, TypedUnchanged DEF RunBody, Refuse, regVars
  <2>2. CASE ~Refuse(a)
    BY <1>0, <1>3, <1>a, <2>2, <1>c, <1>e DEF RunBody, Into, regVars, Ops
  <2>3. QED BY <2>1, <2>2
<1>4. ASSUME NEW f \in {"pause", "kill"}, StopBody(a, f) PROVE SchedulerTyped'
  <2> DEFINE e == Found(call[a].name)
  <2>0. UNCHANGED <<slots, lock, object, inside>> /\ call[a].fn = f
    BY <1>4 DEF StopBody, regVars
  <2>1. CASE Refuse(a)
    BY <1>0, <2>0, <2>1, <1>c, TypedUnchanged DEF Refuse
  <2>2. CASE e \in Exec /\ call' = [call EXCEPT ![a].exec = e] /\ Proceed(a, "selfLeave") /\ UNCHANGED vars
    <3>1. CallFits(a)'
      BY <1>0, <2>0, <2>2, SetExec DEF CallFits, Proceed
    <3>2. QED BY <1>0, <2>0, <2>2, <3>1, <1>b, SetExec, TypedUnchanged DEF RegStep
  <2>3. CASE e \in Exec /\ Into(a, e, f, "leave") /\ UNCHANGED call
    BY <1>0, <2>0, <2>3, <1>c, <1>e DEF Into, Ops
  <2>4. QED BY <1>4, <1>a, <2>1, <2>2, <2>3 DEF StopBody
<1>5. CASE SelfLeave(a)
    BY <1>0, <1>5, <1>c, TypedUnchanged DEF SelfLeave, CallFits
<1>6. CASE StopSelf(a)
  <2>1. call[a].exec \in Exec /\ call[a].fn \in Ops
    BY <1>0, <1>6 DEF StopSelf, CallFits, Ops
  <2>2. QED BY <1>0, <1>6, <2>1, <1>d, <1>e DEF StopSelf, regVars
<1>7. CASE RestartBody(a)
  <2>1. CASE Refuse(a)
    BY <1>0, <1>7, <2>1, <1>c, TypedUnchanged DEF RestartBody, Refuse, regVars
  <2>2. CASE ~Refuse(a)
    BY <1>0, <1>7, <1>a, <2>2, <1>c, <1>e DEF RestartBody, Into, regVars, Ops
  <2>3. QED BY <2>1, <2>2
<1>8. CASE RemoveBody(a)
  <2> DEFINE n == call[a].name
             e == Found(n)
             i == FirstOf(Matches(n))
  <2>0. UNCHANGED <<lock, object, inside>>
    BY <1>8 DEF RemoveBody
  <2>1. CASE Refuse(a) /\ UNCHANGED slots
    BY <1>0, <2>0, <2>1, <1>c, TypedUnchanged DEF Refuse
  <2>2. CASE /\ e # NoExec
             /\ slots' = [slots EXCEPT ![i].used = FALSE, ![i].exec = NoExec]
             /\ call' = [call EXCEPT ![a].exec = e]
             /\ Into(a, e, "kill", "delete")
    <3>1. e \in Exec /\ i \in Slot
      BY <2>2, FoundTyped
    <3>2. Typed' /\ spc' = [spc EXCEPT ![a] = "delete"]
      BY <2>2, <3>1, <1>e DEF Into, Proceed, Ops
    <3>a. /\ call' \in [Actor -> Call2_] /\ call'[a].exec = e /\ call'[a].fn = call[a].fn
          /\ \A b \in Actor : b # a => call'[b] = call[b]
      BY <2>2, <3>1, SetExec
    <3>b. spc' \in [Actor -> RegStep] /\ spc'[a] = "delete" /\ \A b \in Actor : b # a => spc'[b] = spc[b]
      BY <1>0, <3>2 DEF RegStep
    <3>c. call[a].fn = "remove"
      BY <1>8 DEF RemoveBody
    <3>3. CallFits(a)' /\ Others(a) /\ call' \in [Actor -> Call2_] /\ spc' \in [Actor -> RegStep]
      BY <3>1, <3>a, <3>b, <3>c DEF CallFits, Others
    <3>4. /\ slots' \in [Slot -> [used : BOOLEAN, name : Name \cup {NoName}, exec : Exec \cup {NoExec}]]
          /\ ~slots'[i].used
          /\ \A j \in Slot : j # i => slots'[j] = slots[j]
      BY <2>2, <3>1, EmptySlot
    <3>5. \A j \in Slot : SlotFits(j)'
      BY <1>0, <3>4 DEF SlotFits
    <3>6. QED BY <1>0, <2>0, <3>2, <3>3, <3>4, <3>5, RegistryTyped
  <2>3. QED BY <1>8, <2>1, <2>2 DEF RemoveBody
<1>9. CASE RemoveDelete(a)
  <2>1. call[a].exec \in Exec
    BY <1>0, <1>9 DEF RemoveDelete, CallFits
  <2>2. QED BY <1>0, <1>9, <2>1, <1>c, <1>e DEF RemoveDelete, Into, Ops, regVars
<1>10. CASE RemoveFreed(a)
  <2>1. Typed' /\ spc' = [spc EXCEPT ![a] = "leave"] /\ UNCHANGED <<slots, lock, call, inside>>
    BY <1>0, <1>10, TypedUnchanged DEF RemoveFreed, Proceed
  <2>2. object' \in [Exec -> {"none", "alive", "deleted"}]
    BY <1>0, <1>10 DEF RemoveFreed
  <2>3. CallFits(a)' /\ Others(a) /\ spc' \in [Actor -> RegStep] /\ \A i \in Slot : SlotFits(i)'
    BY <1>0, <2>1 DEF CallFits, Others, RegStep, SlotFits
  <2>4. QED BY <1>0, <2>1, <2>2, <2>3, RegistryTyped
<1>11. CASE ExecuteBody(a)
  <2>1. call' = [call EXCEPT ![a].exec = Found(call[a].name)] /\ Proceed(a, "execLeave") /\ call[a].fn = "execute"
        /\ UNCHANGED <<vars, regVars, inside>>
    BY <1>11 DEF ExecuteBody
  <2>2. CallFits(a)'
    BY <1>0, <1>a, <2>1, SetExec DEF CallFits, Proceed
  <2>3. QED BY <1>0, <1>a, <2>1, <2>2, <1>b, SetExec, TypedUnchanged DEF RegStep, regVars
<1>12. CASE ExecuteLeave(a)
  <2>1. inside' \in [Sketch -> Exec \cup {NoExec}]
    BY <1>0, <1>12 DEF ExecuteLeave, Call2_
  <2>2. QED BY <1>0, <1>12, <2>1, <1>d, TypedUnchanged DEF ExecuteLeave
<1>13. CASE InfoBody(a)
  <2> DEFINE e == Found(call[a].name)
  <2>0. UNCHANGED <<vars, slots, lock, object, inside>> /\ call[a].fn = "info"
    BY <1>13 DEF InfoBody, regVars
  <2>1. CASE Proceed(a, "leave") /\ UNCHANGED call
    BY <1>0, <2>0, <2>1, <1>c, TypedUnchanged
  <2>2. CASE /\ e # NoExec /\ handle[e] # NoTask
             /\ call' = [call EXCEPT ![a].task = handle[e]] /\ Proceed(a, "useTask")
    <3>1. handle[e] \in Task
      BY <1>0, <1>a, <2>2 DEF Typed, TypeOK
    <3>2. CallFits(a)'
      BY <1>0, <2>0, <2>2, <3>1, SetTask DEF CallFits, Proceed
    <3>3. QED BY <1>0, <2>0, <2>2, <3>1, <3>2, <1>b, SetTask, TypedUnchanged DEF RegStep
  <2>3. QED BY <1>13, <2>1, <2>2 DEF InfoBody
<1>14. CASE InfoTask(a)
  <2>0. UNCHANGED <<vars, slots, lock, object, inside>> /\ call' = [call EXCEPT ![a].task = NoTask]
        /\ Proceed(a, "leave")
    BY <1>14 DEF InfoTask, regVars
  <2>1. CallFits(a)'
    BY <1>0, <2>0, SetTask DEF CallFits, Proceed
  <2>2. QED BY <1>0, <2>0, <2>1, <1>b, SetTask, TypedUnchanged DEF RegStep
<1>15. CASE ScanBody(a)
  <2> DEFINE c == call[a]
             f == IF c.for = "killAll" THEN "kill" ELSE "remove"
  <2>0. UNCHANGED <<vars, slots, object, inside>> /\ lock' = NoTask /\ c.at \in Slot
    BY <1>0, <1>15 DEF ScanBody, CallFits
  <2>1. CASE Done(a)
    BY <1>0, <2>0, <2>1, <1>d, TypedUnchanged
  <2>2. CASE /\ call' = [call EXCEPT ![a].name = slots[c.at].name, ![a].fn = f]
             /\ Proceed(a, "enter")
    <3>1. slots[c.at].name \in Name \cup {NoName} /\ f \in {"kill", "remove"}
      BY <1>0, <2>0
    <3>2. CallFits(a)'
      BY <1>0, <2>2, <3>1, SetNameFn DEF CallFits, Proceed
    <3>3. QED BY <1>0, <2>0, <2>2, <3>1, <3>2, <1>b, SetNameFn, TypedUnchanged DEF RegStep
  <2>3. QED BY <1>15, <2>1, <2>2 DEF ScanBody
<1>16. QED
    BY <1>1, <1>2, <1>3, <1>4, <1>5, <1>6, <1>7, <1>8, <1>9, <1>10, <1>11, <1>12, <1>13, <1>14, <1>15
    DEF RegistryStep

\* A task that is deleted makes no more calls of the registry.
LEMMA ExecStepForgets ==
    ASSUME SchedulerTyped, NEW a \in Actor, ExecStep(a)
    PROVE  /\ spc' \in [Actor -> RegStep] /\ call' \in [Actor -> Call2_]
           /\ \A b \in Actor : \/ spc'[b] = spc[b] /\ call'[b] = call[b]
                               \/ b \in Task /\ rtos'[b] = "deleted" /\ spc'[b] = "idle" /\ call'[b] = NoFn
           /\ \A b \in Sketch : spc'[b] = spc[b] /\ call'[b] = call[b]
           /\ \A b \in Task : rtos'[b] = "deleted" => spc'[b] = "idle" /\ call'[b] = NoFn
<1>1. NoFn \in Call2_
    BY DEF NoFn, Call2_
<1>2. call \in [Actor -> Call2_] /\ spc \in [Actor -> RegStep]
    BY DEF SchedulerTyped, SchedulerTypeOK, Call2_
<1>3. /\ spc' = [b \in Actor |-> IF b \in Task /\ rtos'[b] = "deleted" THEN "idle" ELSE spc[b]]
      /\ call' = [b \in Actor |-> IF b \in Task /\ rtos'[b] = "deleted" THEN NoFn ELSE call[b]]
    BY DEF ExecStep
<1>4. \A b \in Actor : /\ spc'[b] = (IF b \in Task /\ rtos'[b] = "deleted" THEN "idle" ELSE spc[b])
                        /\ call'[b] = (IF b \in Task /\ rtos'[b] = "deleted" THEN NoFn ELSE call[b])
    BY <1>3
<1>5. spc' \in [Actor -> RegStep] /\ call' \in [Actor -> Call2_]
    BY <1>1, <1>2, <1>3 DEF RegStep
<1>6. \A b \in Sketch : b \notin Task
    OBVIOUS
<1>7. QED BY <1>4, <1>5, <1>6

LEMMA SchedulerNextTyped == SchedulerTyped /\ [SchedulerNext]_allVars => SchedulerTyped'
<1> SUFFICES ASSUME SchedulerTyped, [SchedulerNext]_allVars PROVE SchedulerTyped'
    OBVIOUS
<1> USE DEF RegAt
<1>0. /\ Typed /\ \A i \in Slot : SlotFits(i)
      /\ \A b \in Actor : CallFits(b)
      /\ slots \in [Slot -> [used : BOOLEAN, name : Name \cup {NoName}, exec : Exec \cup {NoExec}]]
      /\ lock \in Actor \cup {NoTask}
      /\ object \in [Exec -> {"none", "alive", "deleted"}]
      /\ inside \in [Sketch -> Exec \cup {NoExec}]
      /\ spc \in [Actor -> RegStep] /\ call \in [Actor -> Call2_]
    BY DEF SchedulerTyped, SchedulerTypeOK, Call2_
<1>1. ASSUME NEW a \in Actor, NEW f \in Fns, NEW n \in Name, Begin(a, f, n) PROVE SchedulerTyped'
  <2>1. Typed' /\ UNCHANGED <<slots, lock, object, inside>>
    BY <1>0, <1>1, TypedUnchanged DEF Begin, regVars
  <2>a. /\ call' \in [Actor -> Call2_] /\ spc' = [spc EXCEPT ![a] = "enter"]
        /\ call'[a].fn = "scan" => call'[a].at \in Slot
        /\ \A b \in Actor : b # a => call'[b] = call[b]
    BY <1>1, BeginTyped
  <2>2. CallFits(a)' /\ Others(a) /\ spc' \in [Actor -> RegStep] /\ call' \in [Actor -> Call2_]
    BY <1>0, <2>a DEF CallFits, Others, RegStep
  <2>3. \A i \in Slot : SlotFits(i)'
    BY <1>0, <2>1 DEF SlotFits
  <2>4. QED BY <1>0, <2>1, <2>2, <2>3, RegistryTyped
<1>2. CASE \E a \in Sketch : SketchBegin(a)
    BY <1>1, <1>2 DEF SketchBegin
<1>3. CASE \E t \in Task : ScriptBegin(t)
    BY <1>1, <1>3 DEF ScriptBegin
<1>4. ASSUME NEW a \in Sketch, ExecuteReturn(a) PROVE SchedulerTyped'
  <2>1. Typed' /\ UNCHANGED <<slots, lock, object, spc, call>> /\ inside' \in [Sketch -> Exec \cup {NoExec}]
    BY <1>0, <1>4, TypedUnchanged DEF ExecuteReturn, regVars
  <2>2. CallFits(a)' /\ Others(a) /\ \A i \in Slot : SlotFits(i)'
    BY <1>0, <2>1 DEF CallFits, Others, SlotFits
  <2>3. QED BY <1>0, <2>1, <2>2, RegistryTyped
<1>5. ASSUME NEW t \in Task, ScriptStep(t) PROVE SchedulerTyped'
  <2>1. Typed' /\ UNCHANGED <<slots, lock, object, spc, call, inside>>
    BY <1>0, <1>5, TaskStepTyped DEF ScriptStep, regVars
  <2>2. CallFits(t)' /\ Others(t) /\ \A i \in Slot : SlotFits(i)'
    BY <1>0, <2>1 DEF CallFits, Others, SlotFits
  <2>3. QED BY <1>0, <2>1, <2>2, RegistryTyped
<1>6. ASSUME NEW a \in Actor, EnterRegistry(a) PROVE SchedulerTyped'
  <2>1. Typed' /\ UNCHANGED <<slots, object, call, inside>> /\ lock' = a /\ spc' = [spc EXCEPT ![a] = "body"]
    BY <1>0, <1>6, TypedUnchanged DEF EnterRegistry, Proceed
  <2>2. CallFits(a)' /\ Others(a) /\ spc' \in [Actor -> RegStep] /\ \A i \in Slot : SlotFits(i)'
    BY <1>0, <2>1 DEF CallFits, Others, SlotFits, RegStep
  <2>3. QED BY <1>0, <2>1, <2>2, RegistryTyped
<1>7. ASSUME NEW a \in Actor, ExecStep(a) PROVE SchedulerTyped'
  <2>1. Typed' /\ UNCHANGED <<slots, lock, object, inside>>
    BY <1>0, <1>7, CallStepTyped DEF ExecStep, regVars
  <2>2. spc' \in [Actor -> RegStep] /\ call' \in [Actor -> Call2_]
    BY <1>7, ExecStepForgets
  <2>3. SchedulerTypeOK'
    BY <1>0, <2>1, <2>2 DEF SchedulerTypeOK, Typed, Call2_
  <2>4. ASSUME NEW b \in Actor PROVE CallFits(b)'
    <3>1. CASE spc'[b] = spc[b] /\ call'[b] = call[b]
      BY <1>0, <3>1 DEF CallFits
    <3>2. CASE spc'[b] = "idle" /\ call'[b] = NoFn
      BY <3>2 DEF CallFits, NoFn
    <3>3. QED BY <1>7, <3>1, <3>2, ExecStepForgets
  <2>5. \A i \in Slot : SlotFits(i)'
    BY <1>0, <2>1 DEF SlotFits
  <2>6. QED BY <2>1, <2>3, <2>4, <2>5 DEF SchedulerTyped
<1>8. CASE UNCHANGED allVars
  <2>1. Typed' /\ UNCHANGED <<slots, lock, object, spc, call, inside>>
    BY <1>0, <1>8, TypedUnchanged DEF allVars, regVars
  <2>2. SchedulerTypeOK'
    BY <1>0, <2>1 DEF SchedulerTypeOK, Typed, Call2_
  <2>3. QED BY <1>0, <2>1, <2>2 DEF SchedulerTyped, CallFits, SlotFits
<1>9. QED
    BY <1>2, <1>3, <1>4, <1>5, <1>6, <1>7, <1>8, RegistryStepTyped DEF SchedulerNext

\* The registry's variables keep their types: no call reads a slot that is
\* not there, nor passes on an executable that is none.
THEOREM SchedulerTypeCorrect == SchedulerSpec => []SchedulerTypeOK
<1>1. SchedulerTyped => SchedulerTypeOK
    BY DEF SchedulerTyped
<1>2. QED BY <1>1, InitSchedulerTyped, SchedulerNextTyped, PTL DEF SchedulerSpec

-------------------------------------------------------------------------------
(* The mutex, and who is in charge of each task.                           *)

LEMMA InitCharge == SchedulerInit => Charge
<1> SUFFICES ASSUME SchedulerInit PROVE Charge
    OBVIOUS
<1>1. SchedulerTyped
    BY InitSchedulerTyped
<1>2. Mutex
    BY DEF SchedulerInit, Mutex, Holds, HeldSteps
<1>3. QED
    BY <1>1, <1>2 DEF SchedulerInit, Init, Charge, CallMade, NotItself, InHand, Handled, OneKiller, Owned, Kills, KillSteps, Live

\* A step of the holder of the mutex, or of one that takes it.
LEMMA MutexMine ==
    ASSUME Mutex, NEW a \in Actor, CanRun(a), UNCHANGED <<rtos, self>>, Others(a),
           lock \in {a, NoTask}, lock' \in {a, NoTask}, spc'[a] \in HeldSteps <=> lock' = a,
           spc'[a] \in {"selfLeave", "selfCall"} => a \in Task /\ call'[a].exec = self[a]
    PROVE  Mutex'
<1>1. \A b \in Actor : b # a => ~Holds(b) /\ ~Holds(b)'
    BY DEF Mutex, Holds, Others
<1>2. \A b \in Actor : Holds(b)' <=> lock' = b
    BY <1>1 DEF Holds
<1>3. \A t \in Task : Holds(t)' => rtos'[t] = "ready"
    BY <1>1 DEF CanRun
<1>4. \A t \in Task : spc'[t] # "idle" => Live(t)'
    BY DEF Mutex, Others, Live, CanRun
<1>5. \A b \in Actor : spc'[b] \in {"selfLeave", "selfCall"} => b \in Task /\ call'[b].exec = self'[b]
    BY DEF Mutex, Others
<1>6. QED BY <1>2, <1>3, <1>4, <1>5 DEF Mutex

\* A step made without the mutex.
LEMMA MutexOutside ==
    ASSUME Mutex, NEW a \in Actor, CanRun(a), UNCHANGED <<rtos, self, lock>>, Others(a),
           spc[a] \notin HeldSteps, spc'[a] \in {"idle", "enter"}
    PROVE  Mutex'
<1>1. \A b \in Actor : Holds(b)' <=> Holds(b)
    BY DEF Holds, Others, HeldSteps
<1>2. \A t \in Task : spc'[t] # "idle" => Live(t)'
    BY DEF Mutex, Others, Live, CanRun
<1>3. \A b \in Actor : spc'[b] \in {"selfLeave", "selfCall"} => b \in Task /\ call'[b].exec = self'[b]
    BY DEF Mutex, Others
<1>4. QED BY <1>1, <1>2, <1>3 DEF Mutex

\* A step of the registry alone.
LEMMA QuietRegistry ==
    ASSUME Charge, SchedulerTyped', Mutex', NEW a \in Actor, pc[a] = "idle", UNCHANGED vars, Others(a),
           spc'[a] \notin {"delete", "inFree"}
    PROVE  Charge'
<1> USE DEF vars, objVars, taskVars, callVars
<1>1. \A b \in Actor : CallMade(b)'
  <2> SUFFICES ASSUME NEW b \in Actor, b # a PROVE CallMade(b)'
    BY DEF CallMade
  <2>1. (Holds(b)' <=> Holds(b)) /\ (Own(b)' <=> Own(b)) /\ (Foreign(b)' <=> Foreign(b))
    BY DEF Others, Holds, Own, Foreign, Live
  <2>2. QED BY <2>1 DEF Charge, CallMade
<1>2. \A b \in Actor : NotItself(b)'
    BY DEF Charge, NotItself, Others
<1>3. QED
    BY <1>1, <1>2 DEF Charge, InHand, Handled, OneKiller, Owned, Kills, Live

\* A call into an executable that starts.
LEMMA CallCharge ==
    ASSUME Charge, SchedulerTyped', Mutex', NEW a \in Actor, NEW e \in Exec, NEW o \in Ops,
           Call(a, e, o), Others(a), CallMade(a)', NotItself(a)'
    PROVE  Charge'
<1>1. /\ pc[a] = "idle" /\ pc' = [pc EXCEPT ![a] = FirstStep[o]]
      /\ \A b \in Actor : b # a => pc'[b] = pc[b] /\ op'[b] = op[b]
      /\ UNCHANGED <<objVars, taskVars>>
    BY DEF Call, At, Charge, SchedulerTyped, Typed, TypeOK
<1>2. pc[a] \notin KillSteps /\ pc'[a] \notin KillSteps
    BY <1>1 DEF FirstStep, Ops, KillSteps, Charge, SchedulerTyped, Typed, TypeOK
<1>3. \A b \in Actor : CallMade(b)'
  <2> SUFFICES ASSUME NEW b \in Actor, b # a PROVE CallMade(b)'
    OBVIOUS
  <2>1. (Holds(b)' <=> Holds(b)) /\ (Own(b)' <=> Own(b)) /\ (Foreign(b)' <=> Foreign(b))
    BY <1>1 DEF Others, Holds, Own, Foreign, Live, objVars, taskVars
  <2>2. QED BY <1>1, <2>1 DEF Charge, CallMade
<1>4. \A b \in Actor, t \in Task : Kills(b, t)' <=> Kills(b, t)
    BY <1>1, <1>2 DEF Kills
<1>5. \A b \in Actor : InHand(b)'
    BY <1>1, <1>2 DEF Charge, InHand, Live, objVars, taskVars
<1>6. (\A x \in Exec : Handled(x)') /\ OneKiller' /\ (\A t \in Task : Owned(t)')
    BY <1>1, <1>4 DEF Charge, Handled, OneKiller, Owned, Live, objVars, taskVars
<1>7. \A b \in Actor : NotItself(b)'
    BY <1>1 DEF Charge, NotItself, Others, objVars
<1>8. QED BY <1>3, <1>5, <1>6, <1>7 DEF Charge

LEMMA BeginCharge ==
    ASSUME Charge, SchedulerTyped', NEW a \in Actor, NEW f \in Fns, NEW n \in Name, Begin(a, f, n)
    PROVE  Charge'
<1>1. Others(a) /\ spc'[a] = "enter"
    BY BeginTyped DEF Others, Charge, SchedulerTyped, SchedulerTypeOK
<1>2. spc[a] = "idle" /\ pc[a] = "idle" /\ CanRun(a) /\ UNCHANGED <<vars, lock>>
    BY DEF Begin, RegAt, At, regVars
<1>3. Mutex'
    BY <1>1, <1>2, MutexOutside DEF Charge, HeldSteps, vars, taskVars
<1>4. QED BY <1>1, <1>2, <1>3, QuietRegistry

LEMMA EnterCharge ==
    ASSUME Charge, SchedulerTyped', NEW a \in Actor, EnterRegistry(a)
    PROVE  Charge'
<1>1. Others(a) /\ spc'[a] = "body" /\ lock = NoTask /\ lock' = a
    BY DEF EnterRegistry, Proceed, Others, Charge, SchedulerTyped, SchedulerTypeOK
<1>2. pc[a] = "idle" /\ CanRun(a) /\ UNCHANGED vars
    BY DEF EnterRegistry, RegAt, At
<1>3. Mutex'
    BY <1>1, <1>2, MutexMine DEF Charge, HeldSteps, vars, taskVars
<1>4. QED BY <1>1, <1>2, <1>3, QuietRegistry

\* The steps of the registry's functions.
LEMMA RegistryStepCharge ==
    ASSUME Charge, SchedulerTyped', NEW a \in Actor, RegistryStep(a)
    PROVE  Charge'
<1> USE DEF RegAt, Body, At
<1>0. /\ SchedulerTyped /\ Mutex /\ CallFits(a) /\ NotItself(a)
      /\ spc \in [Actor -> RegStep] /\ call \in [Actor -> Call2_]
      /\ pc \in [Actor -> Step] /\ handle \in [Exec -> Task \cup {NoTask}]
      /\ pc[a] = "idle" /\ CanRun(a)
    BY DEF Charge, SchedulerTyped, SchedulerTypeOK, Typed, TypeOK, Call2_,
           RegistryStep, LeaveRegistry, AddBody, RunBody, StopBody, SelfLeave, StopSelf, RestartBody,
           RemoveBody, RemoveDelete, RemoveFreed, ExecuteBody, ExecuteLeave, InfoBody, InfoTask, ScanBody
<1>a. spc[a] \in HeldSteps => lock = a
    BY <1>0 DEF Mutex, Holds
<1>b. \A n : Found(n) \in Exec \cup {NoExec}
    BY <1>0, FoundTyped
<1>m. ASSUME spc[a] \in HeldSteps, UNCHANGED vars, Others(a), lock' \in {a, NoTask},
             spc'[a] \in HeldSteps <=> lock' = a, spc'[a] \notin {"delete", "inFree"},
             spc'[a] \in {"selfLeave", "selfCall"} => a \in Task /\ call'[a].exec = self[a]
      PROVE  Charge'
  <2>1. Mutex'
    BY <1>0, <1>a, <1>m, MutexMine DEF vars, taskVars
  <2>2. QED BY <1>0, <1>m, <2>1, QuietRegistry
<1>n. ASSUME spc[a] \in HeldSteps, UNCHANGED vars, UNCHANGED lock, NEW k \in {"leave", "execLeave", "useTask"},
             Proceed(a, k), \A b \in Actor : b # a => call'[b] = call[b]
      PROVE  Charge'
  <2>1. spc'[a] = k /\ k \in HeldSteps /\ Others(a)
    BY <1>0, <1>n DEF Proceed, Others, HeldSteps
  <2>2. QED BY <1>a, <1>m, <1>n, <2>1
<1>d. ASSUME spc[a] \in HeldSteps, UNCHANGED vars, lock' = NoTask, Done(a)
      PROVE  Charge'
  <2>1. spc'[a] \in {"idle", "enter"} /\ Others(a)
    BY <1>0, <1>d, DoneTyped DEF Others
  <2>2. QED BY <1>a, <1>m, <1>d, <2>1 DEF HeldSteps
<1>k. ASSUME spc[a] \in HeldSteps, UNCHANGED lock, NEW e \in Exec, NEW o \in Ops,
             NEW k \in {"leave", "delete", "inFree"}, Into(a, e, o, k),
             \A b \in Actor : b # a => call'[b] = call[b],
             o # "restart" => handle[e] # a,
             k \in {"delete", "inFree"} => call'[a].exec = e /\ handle[e] # a
      PROVE  Charge'
  <2>1. /\ Call(a, e, o) /\ spc'[a] = k /\ Others(a) /\ UNCHANGED <<objVars, taskVars>>
        /\ pc'[a] = FirstStep[o] /\ op'[a].exec = e
    BY <1>0, <1>k DEF Into, Proceed, Others, Call, Charge, SchedulerTyped, Typed, TypeOK
  <2>2. Mutex'
    BY <1>0, <1>a, <1>k, <2>1, MutexMine DEF HeldSteps, taskVars
  <2>3. FirstStep[o] \in {"kill", "pause", "restart"} /\ (FirstStep[o] # "restart" => o # "restart")
    BY DEF FirstStep, Ops
  <2>4. CallMade(a)' /\ NotItself(a)'
    BY <1>k, <2>1, <2>3 DEF CallMade, NotItself, Foreign, Holds, HeldSteps, AfterLock, objVars
  <2>5. QED BY <2>1, <2>2, <2>4, CallCharge
<1>1. CASE LeaveRegistry(a)
    BY <1>1, <1>d DEF LeaveRegistry, HeldSteps
<1>2. CASE AddBody(a)
    BY <1>2, <1>n DEF AddBody, HeldSteps
<1>3. CASE RunBody(a)
  <2>1. CASE Refuse(a)
    BY <1>3, <2>1, <1>n DEF RunBody, Refuse, HeldSteps, regVars
  <2>2. CASE ~Refuse(a)
    BY <1>3, <1>b, <2>2, <1>k DEF RunBody, IsSelf, HeldSteps, regVars, Ops
  <2>3. QED BY <2>1, <2>2
<1>4. ASSUME NEW f \in {"pause", "kill"}, StopBody(a, f) PROVE Charge'
  <2> DEFINE e == Found(call[a].name)
  <2>0. UNCHANGED lock /\ spc[a] \in HeldSteps
    BY <1>4 DEF StopBody, regVars, HeldSteps
  <2>1. CASE Refuse(a)
    BY <2>0, <2>1, <1>n DEF Refuse
  <2>2. CASE /\ e \in Exec /\ IsSelf(a, e) /\ call' = [call EXCEPT ![a].exec = e]
             /\ Proceed(a, "selfLeave") /\ UNCHANGED vars
    <3>1. a \in Task /\ self[a] = e
      BY <1>0, <2>2 DEF IsSelf, Charge, Handled
    <3>2. call'[a].exec = e /\ \A b \in Actor : b # a => call'[b] = call[b]
      BY <1>0, <2>2, SetExec
    <3>3. spc'[a] = "selfLeave" /\ Others(a)
      BY <1>0, <2>2, <3>2 DEF Proceed, Others
    <3>4. QED BY <1>a, <1>m, <2>0, <2>2, <3>1, <3>2, <3>3 DEF HeldSteps
  <2>3. CASE e \in Exec /\ ~IsSelf(a, e) /\ Into(a, e, f, "leave") /\ UNCHANGED call
    BY <2>0, <2>3, <1>k DEF IsSelf, Ops
  <2>4. QED BY <1>4, <1>b, <2>1, <2>2, <2>3 DEF StopBody
<1>5. CASE SelfLeave(a)
  <2>1. /\ spc[a] = "selfLeave" /\ lock' = NoTask /\ spc' = [spc EXCEPT ![a] = "selfCall"]
        /\ UNCHANGED <<vars, call>>
    BY <1>5 DEF SelfLeave, Proceed
  <2>2. a \in Task /\ call'[a].exec = self[a] /\ Others(a) /\ spc'[a] = "selfCall"
    BY <1>0, <2>1 DEF Mutex, Others
  <2>3. QED BY <1>a, <1>m, <2>1, <2>2 DEF HeldSteps
<1>6. CASE StopSelf(a)
  <2> DEFINE e == call[a].exec
             o == call[a].fn
  <2>1. e \in Exec /\ o \in {"pause", "kill"} /\ o \in Ops /\ a \in Task /\ e = self[a] /\ spc[a] = "selfCall"
    BY <1>0, <1>6 DEF StopSelf, CallFits, Ops, Mutex
  <2>2. Call(a, e, o) /\ UNCHANGED <<lock, taskVars>> /\ spc'[a] \in {"idle", "enter"} /\ Others(a)
    BY <1>0, <1>6, <2>1, DoneTyped DEF StopSelf, Call, Others, regVars
  <2>3. Mutex'
    BY <1>0, <2>1, <2>2, MutexOutside DEF HeldSteps, taskVars
  <2>4. pc'[a] = FirstStep[o] /\ op'[a].exec = e /\ op'[a].then = AfterKill[o]
    BY <2>2 DEF Call, Charge, SchedulerTyped, Typed, TypeOK
  <2>5. pc'[a] \in {"kill", "pause"} /\ op'[a].then = "idle"
    BY <2>1, <2>4 DEF FirstStep, AfterKill
  <2>6. Live(a)' /\ self'[a] = e
    BY <1>0, <2>1, <2>2 DEF Live, CanRun, taskVars
  <2>7. CallMade(a)' /\ NotItself(a)'
    BY <2>1, <2>2, <2>4, <2>5, <2>6 DEF CallMade, Own, OwnSteps, Holds, HeldSteps, OnTask, NotItself
  <2>8. QED BY <2>1, <2>2, <2>3, <2>7, CallCharge
<1>7. CASE RestartBody(a)
  <2>1. CASE Refuse(a)
    BY <1>7, <2>1, <1>n DEF RestartBody, Refuse, HeldSteps, regVars
  <2>2. CASE ~Refuse(a)
    BY <1>7, <1>b, <2>2, <1>k DEF RestartBody, HeldSteps, regVars, Ops
  <2>3. QED BY <2>1, <2>2
<1>8. CASE RemoveBody(a)
  <2> DEFINE e == Found(call[a].name)
  <2>1. CASE Refuse(a)
    BY <1>8, <2>1, <1>n DEF RemoveBody, Refuse, HeldSteps
  <2>2. CASE e # NoExec /\ ~IsSelf(a, e) /\ call' = [call EXCEPT ![a].exec = e] /\ Into(a, e, "kill", "delete")
    <3>1. call'[a].exec = e /\ e \in Exec /\ \A b \in Actor : b # a => call'[b] = call[b]
      BY <1>0, <1>b, <2>2, SetExec
    <3>2. UNCHANGED lock /\ spc[a] = "body" /\ handle[e] # a
      BY <1>8, <2>2 DEF RemoveBody, IsSelf
    <3>3. QED BY <1>k, <2>2, <3>1, <3>2 DEF HeldSteps, Ops
  <2>3. QED BY <1>8, <2>1, <2>2 DEF RemoveBody
<1>9. CASE RemoveDelete(a)
  <2>1. call[a].exec \in Exec /\ handle[call[a].exec] # a
    BY <1>0, <1>9 DEF RemoveDelete, CallFits, NotItself
  <2>2. QED BY <1>9, <2>1, <1>k DEF RemoveDelete, HeldSteps, Ops, regVars
<1>10. CASE RemoveFreed(a)
    BY <1>10, <1>n DEF RemoveFreed, HeldSteps
<1>11. CASE ExecuteBody(a)
    BY <1>0, <1>b, <1>11, <1>n DEF ExecuteBody, HeldSteps, regVars
<1>12. CASE ExecuteLeave(a)
    BY <1>12, <1>d DEF ExecuteLeave, HeldSteps
<1>13. CASE InfoBody(a)
    BY <1>0, <1>13, <1>n DEF InfoBody, HeldSteps, regVars
<1>14. CASE InfoTask(a)
    BY <1>0, <1>14, <1>n DEF InfoTask, HeldSteps, regVars
<1>15. CASE ScanBody(a)
  <2>1. spc[a] \in HeldSteps /\ UNCHANGED vars /\ lock' = NoTask
    BY <1>15 DEF ScanBody, HeldSteps
  <2>2. CASE Done(a)
    BY <2>1, <2>2, <1>d
  <2>3. CASE ~Done(a)
    <3>1. Proceed(a, "enter") /\ \A b \in Actor : b # a => call'[b] = call[b]
      BY <1>0, <1>15, <2>3 DEF ScanBody
    <3>2. spc'[a] = "enter" /\ Others(a)
      BY <1>0, <3>1 DEF Proceed, Others
    <3>3. QED BY <1>m, <2>1, <3>2 DEF HeldSteps
  <2>4. QED BY <2>2, <2>3
<1>16. QED
    BY <1>1, <1>2, <1>3, <1>4, <1>5, <1>6, <1>7, <1>8, <1>9, <1>10, <1>11, <1>12, <1>13, <1>14, <1>15
    DEF RegistryStep

\* A step in an executable that creates, deletes and takes no task.
LEMMA QuietExec ==
    ASSUME Charge, SchedulerTyped', NEW a \in Actor, ExecStep(a),
           UNCHANGED <<handle, self>>,
           \A t \in Task : Live(t)' = Live(t),
           \A t \in Task : Holds(t) => rtos'[t] = "ready",
           \A b \in Actor : b # a => pc'[b] = pc[b] /\ op'[b] = op[b],
           pc'[a] \in KillSteps <=> pc[a] \in KillSteps,
           pc[a] \in KillSteps => op'[a] = op[a],
           pc'[a] # "idle" => IF Holds(a) THEN Foreign(a)' ELSE Own(a)'
    PROVE  Charge'
<1>1. ASSUME NEW b \in Actor PROVE spc'[b] = spc[b] /\ (spc[b] # "idle" => call'[b] = call[b])
  <2>1. CASE b \in Task /\ rtos'[b] = "deleted" /\ spc'[b] = "idle"
    <3>1. spc[b] = "idle"
      BY <2>1 DEF Charge, Mutex, Live
    <3>2. QED BY <2>1, <3>1
  <2>2. QED BY <2>1, ExecStepForgets DEF Charge
<1>2. \A b \in Actor : Holds(b)' <=> Holds(b)
    BY <1>1 DEF Holds
<1>3. UNCHANGED lock
    BY DEF ExecStep, regVars
<1>4. Mutex'
  <2>1. \A b \in Actor : Holds(b)' <=> lock' = b
    BY <1>2, <1>3 DEF Charge, Mutex
  <2>2. \A t \in Task : Holds(t)' => rtos'[t] = "ready"
    BY <1>2
  <2>3. \A t \in Task : spc'[t] # "idle" => Live(t)'
    BY <1>1 DEF Charge, Mutex
  <2>4. \A b \in Actor : spc'[b] \in {"selfLeave", "selfCall"} => b \in Task /\ call'[b].exec = self'[b]
    BY <1>1 DEF Charge, Mutex
  <2>5. QED BY <2>1, <2>2, <2>3, <2>4 DEF Mutex
<1>5. ASSUME NEW b \in Actor PROVE CallMade(b)' /\ NotItself(b)'
  <2>1. NotItself(b)'
    BY <1>1 DEF Charge, NotItself
  <2>2. CASE b = a
    BY <1>2, <2>1, <2>2 DEF CallMade
  <2>3. CASE b # a
    <3>1. (Own(b)' <=> Own(b)) /\ (Foreign(b)' <=> Foreign(b))
      BY <1>1, <2>3 DEF Own, Foreign
    <3>2. QED BY <1>2, <2>1, <2>3, <3>1 DEF Charge, CallMade
  <2>4. QED BY <2>2, <2>3
<1>6. \A b \in Actor, t \in Task : Kills(b, t)' <=> Kills(b, t)
    BY DEF Kills
<1>7. ASSUME NEW b \in Actor PROVE InHand(b)'
  <2>1. pc[b] \in KillSteps => op[b].task \in Task /\ op'[b] = op[b]
    BY DEF Charge, SchedulerTyped, Typed, Wired, CallWired, OnTask, KillSteps
  <2>2. QED BY <2>1 DEF Charge, InHand
<1>8. \A x \in Exec : Handled(x)'
    BY DEF Charge, Handled, SchedulerTyped, Typed, TypeOK
<1>9. OneKiller' /\ (\A t \in Task : Owned(t)')
    BY <1>6 DEF Charge, OneKiller, Owned
<1>10. QED BY <1>4, <1>5, <1>7, <1>8, <1>9 DEF Charge

\* The task a script's own call takes is its own: no other call has taken
\* it, and the script has no other.
LEMMA OwnHandle ==
    ASSUME Charge, NEW a \in Task, ~Holds(a), pc[a] \in {"kill", "pause"},
           handle[op[a].exec] # NoTask
    PROVE  handle[op[a].exec] = a
<1>1. Live(a) /\ op[a].exec = self[a] /\ self[a] \in Exec
    BY DEF Charge, CallMade, Own, SchedulerTyped, Typed, Wired, SelfWired
<1>2. ASSUME NEW b \in Actor, Kills(b, a) PROVE FALSE
  <2>1. op[b].exec = self[a] /\ pc[b] # "idle" /\ pc[b] \in AfterLock /\ pc[b] \in OnTask
    BY <1>2 DEF Charge, InHand, Kills, KillSteps, AfterLock, OnTask
  <2>2. CASE Holds(b)
    BY <1>1, <2>1, <2>2 DEF Charge, CallMade, Foreign
  <2>3. CASE ~Holds(b)
    BY <1>2, <2>1, <2>3 DEF Charge, CallMade, Own, Kills, KillSteps
  <2>4. QED BY <2>2, <2>3
<1>3. QED BY <1>1, <1>2 DEF Charge, Owned

\* kill() takes the task off the handle.
LEMMA KillLockCharge ==
    ASSUME Charge, SchedulerTyped', NEW a \in Actor, ExecStep(a), KillLock(a), handle[op[a].exec] # NoTask
    PROVE  Charge'
<1> DEFINE e == op[a].exec
           t == handle[op[a].exec]
<1> USE DEF Charge
<1>0. /\ pc[a] = "kill" /\ e \in Exec /\ t \in Task /\ t # NoTask
      /\ Live(t) /\ self[t] = e /\ SchedulerTyped /\ Typed
    BY DEF KillLock, At, SchedulerTyped, Typed, TypeOK, Wired, CallWired, Handled
<1>1. /\ pc' = [pc EXCEPT ![a] = "killUnwind"] /\ op' = [op EXCEPT ![a].task = t]
      /\ handle' = [handle EXCEPT ![e] = NoTask] /\ UNCHANGED taskVars
    BY DEF KillLock
<1>2. /\ pc'[a] = "killUnwind" /\ op'[a].task = t /\ op'[a].exec = e /\ op'[a].then = op[a].then
      /\ \A b \in Actor : b # a => pc'[b] = pc[b] /\ op'[b] = op[b]
    BY <1>0, <1>1, OpTaskTyped DEF Typed, TypeOK
<1>3. /\ handle'[e] = NoTask
      /\ \A x \in Exec : x # e => handle'[x] = handle[x]
    BY <1>0, <1>1 DEF Typed, TypeOK
<1>4. \A x \in Task : (Live(x)' <=> Live(x)) /\ self'[x] = self[x] /\ rtos'[x] = rtos[x]
    BY <1>1 DEF Live, taskVars
<1>5. ASSUME NEW b \in Actor PROVE spc'[b] = spc[b] /\ (spc[b] # "idle" => call'[b] = call[b])
  <2>1. CASE b \in Task /\ rtos'[b] = "deleted" /\ spc'[b] = "idle"
    <3>1. spc[b] = "idle"
      BY <1>4, <2>1 DEF Mutex, Live
    <3>2. QED BY <2>1, <3>1
  <2>2. QED BY <1>0, <2>1, ExecStepForgets
<1>6. \A b \in Actor : Holds(b)' <=> Holds(b)
    BY <1>5 DEF Holds
<1>7. Mutex'
  <2>1. UNCHANGED lock
    BY DEF ExecStep, regVars
  <2>2. \A b \in Actor : spc'[b] \in {"selfLeave", "selfCall"} => b \in Task /\ call'[b].exec = self'[b]
    BY <1>4, <1>5 DEF Mutex
  <2>3. QED BY <1>4, <1>5, <1>6, <2>1, <2>2 DEF Mutex
<1>8. ~Holds(a) => a \in Task /\ t = a
  <2>1. SUFFICES ASSUME ~Holds(a) PROVE a \in Task /\ t = a
    OBVIOUS
  <2>2. a \in Task
    BY <1>0, <2>1 DEF CallMade, Own
  <2>3. QED BY <1>0, <2>1, <2>2, OwnHandle
\* No other call has this task.
<1>9. \A b \in Actor : ~Kills(b, t)
    BY <1>0 DEF Kills, InHand
<1>10. ASSUME NEW b \in Actor PROVE CallMade(b)'
  <2>1. CASE b = a /\ Holds(a)
    <3>1. Foreign(a)'
      BY <1>0, <1>2, <1>3, <2>1 DEF CallMade, Foreign
    <3>2. QED BY <1>6, <2>1, <3>1 DEF CallMade
  <2>2. CASE b = a /\ ~Holds(a)
    <3>1. Own(a) /\ a \in Task /\ t = a
      BY <1>0, <1>8, <2>2 DEF CallMade
    <3>2. Own(a)'
      BY <1>2, <1>4, <1>5, <3>1 DEF Own, OwnSteps
    <3>3. QED BY <1>6, <2>2, <3>2 DEF CallMade
  <2>3. CASE b # a
    <3>1. pc'[b] = pc[b] /\ op'[b] = op[b] /\ b # NoTask
      BY <1>2, <2>3
    <3>2. pc[b] # "idle" => op[b].exec \in Exec
      BY <1>0 DEF Typed, Wired, CallWired
    <3>3. pc[b] # "idle" /\ Foreign(b) => Foreign(b)'
      BY <1>3, <3>1, <3>2 DEF Foreign
    <3>4. Own(b) => Own(b)'
      BY <1>4, <1>5, <3>1 DEF Own
    <3>5. QED BY <1>6, <3>1, <3>3, <3>4 DEF CallMade
  <2>4. QED BY <2>1, <2>2, <2>3
<1>11. ASSUME NEW b \in Actor PROVE NotItself(b)'
  <2>1. spc[b] \in {"delete", "inFree"} => call[b].exec \in Exec /\ b # NoTask
    BY <1>0 DEF SchedulerTyped, CallFits
  <2>2. QED BY <1>3, <1>5, <2>1 DEF NotItself
<1>12. ASSUME NEW x \in Exec PROVE Handled(x)'
    BY <1>0, <1>3, <1>4 DEF Handled, Typed, TypeOK
<1>13. ASSUME NEW b \in Actor PROVE InHand(b)'
    <2>1. CASE b = a
      BY <2>1, <1>0, <1>2, <1>3, <1>4 DEF InHand
    <2>2. CASE b # a
      <3>1. pc[b] \in KillSteps => op[b].task \in Task /\ op[b].exec \in Exec
        BY <1>0 DEF Typed, Wired, CallWired, OnTask, KillSteps
      <3>2. QED BY <2>2, <3>1, <1>0, <1>2, <1>3, <1>4 DEF InHand
    <2>3. QED BY <2>1, <2>2
<1>14. OneKiller'
    BY <1>2, <1>9 DEF OneKiller, Kills
<1>15. ASSUME NEW x \in Task PROVE Owned(x)'
    <2>1. CASE x = t
      BY <2>1, <1>2 DEF Owned, Kills, KillSteps
    <2>2. CASE x # t
      <3>1. Live(x) => self[x] \in Exec
        BY <1>0 DEF Typed, Wired, SelfWired
      <3>2. \A b \in Actor : Kills(b, x) => Kills(b, x)'
        BY <1>0, <1>2 DEF Kills, KillSteps
      <3>3. QED BY <2>2, <3>1, <3>2, <1>3, <1>4 DEF Owned
    <2>3. QED BY <2>1, <2>2
<1>16. QED BY <1>7, <1>10, <1>11, <1>12, <1>13, <1>14, <1>15

\* vTaskDelete(): the task is gone, and no place refers to it.
LEMMA KillDeleteCharge ==
    ASSUME Charge, SchedulerTyped', NEW a \in Actor, ExecStep(a), KillDelete(a)
    PROVE  Charge'
<1> USE DEF Charge
<1>a. PICK t \in Task : t = op[a].task
    BY DEF KillDelete, At, SchedulerTyped, Typed, Wired, CallWired, OnTask
<1>0. /\ pc[a] = "killDelete" /\ pc[a] \in KillSteps /\ op[a].exec \in Exec
      /\ Live(t) /\ self[t] = op[a].exec /\ handle[op[a].exec] # t
      /\ SchedulerTyped /\ Typed /\ CanRun(a)
    BY <1>a DEF KillDelete, At, SchedulerTyped, Typed, Wired, CallWired, OnTask, InHand, KillSteps
<1>1. \A x \in Exec : handle[x] # t
    BY <1>0 DEF Handled
<1>2. \A b \in Actor : b # a => ~Kills(b, t)
    BY <1>a, <1>0 DEF OneKiller, Kills
<1>3. /\ UNCHANGED handle /\ ~Live(t)' /\ rtos'[t] = "deleted"
      /\ \A x \in Task : x # t => (Live(x)' <=> Live(x)) /\ self'[x] = self[x] /\ rtos'[x] = rtos[x]
    BY <1>a, <1>0 DEF KillDelete, Live, Typed, TypeOK, objVars
<1>4. pc'[t] = "idle"
    BY <1>a, <1>0 DEF KillDelete, Typed, TypeOK
<1>5. pc'[a] \notin KillSteps /\ (a # t => pc'[a] = op[a].then)
    BY <1>a, <1>0 DEF KillDelete, Typed, TypeOK, KillSteps, Then
<1>6. \A b \in Actor : b # a /\ b # t => pc'[b] = pc[b] /\ op'[b] = op[b]
    BY <1>a, <1>0 DEF KillDelete, Typed, TypeOK
<1>7. a # t /\ pc'[a] # "idle" => op'[a].exec = op[a].exec
    BY <1>a, <1>0 DEF KillDelete, Typed, TypeOK
<1>8. \A b \in Actor : pc'[b] \in KillSteps => b # a /\ b # t
    BY <1>4, <1>5 DEF KillSteps
\* The task that is deleted is not the holder of the mutex.
<1>9. ~Holds(t)
  <2>1. CASE Holds(a)
    BY <1>a, <1>0, <2>1 DEF CallMade, Foreign, Mutex
  <2>2. CASE ~Holds(a)
    BY <1>a, <1>0, <2>2 DEF CallMade, Own, OnTask
  <2>3. QED BY <2>1, <2>2
<1>b. spc'[t] = "idle"
    BY <1>0, <1>3, ExecStepForgets
<1>10. ASSUME NEW b \in Actor, b # t PROVE spc'[b] = spc[b] /\ (spc[b] # "idle" => call'[b] = call[b])
  <2>1. CASE b \in Task /\ rtos'[b] = "deleted" /\ spc'[b] = "idle"
    <3>1. spc[b] = "idle"
      BY <1>3, <1>10, <2>1 DEF Mutex, Live
    <3>2. QED BY <2>1, <3>1
  <2>2. QED BY <1>0, <2>1, ExecStepForgets
<1>11. \A b \in Actor : Holds(b)' <=> Holds(b)
    BY <1>9, <1>b, <1>10 DEF Holds, HeldSteps
<1>12. Mutex'
  <2>1. UNCHANGED lock
    BY DEF ExecStep, regVars
  <2>2. \A x \in Task : Holds(x)' => rtos'[x] = "ready"
    BY <1>3, <1>9, <1>11 DEF Mutex
  <2>3. \A x \in Task : spc'[x] # "idle" => Live(x)'
    BY <1>3, <1>b, <1>10 DEF Mutex
  <2>4. \A b \in Actor : spc'[b] \in {"selfLeave", "selfCall"} => b \in Task /\ call'[b].exec = self'[b]
    BY <1>3, <1>b, <1>10 DEF Mutex
  <2>5. \A b \in Actor : Holds(b)' <=> lock' = b
    BY <1>11, <2>1 DEF Mutex
  <2>6. QED BY <2>2, <2>3, <2>4, <2>5 DEF Mutex
<1>13. ASSUME NEW b \in Actor PROVE CallMade(b)' /\ NotItself(b)'
  <2>1. CASE b = t
    BY <1>4, <1>b, <2>1 DEF CallMade, NotItself
  <2>2. CASE b # t /\ b = a
    <3>1. NotItself(a)'
      BY <1>3, <1>10, <2>2 DEF NotItself
    <3>2. Holds(a)
      BY <1>a, <1>0, <2>2 DEF CallMade, Own, OnTask
    <3>3. Foreign(a)' \/ pc'[a] = "idle"
      BY <1>0, <1>3, <1>5, <1>7, <2>2, <3>2 DEF CallMade, Foreign, AfterLock, Typed, TypeOK, Then
    <3>4. QED BY <1>11, <2>2, <3>1, <3>2, <3>3 DEF CallMade
  <2>3. CASE b # t /\ b # a
    <3>1. pc'[b] = pc[b] /\ op'[b] = op[b]
      BY <1>6, <2>3
    <3>2. Foreign(b) => Foreign(b)'
      BY <1>3, <3>1 DEF Foreign
    <3>3. Own(b) => Own(b)'
      BY <1>3, <1>10, <2>3, <3>1 DEF Own
    <3>4. NotItself(b)'
      BY <1>3, <1>10, <2>3 DEF NotItself
    <3>5. QED BY <1>11, <3>1, <3>2, <3>3, <3>4 DEF CallMade
  <2>4. QED BY <2>1, <2>2, <2>3
<1>14. ASSUME NEW x \in Exec PROVE Handled(x)'
    BY <1>1, <1>3 DEF Handled, SchedulerTyped, Typed, TypeOK
<1>15. ASSUME NEW b \in Actor PROVE InHand(b)'
    <2>1. SUFFICES ASSUME pc'[b] \in KillSteps PROVE InHand(b)'
      BY DEF InHand
    <2>2. b # a /\ b # t /\ pc[b] \in KillSteps /\ op'[b] = op[b]
      BY <2>1, <1>6, <1>8
    <2>3. op[b].task # t /\ op[b].task \in Task
      BY <2>2, <1>0, <1>2 DEF Kills, Typed, Wired, CallWired, OnTask, KillSteps
    <2>4. QED BY <2>2, <2>3, <1>3 DEF InHand
<1>16. OneKiller'
    BY <1>6, <1>8 DEF OneKiller, Kills
<1>17. ASSUME NEW x \in Task PROVE Owned(x)'
    <2>1. CASE x = t
      BY <2>1, <1>3 DEF Owned
    <2>2. CASE x # t
      <3>1. ASSUME NEW b \in Actor, Kills(b, x) PROVE Kills(b, x)'
        <4>1. b # a
          BY <1>a, <2>2, <3>1 DEF Kills
        <4>2. b # t
          <5>1. SUFFICES ASSUME b = t PROVE FALSE
            OBVIOUS
          <5>2. Own(t) /\ pc[t] \in OnTask
            BY <1>9, <3>1, <5>1 DEF CallMade, Kills, KillSteps, OnTask
          <5>3. QED BY <2>2, <3>1, <5>1, <5>2 DEF Own, Kills
        <4>3. QED BY <3>1, <4>1, <4>2, <1>6 DEF Kills
      <3>2. QED BY <2>2, <3>1, <1>3 DEF Owned
    <2>3. QED BY <2>1, <2>2
<1>18. QED BY <1>12, <1>13, <1>14, <1>15, <1>16, <1>17

\* xTaskCreatePinnedToCore(): only the holder of the mutex creates a task, and
\* the handle it stores was empty.
LEMMA CreateCharge ==
    ASSUME Charge, SchedulerTyped', NEW a \in Actor, NEW t \in Task, ExecStep(a), CreateTask(a, t)
    PROVE  Charge'
<1> DEFINE e == op[a].exec
<1> USE DEF Charge
<1>0. /\ pc[a] = "create" /\ rtos[t] = "none" /\ e \in Exec /\ ~Live(t) /\ CanRun(a)
      /\ SchedulerTyped /\ Typed
    BY DEF CreateTask, At, Live, SchedulerTyped, Typed, Wired, CallWired
<1>1. Holds(a) /\ handle[e] = NoTask
    BY <1>0 DEF CallMade, Own, OwnSteps, Foreign, AfterLock
<1>2. /\ handle'[e] = t /\ \A x \in Exec : x # e => handle'[x] = handle[x]
    BY <1>0 DEF CreateTask, Typed, TypeOK
<1>3. /\ Live(t)' /\ self'[t] = e /\ rtos'[t] = "ready"
      /\ \A x \in Task : x # t => (Live(x)' <=> Live(x)) /\ self'[x] = self[x] /\ rtos'[x] = rtos[x]
    BY <1>0 DEF CreateTask, Live, Typed, TypeOK
<1>4. /\ pc'[a] = "idle"
      /\ \A b \in Actor : b # a => pc'[b] = pc[b] /\ op'[b] = op[b]
    BY <1>0, GoToTyped DEF CreateTask, Step
<1>5. \A b \in Actor : ~Kills(b, t)
    BY <1>0 DEF Kills, InHand
<1>6. spc[t] = "idle" /\ pc[t] = "idle" /\ t # a
  <2>1. spc[t] = "idle"
    BY <1>0 DEF Mutex
  <2>2. t # a
    BY <1>0 DEF CanRun
  <2>3. QED BY <1>0, <2>1, <2>2 DEF CallMade, Own, Holds, HeldSteps
<1>7. ASSUME NEW b \in Actor PROVE spc'[b] = spc[b] /\ (spc[b] # "idle" => call'[b] = call[b])
  <2>1. CASE b \in Task /\ rtos'[b] = "deleted" /\ spc'[b] = "idle"
    <3>1. spc[b] = "idle"
      BY <1>3, <2>1 DEF Mutex, Live
    <3>2. QED BY <2>1, <3>1
  <2>2. QED BY <1>0, <2>1, ExecStepForgets
<1>8. \A b \in Actor : Holds(b)' <=> Holds(b)
    BY <1>7 DEF Holds
<1>9. Mutex'
  <2>1. UNCHANGED lock
    BY DEF ExecStep, regVars
  <2>2. \A b \in Actor : spc'[b] \in {"selfLeave", "selfCall"} => b \in Task /\ call'[b].exec = self'[b]
    BY <1>3, <1>6, <1>7 DEF Mutex
  <2>3. \A x \in Task : Holds(x)' => rtos'[x] = "ready"
    BY <1>3, <1>8 DEF Mutex
  <2>4. \A x \in Task : spc'[x] # "idle" => Live(x)'
    BY <1>3, <1>7 DEF Mutex
  <2>5. QED BY <1>8, <2>1, <2>2, <2>3, <2>4 DEF Mutex
<1>10. ASSUME NEW b \in Actor PROVE CallMade(b)' /\ NotItself(b)'
  <2>1. NotItself(b)'
    <3>1. spc[b] \in {"delete", "inFree"} => call[b].exec \in Exec /\ b # t
      BY <1>0, <1>6 DEF SchedulerTyped, CallFits
    <3>2. QED BY <1>2, <1>7, <3>1 DEF NotItself
  <2>2. CASE b = a
    BY <1>4, <2>1, <2>2 DEF CallMade
  <2>3. CASE b # a
    <3>1. pc'[b] = pc[b] /\ op'[b] = op[b] /\ ~Holds(b)
      BY <1>1, <1>4, <2>3 DEF Mutex
    <3>2. Own(b) => Own(b)'
      <4>1. b \in Task /\ Live(b) => b # t
        BY <1>0
      <4>2. QED BY <1>3, <1>7, <3>1, <4>1 DEF Own
    <3>3. QED BY <1>8, <2>1, <3>1, <3>2 DEF CallMade
  <2>4. QED BY <2>2, <2>3
<1>11. ASSUME NEW x \in Exec PROVE Handled(x)'
    <2>1. CASE x = e
      BY <2>1, <1>2, <1>3 DEF Handled
    <2>2. CASE x # e
      BY <2>2, <1>0, <1>2, <1>3 DEF Handled, Typed, TypeOK
    <2>3. QED BY <2>1, <2>2
<1>12. ASSUME NEW b \in Actor PROVE InHand(b)'
    <2>1. SUFFICES ASSUME pc'[b] \in KillSteps PROVE InHand(b)'
      BY DEF InHand
    <2>2. b # a /\ pc[b] \in KillSteps /\ op'[b] = op[b]
      BY <2>1, <1>4 DEF KillSteps
    <2>3. /\ op[b].task # t /\ op[b].task \in Task /\ op[b].exec \in Exec
      BY <2>2, <1>0, <1>5 DEF Kills, Typed, Wired, CallWired, OnTask, KillSteps
    <2>4. QED BY <2>2, <2>3, <1>2, <1>3 DEF InHand
<1>13. OneKiller'
    BY <1>4 DEF OneKiller, Kills, KillSteps
<1>14. ASSUME NEW x \in Task PROVE Owned(x)'
    <2>1. CASE x = t
      BY <2>1, <1>2, <1>3 DEF Owned
    <2>2. CASE x # t
      <3>1. \A b \in Actor : Kills(b, x) => Kills(b, x)'
        BY <1>0, <1>4 DEF Kills, KillSteps
      <3>2. Live(x) => self[x] \in Exec
        BY <1>0 DEF Typed, Wired, SelfWired
      <3>3. QED BY <2>2, <3>1, <3>2, <1>1, <1>2, <1>3 DEF Owned
    <2>3. QED BY <2>1, <2>2
<1>15. QED BY <1>9, <1>10, <1>11, <1>12, <1>13, <1>14

\* The steps in an executable, made by the holder or by a script on itself.
LEMMA ExecStepCharge ==
    ASSUME Charge, SchedulerTyped', NEW a \in Actor, ExecStep(a)
    PROVE  Charge'
<1> USE DEF At
<1>0. /\ CallStep(a) /\ Typed
      /\ pc[a] # "idle" => op[a].exec \in Exec /\ IF Holds(a) THEN Foreign(a) ELSE Own(a)
      /\ pc[a] \in OnTask => op[a].task \in Task /\ rtos[op[a].task] # "none"
      /\ op[a].then \in Step \ KillSteps /\ op[a].then \in {"idle", "saveState", "freeExec"}
    BY DEF ExecStep, Charge, SchedulerTyped, Typed, Wired, CallWired, TypeOK, Then, Step, KillSteps, CallMade
\* A step that changes no task, of a call that goes on at k or is over.
<1>a. ASSUME NEW k \in Step, GoTo(a, k), UNCHANGED <<handle, taskVars>>, pc[a] \notin KillSteps, k \notin KillSteps,
             k = "idle" \/ (Holds(a) /\ k \in AfterLock /\ handle[op[a].exec] = NoTask)
      PROVE  Charge'
  <2>1. /\ pc'[a] = k /\ (k # "idle" => op'[a] = op[a])
        /\ \A b \in Actor : b # a => pc'[b] = pc[b] /\ op'[b] = op[b]
    BY <1>0, <1>a, GoToTyped
  <2>2. \A t \in Task : Live(t)' = Live(t) /\ (Holds(t) => rtos'[t] = "ready")
    BY <1>a DEF Live, taskVars, Charge, Mutex
  <2>3. pc'[a] # "idle" => Holds(a) /\ Foreign(a)'
    BY <1>a, <2>1 DEF Foreign, AfterLock, KillSteps
  <2>4. QED BY <1>a, <2>1, <2>2, <2>3, QuietExec DEF taskVars
\* pause() or restart() takes the task in hand.
<1>b. ASSUME NEW k \in {"pauseSuspend", "restartResume"}, NEW t \in Task, t = handle[op[a].exec],
             pc' = [pc EXCEPT ![a] = k], op' = [op EXCEPT ![a].task = t],
             UNCHANGED <<handle, taskVars>>, pc[a] = IF k = "pauseSuspend" THEN "pause" ELSE "restart"
      PROVE  Charge'
  <2>1. /\ pc'[a] = k /\ op'[a].exec = op[a].exec /\ op'[a].then = op[a].then /\ op'[a].task = t
        /\ \A b \in Actor : b # a => pc'[b] = pc[b] /\ op'[b] = op[b]
    BY <1>0, <1>b, OpTaskTyped DEF Typed, TypeOK
  <2>2. \A x \in Task : Live(x)' = Live(x) /\ (Holds(x) => rtos'[x] = "ready")
    BY <1>b DEF Live, taskVars, Charge, Mutex
  <2>3. CASE Holds(a)
    <3>1. Foreign(a)'
      BY <1>0, <1>b, <2>1, <2>3 DEF Foreign, AfterLock
    <3>2. QED BY <1>b, <2>1, <2>2, <2>3, <3>1, QuietExec DEF taskVars, KillSteps
  <2>4. CASE ~Holds(a)
    <3>1. Own(a) /\ k = "pauseSuspend" /\ t = a
      BY <1>0, <1>b, <2>4, OwnHandle DEF Own, OwnSteps
    <3>2. spc'[a] = spc[a]
      BY <2>2, <3>1, ExecStepForgets DEF Charge, Own, Live
    <3>3. Own(a)'
      BY <1>b, <2>1, <2>2, <3>1, <3>2 DEF Own, OwnSteps, taskVars
    <3>4. QED BY <1>b, <2>1, <2>2, <2>4, <3>3, QuietExec DEF taskVars, KillSteps
  <2>5. QED BY <2>3, <2>4
\* FreeRTOS suspends or resumes the task in hand.
<1>c. ASSUME NEW there \in {"ready", "suspended"}, Move(a, there), pc[a] \in {"pauseSuspend", "restartResume"},
             there = "suspended" => pc[a] = "pauseSuspend"
      PROVE  Charge'
  <2> DEFINE t == op[a].task
  <2>0. t \in Task /\ rtos[t] # "none" /\ GoTo(a, "idle") /\ UNCHANGED <<handle, self>>
    BY <1>0, <1>c DEF Move, OnTask, objVars
  <2>1. /\ pc'[a] = "idle"
        /\ \A b \in Actor : b # a => pc'[b] = pc[b] /\ op'[b] = op[b]
    BY <1>0, <2>0, GoToTyped DEF Step
  <2>2. \A x \in Task : Live(x)' = Live(x) /\ (x # t => rtos'[x] = rtos[x])
    BY <1>0, <1>c, <2>0 DEF Move, Live, Typed, TypeOK
  <2>3. Holds(t) => rtos'[t] = "ready"
    <3>1. CASE there = "ready"
      BY <1>0, <1>c, <2>0, <3>1 DEF Move, Typed, TypeOK, Charge, Mutex
    <3>2. CASE there = "suspended"
      <4>1. pc[a] = "pauseSuspend"
        BY <1>c, <3>2
      <4>2. CASE Holds(a)
        BY <1>0, <2>0, <4>1, <4>2 DEF Foreign, Charge, Mutex
      <4>3. CASE ~Holds(a)
        BY <1>0, <4>1, <4>3 DEF Own, OnTask
      <4>4. QED BY <4>2, <4>3
    <3>3. QED BY <3>1, <3>2
  <2>4. \A x \in Task : Holds(x) => rtos'[x] = "ready"
    BY <2>2, <2>3 DEF Charge, Mutex
  <2>5. QED BY <1>c, <2>0, <2>1, <2>2, <2>4, QuietExec DEF KillSteps
<1>1. CASE KillLock(a) /\ handle[op[a].exec] = NoTask
  <2>1. GoTo(a, op[a].then) /\ UNCHANGED taskVars /\ pc[a] = "kill"
    BY <1>1 DEF KillLock
  <2>2. handle' = handle
    BY <1>0, <1>1, <2>1 DEF KillLock, Typed, TypeOK
  <2>3. op[a].then = "idle" \/ (Holds(a) /\ op[a].then \in AfterLock)
    BY <1>0, <2>1 DEF Own, AfterLock
  <2>4. QED BY <1>0, <1>1, <2>1, <2>2, <2>3, <1>a DEF KillSteps
<1>2. CASE KillLock(a) /\ handle[op[a].exec] # NoTask
    BY <1>2, KillLockCharge
<1>3. CASE KillUnwind(a)
  <2>1. /\ pc'[a] = "killDelete" /\ pc[a] = "killUnwind"
        /\ UNCHANGED <<handle, taskVars, op>>
        /\ \A b \in Actor : b # a => pc'[b] = pc[b] /\ op'[b] = op[b]
    BY <1>0, <1>3 DEF KillUnwind, Typed, TypeOK
  <2>2. \A t \in Task : Live(t)' = Live(t) /\ (Holds(t) => rtos'[t] = "ready")
    BY <2>1 DEF Live, taskVars, Charge, Mutex
  <2>3. CASE Holds(a)
    <3>1. Foreign(a)'
      BY <1>0, <2>1, <2>3 DEF Foreign, AfterLock
    <3>2. QED BY <2>1, <2>2, <2>3, <3>1, QuietExec DEF taskVars, KillSteps
  <2>4. CASE ~Holds(a)
    <3>1. Own(a)
      BY <1>0, <2>1, <2>4
    <3>2. spc'[a] = spc[a]
      BY <2>2, <3>1, ExecStepForgets DEF Charge, Own, Live
    <3>3. Own(a)'
      BY <2>1, <2>2, <3>1, <3>2 DEF Own, OwnSteps, OnTask, taskVars
    <3>4. QED BY <2>1, <2>2, <2>4, <3>3, QuietExec DEF taskVars, KillSteps
  <2>5. QED BY <2>3, <2>4
<1>4. CASE KillDelete(a)
    BY <1>4, KillDeleteCharge
<1>5. CASE SaveState(a)
  <2>1. /\ pc'[a] = "markRunning" /\ pc[a] = "saveState"
        /\ op'[a].exec = op[a].exec /\ UNCHANGED <<objVars, taskVars>>
        /\ \A b \in Actor : b # a => pc'[b] = pc[b] /\ op'[b] = op[b]
    BY <1>0, <1>5 DEF SaveState, Typed, TypeOK
  <2>2. \A t \in Task : Live(t)' = Live(t) /\ (Holds(t) => rtos'[t] = "ready")
    BY <2>1 DEF Live, taskVars, Charge, Mutex
  <2>3. Holds(a) /\ Foreign(a)'
    BY <1>0, <2>1 DEF Own, OwnSteps, Foreign, AfterLock, objVars
  <2>4. QED BY <2>1, <2>2, <2>3, QuietExec DEF objVars, taskVars, KillSteps
<1>6. CASE MarkRunning(a)
  <2>1. Holds(a) /\ handle[op[a].exec] = NoTask
    BY <1>0, <1>6 DEF MarkRunning, Own, OwnSteps, Foreign, AfterLock
  <2>2. QED BY <1>6, <2>1, <1>a DEF MarkRunning, Step, KillSteps, AfterLock
<1>7. CASE \E t \in Task : CreateTask(a, t)
    BY <1>7, CreateCharge
<1>8. CASE CreateFails(a)
  <2>1. Holds(a) /\ handle[op[a].exec] = NoTask
    BY <1>0, <1>8 DEF CreateFails, Own, OwnSteps, Foreign, AfterLock
  <2>2. handle' = handle
    BY <1>0, <1>8, <2>1 DEF CreateFails, Typed, TypeOK
  <2>3. QED BY <1>8, <2>1, <2>2, <1>a DEF CreateFails, Step, KillSteps, AfterLock
<1>9. CASE UndoState(a)
    BY <1>9, <1>a DEF UndoState, Step, KillSteps
<1>10. CASE FreeExec(a)
    BY <1>10, <1>a DEF FreeExec, Step, KillSteps
<1>11. CASE PauseLock(a)
  <2>1. CASE state[op[a].exec] = "running" /\ handle[op[a].exec] # NoTask
    <3>1. handle[op[a].exec] \in Task
      BY <1>0, <1>11, <2>1 DEF PauseLock, Typed, TypeOK
    <3>2. QED BY <1>11, <2>1, <3>1, <1>b DEF PauseLock, Switch
  <2>2. CASE ~(state[op[a].exec] = "running" /\ handle[op[a].exec] # NoTask)
    BY <1>11, <2>2, <1>a DEF PauseLock, Switch, Step, KillSteps
  <2>3. QED BY <2>1, <2>2
<1>12. CASE RestartLock(a)
  <2>1. CASE state[op[a].exec] = "paused" /\ handle[op[a].exec] # NoTask
    <3>1. handle[op[a].exec] \in Task
      BY <1>0, <1>12, <2>1 DEF RestartLock, Typed, TypeOK
    <3>2. QED BY <1>12, <2>1, <3>1, <1>b DEF RestartLock, Switch
  <2>2. CASE ~(state[op[a].exec] = "paused" /\ handle[op[a].exec] # NoTask)
    BY <1>12, <2>2, <1>a DEF RestartLock, Switch, Step, KillSteps
  <2>3. QED BY <2>1, <2>2
<1>13. CASE PauseSuspend(a)
    BY <1>13, <1>c DEF PauseSuspend
<1>14. CASE RestartResume(a)
    BY <1>14, <1>c DEF RestartResume
<1>15. QED
    BY <1>0, <1>1, <1>2, <1>3, <1>4, <1>5, <1>6, <1>7, <1>8, <1>9, <1>10, <1>11, <1>12, <1>13, <1>14
    DEF CallStep

LEMMA ScriptStepCharge ==
    ASSUME Charge, SchedulerTyped', NEW t \in Task, ScriptStep(t)
    PROVE  Charge'
<1>1. UNCHANGED <<handle, self, pc, op, spc, call, lock>> /\ spc[t] = "idle"
    BY DEF ScriptStep, TaskStep, EnterFooter, SkipFooter, LeaveFooter, EnterMain, SkipMain, LeaveMain, Finish, Park,
           Enter, Leave, Skip, Runs, At, objVars, callVars, regVars
<1>2. \A x \in Task : Live(x)' = Live(x) /\ (x # t => rtos'[x] = rtos[x])
    BY DEF ScriptStep, TaskStep, EnterFooter, SkipFooter, LeaveFooter, EnterMain, SkipMain, LeaveMain, Finish, Park,
           Enter, Leave, Skip, Runs, At, CanRun, Live, Charge, SchedulerTyped, Typed, TypeOK
<1>3. Mutex'
    BY <1>1, <1>2 DEF Charge, Mutex, Holds, HeldSteps
<1>4. ASSUME NEW b \in Actor PROVE CallMade(b)' /\ NotItself(b)' /\ InHand(b)'
  <2>1. pc[b] \in KillSteps => op[b].task \in Task
    BY DEF Charge, SchedulerTyped, Typed, Wired, CallWired, OnTask, KillSteps
  <2>2. QED BY <1>1, <1>2, <2>1 DEF Charge, CallMade, Holds, Foreign, Own, NotItself, InHand
<1>5. (\A e \in Exec : Handled(e)') /\ OneKiller' /\ \A x \in Task : Owned(x)'
    BY <1>1, <1>2 DEF Charge, Handled, OneKiller, Owned, Kills, SchedulerTyped, Typed, TypeOK
<1>6. QED BY <1>3, <1>4, <1>5 DEF Charge

LEMMA SchedulerNextCharge == Charge /\ [SchedulerNext]_allVars => Charge'
<1> SUFFICES ASSUME Charge, [SchedulerNext]_allVars PROVE Charge'
    OBVIOUS
<1>0. SchedulerTyped'
    BY SchedulerNextTyped DEF Charge
<1>1. CASE \E a \in Sketch : SketchBegin(a)
    BY <1>0, <1>1, BeginCharge DEF SketchBegin
<1>2. CASE \E t \in Task : ScriptBegin(t)
    BY <1>0, <1>2, BeginCharge DEF ScriptBegin
<1>3. CASE (\E a \in Sketch : ExecuteReturn(a)) \/ UNCHANGED allVars
  <2>1. UNCHANGED <<vars, lock, spc, call>>
    BY <1>3 DEF ExecuteReturn, allVars, regVars
  <2>2. QED BY <1>0, <2>1 DEF Charge, Mutex, Holds, CallMade, Foreign, Own, NotItself, InHand, Handled,
                             OneKiller, Owned, Kills, Live, vars, objVars, taskVars, callVars
<1>4. CASE \E t \in Task : ScriptStep(t)
    BY <1>0, <1>4, ScriptStepCharge
<1>5. CASE \E a \in Actor : EnterRegistry(a) \/ RegistryStep(a) \/ ExecStep(a)
    BY <1>0, <1>5, EnterCharge, RegistryStepCharge, ExecStepCharge
<1>6. QED BY <1>1, <1>2, <1>3, <1>4, <1>5 DEF SchedulerNext

LEMMA AlwaysCharge == SchedulerSpec => []Charge
BY InitCharge, SchedulerNextCharge, PTL DEF SchedulerSpec

\* The task that holds the registry's mutex is never suspended nor deleted
\* there, whichever calls scripts and sketch tasks make: no call of pause(),
\* kill(), run() or remove() stops the others for ever.
THEOREM HolderAlwaysRuns == SchedulerSpec => []HolderCanRun
<1>1. Charge => HolderCanRun
    BY DEF Charge, Mutex, HolderCanRun
<1>2. QED BY <1>1, AlwaysCharge, PTL

\* Through the registry, any number of sketch tasks may control the scripts,
\* and these control each other: every task stays in the charge of one place.
THEOREM RegistryOwnsTasks == SchedulerSpec => []OneOwner
<1>1. Charge => OneOwner
  <2> SUFFICES ASSUME Charge, NEW t \in Task
               PROVE  IF Live(t) THEN \E x \in Exec \cup Actor : Owners(t) = {x} ELSE Owners(t) = {}
      BY DEF OneOwner
  <2> USE DEF Charge
  <2>2. Killing(t) = {a \in Actor : Kills(a, t)}
      BY DEF Killing, Kills, KillSteps
  <2>3. \A e \in Exec : handle[e] = t => e = self[t] /\ Live(t)
      BY DEF Handled
  <2>4. \A a \in Actor : Kills(a, t) => Live(t) /\ \A e \in Exec : handle[e] # t
      BY DEF Handled, InHand, Kills
  <2>5. CASE Live(t)
    <3>1. self[t] \in Exec
        BY <2>5 DEF SchedulerTyped, Typed, Wired, SelfWired
    <3>2. CASE handle[self[t]] = t
      <4>1. Owners(t) = {self[t]}
          BY <2>2, <2>3, <2>4, <3>1, <3>2 DEF Owners
      <4>2. QED BY <2>5, <3>1, <4>1
    <3>3. CASE \E a \in Actor : Kills(a, t)
      <4>1. PICK a \in Actor : Kills(a, t)
          BY <3>3
      <4>2. Owners(t) = {a}
          BY <2>2, <2>4, <4>1 DEF Owners, OneKiller
      <4>3. QED BY <2>5, <4>1, <4>2
    <3>4. QED BY <2>5, <3>2, <3>3 DEF Owned
  <2>6. CASE ~Live(t)
    <3>1. Owners(t) = {}
        BY <2>2, <2>3, <2>4, <2>6 DEF Owners
    <3>2. QED BY <2>6, <3>1
  <2>7. QED BY <2>5, <2>6
<1>2. QED BY <1>1, AlwaysCharge, PTL

\* Through the registry, a script has at most one run at a time.
THEOREM RegistryRunsOne == SchedulerSpec => []OneRunPerScript
<1>1. Charge => OneRunPerScript
  <2> SUFFICES ASSUME Charge, NEW t \in Task, NEW u \in Task,
                      LifeOf(t) \in {"running", "paused"}, LifeOf(u) \in {"running", "paused"},
                      self[t] = self[u]
               PROVE  t = u
      BY DEF OneRunPerScript
  <2> USE DEF Charge
  <2>1. ASSUME NEW x \in Task, LifeOf(x) \in {"running", "paused"}
        PROVE  Live(x) /\ self[x] \in Exec /\ ~Kills(x, x)
      BY <2>1 DEF LifeOf, Live, Killing, Kills, KillSteps, SchedulerTyped, Typed, TypeOK, Wired, SelfWired
\* A call that has taken one of them is the holder's, and the handle is empty.
  <2>2. ASSUME NEW x \in Task, NEW b \in Actor, Kills(b, x), ~Kills(x, x)
        PROVE  Holds(b) /\ handle[self[x]] = NoTask /\ op[b].exec = self[x]
    <3>1. pc[b] # "idle" /\ pc[b] \in AfterLock /\ pc[b] \in OnTask /\ op[b].exec = self[x] /\ op[b].task = x
        BY <2>2 DEF InHand, Kills, KillSteps, AfterLock, OnTask
    <3>2. QED BY <2>2, <3>1 DEF CallMade, Own, Foreign
  <2>3. Live(t) /\ Live(u) /\ self[t] \in Exec /\ ~Kills(t, t) /\ ~Kills(u, u)
      BY <2>1
  <2>4. CASE handle[self[t]] # NoTask
    <3>1. handle[self[t]] = t /\ handle[self[u]] = u
        BY <2>2, <2>3, <2>4 DEF Owned
    <3>2. QED BY <3>1
  <2>5. CASE handle[self[t]] = NoTask
    <3>1. PICK a \in Actor, b \in Actor : Kills(a, t) /\ Kills(b, u)
        BY <2>3, <2>5 DEF Owned
    <3>2. Holds(a) /\ Holds(b)
        BY <2>2, <2>3, <3>1
    <3>3. a = b
        BY <3>2 DEF Mutex
    <3>4. QED BY <3>1, <3>3 DEF Kills
  <2>6. QED BY <2>4, <2>5
<1>2. QED BY <1>1, AlwaysCharge, PTL

-------------------------------------------------------------------------------
(* The executables: each in one slot, or with the remove() that deletes it. *)

LEMMA InitKept == SchedulerInit => Kept
BY DEF SchedulerInit, Kept, FreeSlot

\* A step that leaves the slots, the executables and remove() as they are.
LEMMA KeptStays ==
    ASSUME Kept, UNCHANGED <<slots, object>>,
           \A b \in Actor : (Removes(b)' <=> Removes(b)) /\ (Removes(b) => call'[b].exec = call[b].exec)
    PROVE  Kept'
BY DEF Kept, Removes

\* The task that holds the mutex goes on with its call.
LEMMA HolderGoesOn ==
    ASSUME Charge, Charge', NEW a \in Actor, ExecStep(a), NEW b \in Actor
    PROVE  /\ Holds(b) => spc'[b] = spc[b] /\ call'[b] = call[b]
           /\ ~Holds(b) => ~Holds(b)'
<1>1. UNCHANGED lock /\ (Holds(b) <=> lock = b) /\ (Holds(b)' <=> lock' = b)
    BY DEF ExecStep, regVars, Charge, Mutex
<1>2. Holds(b) /\ b \in Task => rtos'[b] # "deleted"
    BY <1>1 DEF Charge, Mutex
<1>3. Holds(b) => spc'[b] = spc[b] /\ call'[b] = call[b]
    BY <1>2 DEF ExecStep
<1>4. QED BY <1>1, <1>3

LEMMA RegistryStepKept ==
    ASSUME Charge, Kept, NEW a \in Actor, RegistryStep(a)
    PROVE  Kept'
<1>0. /\ SchedulerTyped /\ Mutex /\ spc \in [Actor -> RegStep] /\ call \in [Actor -> Call2_]
      /\ slots \in [Slot -> [used : BOOLEAN, name : Name \cup {NoName}, exec : Exec \cup {NoExec}]]
      /\ object \in [Exec -> {"none", "alive", "deleted"}]
    BY DEF Charge, SchedulerTyped, SchedulerTypeOK, Call2_
\* No call but a's can be in a remove(), once a holds the mutex.
<1>a. Holds(a) => \A b \in Actor : b # a => ~Removes(b)
    BY <1>0 DEF Mutex, Holds, Removes, HeldSteps
<1>b. ASSUME ~Removes(a), ~Removes(a)', Others(a), UNCHANGED <<slots, object>> PROVE Kept'
    BY <1>b, KeptStays DEF Others, Removes
<1>c. ASSUME ~Removes(a), UNCHANGED <<slots, object>>, Done(a) PROVE Kept'
    BY <1>0, <1>b, <1>c, DoneTyped DEF Others, Removes
<1>d. ASSUME ~Removes(a), UNCHANGED <<slots, object>>, NEW k \in RegStep \ {"delete", "inFree"}, Proceed(a, k),
             \A b \in Actor : b # a => call'[b] = call[b]
      PROVE  Kept'
  <2>1. spc'[a] = k /\ \A b \in Actor : b # a => spc'[b] = spc[b]
    BY <1>0, <1>d DEF Proceed
  <2>2. QED BY <1>b, <1>d, <2>1 DEF Others, Removes
<1> USE DEF RegAt, Body
<1>1. CASE LeaveRegistry(a)
    BY <1>1, <1>c DEF LeaveRegistry, Removes
<1>2. CASE AddBody(a)
  <2>1. Proceed(a, "leave") /\ spc[a] = "body" /\ UNCHANGED call
    BY <1>2 DEF AddBody
  <2>2. CASE UNCHANGED <<slots, object>>
    BY <2>1, <2>2, <1>d DEF Removes, RegStep
  <2>3. CASE \E i \in Slot, e \in Exec :
                /\ ~slots[i].used /\ object[e] = "none"
                /\ slots' = [slots EXCEPT ![i] = [used |-> TRUE, name |-> call[a].name, exec |-> e]]
                /\ object' = [object EXCEPT ![e] = "alive"]
    <3>1. PICK i \in Slot, e \in Exec :
                /\ ~slots[i].used /\ object[e] = "none"
                /\ slots' = [slots EXCEPT ![i] = [used |-> TRUE, name |-> call[a].name, exec |-> e]]
                /\ object' = [object EXCEPT ![e] = "alive"]
      BY <2>3
    <3>2. slots'[i].used /\ slots'[i].exec = e /\ \A j \in Slot : j # i => slots'[j] = slots[j]
      BY <1>0, <3>1
    <3>3. object'[e] = "alive" /\ \A x \in Exec : x # e => object'[x] = object[x]
      BY <1>0, <3>1
    <3>4. \A j \in Slot : slots[j].used => slots[j].exec \in Exec /\ slots[j].exec # e
      BY <1>0, <3>1 DEF Kept, SchedulerTyped, SlotFits
    <3>5. \A b \in Actor : ~Removes(b) /\ ~Removes(b)'
      BY <1>0, <1>a, <2>1 DEF Holds, HeldSteps, Proceed, Removes
    <3>6. QED BY <3>1, <3>2, <3>3, <3>4, <3>5 DEF Kept, Removes
  <2>4. QED BY <1>2, <2>2, <2>3 DEF AddBody
<1>3. CASE RunBody(a) \/ RestartBody(a)
  <2>1. spc'= [spc EXCEPT ![a] = "leave"] /\ UNCHANGED <<slots, object, call>> /\ spc[a] = "body"
    BY <1>3 DEF RunBody, RestartBody, Refuse, Into, Proceed, regVars
  <2>2. QED BY <2>1, <1>d DEF Proceed, Removes, RegStep
<1>4. ASSUME NEW f \in {"pause", "kill"}, StopBody(a, f) PROVE Kept'
  <2>1. UNCHANGED <<slots, object>> /\ ~Removes(a)
    BY <1>4 DEF StopBody, regVars, Removes
  <2>2. \E k \in {"leave", "selfLeave"} : Proceed(a, k)
    BY <1>4 DEF StopBody, Refuse, Into
  <2>3. \A b \in Actor : b # a => call'[b] = call[b]
    BY <1>0, <1>4 DEF StopBody, Refuse
  <2>4. QED BY <2>1, <2>2, <2>3, <1>d DEF RegStep
<1>5. CASE SelfLeave(a)
    BY <1>5, <1>d DEF SelfLeave, Removes, RegStep
<1>6. CASE StopSelf(a)
    BY <1>6, <1>c DEF StopSelf, Removes, regVars
<1>7. CASE RemoveBody(a)
  <2> DEFINE n == call[a].name
             e == Found(call[a].name)
             i == FirstOf(Matches(call[a].name))
  <2>1. CASE Refuse(a) /\ UNCHANGED slots
    BY <1>7, <2>1, <1>d DEF RemoveBody, Refuse, Removes, RegStep
  <2>2. CASE /\ e # NoExec /\ call' = [call EXCEPT ![a].exec = e] /\ Into(a, e, "kill", "delete")
             /\ slots' = [slots EXCEPT ![i].used = FALSE, ![i].exec = NoExec]
    <3>0. spc[a] = "body" /\ UNCHANGED object /\ Holds(a)
      BY <1>7 DEF RemoveBody, Holds, HeldSteps
    <3>1. i \in Slot /\ slots[i].used /\ slots[i].exec = e /\ e \in Exec
      BY <1>0, <2>2, FoundTyped
    <3>2. ~slots'[i].used /\ \A j \in Slot : j # i => slots'[j] = slots[j]
      BY <1>0, <2>2, <3>1, EmptySlot
    <3>3. call'[a].exec = e
      BY <1>0, <2>2, <3>1, SetExec
    <3>4. spc'[a] = "delete" /\ Removes(a)' /\ \A b \in Actor : ~Removes(b) /\ (b # a => ~Removes(b)')
      BY <1>0, <1>a, <2>2, <3>0 DEF Into, Proceed, Removes
    <3>5. \A j \in Slot : slots'[j].used => slots[j].used /\ slots[j].exec # e /\ slots'[j] = slots[j]
      BY <3>1, <3>2 DEF Kept
    <3>6. \A j \in Slot : slots[j].used /\ j # i => slots'[j] = slots[j]
      BY <3>2
    <3>7. QED BY <3>0, <3>1, <3>3, <3>4, <3>5, <3>6 DEF Kept, Removes
  <2>3. QED BY <1>7, <2>1, <2>2 DEF RemoveBody
<1>8. CASE RemoveDelete(a)
  <2>1. spc[a] = "delete" /\ spc' = [spc EXCEPT ![a] = "inFree"] /\ UNCHANGED <<slots, object, call>>
    BY <1>8 DEF RemoveDelete, Into, Proceed, regVars
  <2>2. \A b \in Actor : Removes(b)' <=> Removes(b)
    BY <1>0, <2>1 DEF Removes
  <2>3. QED BY <2>1, <2>2, KeptStays
<1>9. CASE RemoveFreed(a)
  <2> DEFINE e == call[a].exec
  <2>1. spc[a] = "inFree" /\ spc' = [spc EXCEPT ![a] = "leave"] /\ UNCHANGED <<slots, call>>
        /\ object' = [object EXCEPT ![e] = "deleted"]
    BY <1>9 DEF RemoveFreed, Proceed
  <2>2. e \in Exec /\ object'[e] = "deleted" /\ \A x \in Exec : x # e => object'[x] = object[x]
    BY <1>0, <2>1 DEF SchedulerTyped, CallFits
  <2>3. \A j \in Slot : slots[j].used => slots[j].exec \in Exec /\ slots[j].exec # e
    BY <1>0, <2>1, <2>2 DEF Kept, SchedulerTyped, SlotFits
  <2>4. \A b \in Actor : ~Removes(b)' /\ (Removes(b) => b = a)
    BY <1>0, <1>a, <2>1 DEF Removes, Holds, HeldSteps
  <2>5. QED BY <2>1, <2>2, <2>3, <2>4 DEF Kept, Removes
<1>10. CASE ExecuteBody(a)
    BY <1>0, <1>10, <1>d DEF ExecuteBody, Removes, RegStep, regVars
<1>11. CASE ExecuteLeave(a)
    BY <1>11, <1>c DEF ExecuteLeave, Removes
<1>12. CASE InfoBody(a) \/ InfoTask(a)
  <2>1. UNCHANGED <<slots, object>> /\ ~Removes(a)
    BY <1>12 DEF InfoBody, InfoTask, regVars, Removes
  <2>2. \E k \in {"leave", "useTask"} : Proceed(a, k)
    BY <1>12 DEF InfoBody, InfoTask
  <2>3. \A b \in Actor : b # a => call'[b] = call[b]
    BY <1>0, <1>12 DEF InfoBody, InfoTask
  <2>4. QED BY <2>1, <2>2, <2>3, <1>d DEF RegStep
<1>13. CASE ScanBody(a)
  <2>1. UNCHANGED <<slots, object>> /\ ~Removes(a)
    BY <1>13 DEF ScanBody, Removes
  <2>2. CASE Done(a)
    BY <2>1, <2>2, <1>c
  <2>3. CASE ~Done(a)
    <3>1. Proceed(a, "enter") /\ \A b \in Actor : b # a => call'[b] = call[b]
      BY <1>0, <1>13, <2>3 DEF ScanBody
    <3>2. QED BY <2>1, <3>1, <1>d DEF RegStep
  <2>4. QED BY <2>2, <2>3
<1>14. QED
    BY <1>1, <1>2, <1>3, <1>4, <1>5, <1>6, <1>7, <1>8, <1>9, <1>10, <1>11, <1>12, <1>13 DEF RegistryStep

LEMMA SchedulerNextKept == Charge /\ Charge' /\ Kept /\ [SchedulerNext]_allVars => Kept'
<1> SUFFICES ASSUME Charge, Charge', Kept, [SchedulerNext]_allVars PROVE Kept'
    OBVIOUS
<1>0. SchedulerTyped /\ spc \in [Actor -> RegStep] /\ call \in [Actor -> Call2_]
    BY DEF Charge, SchedulerTyped, SchedulerTypeOK, Call2_
<1>1. ASSUME NEW a \in Actor, NEW f \in Fns, NEW n \in Name, Begin(a, f, n) PROVE Kept'
  <2>1. spc[a] = "idle" /\ spc'[a] = "enter" /\ UNCHANGED <<slots, object>>
    BY <1>0, <1>1, BeginTyped DEF Begin, RegAt, regVars
  <2>2. \A b \in Actor : b # a => spc'[b] = spc[b] /\ call'[b] = call[b]
    BY <1>0, <1>1, BeginTyped
  <2>3. QED BY <2>1, <2>2, KeptStays DEF Removes
<1>2. CASE \E a \in Sketch : SketchBegin(a)
    BY <1>1, <1>2 DEF SketchBegin
<1>3. CASE \E t \in Task : ScriptBegin(t)
    BY <1>1, <1>3 DEF ScriptBegin
<1>4. CASE \/ \E a \in Sketch : ExecuteReturn(a)
           \/ \E t \in Task : ScriptStep(t)
           \/ UNCHANGED allVars
  <2>1. UNCHANGED <<slots, object, spc, call>>
    BY <1>4 DEF ExecuteReturn, ScriptStep, allVars, regVars
  <2>2. QED BY <2>1, KeptStays DEF Removes
<1>5. ASSUME NEW a \in Actor, EnterRegistry(a) PROVE Kept'
  <2>1. spc[a] = "enter" /\ spc' = [spc EXCEPT ![a] = "body"] /\ UNCHANGED <<slots, object, call>>
    BY <1>5 DEF EnterRegistry, RegAt, Proceed
  <2>2. \A b \in Actor : Removes(b)' <=> Removes(b)
    BY <1>0, <2>1 DEF Removes
  <2>3. QED BY <2>1, <2>2, KeptStays
<1>6. ASSUME NEW a \in Actor, ExecStep(a) PROVE Kept'
  <2>1. UNCHANGED <<slots, object>>
    BY <1>6 DEF ExecStep, regVars
  <2>2. \A b \in Actor : (Removes(b)' <=> Removes(b)) /\ (Removes(b) => call'[b].exec = call[b].exec)
    BY <1>6, HolderGoesOn DEF Removes, Holds, HeldSteps
  <2>3. QED BY <2>1, <2>2, KeptStays
<1>7. QED
    BY <1>2, <1>3, <1>4, <1>5, <1>6, RegistryStepKept DEF SchedulerNext

LEMMA AlwaysKept == SchedulerSpec => [](Charge /\ Kept)
<1>1. Charge /\ [SchedulerNext]_allVars => Charge'
    BY SchedulerNextCharge
<1>2. Charge /\ Kept /\ [SchedulerNext]_allVars => (Charge /\ Kept)'
    BY <1>1, SchedulerNextKept
<1>3. QED BY <1>2, InitCharge, InitKept, PTL DEF SchedulerSpec

\* Whoever adds, replaces and removes scripts, each compiled script is in one
\* slot of the registry or with the one remove() that deletes it: none is
\* leaked, deleted twice, or reached through two names.
THEOREM RegistryKeepsEach == SchedulerSpec => []OneKeeper
<1>1. Charge /\ Kept => OneKeeper
  <2> SUFFICES ASSUME Charge, Kept, NEW e \in Exec
               PROVE  IF object[e] = "alive"
                      THEN \E x \in Slot \cup Actor :
                              (x \in Slot /\ Holding(e) = {x} /\ Removing(e) = {})
                           \/ (x \in Actor /\ Removing(e) = {x} /\ Holding(e) = {})
                      ELSE Holding(e) = {} /\ Removing(e) = {}
      BY DEF OneKeeper
  <2>1. \A a, b \in Removing(e) : a = b
      BY DEF Removing, Charge, Mutex, Holds, HeldSteps
  <2>2. \A i, j \in Holding(e) : i = j
      BY DEF Holding, Kept
  <2>3. Holding(e) = {} \/ Removing(e) = {}
      BY DEF Holding, Removing, Kept
  <2>4. object[e] # "alive" => Holding(e) = {} /\ Removing(e) = {}
      BY DEF Holding, Removing, Kept
  <2>5. CASE object[e] = "alive" /\ Holding(e) # {}
    <3>1. PICK i \in Slot : i \in Holding(e)
        BY <2>5 DEF Holding
    <3>2. Holding(e) = {i} /\ Removing(e) = {}
        BY <2>2, <2>3, <3>1
    <3>3. QED BY <2>5, <3>1, <3>2
  <2>6. CASE object[e] = "alive" /\ Holding(e) = {}
    <3>1. PICK a \in Actor : a \in Removing(e)
        BY <2>6 DEF Kept, Holding, Removing
    <3>2. Removing(e) = {a}
        BY <2>1, <3>1
    <3>3. QED BY <2>6, <3>1, <3>2
  <2>7. QED BY <2>4, <2>5, <2>6
<1>2. QED BY <1>1, AlwaysKept, PTL

-------------------------------------------------------------------------------
(* The names: add() removes the script of its name, lets go of the mutex,   *)
(* and takes it again to fill a slot. With one task that adds, no script of *)
(* that name can appear between the two.                                    *)

LEMMA InitNamed == SchedulerInit => Named
BY DEF SchedulerInit, Named, UniqueNames, NameFits, FreeSlot, NoFn

\* A step of a's call that fills no slot.
LEMMA NamedStays ==
    ASSUME Named, NEW a \in Actor, Others(a), NameFits(a)',
           \A i \in Slot : slots'[i].used => slots[i].used /\ slots'[i] = slots[i]
    PROVE  Named'
<1>1. UniqueNames'
    BY DEF Named, UniqueNames
<1>2. \A n : Matches(n) = {} => Matches(n)' = {}
    BY DEF Matches
<1>3. \A b \in Actor : b # a => NameFits(b)'
    BY <1>2 DEF Named, NameFits, Others
<1>4. QED BY <1>1, <1>3 DEF Named

LEMMA RegistryStepNamed ==
    ASSUME OneAdder, Charge, Named, NEW a \in Actor, RegistryStep(a)
    PROVE  Named'
<1>0. /\ SchedulerTyped /\ spc \in [Actor -> RegStep] /\ call \in [Actor -> Call2_]
      /\ slots \in [Slot -> [used : BOOLEAN, name : Name \cup {NoName}, exec : Exec \cup {NoExec}]]
      /\ NameFits(a) /\ CallFits(a)
    BY DEF Charge, SchedulerTyped, SchedulerTypeOK, Call2_, Named
<1>1. \A n : Matches(n) # {} => FirstOf(Matches(n)) \in Slot
    BY <1>0, FoundTyped
\* A function that is over: what add() does next knows that the name is free.
<1>a. ASSUME UNCHANGED slots, Done(a), call[a].for = "add" => spc[a] = "leave" \/ call[a].fn # "remove"
      PROVE  Named'
  <2>1. Others(a)
    BY <1>0, <1>a, DoneTyped DEF Others
  <2>2. call'[a].fn = "add" => Adder(a) /\ call'[a].name = call[a].name /\ Matches(call[a].name) = {}
    BY <1>0, <1>a, DoneTyped DEF NameFits
  <2>3. call'[a].for # "add" /\ spc'[a] \in {"idle", "enter"}
    BY <1>0, <1>a, DoneTyped
  <2>4. NameFits(a)'
    <3>1. call'[a].fn = "add" => Matches(call[a].name)' = {}
      BY <1>a, <2>2 DEF Matches
    <3>2. QED BY <2>2, <2>3, <3>1 DEF NameFits, Adder
  <2>5. QED BY <1>a, <2>1, <2>4, NamedStays
\* A step to k of a call that adds nothing.
<1>b. ASSUME UNCHANGED slots, NEW k \in RegStep, Proceed(a, k),
             call[a].fn # "add" /\ (call[a].for = "add" => k = "leave" /\ Matches(call[a].name) = {}),
             call'[a].fn = call[a].fn \/ call'[a].fn = "kill" \/ call'[a].fn = "remove",
             call'[a].for = call[a].for /\ (call[a].for = "add" => call' = call),
             \A b \in Actor : b # a => call'[b] = call[b]
      PROVE  Named'
  <2>1. spc'[a] = k /\ Others(a)
    BY <1>0, <1>b DEF Proceed, Others
  <2>2. call'[a].for = "add" => Matches(call[a].name)' = {}
    BY <1>b DEF Matches
  <2>3. NameFits(a)'
    BY <1>0, <1>b, <2>1, <2>2 DEF NameFits, Adder
  <2>4. QED BY <1>b, <2>1, <2>3, NamedStays
<1> USE DEF RegAt, Body
<1>2. CASE LeaveRegistry(a)
    BY <1>2, <1>a DEF LeaveRegistry
<1>3. CASE AddBody(a)
  <2> DEFINE n == call[a].name
  <2>1. /\ Adder(a) /\ Matches(n) = {} /\ call[a].fn = "add" /\ call[a].for # "add"
        /\ spc' = [spc EXCEPT ![a] = "leave"] /\ UNCHANGED call
    BY <1>0, <1>3 DEF AddBody, NameFits, Proceed
  <2>2. Others(a) /\ NameFits(a)'
    BY <1>0, <2>1 DEF Others, NameFits, Adder
  <2>3. CASE UNCHANGED slots
    BY <2>2, <2>3, NamedStays
  <2>4. CASE \E i \in Slot, e \in Exec : /\ ~slots[i].used
                                         /\ slots' = [slots EXCEPT ![i] = [used |-> TRUE, name |-> n, exec |-> e]]
    <3>1. PICK i \in Slot, e \in Exec : /\ ~slots[i].used
                                        /\ slots' = [slots EXCEPT ![i] = [used |-> TRUE, name |-> n, exec |-> e]]
      BY <2>4
    <3>2. slots'[i].name = n /\ \A j \in Slot : j # i => slots'[j] = slots[j]
      BY <1>0, <3>1
    <3>3. \A j \in Slot : slots[j].used => slots[j].name # n
      BY <2>1 DEF Matches
    <3>4. UniqueNames'
      BY <3>2, <3>3 DEF Named, UniqueNames
\* No other call is an add().
    <3>5. ASSUME NEW b \in Actor, b # a PROVE NameFits(b)'
      <4>1. ~Adder(b) /\ call'[b] = call[b] /\ NameFits(b)
        BY <2>1, <3>5 DEF OneAdder, Adder, Named
      <4>2. QED BY <4>1 DEF NameFits
    <3>6. QED BY <2>2, <3>4, <3>5 DEF Named
  <2>5. QED BY <1>3, <2>3, <2>4 DEF AddBody
<1>4. CASE RunBody(a) \/ RestartBody(a)
  <2>1. Proceed(a, "leave") /\ UNCHANGED <<slots, call>> /\ call[a].fn \in {"run", "restart"}
    BY <1>4 DEF RunBody, RestartBody, Refuse, Into, regVars
  <2>2. QED BY <1>0, <2>1, <1>b DEF NameFits, RegStep
<1>5. ASSUME NEW f \in {"pause", "kill"}, StopBody(a, f) PROVE Named'
  <2> DEFINE e == Found(call[a].name)
  <2>0. UNCHANGED slots /\ call[a].fn = f /\ call[a].for # "add"
    BY <1>0, <1>5 DEF StopBody, regVars, NameFits
  <2>1. CASE call' = [call EXCEPT ![a].exec = e] /\ Proceed(a, "selfLeave")
    BY <1>0, <2>0, <2>1, FoundTyped, SetExec, <1>b DEF RegStep
  <2>2. CASE UNCHANGED call /\ Proceed(a, "leave")
    BY <2>0, <2>2, <1>b DEF RegStep
  <2>3. QED BY <1>5, <2>1, <2>2 DEF StopBody, Refuse, Into
<1>6. CASE SelfLeave(a)
  <2>1. Proceed(a, "selfCall") /\ UNCHANGED <<slots, call>> /\ call[a].fn \in {"pause", "kill"}
    BY <1>0, <1>6 DEF SelfLeave, CallFits
  <2>2. QED BY <1>0, <2>1, <1>b DEF NameFits, RegStep
<1>7. CASE StopSelf(a)
    BY <1>0, <1>7, <1>a DEF StopSelf, CallFits, regVars
<1>8. CASE RemoveBody(a)
  <2> DEFINE n == call[a].name
             e == Found(call[a].name)
             i == FirstOf(Matches(call[a].name))
  <2>0. call[a].fn = "remove"
    BY <1>8 DEF RemoveBody
  <2>1. CASE Refuse(a) /\ UNCHANGED slots /\ (e = NoExec \/ IsSelf(a, e))
    <3>1. call[a].for = "add" => e = NoExec
      <4>1. handle \in [Exec -> Task \cup {NoTask}]
        BY <1>0 DEF SchedulerTyped, Typed, TypeOK
      <4>2. call[a].for = "add" => a \in Sketch
        BY <1>0 DEF NameFits, Adder
      <4>3. QED BY <1>0, <2>1, <4>1, <4>2, FoundTyped DEF IsSelf
    <3>2. call[a].for = "add" => Matches(n) = {}
      BY <1>0, <3>1, FoundTyped
    <3>3. QED BY <2>0, <2>1, <3>2, <1>b DEF Refuse, RegStep
  <2>2. CASE /\ e # NoExec /\ call' = [call EXCEPT ![a].exec = e] /\ Into(a, e, "kill", "delete")
             /\ slots' = [slots EXCEPT ![i].used = FALSE, ![i].exec = NoExec]
    <3>1. i \in Slot /\ slots[i].used /\ slots[i].name = n /\ e \in Exec
      BY <1>0, <2>2, FoundTyped
    <3>2. ~slots'[i].used /\ \A j \in Slot : j # i => slots'[j] = slots[j]
      BY <1>0, <2>2, <3>1, EmptySlot
    <3>3. /\ call'[a].name = n /\ call'[a].fn = "remove" /\ call'[a].for = call[a].for
          /\ \A b \in Actor : b # a => call'[b] = call[b]
      BY <1>0, <2>0, <2>2, <3>1, SetExec
    <3>4. spc'[a] = "delete" /\ Others(a)
      BY <1>0, <2>2, <3>3 DEF Into, Proceed, Others
    <3>5. \A j \in Slot : slots[j].used /\ slots[j].name = n => j = i
      BY <3>1 DEF Named, UniqueNames
    <3>6. Matches(call[a].name)' = {}
      BY <3>2, <3>3, <3>5 DEF Matches
    <3>7. NameFits(a)'
      BY <1>0, <3>3, <3>4, <3>6 DEF NameFits, Adder
    <3>8. QED BY <3>2, <3>4, <3>7, NamedStays
  <2>3. QED BY <1>8, <2>1, <2>2 DEF RemoveBody
<1>9. CASE RemoveDelete(a) \/ RemoveFreed(a)
  <2>1. /\ spc[a] \in {"delete", "inFree"} /\ UNCHANGED <<slots, call>>
        /\ spc' = [spc EXCEPT ![a] = IF spc[a] = "delete" THEN "inFree" ELSE "leave"]
    BY <1>9 DEF RemoveDelete, RemoveFreed, Into, Proceed, regVars
  <2>2. Others(a) /\ spc'[a] \in {"inFree", "leave"}
    BY <1>0, <2>1 DEF Others
  <2>3. NameFits(a)'
    BY <1>0, <2>1, <2>2 DEF NameFits, Adder, Matches
  <2>4. QED BY <2>1, <2>2, <2>3, NamedStays
<1>10. CASE ExecuteBody(a)
  <2>1. /\ UNCHANGED slots /\ call[a].fn = "execute" /\ Proceed(a, "execLeave")
        /\ call' = [call EXCEPT ![a].exec = Found(call[a].name)]
    BY <1>10 DEF ExecuteBody, regVars
  <2>2. call[a].for # "add"
    BY <1>0, <2>1 DEF NameFits
  <2>3. QED BY <1>0, <2>1, <2>2, FoundTyped, SetExec, <1>b DEF RegStep
<1>11. CASE ExecuteLeave(a)
    BY <1>0, <1>11, <1>a DEF ExecuteLeave, NameFits
<1>12. CASE InfoBody(a)
  <2> DEFINE e == Found(call[a].name)
  <2>0. UNCHANGED slots /\ call[a].fn = "info" /\ call[a].for # "add"
    BY <1>0, <1>12 DEF InfoBody, NameFits, regVars
  <2>1. CASE Proceed(a, "leave") /\ UNCHANGED call
    BY <2>0, <2>1, <1>b DEF RegStep
  <2>2. CASE /\ e # NoExec /\ handle[e] # NoTask
             /\ call' = [call EXCEPT ![a].task = handle[e]] /\ Proceed(a, "useTask")
    <3>1. handle[e] \in Task
      BY <1>0, <2>2, FoundTyped DEF SchedulerTyped, Typed, TypeOK
    <3>2. QED BY <1>0, <2>0, <2>2, <3>1, SetTask, <1>b DEF RegStep
  <2>3. QED BY <1>12, <2>1, <2>2 DEF InfoBody
<1>13. CASE InfoTask(a)
  <2>1. spc[a] = "useTask" /\ UNCHANGED slots /\ call' = [call EXCEPT ![a].task = NoTask] /\ Proceed(a, "leave")
    BY <1>13 DEF InfoTask, regVars
  <2>2. /\ call'[a].fn = call[a].fn /\ call'[a].for = call[a].for /\ call[a].for # "add"
        /\ \A b \in Actor : b # a => call'[b] = call[b]
    BY <1>0, <2>1, SetTask DEF NameFits
  <2>3. spc'[a] = "leave" /\ Others(a)
    BY <1>0, <2>1, <2>2 DEF Proceed, Others
  <2>4. NameFits(a)'
    BY <1>0, <2>2, <2>3 DEF NameFits, Adder
  <2>5. QED BY <2>1, <2>3, <2>4, NamedStays
<1>14. CASE ScanBody(a)
  <2> DEFINE c == call[a]
             f == IF c.for = "killAll" THEN "kill" ELSE "remove"
  <2>0. UNCHANGED slots /\ c.fn = "scan" /\ c.for # "add" /\ c.at \in Slot
    BY <1>0, <1>14 DEF ScanBody, NameFits, CallFits
  <2>1. CASE Done(a)
    BY <2>0, <2>1, <1>a
  <2>2. CASE /\ call' = [call EXCEPT ![a].name = slots[c.at].name, ![a].fn = f]
             /\ Proceed(a, "enter")
    <3>1. slots[c.at].name \in Name \cup {NoName} /\ f \in {"kill", "remove"}
      BY <1>0, <2>0
    <3>2. QED BY <1>0, <2>0, <2>2, <3>1, SetNameFn, <1>b DEF RegStep
  <2>3. QED BY <1>14, <2>1, <2>2 DEF ScanBody
<1>15. QED
    BY <1>2, <1>3, <1>4, <1>5, <1>6, <1>7, <1>8, <1>9, <1>10, <1>11, <1>12, <1>13, <1>14 DEF RegistryStep

LEMMA SchedulerNextNamed == OneAdder /\ Charge /\ Charge' /\ Named /\ [SchedulerNext]_allVars => Named'
<1> SUFFICES ASSUME OneAdder, Charge, Charge', Named, [SchedulerNext]_allVars PROVE Named'
    OBVIOUS
<1>0. /\ SchedulerTyped /\ spc \in [Actor -> RegStep] /\ call \in [Actor -> Call2_]
      /\ \A a \in Actor : NameFits(a)
    BY DEF Charge, SchedulerTyped, SchedulerTypeOK, Call2_, Named
<1>1. ASSUME NEW a \in Actor, NEW f \in Fns, NEW n \in Name, Begin(a, f, n), f = "add" => Adder(a) PROVE Named'
  <2>0. spc' = [spc EXCEPT ![a] = "enter"] /\ \A b \in Actor : b # a => call'[b] = call[b]
    BY <1>0, <1>1, BeginTyped
  <2>1. Others(a) /\ UNCHANGED slots /\ spc'[a] = "enter"
    BY <1>0, <1>1, <2>0 DEF Begin, regVars, Others
  <2>2. NameFits(a)'
    BY <1>0, <1>1, <2>1, BeginTyped DEF NameFits, Adder
  <2>3. QED BY <2>1, <2>2, NamedStays
<1>2. CASE \E a \in Sketch : SketchBegin(a)
    BY <1>1, <1>2 DEF SketchBegin, Adder
<1>3. CASE \E t \in Task : ScriptBegin(t)
    BY <1>1, <1>3 DEF ScriptBegin, OneAdder
<1>4. CASE \/ \E a \in Sketch : ExecuteReturn(a)
           \/ \E t \in Task : ScriptStep(t)
           \/ UNCHANGED allVars
  <2>1. UNCHANGED <<slots, spc, call>>
    BY <1>4 DEF ExecuteReturn, ScriptStep, allVars, regVars
  <2>2. QED BY <2>1 DEF Named, NameFits, UniqueNames, Matches, Adder
<1>5. ASSUME NEW a \in Actor, EnterRegistry(a) PROVE Named'
  <2>1. spc[a] = "enter" /\ spc' = [spc EXCEPT ![a] = "body"] /\ UNCHANGED <<slots, call>>
    BY <1>5 DEF EnterRegistry, RegAt, Proceed
  <2>2. Others(a) /\ spc'[a] = "body" /\ NameFits(a)
    BY <1>0, <2>1 DEF Others
  <2>3. NameFits(a)'
    BY <2>1, <2>2 DEF NameFits, Adder, Matches
  <2>4. QED BY <2>1, <2>2, <2>3, NamedStays
<1>6. ASSUME NEW a \in Actor, ExecStep(a) PROVE Named'
  <2>1. UNCHANGED slots
    BY <1>6 DEF ExecStep, regVars
  <2>2. ASSUME NEW b \in Actor PROVE NameFits(b)'
    <3>1. CASE spc'[b] = spc[b] /\ call'[b] = call[b]
      BY <1>0, <2>1, <3>1 DEF NameFits, Adder, Matches
    <3>2. CASE spc'[b] = "idle" /\ call'[b] = NoFn
      BY <3>2 DEF NameFits, NoFn
    <3>3. QED BY <1>0, <1>6, <3>1, <3>2, ExecStepForgets
  <2>3. QED BY <2>1, <2>2 DEF Named, UniqueNames
<1>7. QED
    BY <1>2, <1>3, <1>4, <1>5, <1>6, RegistryStepNamed DEF SchedulerNext

\* When one task of the sketch adds the scripts, and these add none, the
\* registry never has two scripts of one name: find() is not ambiguous.
THEOREM OneAdderNamesApart == OneAdder => (SchedulerSpec => []UniqueNames)
<1> SUFFICES ASSUME OneAdder PROVE SchedulerSpec => []UniqueNames
    OBVIOUS
<1>1. Charge /\ Named /\ [SchedulerNext]_allVars => (Charge /\ Named)'
    BY SchedulerNextCharge, SchedulerNextNamed
<1>2. Named => UniqueNames
    BY DEF Named
<1>3. QED BY <1>1, <1>2, InitCharge, InitNamed, PTL DEF SchedulerSpec

-------------------------------------------------------------------------------
(* What is deleted: remove() deletes an executable that no task runs and no  *)
(* call is on. A script that kills itself lets go of the mutex before it is  *)
(* deleted, between its kill()'s two steps: with NoSelfKill there is none.   *)

LEMMA InitSafe == SchedulerInit => Safe
<1> SUFFICES ASSUME SchedulerInit PROVE Safe
    OBVIOUS
<1>1. \A a \in Actor : OnAlive(a) /\ Deleting(a) /\ Reading(a)
    BY DEF SchedulerInit, Init, OnAlive, Deleting, Reading, Removes, Cleared
<1>2. \A t \in Task : NotOnItself(t) /\ ~Live(t)
    BY DEF SchedulerInit, Init, NotOnItself, NoFn, Live
<1>3. QED BY <1>1, <1>2 DEF Safe, SafeCall

\* A step of a's call of the registry that deletes no executable another
\* call is on, nor one a task runs.
LEMMA SafeStays ==
    ASSUME Charge, Safe, NEW a \in Actor, Others(a), UNCHANGED taskVars,
           \A b \in Actor : b # a => pc'[b] = pc[b] /\ op'[b] = op[b],
           \A e \in Exec : object[e] = "alive" => object'[e] = "alive",
           SafeCall(a)'
    PROVE  Safe'
<1>1. \A t : Live(t)' <=> Live(t)
    BY DEF Live, taskVars
<1>2. \A t \in Task : Live(t)' => object'[self'[t]] = "alive"
    BY <1>1 DEF Safe, taskVars, Charge, SchedulerTyped, Typed, Wired, SelfWired
<1>3. ASSUME NEW b \in Actor, b # a PROVE SafeCall(b)'
  <2>1. /\ pc'[b] = pc[b] /\ op'[b] = op[b] /\ spc'[b] = spc[b] /\ call'[b] = call[b] /\ SafeCall(b)
    BY <1>3 DEF Others, Safe
  <2>2. OnAlive(b)'
    BY <1>1, <2>1 DEF SafeCall, OnAlive, Charge, SchedulerTyped, Typed, Wired, CallWired
  <2>3. \A e : Unused(e) => Unused(e)'
    BY <1>1 DEF Unused, taskVars
  <2>4. Deleting(b)'
    BY <2>1, <2>3 DEF SafeCall, Deleting, Removes, Cleared
  <2>5. Reading(b)' /\ (b \in Task => NotOnItself(b)')
    BY <1>1, <2>1 DEF SafeCall, Reading, NotOnItself, Holds
  <2>6. QED BY <2>2, <2>4, <2>5 DEF SafeCall
<1>4. QED BY <1>2, <1>3 DEF Safe

LEMMA RegistryStepSafe ==
    ASSUME Charge, Kept, Safe, NEW a \in Actor, RegistryStep(a)
    PROVE  Safe'
<1> USE DEF RegAt, Body
<1>0. /\ SchedulerTyped /\ Mutex /\ SafeCall(a) /\ CallFits(a)
      /\ spc \in [Actor -> RegStep] /\ call \in [Actor -> Call2_]
      /\ slots \in [Slot -> [used : BOOLEAN, name : Name \cup {NoName}, exec : Exec \cup {NoExec}]]
      /\ object \in [Exec -> {"none", "alive", "deleted"}]
      /\ pc[a] = "idle"
    BY DEF Charge, SchedulerTyped, SchedulerTypeOK, Call2_, Safe, At,
           RegistryStep, LeaveRegistry, AddBody, RunBody, StopBody, SelfLeave, StopSelf, RestartBody,
           RemoveBody, RemoveDelete, RemoveFreed, ExecuteBody, ExecuteLeave, InfoBody, InfoTask, ScanBody
<1>1. /\ OnAlive(a) /\ op[a] = NoCall
      /\ a \in Task => call[a].fn # "kill" /\ call[a].for # "killAll"
    BY <1>0 DEF SafeCall, OnAlive, NotOnItself
<1>2. \A n : Found(n) # NoExec => Found(n) \in Exec /\ object[Found(n)] = "alive"
    BY <1>0, FoundTyped DEF Kept
\* A step outside any executable.
<1>m. ASSUME UNCHANGED vars, Others(a), \A e \in Exec : object[e] = "alive" => object'[e] = "alive",
             spc'[a] \notin {"delete", "inFree", "useTask"},
             a \in Task => call'[a].fn # "kill" /\ call'[a].for # "killAll"
      PROVE  Safe'
  <2>1. pc'[a] = "idle" /\ op'[a] = NoCall
    BY <1>0, <1>1, <1>m DEF vars, callVars
  <2>2. SafeCall(a)'
    BY <1>m, <2>1 DEF SafeCall, OnAlive, Deleting, Removes, Cleared, Reading, NotOnItself
  <2>3. QED BY <1>m, <2>2, SafeStays DEF vars, callVars
<1>n. ASSUME UNCHANGED <<vars, object>>, NEW k \in RegStep \ {"delete", "inFree", "useTask"}, Proceed(a, k),
             a \in Task => call'[a].fn # "kill" /\ call'[a].for # "killAll",
             \A b \in Actor : b # a => call'[b] = call[b]
      PROVE  Safe'
  <2>1. spc'[a] = k /\ Others(a)
    BY <1>0, <1>n DEF Proceed, Others
  <2>2. QED BY <1>m, <1>n, <2>1
<1>d. ASSUME UNCHANGED object, Done(a)
      PROVE  /\ Others(a) /\ spc'[a] \in {"idle", "enter"}
             /\ a \in Task => call'[a].fn # "kill" /\ call'[a].for # "killAll"
             /\ UNCHANGED vars => Safe'
  <2>1. /\ Others(a) /\ spc'[a] \in {"idle", "enter"}
        /\ a \in Task => call'[a].fn # "kill" /\ call'[a].for # "killAll"
    BY <1>0, <1>1, <1>d, DoneTyped DEF Others
  <2>2. QED BY <1>m, <1>d, <2>1
\* A call into an executable.
<1>k. ASSUME UNCHANGED object, NEW e \in Exec, object[e] = "alive", NEW o \in Ops, Call(a, e, o), Others(a),
             spc'[a] # "useTask",
             Removes(a)' => /\ call'[a].exec = e
                            /\ spc'[a] = "delete" \/ Unused(e)
                            /\ o = IF spc'[a] = "delete" THEN "kill" ELSE "free",
             a \in Task => call'[a].fn # "kill" /\ call'[a].for # "killAll",
             a \in Task => Holds(a)' \/ o = "pause"
      PROVE  Safe'
  <2>1. /\ pc'[a] = FirstStep[o] /\ op'[a].exec = e /\ op'[a].then = AfterKill[o] /\ UNCHANGED <<objVars, taskVars>>
        /\ \A b \in Actor : b # a => pc'[b] = pc[b] /\ op'[b] = op[b]
    BY <1>0, <1>k DEF Call, SchedulerTyped, Typed, TypeOK
  <2>2. pc'[a] \in {"kill", "pause", "restart"} /\ (o = "pause" => pc'[a] = "pause")
        /\ (o \in {"kill", "free"} => pc'[a] = "kill")
        /\ (o = "kill" => op'[a].then = "idle") /\ (o = "free" => op'[a].then = "freeExec")
    BY <2>1 DEF FirstStep, AfterKill, Ops
  <2>3. OnAlive(a)' /\ Reading(a)'
    BY <1>k, <2>1, <2>2 DEF OnAlive, Reading
  <2>4. a \in Task => NotOnItself(a)'
    BY <1>k, <2>2 DEF NotOnItself
  <2>5. Unused(e) => Unused(e)'
    BY <2>1 DEF Unused, Live, taskVars
  <2>6. Deleting(a)'
    BY <1>k, <2>1, <2>2, <2>5 DEF Deleting, Removes, Cleared
  <2>7. QED BY <1>k, <2>1, <2>3, <2>4, <2>6, SafeStays DEF SafeCall
<1>l. ASSUME UNCHANGED <<object, call>>, NEW e \in Exec, object[e] = "alive", NEW o \in Ops, Into(a, e, o, "leave")
      PROVE  Safe'
  <2>1. Call(a, e, o) /\ Others(a) /\ spc'[a] = "leave"
    BY <1>0, <1>l DEF Into, Proceed, Others
  <2>2. QED BY <1>1, <1>k, <1>l, <2>1 DEF Removes, Holds, HeldSteps
<1>3. CASE LeaveRegistry(a)
    BY <1>3, <1>d DEF LeaveRegistry
<1>4. CASE AddBody(a)
  <2>1. UNCHANGED <<vars, call>> /\ Proceed(a, "leave")
    BY <1>4 DEF AddBody
  <2>2. \A e \in Exec : object[e] = "alive" => object'[e] = "alive"
    BY <1>0, <1>4 DEF AddBody
  <2>3. spc'[a] = "leave" /\ Others(a)
    BY <1>0, <2>1 DEF Proceed, Others
  <2>4. QED BY <1>1, <1>m, <2>1, <2>2, <2>3
<1>5. CASE RunBody(a)
  <2>1. CASE Refuse(a)
    BY <1>1, <1>5, <2>1, <1>n DEF RunBody, Refuse, regVars, RegStep
  <2>2. CASE ~Refuse(a)
    BY <1>2, <1>5, <2>2, <1>l DEF RunBody, regVars, Ops
  <2>3. QED BY <2>1, <2>2
<1>6. ASSUME NEW f \in {"pause", "kill"}, StopBody(a, f) PROVE Safe'
  <2> DEFINE e == Found(call[a].name)
  <2>1. CASE Refuse(a)
    BY <1>1, <1>6, <2>1, <1>n DEF StopBody, Refuse, regVars, RegStep
  <2>2. CASE e # NoExec /\ call' = [call EXCEPT ![a].exec = e] /\ Proceed(a, "selfLeave") /\ UNCHANGED vars
    <3>1. UNCHANGED object
      BY <1>6 DEF StopBody, regVars
    <3>2. QED BY <1>0, <1>1, <1>2, <2>2, <3>1, SetExec, <1>n DEF RegStep
  <2>3. CASE e # NoExec /\ Into(a, e, f, "leave") /\ UNCHANGED call
    BY <1>2, <1>6, <2>3, <1>l DEF StopBody, regVars, Ops
  <2>4. QED BY <1>6, <2>1, <2>2, <2>3 DEF StopBody
<1>7. CASE SelfLeave(a)
    BY <1>1, <1>7, <1>n DEF SelfLeave, RegStep
<1>8. CASE StopSelf(a)
  <2>1. a \in Task /\ call[a].exec = self[a] /\ self[a] \in Exec /\ Live(a) /\ call[a].fn = "pause"
    BY <1>0, <1>1, <1>8 DEF StopSelf, Mutex, CallFits
  <2>2. object[call[a].exec] = "alive" /\ UNCHANGED object /\ "pause" \in Ops
    BY <1>8, <2>1 DEF Safe, StopSelf, regVars, Ops
  <2>3. Others(a) /\ spc'[a] \in {"idle", "enter"} /\ (a \in Task => call'[a].fn # "kill" /\ call'[a].for # "killAll")
    BY <1>d, <1>8, <2>2 DEF StopSelf
  <2>4. Call(a, call[a].exec, "pause")
    BY <1>8, <2>1 DEF StopSelf
  <2>5. QED BY <1>k, <2>1, <2>2, <2>3, <2>4 DEF Removes
<1>9. CASE RestartBody(a)
  <2>1. CASE Refuse(a)
    BY <1>1, <1>9, <2>1, <1>n DEF RestartBody, Refuse, regVars, RegStep
  <2>2. CASE ~Refuse(a)
    BY <1>2, <1>9, <2>2, <1>l DEF RestartBody, regVars, Ops
  <2>3. QED BY <2>1, <2>2
<1>10. CASE RemoveBody(a)
  <2> DEFINE e == Found(call[a].name)
  <2>0. UNCHANGED object
    BY <1>10 DEF RemoveBody
  <2>1. CASE Refuse(a)
    BY <1>1, <2>0, <2>1, <1>n DEF Refuse, RegStep
  <2>2. CASE e # NoExec /\ call' = [call EXCEPT ![a].exec = e] /\ Into(a, e, "kill", "delete")
    <3>1. /\ e \in Exec /\ object[e] = "alive"
          /\ call'[a].exec = e /\ call'[a].fn = call[a].fn /\ call'[a].for = call[a].for
          /\ \A b \in Actor : b # a => call'[b] = call[b]
      BY <1>0, <1>2, <2>2, SetExec
    <3>2. Call(a, e, "kill") /\ spc'[a] = "delete" /\ Others(a)
      BY <1>0, <2>2, <3>1 DEF Into, Proceed, Others
    <3>3. QED BY <1>1, <2>0, <3>1, <3>2, <1>k DEF Ops, Holds, HeldSteps
  <2>3. QED BY <1>10, <2>1, <2>2 DEF RemoveBody
<1>11. CASE RemoveDelete(a)
  <2> DEFINE e == call[a].exec
  <2>1. /\ spc[a] = "delete" /\ Into(a, e, "free", "inFree") /\ UNCHANGED <<object, call>>
    BY <1>11 DEF RemoveDelete, regVars
  <2>2. e \in Exec /\ object[e] = "alive" /\ Unused(e)
    BY <1>0, <2>1 DEF CallFits, Kept, SafeCall, Deleting, Cleared
  <2>3. Call(a, e, "free") /\ spc'[a] = "inFree" /\ Others(a)
    BY <1>0, <2>1 DEF Into, Proceed, Others
  <2>4. QED BY <1>1, <2>1, <2>2, <2>3, <1>k DEF Ops, Holds, HeldSteps
\* The executable goes: no task runs it, and the others' calls are on their own.
<1>12. CASE RemoveFreed(a)
  <2> DEFINE e == call[a].exec
  <2>1. /\ spc[a] = "inFree" /\ UNCHANGED <<vars, call>> /\ spc' = [spc EXCEPT ![a] = "leave"]
        /\ object' = [object EXCEPT ![e] = "deleted"]
    BY <1>12 DEF RemoveFreed, Proceed
  <2>2. e \in Exec /\ Unused(e) /\ \A x \in Exec : x # e => object'[x] = object[x]
    BY <1>0, <2>1 DEF CallFits, SafeCall, Deleting, Cleared
  <2>3. \A t : (Live(t)' <=> Live(t)) /\ self'[t] = self[t]
    BY <2>1 DEF Live, vars, taskVars
  <2>4. \A t \in Task : Live(t)' => object'[self'[t]] = "alive"
    BY <2>2, <2>3 DEF Safe, Unused, Charge, SchedulerTyped, Typed, Wired, SelfWired
  <2>5. ASSUME NEW b \in Actor PROVE SafeCall(b)'
    <3>0. pc'[b] = pc[b] /\ op'[b] = op[b] /\ call'[b] = call[b] /\ SafeCall(b)
      BY <2>1 DEF vars, callVars, Safe
    <3>1. spc'[b] \notin {"delete", "inFree", "useTask"}
      BY <1>0, <2>1 DEF Mutex, Holds, HeldSteps
    <3>2. Deleting(b)' /\ Reading(b)' /\ (b \in Task => NotOnItself(b)')
      <4>1. b # a => spc'[b] = spc[b]
        BY <1>0, <2>1
      <4>2. QED BY <1>0, <3>0, <3>1, <4>1 DEF Deleting, Reading, Removes, Cleared, SafeCall, NotOnItself, Holds, HeldSteps
    <3>3. pc[b] # "idle" => op[b].exec \in Exec /\ op[b].exec # e
      <4>1. SUFFICES ASSUME pc[b] # "idle" PROVE op[b].exec \in Exec /\ op[b].exec # e
        OBVIOUS
      <4>2. b # a /\ ~Holds(b)
        BY <1>0, <2>1, <4>1 DEF Mutex, Holds, HeldSteps
      <4>3. b \in Task /\ Live(b) /\ op[b].exec = self[b]
        BY <4>1, <4>2 DEF Charge, CallMade, Own
      <4>4. QED BY <2>2, <4>1, <4>3 DEF Unused, Charge, SchedulerTyped, Typed, Wired, CallWired
    <3>4. OnAlive(b)'
      BY <2>2, <2>3, <3>0, <3>3 DEF OnAlive, SafeCall
    <3>5. QED BY <3>2, <3>4 DEF SafeCall
  <2>6. QED BY <2>4, <2>5 DEF Safe
<1>13. CASE ExecuteBody(a)
  <2>1. UNCHANGED <<vars, object>> /\ Proceed(a, "execLeave") /\ call' = [call EXCEPT ![a].exec = Found(call[a].name)]
    BY <1>13 DEF ExecuteBody, regVars
  <2>2. Found(call[a].name) \in Exec \cup {NoExec}
    BY <1>0, FoundTyped
  <2>3. QED BY <1>0, <1>1, <2>1, <2>2, SetExec, <1>n DEF RegStep
<1>14. CASE ExecuteLeave(a)
    BY <1>14, <1>d DEF ExecuteLeave
<1>15. CASE InfoBody(a)
  <2> DEFINE e == Found(call[a].name)
  <2>0. UNCHANGED <<vars, object>> /\ call[a].fn = "info"
    BY <1>15 DEF InfoBody, regVars
  <2>1. CASE Proceed(a, "leave") /\ UNCHANGED call
    BY <1>1, <2>0, <2>1, <1>n DEF RegStep
  <2>2. CASE /\ e # NoExec /\ handle[e] # NoTask
             /\ call' = [call EXCEPT ![a].task = handle[e]] /\ Proceed(a, "useTask")
    <3>1. e \in Exec /\ handle[e] \in Task /\ Live(handle[e])
      BY <1>0, <1>2, <2>2 DEF SchedulerTyped, Typed, TypeOK, Charge, Handled
    <3>2. /\ call'[a].task = handle[e] /\ call'[a].fn = call[a].fn /\ call'[a].for = call[a].for
          /\ \A b \in Actor : b # a => call'[b] = call[b]
      BY <1>0, <2>2, <3>1, SetTask
    <3>3. spc'[a] = "useTask" /\ Others(a)
      BY <1>0, <2>2, <3>2 DEF Proceed, Others
    <3>4. pc'[a] = "idle" /\ op'[a] = NoCall
      BY <1>0, <1>1, <2>0 DEF vars, callVars
    <3>5. Reading(a)'
      BY <2>0, <3>1, <3>2, <3>4 DEF Reading, Live, vars, taskVars
    <3>6. SafeCall(a)'
      BY <1>1, <3>2, <3>3, <3>4, <3>5 DEF SafeCall, OnAlive, Deleting, Removes, Cleared, NotOnItself
    <3>7. QED BY <2>0, <3>3, <3>6, SafeStays DEF vars, callVars
  <2>3. QED BY <1>15, <2>1, <2>2 DEF InfoBody
<1>16. CASE InfoTask(a)
  <2>1. UNCHANGED <<vars, object>> /\ Proceed(a, "leave") /\ call' = [call EXCEPT ![a].task = NoTask]
    BY <1>16 DEF InfoTask, regVars
  <2>2. QED BY <1>0, <1>1, <2>1, SetTask, <1>n DEF RegStep
<1>17. CASE ScanBody(a)
  <2> DEFINE c == call[a]
             f == IF c.for = "killAll" THEN "kill" ELSE "remove"
  <2>0. UNCHANGED <<vars, object>> /\ c.at \in Slot
    BY <1>0, <1>17 DEF ScanBody, CallFits
  <2>1. CASE Done(a)
    BY <2>0, <2>1, <1>d
  <2>2. CASE /\ call' = [call EXCEPT ![a].name = slots[c.at].name, ![a].fn = f]
             /\ Proceed(a, "enter")
    <3>1. slots[c.at].name \in Name \cup {NoName} /\ f \in {"kill", "remove"}
      BY <1>0, <2>0
    <3>2. a \in Task => f # "kill"
      BY <1>1
    <3>3. QED BY <1>0, <1>1, <2>0, <2>2, <3>1, <3>2, SetNameFn, <1>n DEF RegStep
  <2>3. QED BY <1>17, <2>1, <2>2 DEF ScanBody
<1>18. QED
    BY <1>3, <1>4, <1>5, <1>6, <1>7, <1>8, <1>9, <1>10, <1>11, <1>12, <1>13, <1>14, <1>15, <1>16, <1>17
    DEF RegistryStep

\* Once the handle of e is empty, the task that is left of its runs is the one
\* the holder of the mutex is deleting.
LEMMA NoTaskLeft ==
    ASSUME Charge, Safe, NEW a \in Actor, Holds(a), NEW e \in Exec, handle[e] = NoTask,
           NEW t \in Task, Live(t), self[t] = e
    PROVE  Kills(a, t)
<1>1. PICK b \in Actor : Kills(b, t)
    BY DEF Charge, Owned
<1>2. CASE Holds(b)
    BY <1>1, <1>2 DEF Charge, Mutex
<1>3. CASE ~Holds(b)
  <2>1. pc[b] # "idle" /\ pc[b] \in KillSteps
    BY <1>1 DEF Kills, KillSteps
  <2>2. b \in Task
    BY <1>3, <2>1 DEF Charge, CallMade, Own
  <2>3. QED BY <1>3, <2>1, <2>2 DEF Safe, SafeCall, NotOnItself, KillSteps
<1>4. QED BY <1>2, <1>3

\* A step of a's call into an executable, seen by the other calls.
LEMMA OthersSafe ==
    ASSUME Charge, Charge', Safe, NEW a \in Actor, ExecStep(a), NEW b \in Actor, b # a,
           \/ pc'[b] = pc[b] /\ op'[b] = op[b]
           \/ pc'[b] = "idle" /\ op'[b] = NoCall /\ ~Holds(b),
           Holds(b) => \A t \in Task : Live(t)' <=> Live(t),
           ~Holds(b) => Live(b)' \/ pc'[b] = "idle",
           UNCHANGED self \/ ~Holds(b)
    PROVE  SafeCall(b)'
<1>0. UNCHANGED object /\ SafeCall(b) /\ SchedulerTyped
    BY DEF ExecStep, regVars, Safe, Charge
<1>1. CASE Holds(b)
  <2>1. spc'[b] = spc[b] /\ call'[b] = call[b] /\ pc'[b] = pc[b] /\ op'[b] = op[b] /\ UNCHANGED self
    BY <1>1, HolderGoesOn
  <2>2. \A t \in Task : Live(t) => Live(t)'
    BY <1>1
  <2>3. OnAlive(b)'
    BY <1>0, <2>1, <2>2 DEF OnAlive, SafeCall, SchedulerTyped, Typed, Wired, CallWired, OnTask
  <2>4. Deleting(b)'
    <3>1. Unused(call[b].exec) => Unused(call[b].exec)'
      BY <1>1, <2>1 DEF Unused
    <3>2. QED BY <1>0, <2>1, <3>1 DEF Deleting, Removes, Cleared, SafeCall
  <2>5. Reading(b)'
    BY <1>0, <2>1, <2>2 DEF Reading, SafeCall, SchedulerTyped, CallFits
  <2>6. b \in Task => NotOnItself(b)'
    BY <1>0, <2>1 DEF NotOnItself, SafeCall, Holds
  <2>7. QED BY <2>3, <2>4, <2>5, <2>6 DEF SafeCall
<1>2. CASE ~Holds(b)
  <2>1. ~Holds(b)'
    BY <1>2, HolderGoesOn
  <2>2. Deleting(b)' /\ Reading(b)'
    BY <2>1 DEF Deleting, Reading, Removes, Cleared, Holds, HeldSteps
  <2>3. OnAlive(b)'
    <3>1. pc'[b] # "idle" => b \in Task /\ Live(b)' /\ (pc[b] \in OnTask => op[b].task = b)
      BY <1>2 DEF Charge, CallMade, Own
    <3>2. pc'[b] # "idle" => pc[b] # "restartResume"
      BY <1>2 DEF Charge, CallMade, Own, OwnSteps
    <3>3. QED BY <1>0, <3>1, <3>2 DEF OnAlive, SafeCall, OnTask
  <2>4. b \in Task => NotOnItself(b)'
    <3>1. b \in Task => call'[b].fn # "kill" /\ call'[b].for # "killAll"
      BY <1>0, ExecStepForgets DEF SafeCall, NotOnItself, NoFn
    <3>2. QED BY <1>0, <1>2, <3>1 DEF SafeCall, NotOnItself
  <2>5. QED BY <2>2, <2>3, <2>4 DEF SafeCall
<1>3. QED BY <1>1, <1>2

\* And by a itself.
LEMMA MineSafe ==
    ASSUME Charge, Charge', Safe, NEW a \in Actor, ExecStep(a), pc[a] # "idle",
           pc'[a] = "idle" => op'[a] = NoCall,
           pc'[a] # "idle" => op'[a].exec = op[a].exec,
           pc'[a] \in {"pauseSuspend", "restartResume"} => Live(op[a].task)',
           ~Holds(a) => pc'[a] \in {"idle", "pause", "pauseSuspend"},
           Removes(a) => Deleting(a)'
    PROVE  SafeCall(a)'
<1>0. UNCHANGED object /\ SafeCall(a) /\ SchedulerTyped
    BY DEF ExecStep, regVars, Safe, Charge
<1>1. OnAlive(a)'
    BY <1>0 DEF OnAlive, SafeCall, Live
<1>2. spc[a] # "useTask"
    BY <1>0 DEF SafeCall, Reading
<1>3. Reading(a)' /\ (~Removes(a) => Deleting(a)')
    BY <1>2, HolderGoesOn DEF Reading, Deleting, Removes, Cleared, Holds, HeldSteps
<1>4. a \in Task => NotOnItself(a)'
  <2>1. a \in Task => call'[a].fn # "kill" /\ call'[a].for # "killAll"
    BY <1>0, ExecStepForgets DEF SafeCall, NotOnItself, NoFn, Charge
  <2>2. Holds(a) => Holds(a)'
    BY HolderGoesOn DEF Holds
  <2>3. QED BY <2>1, <2>2 DEF NotOnItself
<1>5. QED BY <1>1, <1>3, <1>4 DEF SafeCall

\* A step that neither creates nor deletes a task.
LEMMA QuietSafe ==
    ASSUME Charge, Charge', Safe, NEW a \in Actor, ExecStep(a), pc[a] # "idle",
           UNCHANGED self, \A t \in Task : Live(t)' <=> Live(t),
           \A b \in Actor : b # a => pc'[b] = pc[b] /\ op'[b] = op[b],
           SafeCall(a)'
    PROVE  Safe'
<1>1. \A t \in Task : Live(t)' => object'[self'[t]] = "alive"
    BY DEF Safe, ExecStep, regVars
<1>2. ASSUME NEW b \in Actor, b # a PROVE SafeCall(b)'
  <2>1. ~Holds(b) => Live(b)' \/ pc'[b] = "idle"
    BY <1>2 DEF Charge, CallMade, Own
  <2>2. QED BY <1>2, <2>1, OthersSafe
<1>3. QED BY <1>1, <1>2 DEF Safe

LEMMA CallOver ==
    ASSUME Typed, NEW a \in Actor, GoTo(a, "idle")
    PROVE  op'[a] = NoCall
BY DEF GoTo, Typed, TypeOK

LEMMA ExecStepSafe ==
    ASSUME Charge, Charge', Safe, NEW a \in Actor, ExecStep(a)
    PROVE  Safe'
<1> USE DEF At
<1>0. /\ CallStep(a) /\ Typed /\ SafeCall(a) /\ UNCHANGED object
      /\ pc \in [Actor -> Step] /\ handle \in [Exec -> Task \cup {NoTask}]
      /\ pc[a] # "idle" => op[a].exec \in Exec /\ object[op[a].exec] = "alive"
      /\ pc[a] \in OnTask => op[a].task \in Task /\ rtos[op[a].task] # "none"
      /\ op[a].then \in Step
      /\ ~Holds(a) => pc[a] \in {"idle", "pause", "pauseSuspend"}
    BY DEF ExecStep, regVars, Charge, SchedulerTyped, Typed, Wired, CallWired, TypeOK, Then, Step, CallMade, Own,
           Safe, SafeCall, OnAlive, NotOnItself
<1>1. Removes(a) => /\ pc[a] # "idle" => /\ op[a].exec = call[a].exec
                                         /\ pc[a] \in {"kill", "killUnwind", "killDelete", "freeExec"}
                                         /\ op[a].then \in {"idle", "freeExec"}
                                         /\ spc[a] = "delete" => op[a].then = "idle" /\ pc[a] # "freeExec"
                    /\ Cleared(a) => Unused(call[a].exec)
                    /\ Holds(a)
    BY <1>0 DEF SafeCall, Deleting, Holds, HeldSteps, Removes
<1>2. Removes(a) => spc'[a] = spc[a] /\ call'[a] = call[a]
    BY HolderGoesOn DEF Holds, HeldSteps, Removes
\* The call goes on at k, or is over; no task comes or goes.
<1>a. ASSUME pc[a] # "idle", NEW k \in Step, GoTo(a, k), UNCHANGED self, \A t \in Task : Live(t)' <=> Live(t),
             k \notin {"pauseSuspend", "restartResume"},
             ~Holds(a) => k = "idle",
             Removes(a) => /\ pc[a] # "killUnwind"
                           /\ k \in {"idle", "freeExec"}
                           /\ spc[a] = "delete" => k = "idle" /\ Unused(call[a].exec)
      PROVE  Safe'
  <2>1. /\ pc'[a] = k /\ op'[a] = IF k = "idle" THEN NoCall ELSE op[a]
        /\ \A b \in Actor : b # a => pc'[b] = pc[b] /\ op'[b] = op[b]
    BY <1>0, <1>a, GoToTyped, CallOver
  <2>2. Unused(call[a].exec) /\ Removes(a) => Unused(call[a].exec)'
    BY <1>2, <1>a DEF Unused
  <2>3. Removes(a) => Deleting(a)'
    BY <1>1, <1>2, <1>a, <2>1, <2>2 DEF Deleting, Cleared, Removes
  <2>4. SafeCall(a)'
    BY <1>0, <1>a, <2>1, <2>3, MineSafe
  <2>5. QED BY <1>a, <2>1, <2>4, QuietSafe
\* The call goes on at k; no task comes or goes.
<1>b. ASSUME pc[a] # "idle", pc'[a] # "idle", op'[a].exec = op[a].exec, op'[a].then = op[a].then,
             \A b \in Actor : b # a => pc'[b] = pc[b] /\ op'[b] = op[b],
             UNCHANGED self, \A t \in Task : Live(t)' <=> Live(t),
             pc'[a] \in {"pauseSuspend", "restartResume"} => op'[a].task \in Task /\ Live(op[a].task)',
             ~Holds(a) => pc'[a] = "pauseSuspend",
             Removes(a) => pc'[a] \in {"killUnwind", "killDelete"}
      PROVE  Safe'
  <2>1. Removes(a) => Deleting(a)'
    <3>1. Unused(call[a].exec) /\ Removes(a) => Unused(call[a].exec)'
      BY <1>2, <1>b DEF Unused
    <3>2. QED BY <1>1, <1>2, <1>b, <3>1 DEF Deleting, Cleared, Removes
  <2>2. SafeCall(a)'
    BY <1>b, <2>1, MineSafe
  <2>3. QED BY <1>b, <2>2, QuietSafe
<1>3. CASE KillLock(a) /\ handle[op[a].exec] = NoTask
  <2>1. pc[a] = "kill" /\ GoTo(a, op[a].then) /\ UNCHANGED taskVars /\ Holds(a)
    BY <1>0, <1>3 DEF KillLock
  <2>2. op[a].then \in {"idle", "saveState", "freeExec"}
    BY <1>0 DEF Typed, TypeOK, Then
  <2>3. Unused(op[a].exec)
    <3>1. SUFFICES ASSUME NEW t \in Task, Live(t), self[t] = op[a].exec PROVE FALSE
      BY DEF Unused
    <3>2. Kills(a, t)
      BY <1>0, <1>3, <2>1, <3>1, NoTaskLeft
    <3>3. QED BY <2>1, <3>2 DEF Kills, KillSteps
  <2>4. \A t \in Task : Live(t)' <=> Live(t)
    BY <2>1 DEF Live, taskVars
  <2>5. QED BY <1>0, <1>1, <2>1, <2>2, <2>3, <2>4, <1>a DEF taskVars
<1>4. CASE KillLock(a) /\ handle[op[a].exec] # NoTask
  <2> DEFINE t == handle[op[a].exec]
  <2>1. pc[a] = "kill" /\ UNCHANGED taskVars /\ Holds(a) /\ t \in Task
    BY <1>0, <1>4 DEF KillLock
  <2>2. pc' = [pc EXCEPT ![a] = "killUnwind"] /\ op' = [op EXCEPT ![a].task = t]
    BY <1>4 DEF KillLock
  <2>3. /\ pc'[a] = "killUnwind" /\ op'[a].exec = op[a].exec /\ op'[a].then = op[a].then
        /\ \A b \in Actor : b # a => pc'[b] = pc[b] /\ op'[b] = op[b]
    BY <1>0, <2>1, <2>2, OpTaskTyped DEF Typed, TypeOK
  <2>4. \A x \in Task : Live(x)' <=> Live(x)
    BY <2>1 DEF Live, taskVars
  <2>5. QED BY <2>1, <2>3, <2>4, <1>b DEF taskVars
<1>5. CASE KillUnwind(a)
  <2>1. /\ pc[a] = "killUnwind" /\ pc'[a] = "killDelete" /\ UNCHANGED <<taskVars, op>> /\ Holds(a)
        /\ \A b \in Actor : b # a => pc'[b] = pc[b]
    BY <1>0, <1>5 DEF KillUnwind
  <2>2. \A x \in Task : Live(x)' <=> Live(x)
    BY <2>1 DEF Live, taskVars
  <2>3. QED BY <2>1, <2>2, <1>b DEF taskVars
<1>6. CASE KillDelete(a)
  <2>a. PICK t \in Task, e \in Exec : t = op[a].task /\ e = op[a].exec
    BY <1>0, <1>6 DEF KillDelete, OnTask
  <2>0. /\ pc[a] = "killDelete" /\ Holds(a) /\ t = op[a].task /\ e = op[a].exec
        /\ handle[e] = NoTask /\ t # a
    BY <1>0, <1>6, <2>a DEF KillDelete, OnTask, Charge, CallMade, Foreign, AfterLock
  <2>1. /\ ~Live(t)' /\ \A x \in Task : x # t => (Live(x)' <=> Live(x)) /\ self'[x] = self[x]
    BY <1>0, <1>6, <2>0 DEF KillDelete, Live, Typed, TypeOK
  <2>2. /\ pc'[t] = "idle" /\ op'[t] = NoCall /\ pc'[a] = op[a].then
        /\ \A b \in Actor : b # a /\ b # t => pc'[b] = pc[b] /\ op'[b] = op[b]
        /\ op'[a] = IF op[a].then = "idle" THEN NoCall ELSE [op[a] EXCEPT !.task = NoTask]
    BY <1>0, <1>6, <2>0 DEF KillDelete, Typed, TypeOK
  <2>3. op'[a].then = op[a].then \/ pc'[a] = "idle"
    BY <1>0, <2>0, <2>2 DEF Typed, TypeOK
  <2>4. pc'[a] # "idle" => op'[a].exec = op[a].exec
    BY <1>0, <2>0, <2>2 DEF Typed, TypeOK
  <2>5. op[a].then \in {"idle", "saveState", "freeExec"}
    BY <1>0 DEF Typed, TypeOK, Then
  <2>6. Unused(e) \/ \A x \in Task : Live(x) /\ self[x] = e => x = t
    <3>1. ASSUME NEW x \in Task, Live(x), self[x] = e PROVE x = t
      BY <2>0, <3>1, NoTaskLeft DEF Kills
    <3>2. QED BY <3>1
  <2>7. \A x \in Task : Live(x)' => self'[x] # e
    BY <2>1, <2>6 DEF Unused
  <2>8. Removes(a) => Deleting(a)'
    <3>1. Removes(a) => Unused(call[a].exec)'
      BY <1>1, <1>2, <2>0, <2>7 DEF Unused
    <3>2. QED BY <1>1, <1>2, <2>0, <2>2, <2>3, <2>4, <3>1 DEF Deleting, Removes, Cleared
  <2>9. SafeCall(a)'
    BY <2>0, <2>2, <2>4, <2>5, <2>8, MineSafe
  <2>10. ASSUME NEW b \in Actor, b # a PROVE SafeCall(b)'
    <3>1. ~Holds(b)
      BY <2>0, <2>10 DEF Charge, Mutex
    <3>2. pc[b] # "idle" => b \in Task /\ Live(b)
      BY <3>1 DEF Charge, CallMade, Own
    <3>3. Live(b)' \/ pc'[b] = "idle"
      BY <2>1, <2>2, <2>10, <3>2
    <3>4. QED BY <2>2, <2>10, <3>1, <3>3, OthersSafe
  <2>11. \A x \in Task : Live(x)' => object'[self'[x]] = "alive"
    BY <1>0, <2>1 DEF Safe
  <2>12. QED BY <2>9, <2>10, <2>11 DEF Safe
<1>7. CASE SaveState(a)
  <2>1. /\ pc[a] = "saveState" /\ pc'[a] = "markRunning" /\ UNCHANGED taskVars /\ Holds(a)
        /\ op'[a].exec = op[a].exec /\ op'[a].then = op[a].then
        /\ \A b \in Actor : b # a => pc'[b] = pc[b] /\ op'[b] = op[b]
    BY <1>0, <1>7 DEF SaveState, Typed, TypeOK
  <2>2. \A x \in Task : Live(x)' <=> Live(x)
    BY <2>1 DEF Live, taskVars
  <2>3. ~Removes(a)
    BY <1>1, <2>1
  <2>4. QED BY <2>1, <2>2, <2>3, <1>b DEF taskVars
<1>8. CASE MarkRunning(a) \/ CreateFails(a) \/ UndoState(a) \/ FreeExec(a)
  <2>1. /\ pc[a] \in {"markRunning", "create", "undo", "freeExec"} /\ UNCHANGED taskVars
        /\ \E k \in {"create", "undo", "idle"} : GoTo(a, k) /\ (pc[a] = "freeExec" => k = "idle")
    BY <1>8 DEF MarkRunning, CreateFails, UndoState, FreeExec
  <2>2. \A x \in Task : Live(x)' <=> Live(x)
    BY <2>1 DEF Live, taskVars
  <2>3. Holds(a) /\ (Removes(a) => pc[a] = "freeExec" /\ spc[a] # "delete")
    BY <1>0, <1>1, <2>1
  <2>4. QED BY <2>1, <2>2, <2>3, <1>a DEF taskVars, Step
<1>9. ASSUME NEW t \in Task, CreateTask(a, t) PROVE Safe'
  <2>a. PICK e \in Exec : e = op[a].exec
    BY <1>0, <1>9 DEF CreateTask
  <2>0. pc[a] = "create" /\ Holds(a) /\ ~Removes(a) /\ ~Live(t) /\ e = op[a].exec /\ object[e] = "alive"
    BY <1>0, <1>1, <1>9, <2>a DEF CreateTask, Live
  <2>1. /\ self'[t] = e
        /\ \A x \in Task : x # t => (Live(x)' <=> Live(x)) /\ self'[x] = self[x]
    BY <1>0, <1>9, <2>a DEF CreateTask, Live, Typed, TypeOK
  <2>2. /\ pc'[a] = "idle" /\ op'[a] = NoCall
        /\ \A b \in Actor : b # a => pc'[b] = pc[b] /\ op'[b] = op[b]
    BY <1>0, <1>9, GoToTyped, CallOver DEF CreateTask, Step
  <2>3. SafeCall(a)'
    BY <2>0, <2>2, MineSafe
  <2>4. ASSUME NEW b \in Actor, b # a PROVE SafeCall(b)'
    <3>1. ~Holds(b)
      BY <2>0, <2>4 DEF Charge, Mutex
    <3>2. pc[b] # "idle" => b \in Task /\ Live(b)
      BY <3>1 DEF Charge, CallMade, Own
    <3>3. Live(b)' \/ pc'[b] = "idle"
      BY <2>0, <2>1, <2>2, <2>4, <3>2
    <3>4. QED BY <2>2, <2>4, <3>1, <3>3, OthersSafe
  <2>5. \A x \in Task : Live(x)' => object'[self'[x]] = "alive"
    BY <1>0, <2>0, <2>1 DEF Safe
  <2>6. QED BY <2>3, <2>4, <2>5 DEF Safe
<1>c. ASSUME NEW here, NEW there, NEW k \in {"pauseSuspend", "restartResume"}, Switch(a, here, there, k),
             pc[a] = IF k = "pauseSuspend" THEN "pause" ELSE "restart"
      PROVE  Safe'
  <2> DEFINE t == handle[op[a].exec]
  <2>1. UNCHANGED taskVars /\ pc[a] # "idle" /\ ~Removes(a) /\ (~Holds(a) => k = "pauseSuspend")
    BY <1>0, <1>1, <1>c DEF Switch
  <2>2. \A x \in Task : Live(x)' <=> Live(x)
    BY <2>1 DEF Live, taskVars
  <2>3. CASE GoTo(a, "idle")
    BY <2>1, <2>2, <2>3, <1>a DEF taskVars, Step
  <2>4. CASE t # NoTask /\ pc' = [pc EXCEPT ![a] = k] /\ op' = [op EXCEPT ![a].task = t]
    <3>1. t \in Task /\ Live(t)
      BY <1>0, <2>1, <2>4 DEF Charge, Handled
    <3>2. /\ pc'[a] = k /\ op'[a].exec = op[a].exec /\ op'[a].then = op[a].then /\ op'[a].task = t
          /\ \A b \in Actor : b # a => pc'[b] = pc[b] /\ op'[b] = op[b]
      BY <1>0, <2>4, <3>1, OpTaskTyped DEF Typed, TypeOK
    <3>3. Live(op[a].task)'
      BY <2>2, <3>1, <3>2
    <3>4. QED BY <2>1, <2>2, <3>1, <3>2, <3>3, <1>b DEF taskVars
  <2>5. QED BY <1>c, <2>3, <2>4 DEF Switch
<1>10. CASE PauseLock(a) \/ RestartLock(a)
    BY <1>10, <1>c DEF PauseLock, RestartLock
<1>11. CASE PauseSuspend(a) \/ RestartResume(a)
  <2>1. /\ pc[a] \in {"pauseSuspend", "restartResume"} /\ GoTo(a, "idle") /\ UNCHANGED self
        /\ \E there \in {"suspended", "ready"} : Move(a, there)
    BY <1>11 DEF PauseSuspend, RestartResume, Move
  <2>2. op[a].task \in Task /\ rtos[op[a].task] # "none"
    BY <1>0, <2>1 DEF OnTask
  <2>3. \A x \in Task : Live(x)' <=> Live(x)
    BY <1>0, <2>1, <2>2 DEF Move, Live, Typed, TypeOK
  <2>4. ~Removes(a)
    BY <1>1, <2>1
  <2>5. QED BY <2>1, <2>3, <2>4, <1>a DEF Step
<1>12. QED
    BY <1>0, <1>3, <1>4, <1>5, <1>6, <1>7, <1>8, <1>9, <1>10, <1>11 DEF CallStep

LEMMA SchedulerNextSafe ==
    NoSelfKill /\ Charge /\ Charge' /\ Kept /\ Safe /\ [SchedulerNext]_allVars => Safe'
<1> SUFFICES ASSUME NoSelfKill, Charge, Charge', Kept, Safe, [SchedulerNext]_allVars PROVE Safe'
    OBVIOUS
<1>0. SchedulerTyped /\ spc \in [Actor -> RegStep] /\ call \in [Actor -> Call2_]
    BY DEF Charge, SchedulerTyped, SchedulerTypeOK, Call2_
<1>a. ASSUME NEW a \in Actor, Others(a), UNCHANGED <<vars, object>>, pc[a] = "idle",
             spc'[a] \in {"enter", "body"}, a \in Task => call'[a].fn # "kill" /\ call'[a].for # "killAll"
      PROVE  Safe'
  <2>1. pc'[a] = "idle" /\ op'[a] = NoCall
    BY <1>a DEF Safe, SafeCall, OnAlive, vars, callVars
  <2>2. SafeCall(a)'
    BY <1>a, <2>1 DEF SafeCall, OnAlive, Deleting, Removes, Cleared, Reading, NotOnItself
  <2>3. QED BY <1>a, <2>2, SafeStays DEF vars, callVars
<1>1. ASSUME NEW a \in Actor, NEW f \in Fns, NEW n \in Name, Begin(a, f, n),
             a \in Task => f # "kill" /\ f # "killAll"
      PROVE  Safe'
  <2>1. /\ spc' = [spc EXCEPT ![a] = "enter"] /\ \A b \in Actor : b # a => call'[b] = call[b]
        /\ call'[a].fn = "kill" => f = "kill"
        /\ call'[a].for = "killAll" => f = "killAll"
    BY <1>0, <1>1, BeginTyped
  <2>2. Others(a) /\ UNCHANGED <<vars, object>> /\ spc'[a] = "enter" /\ pc[a] = "idle"
    BY <1>0, <1>1, <2>1 DEF Begin, regVars, Others, RegAt, At
  <2>3. QED BY <1>1, <2>1, <2>2, <1>a
<1>2. CASE \E a \in Sketch : SketchBegin(a)
    BY <1>1, <1>2 DEF SketchBegin
<1>3. CASE \E t \in Task : ScriptBegin(t)
    BY <1>1, <1>3 DEF ScriptBegin, NoSelfKill
<1>4. CASE \/ \E a \in Sketch : ExecuteReturn(a)
           \/ \E t \in Task : ScriptStep(t)
           \/ UNCHANGED allVars
  <2>1. UNCHANGED <<spc, call, object, pc, op, self>>
    BY <1>4 DEF ExecuteReturn, ScriptStep, allVars, regVars, vars, taskVars, callVars,
                TaskStep, EnterFooter, SkipFooter, LeaveFooter, EnterMain, SkipMain, LeaveMain, Finish, Park,
                Enter, Leave, Skip, Runs, At
  <2>2. \A t \in Task : Live(t)' <=> Live(t)
    BY <1>0, <1>4 DEF ExecuteReturn, ScriptStep, allVars, regVars, vars, taskVars,
                TaskStep, EnterFooter, SkipFooter, LeaveFooter, EnterMain, SkipMain, LeaveMain, Finish, Park,
                Enter, Leave, Skip, Runs, At, CanRun, Live, SchedulerTyped, Typed, TypeOK
  <2>3. \A e : Unused(e)' <=> Unused(e)
    BY <2>1, <2>2 DEF Unused
  <2>4. ASSUME NEW b \in Actor PROVE SafeCall(b)'
    <3>1. /\ pc[b] \in {"pauseSuspend", "restartResume"} => op[b].task \in Task
          /\ spc[b] = "useTask" => call[b].task \in Task
          /\ SafeCall(b)
      BY <1>0 DEF SchedulerTyped, Typed, Wired, CallWired, OnTask, CallFits, Safe
    <3>2. QED BY <2>1, <2>2, <2>3, <3>1 DEF SafeCall, OnAlive, Deleting, Removes, Cleared, Reading, NotOnItself, Holds
  <2>5. QED BY <2>1, <2>2, <2>4 DEF Safe
<1>5. ASSUME NEW a \in Actor, EnterRegistry(a) PROVE Safe'
  <2>1. spc' = [spc EXCEPT ![a] = "body"] /\ UNCHANGED <<vars, object, call>> /\ pc[a] = "idle"
    BY <1>5 DEF EnterRegistry, RegAt, At, Proceed
  <2>2. Others(a) /\ spc'[a] = "body"
    BY <1>0, <2>1 DEF Others
  <2>3. a \in Task => call'[a].fn # "kill" /\ call'[a].for # "killAll"
    BY <2>1 DEF Safe, SafeCall, NotOnItself
  <2>4. QED BY <2>1, <2>2, <2>3, <1>a
<1>6. QED
    BY <1>2, <1>3, <1>4, <1>5, RegistryStepSafe, ExecStepSafe DEF SchedulerNext

LEMMA AlwaysSafe == NoSelfKill => (SchedulerSpec => []Safe)
<1> SUFFICES ASSUME NoSelfKill PROVE SchedulerSpec => []Safe
    OBVIOUS
<1>1. Charge /\ [SchedulerNext]_allVars => Charge'
    BY SchedulerNextCharge
<1>2. Charge /\ Kept /\ Safe /\ [SchedulerNext]_allVars => (Charge /\ Kept /\ Safe)'
    BY <1>1, SchedulerNextKept, SchedulerNextSafe
<1>3. QED BY <1>2, InitCharge, InitKept, InitSafe, PTL DEF SchedulerSpec

\* When no script kills its own task through the registry, no call works on a
\* deleted executable, no task is left that would run its code, and the
\* handle that info() and sample() read is that of a task that exists.
THEOREM NothingUsesDeleted == NoSelfKill => (SchedulerSpec => []NoUseAfterDelete)
<1> SUFFICES ASSUME NoSelfKill PROVE SchedulerSpec => []NoUseAfterDelete
    OBVIOUS
<1>1. Safe => NoUseAfterDelete
  <2> SUFFICES ASSUME Safe PROVE NoUseAfterDelete
      OBVIOUS
  <2>1. \A a \in Actor : op[a].exec # NoExec => object[op[a].exec] = "alive"
      BY DEF Safe, SafeCall, OnAlive, NoCall
  <2>2. QED BY <2>1 DEF NoUseAfterDelete, Safe, SafeCall, Reading
<1>2. QED BY <1>1, AlwaysSafe, PTL

\* Nor do pause() and restart() act on a task that has been deleted.
THEOREM RegistryMovesLiveTasks == NoSelfKill => (SchedulerSpec => []SuspendTargetExists)
<1> SUFFICES ASSUME NoSelfKill PROVE SchedulerSpec => []SuspendTargetExists
    OBVIOUS
<1>1. Safe => SuspendTargetExists
    BY DEF Safe, SafeCall, OnAlive, SuspendTargetExists
<1>2. QED BY <1>1, AlwaysSafe, PTL
==============================================================================
