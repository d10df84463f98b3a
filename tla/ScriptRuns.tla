------------------------------ MODULE ScriptRuns ------------------------------
(***************************************************************************)
(* What a ScriptExecutable promises about the runs executeAsTask() starts, *)
(* whatever the tasks, locks and handles behind it: a script has at most   *)
(* one run at a time; a run is paused and resumed only by pause() and      *)
(* restart(); a run that is over (killed, or its function returned) never  *)
(* comes back, and another one can then be started.                        *)
(*                                                                         *)
(* Run is the set of the runs that may be started, one FreeRTOS task each; *)
(* ScriptTask implements this specification.                               *)
(***************************************************************************)
EXTENDS TLAPS

CONSTANT Run

VARIABLE life    \* life[r]: where run r is in its life

Life == {"none", "running", "paused", "over"}

\* Every run is somewhere in its life.
TypeOK == life \in [Run -> Life]

\* A run that has been started and is not over.
Current(r) == life[r] \in {"running", "paused"}

Init == life = [r \in Run |-> "none"]

Start(r) ==
    /\ life[r] = "none"
    /\ \A q \in Run : ~Current(q)
    /\ life' = [life EXCEPT ![r] = "running"]

Pause(r) ==
    /\ life[r] = "running"
    /\ life' = [life EXCEPT ![r] = "paused"]

Restart(r) ==
    /\ life[r] = "paused"
    /\ life' = [life EXCEPT ![r] = "running"]

End(r) ==
    /\ Current(r)
    /\ life' = [life EXCEPT ![r] = "over"]

Next == \E r \in Run : Start(r) \/ Pause(r) \/ Restart(r) \/ End(r)

Spec == Init /\ [][Next]_life

\* At most one run of a script is current.
OneRun == \A r, q \in Run : Current(r) /\ Current(q) => r = q

\* What executeAsTask(), pause(), restart() and kill() promise keeps the runs
\* of a script one at a time.
THEOREM Sequential == Spec => [](TypeOK /\ OneRun)
<1>1. Init => TypeOK /\ OneRun
  BY DEF Init, TypeOK, OneRun, Life, Current
<1>2. TypeOK /\ OneRun /\ [Next]_life => (TypeOK /\ OneRun)'
  <2> SUFFICES ASSUME TypeOK, OneRun, [Next]_life
               PROVE  TypeOK' /\ OneRun'
    OBVIOUS
  <2>1. ASSUME NEW r \in Run, Start(r)
        PROVE  TypeOK' /\ OneRun'
    BY <2>1 DEF Start, TypeOK, OneRun, Life, Current
  <2>2. ASSUME NEW r \in Run, Pause(r) \/ Restart(r) \/ End(r)
        PROVE  TypeOK' /\ OneRun'
    BY <2>2 DEF Pause, Restart, End, TypeOK, OneRun, Life, Current
  <2>3. CASE UNCHANGED life
    BY <2>3 DEF TypeOK, OneRun, Life, Current
  <2> QED
    BY <2>1, <2>2, <2>3 DEF Next
<1> QED
  BY <1>1, <1>2, PTL DEF Spec
===============================================================================
