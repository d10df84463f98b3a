------------------------------ MODULE MCScheduler ------------------------------
\* ScriptScheduler for TLC. loop adds, runs and removes; web, a second task
\* of the sketch, controls what runs.
EXTENDS ScriptScheduler, TLC

CONSTANTS loop, web

ControlledFns ==
    (loop :> {"add", "run", "removeAll"}) @@ (web :> {"pause", "restart", "killAll", "info"})

\* The liveness run: execute() as well, one slot.
LiveFns == (loop :> {"add", "run", "execute"}) @@ (web :> {"pause", "restart", "killAll"})

\* One task executes a script, which then asks for its own removal.
ExecuteFns == (loop :> {"add", "execute", "remove"}) @@ (web :> {})

\* Names, executables and tasks are interchangeable.
Interchangeable == Permutations(Name) \cup Permutations(Exec) \cup Permutations(Task)
===============================================================================
