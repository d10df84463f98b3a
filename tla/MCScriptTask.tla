----------------------------- MODULE MCScriptTask -----------------------------
\* ScriptTask for TLC: one script, one controlling sketch task.
EXTENDS ScriptTask, TLC

\* The tasks are interchangeable.
Interchangeable == Permutations(Task)
===============================================================================
