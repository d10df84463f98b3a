\* One script, one controlling task, the script controlling itself too.
CONSTANTS
    Exec = {e1}
    Task = {t1, t2, t3}
    Sketch = {loop}
    SelfOps = {"pause", "restart", "kill"}
    NoTask = NoTask
    NoExec = NoExec
SPECIFICATION Spec
INVARIANTS TypeOK OneOwner StateIsTrue CodeOutlivesRuns
PROPERTY ImplementsScriptRuns
SYMMETRY Interchangeable
CHECK_DEADLOCK FALSE
