\* The script pauses itself while the sketch restarts it.
CONSTANTS
    Exec = {e1}
    Task = {t1}
    Sketch = {loop}
    SelfOps = {"pause"}
    NoTask = NoTask
    NoExec = NoExec
SPECIFICATION Spec
INVARIANT RunningIsNotSuspended
CHECK_DEADLOCK FALSE
