CONSTANTS
    loop = loop
    web = web
    Exec = {e1, e2}
    Task = {t1}
    Sketch = {loop, web}
    SelfOps = {}
    NoTask = NoTask
    NoExec = NoExec
    Name = {n1}
    NoName = NoName
    MaxScripts = 1
    SketchFns <- LiveFns
    ScriptFns = {}
SPECIFICATION SchedulerFairSpec
INVARIANTS RunningIsNotSuspended SuspendTargetExists
PROPERTIES RegistryReturns KilledIsDeleted
CHECK_DEADLOCK FALSE
