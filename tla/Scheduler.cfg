CONSTANTS
    loop = loop
    web = web
    Exec = {e1, e2}
    Task = {t1, t2}
    Sketch = {loop, web}
    SelfOps = {}
    NoTask = NoTask
    NoExec = NoExec
    Name = {n1, n2}
    NoName = NoName
    MaxScripts = 2
    SketchFns <- ControlledFns
    ScriptFns = {"pause"}
SPECIFICATION SchedulerSpec
INVARIANTS SchedulerTypeOK UniqueNames OneKeeper NoUseAfterDelete HolderCanRun OneRunPerScript
SYMMETRY Interchangeable
CHECK_DEADLOCK FALSE
