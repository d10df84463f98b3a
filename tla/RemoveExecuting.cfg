\* A script that execute() runs asks for its own removal.
CONSTANTS
    loop = loop
    web = web
    Exec = {e1}
    Task = {t1}
    Sketch = {loop, web}
    SelfOps = {}
    NoTask = NoTask
    NoExec = NoExec
    Name = {n1}
    NoName = NoName
    MaxScripts = 1
    SketchFns <- ExecuteFns
    ScriptFns = {}
SPECIFICATION SchedulerSpec
INVARIANT ExecutedCodeStays
CHECK_DEADLOCK FALSE
