\* A task on each core enters the same script.
CONSTANTS
    Context = {task, other}
    MaxDepth = 1
    NoFrame = NoFrame
SPECIFICATION Spec
INVARIANT JumpsOnOwnStack
CHECK_DEADLOCK FALSE
