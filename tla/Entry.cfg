\* One task, with the interrupts of its core.
CONSTANTS
    Context = {task}
    MaxDepth = 4
    NoFrame = NoFrame
SPECIFICATION Spec
INVARIANTS TypeOK UnwindIsInnermost ErrorOfLastCall
PROPERTY FailureStaysInside
