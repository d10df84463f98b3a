CONSTANTS
    Client = {c1, c2, c3}
    None = None
SPECIFICATION Spec
INVARIANTS TypeOK MutualExclusion OneMutex
PROPERTY ImplementsMutex
