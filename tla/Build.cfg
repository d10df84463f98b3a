CONSTANTS
    handle = handle
    str = str
    str2 = str2
    global = global
    var = var
    fn = fn
    main = main
    foot = foot
    L = L
    M = M
    U = U
    NoLabel = NoLabel
    Label <- MCLabel
    Programs <- MCPrograms
    Host <- MCHost
    NameBytes = 6
    DescriptorBytes = 2
SPECIFICATION BuildSpec
INVARIANTS
    AsmTypeOK
    ControlPreserved
    BranchesReach
    CodeFits
    Aligned
    LoadedCode
    GlobalsApart
    RoundTrip
    MemoryOwned
PROPERTY
    BuildEnds
CHECK_DEADLOCK FALSE
