CONSTANTS
    handle = handle
    str = str
    str2 = str2
    global = global
    var = var
    fn = fn
    main = main
    foot = foot
    L = L
    M = M
    U = U
    NoLabel = NoLabel
    Label <- MCLabel
    Programs <- MCPrograms
    Host <- MCHost
    NameBytes = 6
    DescriptorBytes = 2
SPECIFICATION BuildSpec
INVARIANT
    NothingPopulated
CHECK_DEADLOCK FALSE
