CONSTANTS
    binded_assets <- MCBound
    NumberWords <- MCNumbers
    MaxWords = 400
    Scripts <- MCScripts
    Programs <- MCPrograms
    Inputs <- MCInputs
    Sessions <- MCSessions
    Unit = 16
    StepDoublings = 10
SPECIFICATION Spec
INVARIANTS
    CompileTypeOK
    GeneratedMeaning
    PromotedMeaning
    OptimizedMeaning
    PreservedMeaning
    AllocatedMeaning
    RefusedRightly
CHECK_DEADLOCK FALSE
