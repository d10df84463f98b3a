CONSTANTS
    binded_assets <- MCBound
    NumberWords <- MCNumbers
    MaxWords = 400
    Scripts <- MCScripts
    Programs <- MCPrograms
    Inputs <- MCInputs
    Sessions <- MCRefusedFirst
    Unit = 16
    StepDoublings = 10
SPECIFICATION Spec
INVARIANT
    AllocatedMeaning
CHECK_DEADLOCK FALSE
