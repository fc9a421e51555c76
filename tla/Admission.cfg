SPECIFICATION Spec
CONSTANTS
    Clashes <- MCClashes
    Settings <- AllSettings
    MaxRuns = 2
    MaxTime = 1
INVARIANTS
    MainStaysGood
    AttachIsAdmissible
    HonestChangeAdmitted
PROPERTY
    SelfUpdateTrusted
CHECK_DEADLOCK FALSE
