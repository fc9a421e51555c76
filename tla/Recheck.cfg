SPECIFICATION Spec
CONSTANTS
    SpecNames = {"svc.spec"}
    Scenes <- MCScenes
    MaxEdits = 2
    Options <- MCOptions
INVARIANTS
    DependentsReached
    NoBrokenConsumerAdmitted
    HonestReceiptAccepted
    EditedReceiptRefused
CHECK_DEADLOCK FALSE
