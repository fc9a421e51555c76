SPECIFICATION Spec
CONSTANTS
    Roots <- MCRoots
    Calls <- MCCalls
    Bases <- MCBases
    TopCalls <- MCTopCalls
    Parents <- MCParents
    Decorators <- MCDecorators
    Uses <- MCUses
    Scalars <- MCScalars
    NewKey = "c"
    MaxEdits = 2
INVARIANTS
    CompatibleIsSubstitutable
    VerifiedConsumerSafe
CHECK_DEADLOCK FALSE
