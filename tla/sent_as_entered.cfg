\* A typed size is what the request carries, or no request leaves.
SPECIFICATION RequestSpec
CONSTANTS
    Declarations <- MCDeclarations
    CanonicalNames <- MCCanonicalNames
    TypedValues <- MCTypedSizes
    MaxInputs = 2
    MaxStaged = 2
    MaxPicks = 3
    MaxPublishes = 1
INVARIANTS
    SentAsEntered
CHECK_DEADLOCK FALSE
