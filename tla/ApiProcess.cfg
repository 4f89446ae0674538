SPECIFICATION Spec
CONSTANTS
    c1 = c1
    c2 = c2
    IntHalf = 16
    Clients <- TheClients
    Asks <- TheAsks
    Environments <- TheEnvironments
INVARIANTS
    ApiTypeOK
    OneAnswerOneLine
    WritesAreAuthorised
    PoolClosesLast
    CleanExitCutsNothingOff
PROPERTIES
    ShutdownEnds
CHECK_DEADLOCK FALSE
