SPECIFICATION ServerFairSpec
CONSTANTS
    Modules <- MCModules
    Needed <- MCNeeded
    Optional <- MCOptional
    LoginSteps <- MCLoginSteps
    Environments <- MCEnvironments
INVARIANTS
    ServerTypeOK
    ModulesAreIsolated
PROPERTY EveryLoginEnds
CHECK_DEADLOCK FALSE
