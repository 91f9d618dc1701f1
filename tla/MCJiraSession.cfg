CONSTANTS
    alice = alice
    bob = bob
    ops = ops
    own = own
    env = env
    Tasks = {t1, t2}
    Startup = startup
    Names = {alice, bob, ops}
    Secrets = {own, env}
    Blank = Blank
    NoCred = NoCred
    Environments <- MCEnvironments
    Inputs <- MCInputs
    MaxRequests = 3
SPECIFICATION FairSpec
INVARIANTS
    TypeOK
    OneCallOneIdentity
PROPERTIES
    ImplementsValidatedSession
    EveryCallReturns
