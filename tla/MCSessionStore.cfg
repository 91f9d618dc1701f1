CONSTANTS
    g1 = g1
    g2 = g2
    alice = alice
    bob = bob
    Callers = {g1, g2}
    Credentials = {alice, bob}
    Nil = Nil
    NoHolder = NoHolder
SPECIFICATION StoreFairSpec
PROPERTIES
    RegisterSpec
    EveryCallReturns
