CONSTANTS
    Calls = {c1, c2}
    ReadAttempts = 3
    Redirects = FALSE
    NoRequest = NoRequest
SPECIFICATION FairSpec
INVARIANTS
    WritesAreAnnounced
PROPERTIES
    NothingSentAfterCancel
    ImplementsUpstreamCall
    EveryCallReturns
CHECK_DEADLOCK FALSE
