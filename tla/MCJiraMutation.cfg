SPECIFICATION Spec
CONSTANTS
    c1 = c1
    c2 = c2
    i1 = i1
    i2 = i2
    i3 = i3
    close = close
    start = start
    Calls = {c1, c2}
    TransitionIds = {i1, i2, i3}
    TransitionNames = {close, start}
    nameOf <- MCNameOf
    NoTransition = NoTransition
    NoCall = NoCall
    MaxRevision = 2
    Redirects = FALSE
SYMMETRY Symmetry
INVARIANTS WritesAreAnnounced NeverGuesses AcknowledgedIsApplied ReadBackSeesTheChange
PROPERTIES ImplementsUpstreamCall
CHECK_DEADLOCK FALSE
