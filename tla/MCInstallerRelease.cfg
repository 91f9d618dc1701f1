SPECIFICATION Spec
CONSTANTS
    r1 = r1
    r2 = r2
    genuine = genuine
    corrupt = corrupt
    Runs = {r1, r2}
    Bytes = {genuine, corrupt}
SYMMETRY MCSymmetry
INVARIANTS TypeOK OnlyVerifiedIsInstalled WhatIsRegisteredRuns EndsCleanly
CHECK_DEADLOCK FALSE
