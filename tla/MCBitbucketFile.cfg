SPECIFICATION Spec
CONSTANTS
    Calls = {c1, c2}
    Branches = {b1, b2}
    text = text
    bytes = bytes
    Fresh <- MCFresh
    Blobs = {text, bytes}
    Binary = {bytes}
    Mangled = mangled
    NoFile = noFile
    NoField = noField
    Garbage = garbage
    NoJob = noJob
    MaxCommits = 3
SYMMETRY Symmetry
INVARIANTS
    TypeOK
    AnswerIsTrue
PROPERTIES
    NothingOverwrittenUnseen
    RoundTripKeepsBytes
CHECK_DEADLOCK FALSE
