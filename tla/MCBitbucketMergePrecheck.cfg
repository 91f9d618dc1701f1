SPECIFICATION Spec
CONSTANTS
    title1 = title1
    title2 = title2
    alice = alice
    Keep = Keep
    NoVersion = NoVersion
    NoJob = NoJob
    NoPR = NoPR
    NoRequest = NoRequest
    c1 = c1
    c2 = c2
    Calls = {c1, c2}
    Titles = {title1, title2}
    ReviewerSets <- MCReviewerSets
    Jobs <- MCJobs
    MaxVersion = 1
INVARIANT VetoStopsMerge
