----------------------- MODULE MCBitbucketPullRequest ------------------------
EXTENDS BitbucketPullRequest

CONSTANTS title1, title2, alice, c1, c2

MCReviewerSets == {{}, {alice}}

Transition(action, expected, precheck) ==
    [action |-> action, expected |-> expected, precheck |-> precheck,
     title |-> Keep, reviewers |-> Keep]

Update(title, reviewers) ==
    [action |-> "update", expected |-> NoVersion, precheck |-> FALSE,
     title |-> title, reviewers |-> reviewers]

\* Both sources of a version, both kinds of precheck, and updates of one field only.
MCJobs ==
    {Transition("merge", NoVersion, TRUE), Transition("merge", 1, FALSE),
     Transition("decline", 0, FALSE), Transition("decline", NoVersion, FALSE),
     Transition("reopen", NoVersion, FALSE),
     Update(title2, Keep), Update(Keep, {alice})}
=============================================================================
