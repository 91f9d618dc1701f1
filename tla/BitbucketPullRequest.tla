------------------------ MODULE BitbucketPullRequest -------------------------
(***************************************************************************)
(* MergePullRequest, DeclinePullRequest, ReopenPullRequest and             *)
(* UpdatePullRequest of internal/bitbucket/tools/pull_requests.go: tools   *)
(* that read a pull request and then write to it, while people and other   *)
(* tool calls write to it too.  What stands between the read and the write *)
(* is the version the write carries and the server's check of it.          *)
(*                                                                         *)
(* A GET is one step that sees the pull request or fails (its retries are  *)
(* BitbucketClient's).  A write is what UpstreamCall promises: it arrives  *)
(* at most once, perhaps after the tool has given up on it.  Validation of *)
(* ids and slugs, and approvals of reviewers, are left out.                *)
(***************************************************************************)
EXTENDS Integers

CONSTANTS
    Calls,          \* tool calls
    Jobs,           \* what they may be asked to do
    Titles,         \* titles (a description is preserved the same way)
    ReviewerSets,   \* sets of reviewers
    Keep,           \* an optional field the caller omitted
    NoVersion,      \* expectedVersion omitted
    NoJob, NoPR, NoRequest,
    MaxVersion      \* bound: people stop editing here

Actions == {"merge", "decline", "reopen", "update"}

States == {"OPEN", "MERGED", "DECLINED"}

JobType == [action: Actions, expected: Int \cup {NoVersion}, precheck: BOOLEAN,
            title: Titles \cup {Keep}, reviewers: ReviewerSets \cup {Keep}]

ASSUME JobsAssumption ==
    /\ Jobs \subseteq JobType
    /\ \A j \in Jobs : IF j.action = "update" THEN j.expected = NoVersion
                       ELSE j.title = Keep /\ j.reviewers = Keep
    /\ MaxVersion \in Nat

ASSUME SentinelAssumption ==
    /\ Keep \notin Titles \cup ReviewerSets
    /\ NoVersion \notin Int
    /\ NoJob \notin JobType
    /\ Titles # {} /\ ReviewerSets # {}

VARIABLES
    pr,       \* the pull request as the server holds it
    pc,       \* where each call is
    job,      \* its input
    seen,     \* the pull request as its GET returned it
    wire,     \* its write, on the way to the server
    reply,    \* the server's answer to the write
    vetoed,   \* history: the precheck came back with canMerge false
    effects,  \* history: how often the call changed the pull request
    answer    \* what the call returned

vars == <<pr, pc, job, seen, wire, reply, vetoed, effects, answer>>

PRType == [version: Nat, state: States, mergeable: BOOLEAN,
           title: Titles, reviewers: ReviewerSets]

RequestType == [action: Actions, version: Int,
                title: Titles \cup {Keep}, reviewers: ReviewerSets \cup {Keep}]

ASSUME RecordSentinelAssumption == NoPR \notin PRType /\ NoRequest \notin RequestType

TypeOK ==
    /\ pr \in PRType
    /\ pc \in [Calls -> {"idle", "precheck", "read", "send", "flight", "done"}]
    /\ job \in [Calls -> Jobs \cup {NoJob}]
    /\ seen \in [Calls -> PRType \cup {NoPR}]
    /\ wire \in [Calls -> RequestType \cup {NoRequest}]
    /\ reply \in [Calls -> {"none", "ok", "conflict"}]
    /\ vetoed \in [Calls -> BOOLEAN]
    /\ effects \in [Calls -> {0, 1}]
    /\ answer \in [Calls -> {"none", "ok", "conflict", "failed", "unknown"}]

Init ==
    /\ pr \in [version: {0}, state: {"OPEN"}, mergeable: BOOLEAN,
               title: Titles, reviewers: ReviewerSets]
    /\ pc = [c \in Calls |-> "idle"]
    /\ job = [c \in Calls |-> NoJob]
    /\ seen = [c \in Calls |-> NoPR]
    /\ wire = [c \in Calls |-> NoRequest]
    /\ reply = [c \in Calls |-> "none"]
    /\ vetoed = [c \in Calls |-> FALSE]
    /\ effects = [c \in Calls |-> 0]
    /\ answer = [c \in Calls |-> "none"]

-----------------------------------------------------------------------------
\* The server and the people who use it.
-----------------------------------------------------------------------------
Edit(t, rs) ==
    /\ pr.version < MaxVersion
    /\ pr' = [pr EXCEPT !.version = @ + 1, !.title = t, !.reviewers = rs]
    /\ UNCHANGED <<pc, job, seen, wire, reply, vetoed, effects, answer>>

Move(s) ==
    /\ pr.version < MaxVersion
    /\ \/ pr.state = "OPEN" /\ s # "OPEN"
       \/ pr.state = "DECLINED" /\ s = "OPEN"
    /\ pr' = [pr EXCEPT !.version = @ + 1, !.state = s]
    /\ UNCHANGED <<pc, job, seen, wire, reply, vetoed, effects, answer>>

\* A push or a merge check changes mergeability, and leaves the version alone.
Push ==
    /\ pr' = [pr EXCEPT !.mergeable = ~@]
    /\ UNCHANGED <<pc, job, seen, wire, reply, vetoed, effects, answer>>

Accepts(r) ==
    /\ r.version = pr.version
    /\ r.action \in {"merge", "decline", "update"} => pr.state = "OPEN"
    /\ r.action = "merge" => pr.mergeable
    /\ r.action = "reopen" => pr.state = "DECLINED"

StateAfter(action) ==
    IF action = "merge" THEN "MERGED"
    ELSE IF action = "decline" THEN "DECLINED" ELSE "OPEN"

Written(r) ==
    IF r.action = "update"
    THEN [pr EXCEPT !.version = @ + 1, !.title = r.title, !.reviewers = r.reviewers]
    ELSE [pr EXCEPT !.version = @ + 1, !.state = StateAfter(r.action)]

\* The server works on a request, whether or not the tool still waits for it.
Serve(c) ==
    /\ wire[c] # NoRequest
    /\ wire' = [wire EXCEPT ![c] = NoRequest]
    /\ \/ /\ Accepts(wire[c])
          /\ pr' = Written(wire[c])
          /\ effects' = [effects EXCEPT ![c] = @ + 1]
          /\ reply' = [reply EXCEPT ![c] = "ok"]
       \/ /\ ~Accepts(wire[c])
          /\ reply' = [reply EXCEPT ![c] = "conflict"]
          /\ UNCHANGED <<pr, effects>>
    /\ UNCHANGED <<pc, job, seen, vetoed, answer>>

-----------------------------------------------------------------------------
\* The tools.
-----------------------------------------------------------------------------
\* transition reads the current version only when the caller gave none.
AfterPrecheck(j) == IF j.expected = NoVersion THEN "read" ELSE "send"

Begin(c, j) ==
    /\ pc[c] = "idle"
    /\ job' = [job EXCEPT ![c] = j]
    /\ pc' = [pc EXCEPT ![c] = IF j.action = "merge" /\ j.precheck
                               THEN "precheck" ELSE AfterPrecheck(j)]
    /\ UNCHANGED <<pr, seen, wire, reply, vetoed, effects, answer>>

Fail(c, a) ==
    /\ pc' = [pc EXCEPT ![c] = "done"]
    /\ answer' = [answer EXCEPT ![c] = a]

\* MergePullRequest: a mergeability that was read is a success, whatever it says.
Precheck(c) ==
    /\ pc[c] = "precheck"
    /\ \/ /\ pc' = [pc EXCEPT ![c] = AfterPrecheck(job[c])]
          /\ vetoed' = [vetoed EXCEPT ![c] = ~pr.mergeable]
          /\ UNCHANGED answer
       \/ Fail(c, "failed") /\ UNCHANGED vetoed
    /\ UNCHANGED <<pr, job, seen, wire, reply, effects>>

\* getPR, then the version out of its answer: a body without one ends the call.
Read(c) ==
    /\ pc[c] = "read"
    /\ \/ /\ pc' = [pc EXCEPT ![c] = "send"]
          /\ seen' = [seen EXCEPT ![c] = pr]
          /\ UNCHANGED answer
       \/ Fail(c, "failed") /\ UNCHANGED seen
    /\ UNCHANGED <<pr, job, wire, reply, vetoed, effects>>

Preserved(wish, current) == IF wish = Keep THEN current ELSE wish

TransitionOnLatestVersion(c) ==
    IF job[c].action = "update"
    THEN [action |-> "update", version |-> seen[c].version,
          title |-> Preserved(job[c].title, seen[c].title),
          reviewers |-> Preserved(job[c].reviewers, seen[c].reviewers)]
    ELSE [action |-> job[c].action, version |-> pr.version, title |-> Keep, reviewers |-> Keep]

UpdateOnLatestVersion(c) ==
    IF job[c].action = "update"
    THEN [action |-> "update", version |-> pr.version,
          title |-> Preserved(job[c].title, seen[c].title),
          reviewers |-> Preserved(job[c].reviewers, seen[c].reviewers)]
    ELSE [action |-> job[c].action,
          version |-> IF job[c].expected = NoVersion THEN seen[c].version ELSE job[c].expected,
          title |-> Keep, reviewers |-> Keep]

\* The write: query version for a transition, version and fields for an update.
Request(c) ==
    IF job[c].action = "update"
    THEN [action |-> "update", version |-> seen[c].version,
          title |-> Preserved(job[c].title, seen[c].title),
          reviewers |-> Preserved(job[c].reviewers, seen[c].reviewers)]
    ELSE [action |-> job[c].action,
          version |-> IF job[c].expected = NoVersion THEN seen[c].version ELSE job[c].expected,
          title |-> Keep, reviewers |-> Keep]

Send(c) ==
    /\ pc[c] = "send"
    /\ pc' = [pc EXCEPT ![c] = "flight"]
    /\ wire' = [wire EXCEPT ![c] = Request(c)]
    /\ UNCHANGED <<pr, job, seen, reply, vetoed, effects, answer>>

Receive(c) ==
    /\ pc[c] = "flight"
    /\ reply[c] # "none"
    /\ Fail(c, reply[c])
    /\ UNCHANGED <<pr, job, seen, wire, reply, vetoed, effects>>

ReplayWrite(c) ==
    /\ pc[c] = "flight"
    /\ pc' = [pc EXCEPT ![c] = "read"]
    /\ reply' = [reply EXCEPT ![c] = "none"]
    /\ UNCHANGED <<pr, job, seen, wire, vetoed, effects, answer>>

\* Timeout, cancellation, a lost or unusable answer: the write is not repeated.
GiveUp(c) ==
    /\ pc[c] = "flight"
    /\ Fail(c, "unknown")
    /\ UNCHANGED <<pr, job, seen, wire, reply, vetoed, effects>>

Next ==
    \/ \E t \in Titles, rs \in ReviewerSets : Edit(t, rs)
    \/ \E s \in States : Move(s)
    \/ Push
    \/ \E c \in Calls :
        \/ \E j \in Jobs : Begin(c, j)
        \/ Precheck(c) \/ Read(c) \/ Send(c) \/ Serve(c) \/ Receive(c) \/ GiveUp(c)

Spec == Init /\ [][Next]_vars

-----------------------------------------------------------------------------
(* An update never undoes what somebody else wrote to a field its caller   *)
(* left out, although the body it sends carries a copy of that field read  *)
(* some time before (pull_requests.go:338-343 and 359-384).                *)
OmittedFieldsSurvive ==
    [][\A c \in Calls :
        effects'[c] # effects[c] /\ job[c].action = "update" =>
            /\ job[c].title = Keep => pr'.title = pr.title
            /\ job[c].reviewers = Keep => pr'.reviewers = pr.reviewers]_vars

(* A write only ever applies to the pull request its caller was looking    *)
(* at: the version the caller expected, or, when it named none, exactly    *)
(* what the call's own GET returned (pull_requests.go:312-325).            *)
ActsOnWhatWasSeen ==
    [][\A c \in Calls : effects'[c] # effects[c] =>
        IF job[c].expected # NoVersion THEN pr.version = job[c].expected
        ELSE seen[c] = [pr EXCEPT !.mergeable = seen[c].mergeable]]_vars

(* What a call reports is true for good: a success was applied, and after  *)
(* a conflict or a failed read nothing of the call is still on its way.    *)
AnswerIsTrue ==
    \A c \in Calls :
        /\ answer[c] = "ok" => effects[c] = 1
        /\ answer[c] \in {"conflict", "failed"} => effects[c] = 0 /\ wire[c] = NoRequest

(* Read, decide and write together are one atomic edit of what was asked.  *)
Shared == INSTANCE SharedPullRequest
ImplementsSharedPullRequest == Shared!Spec

(* With its reads, a tool call is what UpstreamCall says of one request;   *)
(* one that fails before its write is a definite refusal.                  *)
kindOf == [c \in Calls |-> IF job[c] = NoJob THEN "none" ELSE "write"]
outcomeOf == [c \in Calls |-> IF answer[c] \in {"conflict", "failed"} THEN "refused" ELSE answer[c]]
Upstream == INSTANCE UpstreamCall WITH kind <- kindOf, answer <- outcomeOf
ImplementsUpstreamCall == Upstream!Spec

(* bitbucket-tool-implementation-guide.md:478 of the default precheck: it  *)
(* "stops before POST on conflict/veto".  The code posts (lines 295-300).  *)
VetoStopsMerge == \A c \in Calls : vetoed[c] => wire[c] = NoRequest
=============================================================================
