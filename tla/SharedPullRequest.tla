-------------------------- MODULE SharedPullRequest --------------------------
(***************************************************************************)
(* What the pull-request tools of internal/bitbucket/tools/pull_requests.go *)
(* promise about a pull request that other people edit at the same time:   *)
(* whatever was read on the way, a tool call changes the pull request in   *)
(* one indivisible step, at most once, in exactly the fields its caller    *)
(* named, and a call that was refused never changes it.                    *)
(***************************************************************************)
EXTENDS Integers

CONSTANTS Calls, Jobs, Titles, ReviewerSets, Keep, NoVersion, NoJob, MaxVersion

VARIABLES
    pr,      \* the pull request as the server holds it
    job,     \* what each call was asked to do
    effects, \* how often each call changed the pull request
    answer   \* what each call returned

vars == <<pr, job, effects, answer>>

Init ==
    /\ pr.version = 0 /\ pr.state = "OPEN"
    /\ job = [c \in Calls |-> NoJob]
    /\ effects = [c \in Calls |-> 0]
    /\ answer = [c \in Calls |-> "none"]

Chosen(wish, current) == IF wish = Keep THEN current ELSE wish

Asked(j) ==
    IF j.action = "update"
    THEN [pr EXCEPT !.version = @ + 1, !.title = Chosen(j.title, @),
                    !.reviewers = Chosen(j.reviewers, @)]
    ELSE [pr EXCEPT !.version = @ + 1,
                    !.state = IF j.action = "merge" THEN "MERGED"
                              ELSE IF j.action = "decline" THEN "DECLINED" ELSE "OPEN"]

\* Somebody works on the pull request in the browser, or pushes to its branch.
Edit(t, rs) ==
    /\ pr.version < MaxVersion
    /\ pr' = [pr EXCEPT !.version = @ + 1, !.title = t, !.reviewers = rs]
    /\ UNCHANGED <<job, effects, answer>>

Move(s) ==
    /\ pr.version < MaxVersion
    /\ pr' = [pr EXCEPT !.version = @ + 1, !.state = s]
    /\ UNCHANGED <<job, effects, answer>>

Push ==
    /\ pr' = [pr EXCEPT !.mergeable = ~@]
    /\ UNCHANGED <<job, effects, answer>>

Begin(c, j) ==
    /\ job[c] = NoJob
    /\ job' = [job EXCEPT ![c] = j]
    /\ UNCHANGED <<pr, effects, answer>>

\* An unknown failure may have been reported already; a refusal may not.
Change(c) ==
    /\ job[c] # NoJob
    /\ effects[c] = 0
    /\ answer[c] \in {"none", "unknown"}
    /\ job[c].expected \in {NoVersion, pr.version}
    /\ pr' = Asked(job[c])
    /\ effects' = [effects EXCEPT ![c] = 1]
    /\ UNCHANGED <<job, answer>>

Answer(c, a) ==
    /\ job[c] # NoJob
    /\ answer[c] = "none"
    /\ a = "ok" => effects[c] = 1
    /\ a \in {"conflict", "failed"} => effects[c] = 0
    /\ answer' = [answer EXCEPT ![c] = a]
    /\ UNCHANGED <<pr, job, effects>>

Next ==
    \/ \E t \in Titles, rs \in ReviewerSets : Edit(t, rs)
    \/ \E s \in {"MERGED", "DECLINED", "OPEN"} : Move(s)
    \/ Push
    \/ \E c \in Calls :
        \/ \E j \in Jobs : Begin(c, j)
        \/ Change(c)
        \/ \E a \in {"ok", "conflict", "failed", "unknown"} : Answer(c, a)

Spec == Init /\ [][Next]_vars
=============================================================================
