--------------------------- MODULE BitbucketTools ----------------------------
(***************************************************************************)
(* The twenty-seven Bitbucket tools of internal/bitbucket/tools: what      *)
(* register.go promises of each by its annotations, and which requests the *)
(* handler bound to it may send for an input: none, when it refuses it.    *)
(*                                                                         *)
(* An input is reduced to the fields a handler looks at: the repository,   *)
(* a commit, branch or reviewer, a second one, a file path, the number of  *)
(* a pull request, what the call is about (a text, contents, a version),   *)
(* an option, and a flag.  A name is absent, white space, good, or bad: it *)
(* has a NUL, an empty segment or "..", which client.go refuses in a path. *)
(***************************************************************************)
Inputs == [slug: {"absent", "blank", "good"},
           ref: {"absent", "blank", "good", "bad"},
           ref2: {"absent", "good"},
           path: {"absent", "blank", "good", "bad"},
           id: {"zero", "good"},
           what: {"absent", "good", "bad"},
           option: {"absent", "good", "range", "commit", "bad"},
           flag: BOOLEAN]

Given(f) == f \in {"good", "bad"}      \* not white space

encodedPath(parts) == parts \subseteq {"blank", "zero", "good"}

cleanFilePath(f) == f \in {"blank", "good"}

\* "guard": what the request asks the server to check before it replaces or
\* closes anything.
Request(method, guard) == [method |-> method, guard |-> guard]

Checked(ok, method, path, guard) ==
    IF ok /\ encodedPath(path) THEN {Request(method, guard)} ELSE {}

endpoint(in, ok, method, path, guard) ==
    Checked(ok /\ in.slug = "good", method, {in.slug} \cup path, guard)

getJSON(in, ok, path) == endpoint(in, ok, "GET", path, "none")
postJSON(in, ok, path, guard) == endpoint(in, ok, "POST", path, guard)
putJSON(in, ok, path, guard) == endpoint(in, ok, "PUT", path, guard)

\* Neither of these two looks for a white-space slug.
diffSegments(in, ok, base) ==
    Checked(ok /\ (in.path = "absent" \/ cleanFilePath(in.path)), "GET",
            {in.slug} \cup base \cup ({in.path} \ {"absent"}), "none")

RepositoryFileEndpoint(in, ok, method, guard) ==
    Checked(ok /\ cleanFilePath(in.path), method, {in.slug, in.path}, guard)

-----------------------------------------------------------------------------
\* Branches and commits.
GetRepository(in) == getJSON(in, TRUE, {})
ListBranches(in) == getJSON(in, in.option # "bad", {})
GetDefaultBranch(in) == getJSON(in, TRUE, {})
CreateBranch(in) == postJSON(in, Given(in.ref) /\ Given(in.ref2), {}, "none")

GetFile(in) == RepositoryFileEndpoint(in, in.option # "bad", "GET", "none")
ListCommits(in) == getJSON(in, in.option # "bad", {})
GetCommit(in) == getJSON(in, Given(in.ref), {in.ref})
GetCommitChanges(in) == getJSON(in, Given(in.ref), {in.ref})
GetCommitDiff(in) == diffSegments(in, Given(in.ref), {in.ref})

\* "bad": fromRepositorySlug names a project too.
compareq(in) == Given(in.ref) /\ Given(in.ref2) /\ in.option # "bad"

CompareCommits(in) == getJSON(in, compareq(in), {})
CompareChanges(in) == getJSON(in, compareq(in), {})
CompareDiff(in) == diffSegments(in, compareq(in), {})

\* "flag": mode is update, which names the commit it replaces.
CommitFile(in) ==
    RepositoryFileEndpoint(in,
        Given(in.path) /\ Given(in.ref) /\ in.what = "good" /\ in.option # "bad"
            /\ in.flag = Given(in.ref2),
        "PUT", IF in.flag THEN "source" ELSE "create")

-----------------------------------------------------------------------------
\* Pull requests.
ListPullRequests(in) == getJSON(in, in.option # "bad", {})

getPR(in) == getJSON(in, in.id # "zero", {in.id})

GetPullRequest(in) == getPR(in)

\* "what": fromId, which needs a fromType.
GetPullRequestActivities(in) ==
    getJSON(in, in.option # "bad" /\ (in.what # "absent" => in.option # "absent"), {in.id})

GetPullRequestCommits(in) == getJSON(in, TRUE, {in.id})

GetPullRequestChanges(in) ==
    getJSON(in, in.option # "bad" /\ (in.option = "range" => Given(in.ref) /\ Given(in.ref2)),
            {in.id})

GetPullRequestDiff(in) ==
    diffSegments(in, /\ in.option # "bad"
                     /\ in.option = "range" => Given(in.ref) /\ Given(in.ref2)
                     /\ in.option = "commit" => Given(in.ref2), {in.id})

CheckPullRequestMergeability(in) == getJSON(in, TRUE, {in.id})

CreatePullRequest(in) ==
    postJSON(in, Given(in.what) /\ Given(in.ref) /\ Given(in.ref2), {}, "none")

AddPullRequestComment(in) ==
    postJSON(in, Given(in.what) /\ in.option # "bad", {in.id}, "none")

\* "ref": BITBUCKET_USER_SLUG.
SetPullRequestReviewStatus(in) ==
    putJSON(in, Given(in.ref) /\ in.option \notin {"absent", "bad"}, {in.id, in.ref}, "none")

Both(first, second) == IF first = {} THEN {} ELSE first \cup second

transitionWithoutVersion(in) == postJSON(in, TRUE, {in.id}, "none")

\* "what": expectedVersion; without it the version is read first.
transition(in) ==
    LET post == postJSON(in, TRUE, {in.id}, "version") IN
    IF in.what = "absent" THEN Both(getPR(in), post) ELSE post

\* "flag": precheck, on unless it is switched off.
MergePullRequest(in) ==
    IF in.flag THEN Both(CheckPullRequestMergeability(in), transition(in)) ELSE transition(in)

DeclinePullRequest(in) == transition(in)
ReopenPullRequest(in) == transition(in)
UpdatePullRequest(in) == Both(getPR(in), putJSON(in, TRUE, {in.id}, "version"))

-----------------------------------------------------------------------------
\* What the MCP client is told of tool i.
Definitions ==
    <<"readOnly", "readOnly", "readOnly", "additive",
      "readOnly", "readOnly", "readOnly", "readOnly", "readOnly", "readOnly", "readOnly",
      "readOnly", "destructive",
      "readOnly", "readOnly", "readOnly", "readOnly", "readOnly", "readOnly", "readOnly",
      "additive", "additive", "additive", "destructive", "destructive", "destructive",
      "additive">>

\* Register binds handlers to definitions by position and by nothing else.
Register(in) ==
    <<GetRepository(in), ListBranches(in), GetDefaultBranch(in), CreateBranch(in),
      GetFile(in), ListCommits(in), GetCommit(in), GetCommitChanges(in), GetCommitDiff(in),
      CompareCommits(in), CompareChanges(in), CompareDiff(in), CommitFile(in),
      ListPullRequests(in), GetPullRequest(in), GetPullRequestActivities(in),
      GetPullRequestCommits(in), GetPullRequestChanges(in), GetPullRequestDiff(in),
      CheckPullRequestMergeability(in), CreatePullRequest(in), AddPullRequestComment(in),
      SetPullRequestReviewStatus(in), MergePullRequest(in), DeclinePullRequest(in),
      ReopenPullRequest(in), UpdatePullRequest(in)>>

Requests(i) == UNION {Register(in)[i] : in \in Inputs}

\* Every request a tool call can make, with the hint of its tool.
ToolRequests ==
    UNION {{[hint |-> Definitions[i], request |-> r] : r \in Requests(i)} :
              i \in DOMAIN Definitions}
=============================================================================
