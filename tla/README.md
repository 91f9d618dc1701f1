# A verification of atlassian-mcp in TLA+

`atlassian-mcp` is an MCP server over stdio. It gives a coding agent tools for Jira Server 6.4,
Confluence Server and Bitbucket Server 5.10, and comes with an installer that writes the server
into the configuration files of coding agents. The modules here model the parts of it that several
goroutines, several people or an interruption can get wrong. Paths below are relative to the
repository.

## 1. Inventory

### Components

| Component | Code | State | Operations |
|---|---|---|---|
| Session store | `internal/auth/session_store.go` | one credential in an `atomic.Value`, a mutex for writers | `Snapshot`, `Replace`, `ReplaceAfter`, `ReplaceIfUnchanged` |
| Jira session | `internal/jira/module.go`, `internal/jira/tools/service.go` | the module's store; the environment | `jira_authenticate`, `AutoAuthenticate`, `requireCredential` of every business tool |
| Jira tools | `internal/jira/tools/service.go`, `register.go` | none of their own; the issue in Jira | thirty handlers: ten reads, single writes, transitions by id or name, read-back after a write; bound to definitions by position |
| Jira client | `internal/jira/client/client.go` | none | one HTTP exchange per request, never retried |
| Confluence session and read tools | `internal/confluence/...` | the module's store; the environment | `confluence_authenticate`, `AutoAuthenticate`, eight read tools of one GET each |
| Bitbucket client | `internal/bitbucket/client/request.go` | none; a fixed bearer token | `do`/`once`: reads tried three times, writes once |
| Bitbucket tools | `internal/bitbucket/tools/*.go` | none; pull requests, branches and files in Bitbucket | twenty-seven handlers: read-then-write on pull requests, files read and committed, single requests elsewhere |
| Startup | `cmd/atlassian-mcp/main.go`, `internal/app`, `internal/config`, `*/config.go`, `*/module.go`, `internal/transport` | status of each module | `LoadShared`, `Configure`, `RegisterEnabled`, two goroutines for automatic authentication |
| Installer (bash) | `scripts/install-from-remote.sh` | configuration files, their backups and temporary files, the claude registration | `configure_agents`, `rollback_configs`, `cleanup_backups`, download and checksum, wrapper |
| Installer (PowerShell) | `scripts/install-from-remote.ps1` | the same | the same, with other error semantics |
| Result envelope, redaction, release workflow, agent skills | `internal/result`, `internal/observability`, `.github`, `.agents`, `.harness-core` | none | formatting, tooling |

### How they interact

The MCP library runs every tool call in a goroutine of its own and `main` starts one more for each
session-based module. Goroutines of one module share nothing but its session store. What they share
beyond that is the upstream server, which other people use too: a tool that reads and then writes is
interleaved with all of them. Calls go tool → service → client → `net/http` → server; a call is
abandoned when its context is cancelled or the HTTP timeout expires, and the server may carry out
the request all the same. The installer shares its files with the agents that read them.

### What is hard

* **Sessions.** Authentication takes one or two exchanges and replaces the credential afterwards.
  Meanwhile other calls authenticate, the startup attempt is under way, and business calls hold an
  older snapshot.
* **Writes over an unreliable connection.** An answer can be lost, late or unusable; a retry can do a
  write twice, and an error can be reported as a refusal although the write happens later.
* **Read-then-write.** A version, a transition's name, a set of reviewers or a mergeability is read in
  one request and relied on in another.
* **Calls that build on each other.** A caller reads a file with one tool and commits it with another;
  in between people push, delete branches, and an earlier commit of its own may still arrive.
* **Partial failure.** The write succeeds and the read-back fails. The commit succeeds and the handler
  panics on its empty answer. One module's settings are broken. One of several configuration files
  cannot be written. A shell function fails where `errexit` is off.
* **Tables.** Sixty-six tools are bound to their names and annotations by position alone.
* **Interruption.** The installer is killed between any two commands and started again.

## 2. Modules

Abstract specifications say what a component promises; the detailed modules follow the code.

| Module | Follows | Implements | Proofs |
|---|---|---|---|
| `SessionStore` | `session_store.go`, one action per instruction others can observe | `CredentialRegister`: an atomic register | second part of `ConfluenceSessionProofs` |
| `JiraSession` | `Authenticate`, `AutoAuthenticate`, `requireCredential` | `ValidatedSession`: starts empty, only accepted credentials, never emptied | `JiraSessionProofs` |
| `ConfluenceTools` | the nine handlers and their registration | – | part of the next |
| `ConfluenceSession` | the session of Confluence with its commit closures; extends `ConfluenceTools` | `ValidatedSession` | first part of `ConfluenceSessionProofs` |
| `BitbucketTools` | the twenty-seven handlers, the endpoints they may not build, and their registration | – | part of the next |
| `BitbucketClient` | `do` and `once` with retries, sleeps and cancellation, for every request of `BitbucketTools` | `UpstreamCall`: a write at most once, success true, refusal final | first part of `ServerProofs` |
| `BitbucketFile` | `GetFile`, `CommitFile` and `CreateBranch` on one path of a repository others work on | – | `BitbucketFileProofs` |
| `BitbucketPullRequest` | merge, decline, reopen and update | `SharedPullRequest`: one indivisible edit of exactly the named fields; and `UpstreamCall` | `BitbucketPullRequestProofs` |
| `JiraTools` | the thirty handlers and their registration | – | part of the next |
| `JiraMutation` | every write of `JiraTools`, transitions, `refreshAfterMutation`, `resolveTransitionName` | `UpstreamCall` | `JiraMutationProofs` |
| `Startup` | `main`, the module registry, the three configurations, the HTTP client, the startup logins | – | second part of `ServerProofs` |
| `InstallerRelease` | the bash installer outside `configure_agents`: arguments, download, checksum, program, wrapper, EXIT trap | – | `InstallerReleaseProofs` |
| `Installer` | `configure_agents` and everything it calls, rollback, cleanup | `AllOrNothing`: a run configures every file it was asked to, or leaves all as it found them | `InstallerProofs` |

Two proof modules hold the theorems of two modules each, one after the other: they share no variable, so
each keeps names of its own (`StoreSpec`, `storeVars`, `point` for the store; `ServerSpec`, `serverVars`,
`phase` for startup).

The modules build on each other by abstraction. The two sessions use the store as one atomic variable
because `SessionStore` implements `CredentialRegister`. `BitbucketPullRequest` sends its writes the way
`UpstreamCall` allows, which `BitbucketClient` implements. `JiraMutation` starts behind the credential
check that `JiraSession` models, and `Startup` knows a login only by the requests it has left: what the
answers do to the session is in the session modules. `InstallerRelease` takes `configure_agents` as one step whose inside is
`Installer`; the two differ in `errexit`, which bash switches off in the second. An `MC...` module only names model values and gives constants that a
configuration cannot write down.

### How state and actions correspond to the code

* **`SessionStore`.** `value` and `mu` are the two fields. A method is cut where another goroutine can
  come in between: `Lock`, the load with its comparison, `Store`, the deferred `Unlock`. `Snapshot` is
  one lock-free load. `Validate` is the caller's function of `ReplaceAfter`, run before the lock.
* **`JiraSession`.** `session` is the store, `environ` the two variables, `cred` the candidate of an
  attempt or the snapshot of a business call. A goroutine is interrupted between exchanges and between
  the last answer and `Replace`. An answer is an error or ok; an empty 2xx, which `Client.do` returns from
  before decoding, is ok. `BusinessCall` is `requireCredential`
  followed by up to three requests with one snapshot: look up a transition, write, read back.
  `onWire` and `accepted` are history.
* **`JiraTools`, `BitbucketTools`, `ConfluenceTools`.** A handler is a function from an input to the
  request it sends, or none. An input is reduced to what the handlers look at: whether a field is absent,
  white space, good, or has characters the code refuses. `Definitions` and `Register` are the two tables
  of `register.go`, in their order; the set of calls the other modules start from is what the two give
  together. A path is good only if every name that goes into it was checked.
* **`ConfluenceSession`.** One probe, whose answer must name a user of type `known`. `Commit` has the two
  closures: replace, or `ReplaceIfUnchanged(candidate, nil)`. `origin` is history; `hint` is what the client was told
  of the tool it runs.
* **`BitbucketClient`.** `attempt` is the loop variable of `do`; `Fails` is its tail; `Send`,
  `TransportError` and `Receive` are `once` in the order of its returns (204 before the body, body
  before the status, decoder last; a 4xx whose body is unreadable or too large is no refusal). `Serve` and `ServeLate` are the server, `Cancel` the MCP client.
* **`BitbucketPullRequest`.** `pr` is the server's pull request; `Edit`, `Move` and `Push` are other
  people. `Precheck`, `Read`, `Send`, `Receive` and `GiveUp` are the steps of a call; `Request` builds
  the body or the query. `Accepts` and `Written` are the server's optimistic lock, taken from how the
  code relies on it.
* **`BitbucketFile`.** A commit is an index into the history and stands for the content of the file there.
  `GetFile` names a commit; `CommitFile` names the branch, the commit its content is based on, and what it
  was given as content. `Delivered` is the choice between text and base64, where a JSON string would mangle
  bytes that are not UTF-8. `Panics` is the write to the nil map after an empty answer: one call is gone, or
  the process with all of them, since the repository does not say what the MCP library does with it.
* **`JiraMutation`.** The issue is a revision number and the set of transitions its workflow offers.
  A tool call is a writing request of `JiraTools`, with what was promised of its tool, or a transition.
  An answer is ok, refused (4xx), an error (5xx, unreadable, too large) or odd, a 2xx that is not JSON:
  `Client.do` fails on that one exactly when the tool gave it something to decode into (`Succeeds`).
  With `Redirects`, a write can be answered 2xx without having been one. `acknowledged` is history: the tool
  has had Jira's success in hand, which a reply that was lost on its way is not.
* **`Startup`.** Each module has its own variables, which it needs or which only ask for it, and a CA file
  that may change at any time; `ValidateStaticConfig` looks at the file twice, in `LoadConfig` and in
  `NewHTTPClient`. `Configure` and `RegisterEnabled` are the registry's two loops, `Start` the goroutines,
  `RunReturns` the end of `server.Run`.
* **`InstallerRelease`.** `Runs` are invocations, which may overlap; `place` is what stands where the
  program and the wrapper go, and everything else is a run's own, because temporary names carry its
  process id. `Fails` is any command that fails while `errexit` is on, and `die`; `Exit` is the trap;
  `Kill` is the end the trap does not see. `StartCopy`, `FinishCopy` and `Rename` are `atomic_copy`, first
  for the program and then for the wrapper.
* **`Installer`.** A file is abstracted to what the script tells apart (absent, foreign, conflicting,
  malformed, a directory, current) or `partial` when half-written. `Prepare` is everything that happens
  before a file's backup, in a subshell whose `die` only fails the function. `Backup`, `StartCopy`,
  `FinishCopy` and `Rename` are `backup_config` and `atomic_copy`. `todo` is a set, and `turn` the order of
  `configure_agents`. `RequireClaude` is the one `die` that
  is not in a subshell: it ends the script. `Kill` can come anywhere, `Rerun` after any end.
* **`AllOrNothing`.** `file` and `before` are what the configuration files hold and held when the run began,
  `selected` the agents it was asked for. A file changes in one piece, to `current` or back to what it was;
  a run may succeed once all its files are current, fail once all are as it found them, and be killed
  anywhere. `Rename` is the abstract `Configure`, `Restore` the abstract `Undo`; a `die` in
  `require_claude_cli` counts as a failure (`outcome`), and the backups, the temporary files and the rest of
  `atomic_copy` are stutters.

## 3. Runs

| Run | What it asks | Bounds |
|---|---|---|
| `session_store` | Is the store an atomic register? Does every call return? | 2 goroutines, 2 credentials |
| `jira_session` | Do only accepted credentials become active and reach Jira, one per call? | 2 tool goroutines plus startup, 3 names, 2 secrets, 2 environments, 3 kinds of input, 3 requests |
| `confluence_session` | Only known users, does an explicit session stick, and do read-only tools leave it alone? | the same, one request per call, all arguments of the nine tools |
| `bitbucket_client` | No unannounced write, writes at most once, refusals final, every call ends | 2 calls, every input of the 27 tools, 3 attempts as in the code |
| `bitbucket_file` | Nothing overwritten unseen, bytes kept, outcomes true | 2 calls, 2 branches, a text and a binary content, 3 commits |
| `bitbucket_pull_request` | Is read-then-write one atomic edit? | 2 calls, 7 kinds of job, 1 edit by people |
| `bitbucket_merge_precheck` | Does a veto stop a merge? (violated) | as above |
| `jira_mutation` | No unannounced write, no guess, "applied" exactly when acknowledged, no stale read-back, refusals final | 2 calls, every input of the 30 tools, 3 transitions of 2 names, 1 change by people |
| `jira_mutation_redirect` | Is "applied" true when Jira redirects? (violated) | as above, `Redirects` TRUE |
| `installer_release` | Only verified downloads, what is registered runs, no download left behind | 2 overlapping runs, 2 contents of a file, a failure, interruption or kill anywhere |
| `installer` | All or nothing, rollback, originals kept, success complete, termination | 2 selections of 3 agents, every content of their files, claude on the PATH or not, 2 runs, each possibly killed |
| `startup` | Modules isolated, every startup login ends | 3 modules, every subset of Jira's and Bitbucket's variables, 3 states of each CA file, 4 of the timeout |

**Why the bounds are enough.** Two goroutines or calls give every race of two operations, and the
invariants relate at most two of them; the theorems remove the bound for all modules.
In the store two credentials let one goroutine change the value away and back under another. Three
attempts are the code's own number. `MaxVersion` and `MaxRevision` bound only what other people do:
tool calls raise the counters further, so each call meets a version that is older, equal and newer than
the one it read. Three transitions of two names give names that stand for none, one and two of the
offered. In the installer three agents give a failure before, between and after successful ones; the
selections are the claude command, which may be missing, before two files that are merged, and two files
that are replaced as a whole before one that is merged; the second run starts from whatever the first left. In `bitbucket_file` two calls are a read and a commit built on it, or two
commits racing; three commits are the one read, one that came in between, and one's own. Confluence's
variables are fixed in `startup`, so that the other two modules have a neighbour that is simply good, and
Bitbucket's needed variables are two of its three. The tools are no bounded instance: their inputs are
small sets and every one is used.

**Deadlock** is checked except where calls really end (`bitbucket_client`, `bitbucket_pull_request`
keeps `Push` enabled, `bitbucket_file`, `jira_mutation`, `installer_release`, `installer`, and `startup`,
whose process exits): a call is a one-shot there, and when every call has
returned nothing is left to do.

**Fairness.** Weak fairness of a goroutine's own next step: the Go runtime runs every goroutine, and
`transport.NewHTTPClient` gives every exchange a positive timeout (`LoadShared` refuses others), so
waiting for a server always ends. Strong fairness of `Lock`: `sync.Mutex` hands itself to a waiter that
starves. The shell runs its next command. Nothing is assumed of servers, of people, of the MCP client
or of whoever kills and restarts the installer.

### What the violated runs show

* `bitbucket_merge_precheck`: `canMerge: false` is a successful precheck and the merge is posted. The
  Bitbucket guide says the precheck stops on a veto (`pull_requests.go:295`). The server still refuses
  such a merge, unless the veto disappears in between.
* `jira_mutation_redirect`: a PUT, POST or DELETE answered with 301, 302 or 303 is followed as a GET, and
  its 200 becomes `mutationApplied: true` (`client.go:138`). A plain `http` base URL behind a redirect to
  `https` is enough; `LoadConfig` accepts one.

Two disagreements are cases of the `installer` run's own module, outside its configuration:

* with `CopiesFail = TRUE`, TLC violates `ImplementsAllOrNothing`, and within it `ReadersSeeWholeFiles`,
  which the run does not list because all or nothing implies it. `configure_agents` is the condition of an
  `if`, so `errexit` is off in all of it; a failing `cp` in `atomic_copy` is followed by the `mv` of what it
  left, and the run reports success (`install-from-remote.sh:215`), although line 207 says "so readers never
  see partial content";
* with `FALSE` in `ClaudeCli` and Codex selected with Claude, TLC violates `FailureRestoresConfigs`. With
  `--agents both` in local or user scope and no claude on the PATH, the Codex file is already written when
  `require_claude_cli` exits the script; it stays, and so does its backup (`:442`), although line 484 says "caller performs rollback on any
  failure".

The theorems about `Installer` carry the two as assumptions; the second as `NoCodexBeforeAMissingClaude`,
so that they hold for every other selection on a machine without claude.

One more has no property: a 204, `null` or an empty body in answer to a commit makes `CommitFile` write to a
nil map (`internal/bitbucket/tools/commits.go:209`). `BitbucketFile` contains the panic
(`Panics`): the commit is made, and its caller, perhaps others with it, is told nothing. No property forbids
that, and the repository does not say what it expects; what the run checks is said of calls that are answered.

Four more disagreements have no run. An empty 2xx of `GET /myself` activates a credential, where SPECS.md
7.2 wants the user parsed (`internal/jira/tools/service.go:349`, `internal/jira/client/client.go:143,157`). `docs/decisions/0006` says both startup attempts call
`Authenticate`; Confluence's calls `AuthenticateIfSessionUnchanged` (`internal/confluence/module.go:69`),
which is what `ExplicitSessionSticks` depends on. SPECS.md 9.4 describes retries of Jira reads; the
client has none. And when an agent fails after `configure_claude_cli`, the claude registration is not
put back: `registered` is no part of what the rollback restores.

One gap is no disagreement with any line: `atomic_copy` does not refuse a directory in the program's place,
as `write_file_atomically` does for every other file. `mv` then moves the program into it and the run
reports success; `WhatIsRegisteredRuns` and `EndsCleanly` name it as their exception.

## 4. Proofs

TLAPS proves, for any number of goroutines, calls, credentials, attempts, jobs, transitions and runs:

| Theorem | Says |
|---|---|
| `TypeCorrect`, `StoreTypeCorrect`, `ServerTypeCorrect` | the type invariant of each module |
| `ComparisonCorrect`, `NeverEmptied`, `StoreImplementsRegister` | the store |
| `ActiveCorrect`, `BusinessAuthenticated`, `Implements` (both sessions), `OneIdentity` (Jira), `ExplicitSticks`, `ReadOnlyKeepsTheSession` (Confluence) | the sessions |
| `AnnouncedWrites`, `AtMostOnce`, `DefiniteRefusal`, `CancelStops`, `Implements` | the Bitbucket client and tools; the last assumes `~Redirects` |
| `AnswersStayTrue`, `NothingIsOverwrittenUnseen`, `RoundTripsKeepBytes` | files and branches |
| `AnswersAreTrue`, `ActsOnSeen`, `OmittedSurvive`, `Implements`, `KeepsUpstreamCall` | pull requests |
| `AnnouncedWrites`, `NeverGuessing`, `AcknowledgedApplied`, `ReadBackIsFresh`, `Implements` | Jira tools and mutations; the last two assume `~Redirects` |
| `EachModuleForItself` | startup |
| `OnlyVerified`, `RegisteredRuns`, `CleanEnds` | the installer outside `configure_agents` |
| `WholeFiles`, `SuccessIsComplete`, `OriginalsKept`, `FailureRestores`, `Implements` | `configure_agents`; all assume `~CopiesFail`, the last two also `NoCodexBeforeAMissingClaude` |
| `CallsGetShorter` (Bitbucket client, both sessions), `StoreCallsGetShorter`, `StartupGetsShorter`, `RunsGetShorter` (both installers) | nothing runs in circles |

Assumptions are the named `ASSUME`s of the modules: sentinels differ from real values, sets of inputs
are sets of inputs, bounds are natural numbers, what a caller makes up as text is text, and every module
needs some variable (else nobody could leave it out). Each is evaluated by TLC in the module's run.

**The argument of each.**

* *Store.* The mutex is held exactly by the goroutine between `Lock` and `Unlock`, so the value cannot
  change between a comparison and its store. The linearization points are the atomic load, the failed
  validation, the failed comparison and the store.
* *Sessions.* A goroutine at `commit` carries an accepted candidate, and one at `request` carries a
  snapshot that was accepted when taken; `accepted` only grows. For `OneIdentity` the wire history of a
  call holds nothing but its own credential. For `ExplicitSticks` the origin is `none` exactly when the
  session is empty, so the startup commit cannot find an explicit one.
* *Client.* The invariant counts: effects, plus a late request, plus an attempt in flight never exceed
  one for a write, and a refusal is only returned by a call with no unserved attempt. A read has no
  effects at all.
* *Files.* A job that a tool let through is faithful: it names commits that exist, carries exactly one
  content, and if that was taken over from a `GetFile`, it is byte for byte what the named commit holds.
  That survives every step because the history only grows. The lemma under it (`ContentOfDelivered`) is that
  `CommitFile` makes of what `GetFile` hands out, as text or as base64, the blob it was made from. The server
  takes a commit only if the branch still holds the version the caller named.
* *Pull requests.* A request on the wire was built from what its call saw; a version identifies
  everything about the pull request except its mergeability; `seen` is never newer than `pr`. So a
  request the server accepts carries the present version, and then `seen` is the present pull request.
  Without the link from version to content the update property is not inductive. `KeepsUpstreamCall`
  goes by way of the abstract edit: `SharedPullRequest` implements `UpstreamCall`, so what a caller may
  conclude from an answer is the same whether a tool sends one request or reads first.
* *Jira.* A call's write is on the wire at most once, in flight or after the call gave up; `made` is at most
  the revision; a 2xx without an effect does not exist when nothing is redirected. A call is at its read-back
  exactly when it holds Jira's success and has not reported it, so `applied` and `acknowledged` agree at the
  end of every call, redirects or not.
* *Tools.* That every call of `Register` keeps what `Definitions` promises is decided handler by handler,
  for every input; an invariant then ties the request a call makes to the tool it was made by.
* *Startup.* The registry's loop is the induction: for each module it has passed, `status` is `enabled`
  exactly when the module's own settings are good, and the CA file of a module it has not reached has not
  been looked at (`ConfiguredSoFar`). A setting that is half-loaded is one of the module at hand. So
  nothing a module reads can decide about another, although they share one loop.
* *Installer, the rest.* What is built was verified, what is renamed is a finished copy (this is where `errexit` is
  needed), and a run that has reached the wrapper has put its program in place. Places never go back to
  absent, so what one run relies on survives whatever the others do.
* *configure_agents.* While a run is under way, a file it has registered is in its backup as the run found
  it, and a file it has not is as it was; only the agent at hand can be registered and unfinished. That is
  the strengthening: without it neither the rollback nor a kill could be said to leave the originals. A
  run that is killed keeps what held at that moment, because nothing moves until the next one starts. For a
  run that dies at the claude command, the order of `configure_agents` counts: what is done comes before
  what is to do, and only Codex comes before claude, so without Codex such a run has done nothing yet.
* *Nothing runs in circles.* Each call, run and startup has a measure, a natural number, that every step of
  its own decreases and nobody else's step increases: retries count the attempts left, rollback and cleanup
  the agents left. That is the safety half of `EveryCallReturns`, `EveryRunEnds` and `EveryLoginEnds`, for
  every bound. The other half, that some step is always possible and that fairness takes it, is TLC's.

**Model-checked only.** Liveness and everything about fairness (`EveryCallReturns`, `EveryRunEnds`,
`EveryLoginEnds`), which is outside the prover's reach. Every other property of a passing run is the
statement of a theorem.
**Proved only**, without a run of their own because a property the runs check implies them or the theorem is
cheaper: `StoreTypeOK`, `ComparisonStillHolds` and `NeverEmptiedAgain` of the store, `ActiveWasAccepted`,
`ActiveWasKnown` and `BusinessRequestsAreAuthenticated` of the sessions, `TypeOK`, `WriteTakesEffectAtMostOnce`
and `RefusalIsDefinite` of the client, `AnswerIsTrue` and `ImplementsUpstreamCall` of pull requests,
`TypeOK` of Jira mutations, `ReadersSeeWholeFiles` of `configure_agents`, and the measures.
No proof by induction over data and no recursive operator is needed.

## 5. Not modelled

* The text of URLs, queries, headers, bodies and results; redaction and logging: formatting. Of the
  encodings only what the properties tell apart is here: which names a path refuses, and that text which is
  no UTF-8 does not survive a JSON string.
* What is in the fields of a Jira issue, a component or a comment: a revision number stands for it.
* Redirects of reads. Redirected Bitbucket writes are in `BitbucketClient` (`Redirects`), whose refinement does
  not survive them for the reason that `jira_mutation_redirect` shows; the run has them switched off, and
  `BitbucketPullRequest` and `BitbucketFile` are above a server that does not redirect.
* `transition`, when the pull request's answer has no version, ends like a failed read.
* The MCP library and the schemas; the release workflow; the agent skills under `.agents`, `.harness-core`
  and `.codex`.
* The PowerShell installer. It does what the bash one does with exceptions in place of exit codes; a module
  for it would repeat `Installer` with another error semantics.
* In the installer: the text of the wrapper and the rules its arguments must meet, the temporary file the
  wrapper is written to first, a failing `mv` during rollback, and other programs writing the same files.
* Liveness of Confluence calls under fairness: the shape is Jira's, with fewer exchanges. That a call never
  starts over is proved (`CallsGetShorter`).
* In `Startup`: the version flag, the other shared settings (checked like the timeout), and TLS.

## 6. Plan

Done: sessions and their store, all sixty-six tools, the Bitbucket client, pull requests, files and
branches, Jira mutations, startup, both phases of the bash installer, and the proofs above. Left, most
useful first:

1. **Progress.** That whatever is running can take a step, with the guards written out instead of
   `ENABLED`; with the measures, that leaves fairness alone to TLC.
2. **An abstract file.** `BitbucketFile` serves and receives in one step, so its calls are no direct
   refinement of `UpstreamCall`; a history that only grows by commits on what was seen would be its promise.
3. **PowerShell installer.** Its rollback and its error semantics beside the first.
4. **Functions.** `normalizeReviewers`, `Redact` and the participant filters, each against a reference
   definition over small inputs.
