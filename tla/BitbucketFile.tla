--------------------------- MODULE BitbucketFile ----------------------------
(***************************************************************************)
(* GetFile and CommitFile of internal/bitbucket/tools/commits.go and       *)
(* CreateBranch of branches.go, on one path of a repository that people    *)
(* push to, branch and unbranch at the same time.  A caller reads the file *)
(* at a commit, then asks for a commit of its own; only the sourceCommitId *)
(* it hands over, and the server's check of it, stand between the two.     *)
(*                                                                         *)
(* A commit is an index into the history, and stands for the content of    *)
(* the file there.  The server is modelled as the tools meet it: it may    *)
(* refuse anything, and its answer to what it did may be lost, late, empty *)
(* or unusable (5xx, not JSON, too large).  The exchange itself is         *)
(* BitbucketClient's.                                                      *)
(***************************************************************************)
EXTENDS Integers, Sequences

CONSTANTS
    Calls,      \* tool calls
    Branches,   \* branch names
    Blobs,      \* contents of the file, none of them empty
    Binary,     \* those that are not valid UTF-8
    Mangled,    \* what a JSON string makes of bytes that are not UTF-8
    NoFile,     \* a commit at which the path does not exist
    NoField,    \* an input field left out, or the empty string
    Garbage,    \* a contentBase64 that is not base64
    Fresh,      \* fields a caller makes up, right or wrong
    NoJob,
    MaxCommits  \* bound: the history stops growing here

ASSUME ContentsAssumption ==
    /\ Binary \subseteq Blobs
    /\ Blobs # {}
    /\ {Mangled, NoFile, NoField, Garbage} \cap Blobs = {}
    /\ Garbage # NoField
    /\ MaxCommits \in Nat \ {0}

Fields == Blobs \cup {Mangled, NoField, Garbage}

Payloads == [text: Fields, base64: Fields]

\* What a caller makes up as text is a JSON string, so it is text.
ASSUME FreshAssumption ==
    Fresh \subseteq [text: (Blobs \ Binary) \cup {NoField}, base64: Blobs \cup {NoField, Garbage}]

VARIABLES
    commits,  \* the file at each commit of the repository
    tip,      \* the commit each branch points to, 0 when there is no branch
    pc,       \* where each call is
    job,      \* what it was asked to do
    got,      \* what GetFile returned
    pending,  \* its request is on its way to the server
    effects,  \* history: how often the call changed the repository
    answer    \* what the call returned

vars == <<commits, tip, pc, job, got, pending, effects, answer>>

NoCommit == 0    \* no sourceCommitId, or white space

Ids == 1..Len(commits)

GetJobs == [mode: {"get"}, named: Nat, encoding: {"text", "base64"}]

CommitJobs == [mode: {"create", "update"}, branch: Branches, named: Nat,
               source: Branches \cup {NoField}, payload: Payloads, copyOf: Nat]

BranchJobs == [mode: {"branch"}, branch: Branches, named: Nat]

TypeOK ==
    /\ commits \in Seq(Blobs \cup {NoFile})
    /\ tip \in [Branches -> {0} \cup Ids]
    /\ pc \in [Calls -> {"idle", "flight", "done", "dead"}]
    /\ job \in [Calls -> {NoJob} \cup GetJobs \cup CommitJobs \cup BranchJobs]
    /\ got \in [Calls -> Payloads]
    /\ pending \in [Calls -> BOOLEAN]
    /\ effects \in [Calls -> {0, 1}]
    /\ answer \in [Calls -> {"none", "ok", "refused", "unknown"}]

Nothing == [text |-> NoField, base64 |-> NoField]

Init ==
    /\ \E b \in Blobs \cup {NoFile} : commits = <<b>>
    /\ \E main \in Branches : tip = [b \in Branches |-> IF b = main THEN 1 ELSE 0]
    /\ pc = [c \in Calls |-> "idle"]
    /\ job = [c \in Calls |-> NoJob]
    /\ got = [c \in Calls |-> Nothing]
    /\ pending = [c \in Calls |-> FALSE]
    /\ effects = [c \in Calls |-> 0]
    /\ answer = [c \in Calls |-> "none"]

-----------------------------------------------------------------------------
\* People, in the browser or with git.
-----------------------------------------------------------------------------
Push(b, content) ==
    /\ tip[b] # 0 /\ Len(commits) < MaxCommits
    /\ commits' = Append(commits, content)
    /\ tip' = [tip EXCEPT ![b] = Len(commits) + 1]
    /\ UNCHANGED <<pc, job, got, pending, effects, answer>>

DeleteBranch(b) ==
    /\ tip[b] # 0
    /\ tip' = [tip EXCEPT ![b] = 0]
    /\ UNCHANGED <<commits, pc, job, got, pending, effects, answer>>

-----------------------------------------------------------------------------
\* The tools, up to the request.  A call they refuse here changes nothing.
-----------------------------------------------------------------------------
Begin(c, j) ==
    /\ pc[c] = "idle"
    /\ pc' = [pc EXCEPT ![c] = "flight"]
    /\ job' = [job EXCEPT ![c] = j]
    /\ pending' = [pending EXCEPT ![c] = TRUE]
    /\ UNCHANGED <<commits, tip, got, effects, answer>>

GetFile(c, id, encoding) ==
    Begin(c, [mode |-> "get", named |-> id, encoding |-> encoding])

OneContent(p) == (p.text = NoField) # (p.base64 = NoField)

AcceptedWithoutSource(j) ==
    /\ OneContent(j.payload)
    /\ j.mode \in {"create", "update"}
    /\ j.mode = "create" => j.named = NoCommit
    /\ j.payload.base64 # Garbage

AcceptedWithoutMode(j) ==
    /\ OneContent(j.payload)
    /\ j.mode = "update" => j.named # NoCommit
    /\ j.payload.base64 # Garbage

\* The policy of CommitFile.
Accepted(j) ==
    /\ OneContent(j.payload)
    /\ j.mode \in {"create", "update"}
    /\ j.mode = "update" => j.named # NoCommit
    /\ j.mode = "create" => j.named = NoCommit
    /\ j.payload.base64 # Garbage

Content(p) == IF p.base64 # NoField THEN p.base64 ELSE p.text

CommitFile(c, j) == Accepted(j) /\ Begin(c, j)

CreateBranch(c, name, id) ==
    Begin(c, [mode |-> "branch", branch |-> name, named |-> id])

-----------------------------------------------------------------------------
\* The tools, after the request.
-----------------------------------------------------------------------------
Returns(c, a) ==
    /\ pc' = [pc EXCEPT ![c] = "done"]
    /\ answer' = [answer EXCEPT ![c] = a]

DeliveredAsAsked(b, encoding) ==
    IF encoding = "text"
    THEN [text |-> IF b \in Binary THEN Mangled ELSE b, base64 |-> NoField]
    ELSE [text |-> NoField, base64 |-> b]

\* Text only when the bytes are text, whatever was asked for.
Delivered(b, encoding) ==
    IF encoding = "text" /\ b \notin Binary
    THEN [text |-> b, base64 |-> NoField]
    ELSE [text |-> NoField, base64 |-> b]

\* An empty 2xx body, null or a 204 leaves the map nil that CommitFile writes
\* to: the handler panics, and the process with every call in it may be gone.
Panics(c) ==
    /\ job[c].mode \in {"create", "update"}
    /\ pc' \in {[pc EXCEPT ![c] = "dead"],
                [d \in Calls |-> IF pc[d] = "flight" THEN "dead" ELSE pc[d]]}
    /\ UNCHANGED answer

EveryErrorIsRefusal(c, r) ==
    IF pc[c] # "flight" THEN UNCHANGED <<pc, answer>>
    ELSE \/ r \in {"ok", "empty"} /\ Returns(c, "ok")
         \/ r \in {"refused", "unusable"} /\ Returns(c, "refused")

\* r answered a call that may have stopped waiting.
Receive(c, r) ==
    IF pc[c] # "flight" THEN UNCHANGED <<pc, answer>>
    ELSE \/ r = "ok" /\ Returns(c, "ok")
         \/ r = "empty" /\ job[c].mode = "branch" /\ Returns(c, "ok")
         \/ r = "empty" /\ Panics(c)
         \/ r = "unusable" /\ Returns(c, "unknown")
         \/ r = "refused" /\ Returns(c, "refused")

\* A timeout, a cancellation, a lost answer; the request may still arrive.
GiveUp(c) ==
    /\ pc[c] = "flight"
    /\ Returns(c, "unknown")
    /\ UNCHANGED <<commits, tip, job, got, pending, effects>>

-----------------------------------------------------------------------------
\* The server, down to its answer.
-----------------------------------------------------------------------------
Base(j) == IF tip[j.branch] # 0 THEN tip[j.branch]
           ELSE IF j.source # NoField THEN tip[j.source] ELSE 0

\* A file may be added where there is none, or replaced where it still is what
\* it was at the commit named.
Allowed(j) ==
    LET base == Base(j) IN
    /\ base # 0
    /\ IF j.named = NoCommit THEN commits[base] = NoFile
       ELSE commits[base] # NoFile /\ commits[j.named] = commits[base]
    /\ Content(j.payload) # commits[base]

Serves(c) ==
    /\ pending[c]
    /\ pending' = [pending EXCEPT ![c] = FALSE]
    /\ UNCHANGED job

Changes(c) ==
    /\ Serves(c)
    /\ effects' = [effects EXCEPT ![c] = @ + 1]
    /\ \E r \in {"ok", "empty", "unusable"} : Receive(c, r)
    /\ UNCHANGED got

ServeCommit(c) ==
    /\ Changes(c)
    /\ job[c].mode \in {"create", "update"} /\ Len(commits) < MaxCommits
    /\ Allowed(job[c])
    /\ commits' = Append(commits, Content(job[c].payload))
    /\ tip' = [tip EXCEPT ![job[c].branch] = Len(commits) + 1]

ServeBranch(c) ==
    /\ Changes(c)
    /\ job[c].mode = "branch" /\ tip[job[c].branch] = 0
    /\ tip' = [tip EXCEPT ![job[c].branch] = job[c].named]
    /\ UNCHANGED commits

ServeGet(c) ==
    /\ Serves(c)
    /\ job[c].mode = "get" /\ commits[job[c].named] # NoFile
    /\ Receive(c, "ok")
    /\ got' = [got EXCEPT ![c] = Delivered(commits[job[c].named], job[c].encoding)]
    /\ UNCHANGED <<commits, tip, effects>>

Refuse(c) ==
    /\ Serves(c)
    /\ \E r \in {"refused", "unusable"} : Receive(c, r)
    /\ UNCHANGED <<commits, tip, got, effects>>

-----------------------------------------------------------------------------
\* What a caller can put into content and contentBase64: something of its own,
\* or what a GetFile handed out.
Inputs ==
    {[payload |-> p, copyOf |-> NoCommit] : p \in Fresh}
    \cup {[payload |-> got[g], copyOf |-> job[g].named] :
            g \in {d \in Calls : answer[d] = "ok" /\ job[d].mode = "get"}}

Next ==
    \/ \E b \in Branches, content \in Blobs \cup {NoFile} : Push(b, content)
    \/ \E b \in Branches : DeleteBranch(b)
    \/ \E c \in Calls :
        \/ \E id \in Ids, encoding \in {"text", "base64"} : GetFile(c, id, encoding)
        \/ \E b \in Branches, mode \in {"create", "update", "other"},
              id \in {NoCommit} \cup Ids, i \in Inputs :
              \E source \in (Branches \ {b}) \cup {NoField} :
                 CommitFile(c, [mode |-> mode, branch |-> b, named |-> id, source |-> source,
                                payload |-> i.payload, copyOf |-> i.copyOf])
        \/ \E b \in Branches, id \in Ids : CreateBranch(c, b, id)
        \/ ServeCommit(c) \/ ServeBranch(c) \/ ServeGet(c) \/ Refuse(c)
        \/ GiveUp(c)

Spec == Init /\ [][Next]_vars

-----------------------------------------------------------------------------
(* The tool cannot silently overwrite a changed file (SPECS.md:1173): a    *)
(* commit in create mode only ever adds the file to a tree without it, one *)
(* in update mode only replaces the very content the caller named, even    *)
(* when it arrives after the call was given up and people have pushed,     *)
(* deleted or rebranched since.                                            *)
NothingOverwrittenUnseen ==
    [][\A c \in Calls :
        effects'[c] # effects[c] /\ job[c].mode \in {"create", "update"} =>
            LET before == commits[Base(job[c])] IN
            IF job[c].mode = "create" THEN before = NoFile
            ELSE before # NoFile /\ before = commits[job[c].named]]_vars

(* A file that was read at a commit with bitbucket_get_file and handed     *)
(* back to bitbucket_commit_file in the field its encoding names is        *)
(* committed byte for byte, text or not (commits.go:100-104 and 165-193).  *)
RoundTripKeepsBytes ==
    [][\A c \in Calls :
        effects'[c] # effects[c] /\ job[c].mode \in {"create", "update"} =>
            (job[c].copyOf # NoCommit => commits'[Len(commits')] = commits[job[c].copyOf])]_vars

(* Whatever becomes of the answer, what the caller is told stays true: a   *)
(* success has changed the repository, and a refusal never will, by a      *)
(* request still on its way (request.go:78-97, service.go:179-188).  A call *)
(* that died in the panic of commits.go:209 is told nothing.               *)
AnswerIsTrue ==
    \A c \in Calls :
        /\ answer[c] = "ok" /\ job[c].mode # "get" => effects[c] = 1
        /\ answer[c] = "refused" => effects[c] = 0 /\ ~pending[c]
        /\ pc[c] = "dead" => effects[c] = 1 \/ \E d \in Calls \ {c} : pc[d] = "dead"
=============================================================================
