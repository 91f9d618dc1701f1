------------------------- MODULE BitbucketFileProofs -------------------------
(***************************************************************************)
(* Files read and committed for any number of calls, branches, contents    *)
(* and commits.  The inductive invariant follows a job from the moment a   *)
(* tool lets it through: it names commits that exist, it carries a content *)
(* it may carry, and what it took over from a GetFile is still, byte for   *)
(* byte, what the named commit holds, because the history only grows.      *)
(***************************************************************************)
EXTENDS BitbucketFile, TLAPS

IsCommit(j) == j.mode \in {"create", "update"}

CommitIsFaithful(j) ==
    /\ Accepted(j)
    /\ Content(j.payload) \in Blobs
    /\ j.copyOf # NoCommit => j.copyOf \in Ids /\ Content(j.payload) = commits[j.copyOf]

JobsAreFaithful ==
    \A c \in Calls : pc[c] # "idle" =>
        /\ job[c] \in GetJobs \cup CommitJobs \cup BranchJobs
        /\ job[c].mode \in {"get", "branch"} => job[c].named \in Ids
        /\ IsCommit(job[c]) => CommitIsFaithful(job[c])

DeliveredIsTheFile ==
    \A c \in Calls : answer[c] = "ok" /\ job[c].mode = "get" =>
        /\ commits[job[c].named] \in Blobs
        /\ got[c] = Delivered(commits[job[c].named], job[c].encoding)

ServedAtMostOnce ==
    \A c \in Calls :
        /\ pc[c] = "idle" => ~pending[c] /\ effects[c] = 0
        /\ pc[c] \in {"idle", "flight"} => answer[c] = "none"
        /\ pending[c] => effects[c] = 0 /\ answer[c] # "ok"

IInv ==
    /\ TypeOK
    /\ JobsAreFaithful
    /\ DeliveredIsTheFile
    /\ ServedAtMostOnce
    /\ AnswerIsTrue

\* What GetFile hands out is what CommitFile makes a commit of, whichever of
\* its two fields the caller has to copy it to.
LEMMA ContentOfDelivered ==
  ASSUME NEW b \in Blobs, NEW encoding
  PROVE  /\ OneContent(Delivered(b, encoding))
         /\ Content(Delivered(b, encoding)) = b
         /\ Delivered(b, encoding) \in [text: (Blobs \ Binary) \cup {NoField},
                                        base64: Blobs \cup {NoField, Garbage}]
BY ContentsAssumption DEF Delivered, Content, OneContent

\* An accepted commit of a payload that callers can have carries a blob.
LEMMA AcceptedIsABlob ==
  ASSUME NEW j, Accepted(j),
         j.payload \in [text: (Blobs \ Binary) \cup {NoField},
                        base64: Blobs \cup {NoField, Garbage}]
  PROVE  Content(j.payload) \in Blobs
BY DEF Accepted, OneContent, Content

LEMMA HistoryGrows ==
  ASSUME TypeOK, [Next]_vars
  PROVE  /\ Len(commits) \in Nat /\ Len(commits') \in Nat
         /\ Ids \subseteq Ids'
         /\ \A n \in Ids : commits'[n] = commits[n]
<1>1. commits' = commits \/ \E b : commits' = Append(commits, b)
  BY DEF Next, vars, Push, DeleteBranch, GetFile, CommitFile, CreateBranch, Begin,
         ServeCommit, ServeBranch, ServeGet, Refuse, GiveUp
<1> QED
  BY <1>1 DEF Ids, TypeOK

LEMMA InitEstablishesIInv == Init => IInv
<1> SUFFICES ASSUME Init PROVE IInv
  OBVIOUS
<1>1. TypeOK
  BY DEF Init, TypeOK, Ids, Nothing, Payloads, Fields
<1>2. JobsAreFaithful /\ DeliveredIsTheFile /\ ServedAtMostOnce /\ AnswerIsTrue
  BY DEF Init, JobsAreFaithful, DeliveredIsTheFile, ServedAtMostOnce, AnswerIsTrue
<1> QED
  BY <1>1, <1>2 DEF IInv

\* What an answer can do: nothing to a call that has stopped waiting, one
\* outcome to one that has not, and a panic that may take others with it.
LEMMA ReceiveOutcomes ==
  ASSUME TypeOK, NEW c \in Calls, NEW r, Receive(c, r)
  PROVE  /\ pc' \in [Calls -> {"idle", "flight", "done", "dead"}]
         /\ answer' \in [Calls -> {"none", "ok", "refused", "unknown"}]
         /\ \A d \in Calls : pc'[d] # pc[d] => pc[d] = "flight" /\ pc'[d] \in {"done", "dead"}
         /\ \A d \in Calls : pc'[d] = "dead" /\ pc[d] # "dead" => IsCommit(job[c]) /\ pc'[c] = "dead"
         /\ \A d \in Calls : answer'[d] # answer[d] => d = c /\ pc[c] = "flight" /\ pc'[c] = "done"
         /\ answer'[c] = "ok" => answer[c] = "ok" \/ r \in {"ok", "empty"}
         /\ answer'[c] = "refused" => answer[c] = "refused" \/ r = "refused"
BY DEF Receive, Returns, Panics, TypeOK, IsCommit

\* A job stays faithful as long as it is the same: its commits stay what they are.
LEMMA SameJobsStayFaithful ==
  ASSUME IInv, [Next]_vars, UNCHANGED job, \A c \in Calls : pc'[c] = "idle" <=> pc[c] = "idle"
  PROVE  JobsAreFaithful'
<1> SUFFICES ASSUME NEW c \in Calls, pc[c] # "idle"
             PROVE  /\ job[c] \in GetJobs \cup CommitJobs \cup BranchJobs
                    /\ job[c].mode \in {"get", "branch"} => job[c].named \in Ids'
                    /\ IsCommit(job[c]) => CommitIsFaithful(job[c])'
  BY DEF JobsAreFaithful, IsCommit
<1>1. /\ job[c] \in GetJobs \cup CommitJobs \cup BranchJobs
      /\ job[c].mode \in {"get", "branch"} => job[c].named \in Ids
      /\ IsCommit(job[c]) => CommitIsFaithful(job[c])
  BY DEF IInv, JobsAreFaithful
<1>2. Ids \subseteq Ids' /\ \A n \in Ids : commits'[n] = commits[n]
  BY HistoryGrows DEF IInv
<1> QED
  BY <1>1, <1>2 DEF CommitIsFaithful, Accepted, NoCommit

\* A tool lets a job through that is faithful.
LEMMA BeginPreservesIInv ==
  ASSUME IInv, NEW c \in Calls, NEW j \in GetJobs \cup CommitJobs \cup BranchJobs,
         j.mode \in {"get", "branch"} => j.named \in Ids,
         IsCommit(j) => CommitIsFaithful(j),
         Begin(c, j)
  PROVE  IInv'
<1> USE DEF IInv, Begin
<1>1. TypeOK'
  BY DEF TypeOK, Ids
<1>2. JobsAreFaithful'
  BY DEF JobsAreFaithful, TypeOK, IsCommit, CommitIsFaithful, Ids
<1>3. DeliveredIsTheFile'
  BY DEF DeliveredIsTheFile, ServedAtMostOnce, TypeOK
<1>4. ServedAtMostOnce' /\ AnswerIsTrue'
  BY DEF ServedAtMostOnce, AnswerIsTrue, TypeOK
<1> QED
  BY <1>1, <1>2, <1>3, <1>4

\* What a caller can copy is the file at the commit it names.
LEMMA InputsAreFaithful ==
  ASSUME IInv, NEW i \in Inputs
  PROVE  /\ i.payload \in [text: (Blobs \ Binary) \cup {NoField},
                           base64: Blobs \cup {NoField, Garbage}]
         /\ i.copyOf \in Nat
         /\ i.copyOf # NoCommit => i.copyOf \in Ids /\ Content(i.payload) = commits[i.copyOf]
<1>1. CASE \E p \in Fresh : i = [payload |-> p, copyOf |-> NoCommit]
  BY <1>1, FreshAssumption DEF NoCommit
<1>2. ASSUME NEW g \in Calls, answer[g] = "ok", job[g].mode = "get",
             i = [payload |-> got[g], copyOf |-> job[g].named]
      PROVE  /\ i.payload \in [text: (Blobs \ Binary) \cup {NoField},
                               base64: Blobs \cup {NoField, Garbage}]
             /\ i.copyOf \in Ids /\ Content(i.payload) = commits[i.copyOf]
  <2>1. pc[g] # "idle"
    BY <1>2 DEF IInv, ServedAtMostOnce
  <2>2. job[g].named \in Ids
    BY <1>2, <2>1 DEF IInv, JobsAreFaithful
  <2>3. commits[job[g].named] \in Blobs
        /\ got[g] = Delivered(commits[job[g].named], job[g].encoding)
    BY <1>2 DEF IInv, DeliveredIsTheFile
  <2> QED
    BY <1>2, <2>2, <2>3, ContentOfDelivered
<1> QED
  BY <1>1, <1>2 DEF Inputs, Ids, NoCommit

LEMMA CommitFilePreservesIInv ==
  ASSUME IInv, NEW c \in Calls, NEW b \in Branches, NEW mode \in {"create", "update", "other"},
         NEW id \in {NoCommit} \cup Ids, NEW i \in Inputs,
         NEW source \in (Branches \ {b}) \cup {NoField},
         CommitFile(c, [mode |-> mode, branch |-> b, named |-> id, source |-> source,
                        payload |-> i.payload, copyOf |-> i.copyOf])
  PROVE  IInv'
<1> DEFINE j == [mode |-> mode, branch |-> b, named |-> id, source |-> source,
                 payload |-> i.payload, copyOf |-> i.copyOf]
<1>1. Accepted(j) /\ Begin(c, j)
  BY DEF CommitFile
<1>2. /\ i.payload \in [text: (Blobs \ Binary) \cup {NoField},
                        base64: Blobs \cup {NoField, Garbage}]
      /\ i.copyOf \in Nat
      /\ i.copyOf # NoCommit => i.copyOf \in Ids /\ Content(i.payload) = commits[i.copyOf]
  BY InputsAreFaithful
<1>3. j \in CommitJobs /\ IsCommit(j)
  BY <1>1, <1>2 DEF Accepted, CommitJobs, IsCommit, Payloads, Fields, NoCommit, Ids
<1>4. CommitIsFaithful(j)
  <2>1. Content(j.payload) \in Blobs
    BY <1>1, <1>2, AcceptedIsABlob
  <2> QED
    BY <1>1, <1>2, <2>1 DEF CommitIsFaithful
<1> QED
  BY <1>1, <1>3, <1>4, BeginPreservesIInv DEF IsCommit

\* The server's side: whatever it did for the call, its request is gone then,
\* and a success is reported only where there was one.
LEMMA ServePreservesCalls ==
  ASSUME IInv, NEW c \in Calls, NEW r, Serves(c), Receive(c, r),
         NEW e \in {0, 1}, effects' = [effects EXCEPT ![c] = @ + e],
         r \in {"ok", "empty"} /\ job[c].mode # "get" => e = 1,
         r = "refused" => e = 0,
         IsCommit(job[c]) /\ r = "empty" => e = 1,
         r \in {"ok", "empty", "refused", "unusable"}
  PROVE  /\ ServedAtMostOnce' /\ AnswerIsTrue'
         /\ \A d \in Calls : pc'[d] = "idle" <=> pc[d] = "idle"
<1>1. /\ \A d \in Calls : pc'[d] # pc[d] => pc[d] = "flight" /\ pc'[d] \in {"done", "dead"}
      /\ \A d \in Calls : answer'[d] # answer[d] => d = c /\ pc[c] = "flight" /\ pc'[c] = "done"
      /\ answer'[c] = "ok" => answer[c] = "ok" \/ r \in {"ok", "empty"}
      /\ answer'[c] = "refused" => answer[c] = "refused" \/ r = "refused"
  BY ReceiveOutcomes DEF IInv
<1>2. /\ pending[c] /\ effects[c] = 0 /\ answer[c] # "ok" /\ answer[c] # "refused"
      /\ \A d \in Calls : pending'[d] = IF d = c THEN FALSE ELSE pending[d]
      /\ \A d \in Calls : effects'[d] = IF d = c THEN e ELSE effects[d]
  BY DEF Serves, IInv, ServedAtMostOnce, AnswerIsTrue, TypeOK
<1>3. ServedAtMostOnce'
  BY <1>1, <1>2 DEF ServedAtMostOnce, IInv, TypeOK
<1>4. ASSUME NEW d \in Calls, pc'[d] = "dead"
      PROVE  effects'[d] = 1 \/ \E x \in Calls \ {d} : pc'[x] = "dead"
  <2>1. CASE pc[d] = "dead"
    BY <1>1, <1>2, <2>1 DEF IInv, AnswerIsTrue
  <2>2. CASE pc[d] # "dead"
    <3>1. IsCommit(job[c]) /\ pc'[c] = "dead"
      BY <1>4, <2>2, ReceiveOutcomes DEF IInv
    <3>2. d = c => r = "empty"
      BY <1>4, <2>2 DEF Receive, Returns, IInv, TypeOK
    <3> QED
      BY <1>2, <3>1, <3>2
  <2> QED
    BY <2>1, <2>2
<1>5. ASSUME NEW d \in Calls
      PROVE  /\ answer'[d] = "ok" /\ job'[d].mode # "get" => effects'[d] = 1
             /\ answer'[d] = "refused" => effects'[d] = 0 /\ ~pending'[d]
  <2>1. job' = job
    BY DEF Serves
  <2>2. CASE d = c
    BY <1>1, <1>2, <2>1, <2>2
  <2>3. CASE d # c
    BY <1>1, <1>2, <2>1, <2>3 DEF IInv, AnswerIsTrue
  <2> QED
    BY <2>2, <2>3
<1>6. AnswerIsTrue'
  BY <1>4, <1>5 DEF AnswerIsTrue
<1> QED
  BY <1>1, <1>3, <1>6

\* A panic can take the process with it, but never a file that was read.
LEMMA ServePreservesJobs ==
  ASSUME IInv, [Next]_vars, NEW c \in Calls, NEW r, Serves(c), Receive(c, r),
         r = "ok" /\ job[c].mode = "get" =>
            /\ commits[job[c].named] \in Blobs
            /\ got'[c] = Delivered(commits[job[c].named], job[c].encoding),
         \A d \in Calls \ {c} : got'[d] = got[d],
         r = "empty" => job[c].mode # "get"
  PROVE  JobsAreFaithful' /\ DeliveredIsTheFile'
<1>1. /\ \A d \in Calls : pc'[d] # pc[d] => pc[d] = "flight" /\ pc'[d] \in {"done", "dead"}
      /\ \A d \in Calls : answer'[d] # answer[d] => d = c /\ pc[c] = "flight" /\ pc'[c] = "done"
      /\ answer'[c] = "ok" => answer[c] = "ok" \/ r \in {"ok", "empty"}
  BY ReceiveOutcomes DEF IInv
<1>2. JobsAreFaithful'
  BY <1>1, SameJobsStayFaithful DEF Serves
<1>3. ASSUME NEW d \in Calls, answer'[d] = "ok", job[d].mode = "get"
      PROVE  /\ commits'[job[d].named] \in Blobs
             /\ got'[d] = Delivered(commits'[job[d].named], job[d].encoding)
  <2>1. pc[d] # "idle"
    BY <1>1, <1>3 DEF IInv, ServedAtMostOnce
  <2>2. job[d].named \in Ids
    BY <1>3, <2>1 DEF IInv, JobsAreFaithful
  <2>3. commits'[job[d].named] = commits[job[d].named]
    BY <2>2, HistoryGrows DEF IInv
  <2>4. CASE d = c
    <3>1. r = "ok"
      BY <1>1, <1>3, <2>4 DEF IInv, ServedAtMostOnce, Serves
    <3> QED
      BY <1>3, <2>3, <2>4, <3>1
  <2>5. CASE d # c
    BY <1>1, <1>3, <2>3, <2>5 DEF IInv, DeliveredIsTheFile
  <2> QED
    BY <2>4, <2>5
<1> QED
  BY <1>2, <1>3 DEF DeliveredIsTheFile, Serves

\* Every step by people, or by a call that stops waiting.
LEMMA OthersPreserveIInv ==
  ASSUME IInv, Next,
         \/ \E b \in Branches, content \in Blobs \cup {NoFile} : Push(b, content)
         \/ \E b \in Branches : DeleteBranch(b)
         \/ \E c \in Calls : GiveUp(c)
  PROVE  IInv'
<1>1. UNCHANGED <<job, got, pending, effects>>
  BY DEF Push, DeleteBranch, GiveUp
<1>2. \/ UNCHANGED <<pc, answer>>
      \/ \E c \in Calls : pc[c] = "flight" /\ Returns(c, "unknown")
  BY DEF Push, DeleteBranch, GiveUp
<1>3. TypeOK'
  <2>1. /\ commits' \in Seq(Blobs \cup {NoFile})
        /\ tip' \in [Branches -> {0} \cup Ids']
    <3>1. ASSUME NEW b \in Branches, NEW content \in Blobs \cup {NoFile}, Push(b, content)
          PROVE  /\ commits' \in Seq(Blobs \cup {NoFile})
                 /\ tip' \in [Branches -> {0} \cup Ids']
      BY <3>1 DEF Push, IInv, TypeOK, Ids
    <3>2. ASSUME NEW b \in Branches, DeleteBranch(b)
          PROVE  /\ commits' \in Seq(Blobs \cup {NoFile})
                 /\ tip' \in [Branches -> {0} \cup Ids']
      BY <3>2 DEF DeleteBranch, IInv, TypeOK, Ids
    <3>3. ASSUME NEW c \in Calls, GiveUp(c)
          PROVE  /\ commits' \in Seq(Blobs \cup {NoFile})
                 /\ tip' \in [Branches -> {0} \cup Ids']
      BY <3>3 DEF GiveUp, IInv, TypeOK, Ids
    <3> QED
      BY <3>1, <3>2, <3>3
  <2> QED
    BY <1>1, <1>2, <2>1 DEF IInv, TypeOK, Returns
<1>4. JobsAreFaithful'
  BY <1>1, <1>2, SameJobsStayFaithful DEF Returns, IInv, TypeOK
<1>5. DeliveredIsTheFile'
  <2> SUFFICES ASSUME NEW c \in Calls, answer'[c] = "ok", job[c].mode = "get"
               PROVE  /\ commits'[job[c].named] \in Blobs
                      /\ got[c] = Delivered(commits'[job[c].named], job[c].encoding)
    BY <1>1 DEF DeliveredIsTheFile
  <2>1. answer[c] = "ok"
    BY <1>2 DEF Returns, IInv, TypeOK
  <2>2. job[c].named \in Ids
    BY <2>1 DEF IInv, JobsAreFaithful, ServedAtMostOnce
  <2> QED
    BY <2>1, <2>2, HistoryGrows DEF IInv, DeliveredIsTheFile
<1>6. ServedAtMostOnce' /\ AnswerIsTrue'
  BY <1>1, <1>2 DEF ServedAtMostOnce, AnswerIsTrue, IInv, TypeOK, Returns
<1> QED
  BY <1>3, <1>4, <1>5, <1>6 DEF IInv

\* A request the server is asked to serve comes from a faithful job.
LEMMA PendingIsFaithful ==
  ASSUME IInv, NEW c \in Calls, pending[c]
  PROVE  /\ job[c] \in GetJobs \cup CommitJobs \cup BranchJobs
         /\ job[c].mode \in {"get", "branch"} => job[c].named \in Ids
         /\ IsCommit(job[c]) => CommitIsFaithful(job[c])
BY DEF IInv, ServedAtMostOnce, JobsAreFaithful

LEMMA ServerPreservesIInv ==
  ASSUME IInv, Next, NEW c \in Calls,
         ServeCommit(c) \/ ServeBranch(c) \/ ServeGet(c) \/ Refuse(c)
  PROVE  IInv'
<1> USE DEF IInv
<1>1. /\ pending[c]
      /\ job[c] \in GetJobs \cup CommitJobs \cup BranchJobs
      /\ job[c].mode \in {"get", "branch"} => job[c].named \in Ids
      /\ IsCommit(job[c]) => CommitIsFaithful(job[c])
  BY PendingIsFaithful DEF ServeCommit, ServeBranch, ServeGet, Refuse, Changes, Serves
<1>2. /\ pending' \in [Calls -> BOOLEAN]
      /\ job' \in [Calls -> {NoJob} \cup GetJobs \cup CommitJobs \cup BranchJobs]
      /\ pc' \in [Calls -> {"idle", "flight", "done", "dead"}]
      /\ answer' \in [Calls -> {"none", "ok", "refused", "unknown"}]
  <2>1. PICK r : Serves(c) /\ Receive(c, r)
    BY DEF ServeCommit, ServeBranch, ServeGet, Refuse, Changes
  <2> QED
    BY <2>1, ReceiveOutcomes DEF Serves, TypeOK
<1>3. CASE ServeCommit(c)
  <2>1. PICK r \in {"ok", "empty", "unusable"} : Receive(c, r)
    BY <1>3 DEF ServeCommit, Changes
  <2>2. /\ Serves(c) /\ effects' = [effects EXCEPT ![c] = @ + 1] /\ UNCHANGED got
        /\ IsCommit(job[c])
    BY <1>3 DEF ServeCommit, Changes, IsCommit
  <2>3. ServedAtMostOnce' /\ AnswerIsTrue'
    BY <2>1, <2>2, ServePreservesCalls
  <2>4. JobsAreFaithful' /\ DeliveredIsTheFile'
    BY <2>1, <2>2, ServePreservesJobs DEF IsCommit
  <2>5. effects[c] = 0 /\ effects' \in [Calls -> {0, 1}]
    BY <1>1, <2>2 DEF ServedAtMostOnce, TypeOK
  <2>6. /\ commits' \in Seq(Blobs \cup {NoFile})
        /\ Len(commits') = Len(commits) + 1
        /\ tip' = [tip EXCEPT ![job[c].branch] = Len(commits) + 1]
    BY <1>1, <1>3, <2>2 DEF ServeCommit, CommitIsFaithful, TypeOK
  <2>7. tip' \in [Branches -> {0} \cup Ids']
    <3>1. Len(commits) \in Nat /\ tip \in [Branches -> {0} \cup Ids]
      BY DEF TypeOK
    <3>2. Ids \subseteq Ids' /\ Len(commits) + 1 \in Ids'
      BY <2>6, <3>1 DEF Ids
    <3> QED
      BY <2>6, <3>1, <3>2
  <2> QED
    BY <1>2, <2>2, <2>3, <2>4, <2>5, <2>6, <2>7 DEF TypeOK
<1>4. CASE ServeBranch(c)
  <2>1. PICK r \in {"ok", "empty", "unusable"} : Receive(c, r)
    BY <1>4 DEF ServeBranch, Changes
  <2>2. /\ Serves(c) /\ effects' = [effects EXCEPT ![c] = @ + 1] /\ UNCHANGED got
        /\ job[c].mode = "branch"
    BY <1>4 DEF ServeBranch, Changes
  <2>3. ServedAtMostOnce' /\ AnswerIsTrue'
    BY <2>1, <2>2, ServePreservesCalls
  <2>4. JobsAreFaithful' /\ DeliveredIsTheFile'
    BY <2>1, <2>2, ServePreservesJobs
  <2>5. effects[c] = 0 /\ effects' \in [Calls -> {0, 1}]
    BY <1>1, <2>2 DEF ServedAtMostOnce, TypeOK
  <2>6. /\ commits' = commits
        /\ tip' \in [Branches -> {0} \cup Ids]
    BY <1>1, <1>4, <2>2 DEF ServeBranch, TypeOK
  <2> QED
    BY <1>2, <2>2, <2>3, <2>4, <2>5, <2>6 DEF TypeOK, Ids
<1>5. CASE ServeGet(c)
  <2>1. /\ Serves(c) /\ Receive(c, "ok") /\ UNCHANGED <<commits, tip, effects>>
        /\ job[c].mode = "get" /\ commits[job[c].named] # NoFile
        /\ got' = [got EXCEPT ![c] = Delivered(commits[job[c].named], job[c].encoding)]
    BY <1>5 DEF ServeGet
  <2>2. commits[job[c].named] \in Blobs
    BY <1>1, <2>1 DEF TypeOK, Ids
  <2>3. ServedAtMostOnce' /\ AnswerIsTrue'
    <3>1. effects' = [effects EXCEPT ![c] = @ + 0]
      BY <2>1 DEF TypeOK
    <3> QED
      BY <2>1, <3>1, ServePreservesCalls DEF IsCommit
  <2>4. JobsAreFaithful' /\ DeliveredIsTheFile'
    BY <2>1, <2>2, ServePreservesJobs DEF TypeOK
  <2>5. got' \in [Calls -> Payloads]
    <3>1. Delivered(commits[job[c].named], job[c].encoding) \in Payloads
      BY <2>2 DEF Delivered, Payloads, Fields
    <3> QED
      BY <2>1, <3>1 DEF TypeOK
  <2> QED
    BY <1>2, <2>1, <2>3, <2>4, <2>5 DEF TypeOK, Ids
<1>6. CASE Refuse(c)
  <2>1. PICK r \in {"refused", "unusable"} : Receive(c, r)
    BY <1>6 DEF Refuse
  <2>2. Serves(c) /\ UNCHANGED <<commits, tip, got, effects>>
    BY <1>6 DEF Refuse
  <2>3. ServedAtMostOnce' /\ AnswerIsTrue'
    <3>1. effects' = [effects EXCEPT ![c] = @ + 0]
      BY <2>2 DEF TypeOK
    <3> QED
      BY <2>1, <2>2, <3>1, ServePreservesCalls
  <2>4. JobsAreFaithful' /\ DeliveredIsTheFile'
    BY <2>1, <2>2, ServePreservesJobs
  <2> QED
    BY <1>2, <2>2, <2>3, <2>4 DEF TypeOK, Ids
<1> QED
  BY <1>3, <1>4, <1>5, <1>6

LEMMA NextPreservesIInv == IInv /\ [Next]_vars => IInv'
<1> SUFFICES ASSUME IInv, [Next]_vars PROVE IInv'
  OBVIOUS
<1>1. ASSUME Next,
             \/ \E b \in Branches, content \in Blobs \cup {NoFile} : Push(b, content)
             \/ \E b \in Branches : DeleteBranch(b)
             \/ \E c \in Calls : GiveUp(c)
      PROVE  IInv'
  BY <1>1, OthersPreserveIInv
<1>2. ASSUME NEW c \in Calls, NEW id \in Ids, NEW encoding \in {"text", "base64"},
             GetFile(c, id, encoding)
      PROVE  IInv'
  <2> DEFINE j == [mode |-> "get", named |-> id, encoding |-> encoding]
  <2>1. j \in GetJobs /\ ~IsCommit(j) /\ Begin(c, j)
    BY <1>2 DEF GetFile, GetJobs, IsCommit, Ids
  <2> QED
    BY <2>1, BeginPreservesIInv
<1>3. ASSUME NEW c \in Calls, NEW b \in Branches, NEW mode \in {"create", "update", "other"},
             NEW id \in {NoCommit} \cup Ids, NEW i \in Inputs,
             NEW source \in (Branches \ {b}) \cup {NoField},
             CommitFile(c, [mode |-> mode, branch |-> b, named |-> id, source |-> source,
                            payload |-> i.payload, copyOf |-> i.copyOf])
      PROVE  IInv'
  BY <1>3, CommitFilePreservesIInv
<1>4. ASSUME NEW c \in Calls, NEW b \in Branches, NEW id \in Ids, CreateBranch(c, b, id)
      PROVE  IInv'
  <2> DEFINE j == [mode |-> "branch", branch |-> b, named |-> id]
  <2>1. j \in BranchJobs /\ ~IsCommit(j) /\ Begin(c, j)
    BY <1>4 DEF CreateBranch, BranchJobs, IsCommit, Ids
  <2> QED
    BY <2>1, BeginPreservesIInv
<1>5. ASSUME Next, NEW c \in Calls,
             ServeCommit(c) \/ ServeBranch(c) \/ ServeGet(c) \/ Refuse(c)
      PROVE  IInv'
  BY <1>5, ServerPreservesIInv
<1>6. CASE UNCHANGED vars
  BY <1>6 DEF vars, IInv, TypeOK, Ids, JobsAreFaithful, CommitIsFaithful, DeliveredIsTheFile,
              ServedAtMostOnce, AnswerIsTrue
<1> QED
  BY <1>1, <1>2, <1>3, <1>4, <1>5, <1>6 DEF Next

LEMMA IInvAlways == Spec => []IInv
BY InitEstablishesIInv, NextPreservesIInv, PTL DEF Spec

(* Every reachable state is well typed: the history holds files, a branch  *)
(* points into it, and no call changes the repository twice.               *)
THEOREM TypeCorrect == Spec => []TypeOK
<1>1. IInv => TypeOK
  BY DEF IInv
<1> QED
  BY <1>1, IInvAlways, PTL

(* What the caller of a file tool is told stays true, however late its     *)
(* request arrives and whichever call panics (commits.go:206-210,          *)
(* service.go:179-188).                                                    *)
THEOREM AnswersStayTrue == Spec => []AnswerIsTrue
<1>1. IInv => AnswerIsTrue
  BY DEF IInv
<1> QED
  BY <1>1, IInvAlways, PTL

\* Only a commit that the server allows changes the repository for a CommitFile.
LEMMA EffectIsACommit ==
  ASSUME IInv, [Next]_vars, NEW c \in Calls, effects'[c] # effects[c], IsCommit(job[c])
  PROVE  /\ Allowed(job[c]) /\ CommitIsFaithful(job[c])
         /\ commits' = Append(commits, Content(job[c].payload))
<1>1. PICK d \in Calls : ServeCommit(d) \/ ServeBranch(d)
  BY DEF Next, vars, Push, DeleteBranch, GetFile, CommitFile, CreateBranch, Begin,
         ServeGet, Refuse, GiveUp
<1>2. effects' = [effects EXCEPT ![d] = @ + 1] /\ pending[d]
  BY <1>1 DEF ServeCommit, ServeBranch, Changes, Serves
<1>3. d = c
  BY <1>2 DEF IInv, TypeOK
<1>4. ServeCommit(c)
  BY <1>1, <1>3 DEF ServeBranch, IsCommit
<1> QED
  BY <1>2, <1>3, <1>4, PendingIsFaithful DEF ServeCommit

(* CommitFile's modes and the server's comparison together: no commit of   *)
(* the tool replaces a file it was not told about (commits.go:175-187).    *)
THEOREM NothingIsOverwrittenUnseen == Spec => NothingOverwrittenUnseen
<1>1. IInv /\ [Next]_vars =>
        [\A c \in Calls :
           effects'[c] # effects[c] /\ job[c].mode \in {"create", "update"} =>
               LET before == commits[Base(job[c])] IN
               IF job[c].mode = "create" THEN before = NoFile
               ELSE before # NoFile /\ before = commits[job[c].named]]_vars
  <2> SUFFICES ASSUME IInv, [Next]_vars, NEW c \in Calls, effects'[c] # effects[c],
                      IsCommit(job[c])
               PROVE  IF job[c].mode = "create" THEN commits[Base(job[c])] = NoFile
                      ELSE /\ commits[Base(job[c])] # NoFile
                           /\ commits[Base(job[c])] = commits[job[c].named]
    BY DEF IsCommit
  <2>1. Allowed(job[c]) /\ Accepted(job[c])
    BY EffectIsACommit DEF CommitIsFaithful
  <2> QED
    BY <2>1 DEF Allowed, Accepted, IsCommit
<1> QED
  BY <1>1, IInvAlways, PTL DEF Spec, NothingOverwrittenUnseen

(* Reading a file and committing what was read commits the same bytes,     *)
(* text or not, whatever happened to the repository in between             *)
(* (commits.go:100-104 and 189-196).                                       *)
THEOREM RoundTripsKeepBytes == Spec => RoundTripKeepsBytes
<1>1. IInv /\ [Next]_vars =>
        [\A c \in Calls :
           effects'[c] # effects[c] /\ job[c].mode \in {"create", "update"} =>
               (job[c].copyOf # NoCommit =>
                  commits'[Len(commits')] = commits[job[c].copyOf])]_vars
  <2> SUFFICES ASSUME IInv, [Next]_vars, NEW c \in Calls, effects'[c] # effects[c],
                      IsCommit(job[c]), job[c].copyOf # NoCommit
               PROVE  commits'[Len(commits')] = commits[job[c].copyOf]
    BY DEF IsCommit
  <2>1. /\ commits' = Append(commits, Content(job[c].payload))
        /\ Content(job[c].payload) = commits[job[c].copyOf]
    BY EffectIsACommit DEF CommitIsFaithful
  <2> QED
    BY <2>1 DEF IInv, TypeOK
<1> QED
  BY <1>1, IInvAlways, PTL DEF Spec, RoundTripKeepsBytes
=============================================================================
