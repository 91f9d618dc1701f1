---------------------- MODULE BitbucketPullRequestProofs ----------------------
(***************************************************************************)
(* For any number of concurrent calls and edits, the read-modify-write of  *)
(* the pull-request tools is one atomic edit.  The argument: a version is  *)
(* never used twice, so a copy of the pull request that carries the        *)
(* current version still agrees with it; a write carries the version of    *)
(* the copy its fields were taken from; and the server refuses every other *)
(* version.  Bookkeeping of which request is under way makes up the rest.  *)
(***************************************************************************)
EXTENDS BitbucketPullRequest, TLAPS

\* A copy of the pull request is old, or it agrees with what the server holds.
CopyInv ==
    \A c \in Calls : seen[c] # NoPR =>
        /\ seen[c].version <= pr.version
        /\ seen[c].version = pr.version =>
            seen[c] = [pr EXCEPT !.mergeable = seen[c].mergeable]

\* Which inputs, copies and requests there are at each point of a call.
CallInv ==
    \A c \in Calls :
        /\ pc[c] = "idle" <=> job[c] = NoJob
        /\ pc[c] = "done" <=> answer[c] # "none"
        /\ pc[c] \in {"send", "flight"} => seen[c] # NoPR \/ job[c].expected # NoVersion
        /\ wire[c] # NoRequest =>
            /\ pc[c] \in {"flight", "done"} /\ answer[c] \in {"none", "unknown"}
            /\ seen[c] # NoPR \/ job[c].expected # NoVersion
            /\ wire[c] = Request(c)

\* What the server has done for a call, and what the call may say of it.
EffectInv ==
    \A c \in Calls :
        /\ pc[c] \notin {"flight", "done"} => reply[c] = "none" /\ wire[c] = NoRequest
        /\ effects[c] = 1 <=> reply[c] = "ok"
        /\ wire[c] # NoRequest => reply[c] = "none"
        /\ answer[c] = "ok" => reply[c] = "ok"
        /\ answer[c] = "conflict" => reply[c] = "conflict"
        /\ answer[c] = "failed" => reply[c] = "none" /\ wire[c] = NoRequest

IInv == TypeOK /\ CopyInv /\ CallInv /\ EffectInv

LEMMA InitEstablishesIInv == Init => IInv
<1> SUFFICES ASSUME Init PROVE IInv
  OBVIOUS
<1> USE DEF Init
<1>1. TypeOK
  BY DEF TypeOK, PRType, States
<1>2. CopyInv
  BY DEF CopyInv
<1>3. CallInv
  BY DEF CallInv
<1>4. EffectInv
  <2>0. 0 # 1
    OBVIOUS
  <2>1. \A c \in Calls : effects[c] = 0
    OBVIOUS
  <2>2. \A c \in Calls : reply[c] = "none" /\ wire[c] = NoRequest
    OBVIOUS
  <2>3. \A c \in Calls : answer[c] \notin {"ok", "conflict", "failed"}
    OBVIOUS
  <2> QED
    BY <2>0, <2>1, <2>2, <2>3, ZenonT(30) DEF EffectInv
<1> QED
  BY <1>1, <1>2, <1>3, <1>4 DEF IInv

\* What Request builds is a request, and for an update one of its own copy.
LEMMA RequestIsTyped ==
  ASSUME TypeOK, NEW c \in Calls, job[c] # NoJob,
         seen[c] # NoPR \/ job[c].expected # NoVersion
  PROVE  Request(c) \in RequestType
<1> USE JobsAssumption, SentinelAssumption
<1>1. job[c] \in Jobs /\ job[c] \in JobType
  BY DEF TypeOK
<1>2. CASE job[c].action = "update"
  <2>1. seen[c] \in PRType
    BY <1>1, <1>2 DEF TypeOK
  <2> QED
    BY <1>1, <1>2, <2>1 DEF Request, Preserved, RequestType, PRType, JobType, Actions
<1>3. CASE job[c].action # "update" /\ job[c].expected = NoVersion
  <2>1. seen[c] \in PRType
    BY <1>3 DEF TypeOK
  <2> QED
    BY <1>1, <1>3, <2>1 DEF Request, RequestType, PRType, JobType, Actions
<1>4. CASE job[c].action # "update" /\ job[c].expected # NoVersion
  BY <1>1, <1>4 DEF Request, RequestType, JobType, Actions
<1> QED
  BY <1>2, <1>3, <1>4

LEMMA EditIsTyped ==
  ASSUME pr \in PRType, NEW t \in Titles, NEW rs \in ReviewerSets
  PROVE  [pr EXCEPT !.version = @ + 1, !.title = t, !.reviewers = rs] \in PRType
<1>1. pr.version + 1 \in Nat
  BY DEF PRType
<1>2. \A v \in Nat : [pr EXCEPT !.version = v, !.title = t, !.reviewers = rs] \in PRType
  BY DEF PRType
<1> QED
  BY <1>1, <1>2

LEMMA MoveIsTyped ==
  ASSUME pr \in PRType, NEW s \in States
  PROVE  [pr EXCEPT !.version = @ + 1, !.state = s] \in PRType
<1>1. pr.version + 1 \in Nat
  BY DEF PRType
<1>2. \A v \in Nat : [pr EXCEPT !.version = v, !.state = s] \in PRType
  BY DEF PRType
<1> QED
  BY <1>1, <1>2

\* What the server stores for a request in flight is a pull request again.
LEMMA WrittenIsTyped ==
  ASSUME IInv, NEW c \in Calls, wire[c] # NoRequest
  PROVE  Written(wire[c]) \in PRType /\ Written(wire[c]).version = pr.version + 1
<1> USE DEF IInv, PRType
<1>1. wire[c] = Request(c) /\ job[c] # NoJob
      /\ (seen[c] # NoPR \/ job[c].expected # NoVersion)
  BY DEF CallInv
<1>2. job[c] \in Jobs /\ job[c] \in JobType /\ pr \in PRType
  BY <1>1, JobsAssumption DEF TypeOK
<1>3. CASE job[c].action = "update"
  <2>1. seen[c] \in PRType
    BY <1>1, <1>2, <1>3, JobsAssumption DEF TypeOK
  <2>2. wire[c].title \in Titles /\ wire[c].reviewers \in ReviewerSets
        /\ wire[c].action = "update"
    BY <1>1, <1>2, <1>3, <2>1 DEF Request, Preserved, JobType
  <2>3. Written(wire[c]) \in PRType
    BY <1>2, <2>2, EditIsTyped DEF Written
  <2> QED
    BY <1>2, <2>2, <2>3 DEF Written
<1>4. CASE job[c].action # "update"
  <2>1. wire[c].action = job[c].action
    BY <1>1, <1>4 DEF Request
  <2>2. StateAfter(job[c].action) \in States
    BY DEF StateAfter, States
  <2>3. Written(wire[c]) = [pr EXCEPT !.version = @ + 1, !.state = StateAfter(job[c].action)]
    BY <1>4, <2>1 DEF Written
  <2> HIDE DEF PRType
  <2>4. Written(wire[c]) \in PRType
    BY <1>2, <2>2, <2>3, MoveIsTyped
  <2> QED
    BY <1>2, <2>3, <2>4 DEF PRType
<1> QED
  BY <1>3, <1>4

\* A change of version leaves every copy old.
LEMMA CopiesAgeWithTheVersion ==
  ASSUME TypeOK, TypeOK', CopyInv, seen' = seen, pr'.version = pr.version + 1
  PROVE  CopyInv'
<1> SUFFICES ASSUME NEW c \in Calls, seen[c] # NoPR
             PROVE  seen[c].version <= pr'.version /\ seen[c].version # pr'.version
  BY DEF CopyInv
<1>1. seen[c].version \in Nat /\ pr.version \in Nat
  BY DEF TypeOK, PRType
<1>2. seen[c].version <= pr.version
  BY DEF CopyInv
<1> QED
  BY <1>1, <1>2

LEMMA NextPreservesIInv == IInv /\ [Next]_vars => IInv'
<1> SUFFICES ASSUME IInv, [Next]_vars PROVE IInv'
  OBVIOUS
<1> USE JobsAssumption DEF IInv
<1>1. ASSUME NEW t \in Titles, NEW rs \in ReviewerSets, Edit(t, rs) PROVE IInv'
  <2>0. pr' \in PRType
    BY <1>1, EditIsTyped DEF Edit, TypeOK
  <2>1. TypeOK'
    BY <1>1, <2>0 DEF Edit, TypeOK
  <2>2. CopyInv'
    BY <1>1, <2>1, CopiesAgeWithTheVersion DEF Edit, TypeOK, PRType
  <2>3. CallInv'
    BY <1>1 DEF Edit, CallInv, Request
  <2>4. EffectInv'
    BY <1>1 DEF Edit, EffectInv
  <2> QED
    BY <2>1, <2>2, <2>3, <2>4
<1>2. ASSUME NEW s \in States, Move(s) PROVE IInv'
  <2>0. pr' \in PRType
    BY <1>2, MoveIsTyped DEF Move, TypeOK
  <2>1. TypeOK'
    BY <1>2, <2>0 DEF Move, TypeOK
  <2>2. CopyInv'
    BY <1>2, <2>1, CopiesAgeWithTheVersion DEF Move, TypeOK, PRType
  <2>3. CallInv'
    BY <1>2 DEF Move, CallInv, Request
  <2>4. EffectInv'
    BY <1>2 DEF Move, EffectInv
  <2> QED
    BY <2>1, <2>2, <2>3, <2>4
<1>3. ASSUME Push PROVE IInv'
  <2>1. TypeOK'
    BY <1>3 DEF Push, TypeOK, PRType
  <2>2. CopyInv'
    BY <1>3 DEF Push, TypeOK, PRType, CopyInv
  <2>3. CallInv'
    BY <1>3 DEF Push, CallInv, Request
  <2>4. EffectInv'
    BY <1>3 DEF Push, EffectInv
  <2> QED
    BY <2>1, <2>2, <2>3, <2>4
<1>4. ASSUME NEW c \in Calls, NEW j \in Jobs, Begin(c, j) PROVE IInv'
  <2> USE SentinelAssumption
  <2>1. TypeOK'
    BY <1>4 DEF Begin, TypeOK, AfterPrecheck
  <2>2. CopyInv'
    BY <1>4 DEF Begin, CopyInv
  <2>3. CallInv'
    BY <1>4 DEF Begin, AfterPrecheck, CallInv, EffectInv, TypeOK, Request
  <2>4. EffectInv'
    BY <1>4 DEF Begin, AfterPrecheck, CallInv, EffectInv, TypeOK
  <2> QED
    BY <2>1, <2>2, <2>3, <2>4
<1>5. ASSUME NEW c \in Calls, Precheck(c) PROVE IInv'
  <2>1. TypeOK'
    BY <1>5 DEF Precheck, Fail, TypeOK, AfterPrecheck, PRType
  <2>2. CopyInv'
    BY <1>5 DEF Precheck, CopyInv
  <2>3. CallInv'
    BY <1>5 DEF Precheck, Fail, AfterPrecheck, CallInv, EffectInv, TypeOK, Request
  <2>4. EffectInv'
    BY <1>5 DEF Precheck, Fail, AfterPrecheck, CallInv, EffectInv, TypeOK
  <2> QED
    BY <2>1, <2>2, <2>3, <2>4
<1>6. ASSUME NEW c \in Calls, Read(c) PROVE IInv'
  <2>1. TypeOK'
    BY <1>6 DEF Read, Fail, TypeOK
  <2>2. CopyInv'
    BY <1>6 DEF Read, Fail, CopyInv, TypeOK, PRType
  <2>3. CallInv'
    BY <1>6, RecordSentinelAssumption DEF Read, Fail, CallInv, EffectInv, TypeOK, Request
  <2>4. EffectInv'
    BY <1>6 DEF Read, Fail, CallInv, EffectInv, TypeOK
  <2> QED
    BY <2>1, <2>2, <2>3, <2>4
<1>7. ASSUME NEW c \in Calls, Send(c) PROVE IInv'
  <2>0. Request(c) \in RequestType
    BY <1>7, RequestIsTyped DEF Send, CallInv
  <2>1. TypeOK'
    BY <1>7, <2>0 DEF Send, TypeOK
  <2>2. CopyInv'
    BY <1>7 DEF Send, CopyInv
  <2>3. CallInv'
    BY <1>7 DEF Send, CallInv, EffectInv, TypeOK, Request
  <2>4. EffectInv'
    BY <1>7 DEF Send, CallInv, EffectInv, TypeOK
  <2> QED
    BY <2>1, <2>2, <2>3, <2>4
<1>8. ASSUME NEW c \in Calls, Serve(c) PROVE IInv'
  <2>1. CASE ~Accepts(wire[c])
    <3>1. UNCHANGED <<pr, pc, job, seen, effects, vetoed, answer>>
      BY <1>8, <2>1 DEF Serve
    <3>2. wire' = [wire EXCEPT ![c] = NoRequest] /\ reply' = [reply EXCEPT ![c] = "conflict"]
      BY <1>8, <2>1 DEF Serve
    <3>3. TypeOK'
      BY <3>1, <3>2 DEF TypeOK
    <3>4. CopyInv'
      BY <3>1 DEF CopyInv
    <3>5. CallInv'
      BY <3>1, <3>2 DEF CallInv, TypeOK, Request
    <3>6. EffectInv'
      BY <1>8, <3>1, <3>2 DEF Serve, CallInv, EffectInv, TypeOK
    <3> QED
      BY <3>3, <3>4, <3>5, <3>6
  <2>2. CASE Accepts(wire[c])
    <3>1. UNCHANGED <<pc, job, seen, vetoed, answer>> /\ pr' = Written(wire[c])
      BY <1>8, <2>2 DEF Serve
    <3>2. /\ wire' = [wire EXCEPT ![c] = NoRequest]
          /\ reply' = [reply EXCEPT ![c] = "ok"]
          /\ effects' = [effects EXCEPT ![c] = @ + 1]
      BY <1>8, <2>2 DEF Serve
    <3>3. wire[c] # NoRequest /\ effects[c] = 0
      BY <1>8 DEF Serve, EffectInv, TypeOK
    <3>4. pr' \in PRType /\ pr'.version = pr.version + 1
      BY <3>1, <3>3, WrittenIsTyped
    <3>5. TypeOK'
      BY <3>1, <3>2, <3>3, <3>4 DEF TypeOK
    <3>6. CopyInv'
      BY <3>1, <3>4, <3>5, CopiesAgeWithTheVersion
    <3>7. CallInv'
      BY <3>1, <3>2 DEF CallInv, TypeOK, Request
    <3>8. EffectInv'
      BY <3>1, <3>2, <3>3 DEF CallInv, EffectInv, TypeOK
    <3> QED
      BY <3>5, <3>6, <3>7, <3>8
  <2> QED
    BY <2>1, <2>2
<1>9. ASSUME NEW c \in Calls, Receive(c) PROVE IInv'
  <2>1. TypeOK'
    BY <1>9 DEF Receive, Fail, TypeOK
  <2>2. CopyInv'
    BY <1>9 DEF Receive, CopyInv
  <2>3. CallInv'
    BY <1>9 DEF Receive, Fail, CallInv, EffectInv, TypeOK, Request
  <2>4. EffectInv'
    BY <1>9 DEF Receive, Fail, CallInv, EffectInv, TypeOK
  <2> QED
    BY <2>1, <2>2, <2>3, <2>4
<1>10. ASSUME NEW c \in Calls, GiveUp(c) PROVE IInv'
  <2>1. TypeOK'
    BY <1>10 DEF GiveUp, Fail, TypeOK
  <2>2. CopyInv'
    BY <1>10 DEF GiveUp, CopyInv
  <2>3. CallInv'
    BY <1>10 DEF GiveUp, Fail, CallInv, EffectInv, TypeOK, Request
  <2>4. EffectInv'
    BY <1>10 DEF GiveUp, Fail, CallInv, EffectInv, TypeOK
  <2> QED
    BY <2>1, <2>2, <2>3, <2>4
<1>11. CASE UNCHANGED vars
  BY <1>11 DEF vars, TypeOK, CopyInv, CallInv, EffectInv, Request
<1> QED
  BY <1>1, <1>2, <1>3, <1>4, <1>5, <1>6, <1>7, <1>8, <1>9, <1>10, <1>11 DEF Next

LEMMA IInvAlways == Spec => []IInv
BY InitEstablishesIInv, NextPreservesIInv, PTL DEF Spec

(* Every reachable state is well typed; in particular a call changes the   *)
(* pull request at most once.                                              *)
THEOREM TypeCorrect == Spec => []TypeOK
<1>1. IInv => TypeOK
  BY DEF IInv
<1> QED
  BY <1>1, IInvAlways, PTL

(* What a call reports is true for good (pull_requests.go:312-329).        *)
THEOREM AnswersAreTrue == Spec => []AnswerIsTrue
<1>1. IInv => AnswerIsTrue
  <2> SUFFICES ASSUME IInv, NEW c \in Calls
               PROVE  /\ answer[c] = "ok" => effects[c] = 1
                      /\ answer[c] \in {"conflict", "failed"} =>
                            effects[c] = 0 /\ wire[c] = NoRequest
    BY DEF AnswerIsTrue
  <2> QED
    BY DEF IInv, TypeOK, CallInv, EffectInv
<1> QED
  BY <1>1, IInvAlways, PTL

\* Only the service of a request changes what a call has done.
LEMMA OnlyServeHasEffects ==
  ASSUME IInv, Next, NEW c \in Calls, effects'[c] # effects[c]
  PROVE  /\ Serve(c) /\ Accepts(wire[c])
         /\ pr' = Written(wire[c])
         /\ wire[c] = Request(c)
         /\ job[c] \in Jobs
<1>1. PICK d \in Calls : Serve(d)
  BY DEF Next, Edit, Move, Push, Begin, Precheck, Read, Send, Receive, GiveUp
<1>2. Accepts(wire[d]) /\ pr' = Written(wire[d]) /\ effects' = [effects EXCEPT ![d] = @ + 1]
  BY <1>1 DEF Serve
<1>3. d = c
  BY <1>2 DEF IInv, TypeOK
<1> QED
  BY <1>1, <1>2, <1>3 DEF Serve, IInv, CallInv, TypeOK

\* A write whose copy the server accepts finds the pull request as copied.
LEMMA AcceptedCopyIsCurrent ==
  ASSUME IInv, NEW c \in Calls, wire[c] # NoRequest, Accepts(wire[c]),
         job[c].expected = NoVersion
  PROVE  seen[c] \in PRType /\ seen[c] = [pr EXCEPT !.mergeable = seen[c].mergeable]
<1>1. wire[c] = Request(c) /\ seen[c] # NoPR
  BY DEF IInv, CallInv
<1>2. wire[c].version = seen[c].version
  BY <1>1 DEF Request
<1> QED
  BY <1>1, <1>2 DEF Accepts, IInv, CopyInv, TypeOK

(* A write applies to what the call has seen, or to the version its caller *)
(* expected (pull_requests.go:312-325).                                    *)
THEOREM ActsOnSeen == Spec => ActsOnWhatWasSeen
<1>1. IInv /\ [Next]_vars =>
        [\A c \in Calls : effects'[c] # effects[c] =>
          IF job[c].expected # NoVersion THEN pr.version = job[c].expected
          ELSE seen[c] = [pr EXCEPT !.mergeable = seen[c].mergeable]]_vars
  <2> SUFFICES ASSUME IInv, Next, NEW c \in Calls, effects'[c] # effects[c]
               PROVE  IF job[c].expected # NoVersion THEN pr.version = job[c].expected
                      ELSE seen[c] = [pr EXCEPT !.mergeable = seen[c].mergeable]
    OBVIOUS
  <2>1. /\ wire[c] # NoRequest /\ Accepts(wire[c])
        /\ wire[c] = Request(c) /\ job[c] \in Jobs
    BY OnlyServeHasEffects DEF Serve
  <2>2. CASE job[c].expected # NoVersion
    BY <2>1, <2>2, JobsAssumption DEF Request, Accepts
  <2>3. CASE job[c].expected = NoVersion
    BY <2>1, <2>3, AcceptedCopyIsCurrent
  <2> QED
    BY <2>2, <2>3
<1> QED
  BY <1>1, IInvAlways, PTL DEF Spec, ActsOnWhatWasSeen

\* The write a served request amounts to, in terms of the caller's wishes.
LEMMA WrittenIsWhatWasAsked ==
  ASSUME IInv, NEW c \in Calls, wire[c] # NoRequest, Accepts(wire[c])
  PROVE  /\ Written(wire[c]) = Shared!Asked(job[c])
         /\ job[c].action = "update" =>
              /\ job[c].title = Keep => Written(wire[c]).title = pr.title
              /\ job[c].reviewers = Keep => Written(wire[c]).reviewers = pr.reviewers
<1>1. wire[c] = Request(c) /\ job[c] \in Jobs /\ pr \in PRType
  BY DEF IInv, CallInv, TypeOK
<1>2. CASE job[c].action = "update"
  <2>1. job[c].expected = NoVersion
    BY <1>1, <1>2, JobsAssumption
  <2>2. seen[c].title = pr.title /\ seen[c].reviewers = pr.reviewers
    <3>1. seen[c] = [pr EXCEPT !.mergeable = seen[c].mergeable]
      BY <2>1, AcceptedCopyIsCurrent
    <3>2. \A m : [pr EXCEPT !.mergeable = m].title = pr.title
               /\ [pr EXCEPT !.mergeable = m].reviewers = pr.reviewers
      BY <1>1 DEF PRType
    <3> QED
      BY <3>1, <3>2
  <2>3. /\ wire[c].action = "update"
        /\ wire[c].title = Preserved(job[c].title, pr.title)
        /\ wire[c].reviewers = Preserved(job[c].reviewers, pr.reviewers)
    BY <1>1, <1>2, <2>2 DEF Request
  <2>4. Written(wire[c]) = [pr EXCEPT !.version = @ + 1,
                                      !.title = Preserved(job[c].title, pr.title),
                                      !.reviewers = Preserved(job[c].reviewers, pr.reviewers)]
    BY <2>3 DEF Written
  <2>5. Written(wire[c]) = Shared!Asked(job[c])
    BY <1>2, <2>4 DEF Shared!Asked, Shared!Chosen, Preserved
  <2>6. /\ Written(wire[c]).title = Preserved(job[c].title, pr.title)
        /\ Written(wire[c]).reviewers = Preserved(job[c].reviewers, pr.reviewers)
    BY <1>1, <2>4 DEF PRType
  <2> QED
    BY <2>5, <2>6 DEF Preserved
<1>3. CASE job[c].action # "update"
  <2>1. wire[c].action = job[c].action
    BY <1>1, <1>3 DEF Request
  <2> QED
    BY <1>3, <2>1 DEF Written, StateAfter, Shared!Asked
<1> QED
  BY <1>2, <1>3

(* An update leaves alone what its caller left out, whoever edits meanwhile *)
(* (pull_requests.go:338-384).                                             *)
THEOREM OmittedSurvive == Spec => OmittedFieldsSurvive
<1>1. IInv /\ [Next]_vars =>
        [\A c \in Calls :
          effects'[c] # effects[c] /\ job[c].action = "update" =>
            /\ job[c].title = Keep => pr'.title = pr.title
            /\ job[c].reviewers = Keep => pr'.reviewers = pr.reviewers]_vars
  <2> SUFFICES ASSUME IInv, Next, NEW c \in Calls,
                      effects'[c] # effects[c], job[c].action = "update"
               PROVE  /\ job[c].title = Keep => pr'.title = pr.title
                      /\ job[c].reviewers = Keep => pr'.reviewers = pr.reviewers
    OBVIOUS
  <2>1. wire[c] # NoRequest /\ Accepts(wire[c]) /\ pr' = Written(wire[c])
    BY OnlyServeHasEffects DEF Serve
  <2> QED
    BY <2>1, WrittenIsWhatWasAsked
<1> QED
  BY <1>1, IInvAlways, PTL DEF Spec, OmittedFieldsSurvive

(* Read, decide and write together implement one atomic edit: the service  *)
(* of the write is Change, its report is Answer, the rest stutters.        *)
THEOREM Implements == Spec => ImplementsSharedPullRequest
<1>1. Init => Shared!Init
  BY DEF Init, Shared!Init
<1>2. IInv /\ [Next]_vars => [Shared!Next]_(Shared!vars)
  <2> SUFFICES ASSUME IInv, [Next]_vars PROVE [Shared!Next]_(Shared!vars)
    OBVIOUS
  <2> USE DEF Shared!vars
  <2>1. ASSUME NEW t \in Titles, NEW rs \in ReviewerSets, Edit(t, rs)
        PROVE  Shared!Edit(t, rs)
    BY <2>1 DEF Edit, Shared!Edit
  <2>2. ASSUME NEW s \in States, Move(s) PROVE Shared!Move(s)
    BY <2>2 DEF Move, Shared!Move
  <2>3. ASSUME Push PROVE Shared!Push
    BY <2>3 DEF Push, Shared!Push
  <2>4. ASSUME NEW c \in Calls, NEW j \in Jobs, Begin(c, j) PROVE Shared!Begin(c, j)
    BY <2>4 DEF Begin, Shared!Begin, IInv, CallInv
  <2>5. ASSUME NEW c \in Calls, Precheck(c) \/ Read(c) \/ Receive(c) \/ GiveUp(c)
        PROVE  \/ \E a \in {"ok", "conflict", "failed", "unknown"} : Shared!Answer(c, a)
               \/ UNCHANGED Shared!vars
    <3>1. job[c] # NoJob /\ answer[c] = "none"
      BY <2>5 DEF Precheck, Read, Receive, GiveUp, IInv, CallInv
    <3>2. CASE UNCHANGED answer
      BY <2>5, <3>2 DEF Precheck, Read, Receive, Fail, GiveUp
    <3>3. CASE pc[c] \in {"precheck", "read"} /\ Fail(c, "failed")
               /\ UNCHANGED <<pr, job, effects>>
      BY <3>1, <3>3 DEF Fail, Shared!Answer, IInv, TypeOK, EffectInv
    <3>4. CASE Receive(c)
      BY <3>1, <3>4 DEF Receive, Fail, Shared!Answer, IInv, TypeOK, EffectInv
    <3>5. CASE GiveUp(c)
      BY <3>1, <3>5 DEF GiveUp, Fail, Shared!Answer, IInv, TypeOK, EffectInv
    <3> QED
      BY <2>5, <3>2, <3>3, <3>4, <3>5 DEF Precheck, Read
  <2>6. ASSUME NEW c \in Calls, Serve(c)
        PROVE  Shared!Change(c) \/ UNCHANGED Shared!vars
    <3>1. CASE ~Accepts(wire[c])
      BY <2>6, <3>1 DEF Serve
    <3>2. CASE Accepts(wire[c])
      <4>1. /\ pr' = Shared!Asked(job[c])
            /\ effects' = [effects EXCEPT ![c] = @ + 1]
            /\ UNCHANGED <<job, answer>>
        BY <2>6, <3>2, WrittenIsWhatWasAsked DEF Serve
      <4>2. effects[c] = 0 /\ job[c] \in Jobs /\ job[c] # NoJob
            /\ answer[c] \in {"none", "unknown"} /\ wire[c] = Request(c)
        BY <2>6 DEF Serve, IInv, TypeOK, CallInv, EffectInv
      <4>3. job[c].expected \in {NoVersion, pr.version}
        BY <3>2, <4>2, JobsAssumption DEF Request, Accepts
      <4> QED
        BY <4>1, <4>2, <4>3 DEF Shared!Change
    <3> QED
      BY <3>1, <3>2
  <2>7. ASSUME NEW c \in Calls, Send(c) PROVE UNCHANGED Shared!vars
    BY <2>7 DEF Send
  <2>8. CASE UNCHANGED vars
    BY <2>8 DEF vars
  <2> QED
    BY <2>1, <2>2, <2>3, <2>4, <2>5, <2>6, <2>7, <2>8 DEF Next, Shared!Next, States
<1> QED
  BY <1>1, <1>2, IInvAlways, PTL DEF Spec, ImplementsSharedPullRequest, Shared!Spec

(* Reading first costs nothing of what a single request promises: the      *)
(* atomic edit, and so every call of these tools, takes effect at most     *)
(* once, says so truthfully, and refuses for good                          *)
(* (pull_requests.go:293-404).                                             *)
THEOREM KeepsUpstreamCall == Spec => ImplementsUpstreamCall
<1> USE DEF kindOf, outcomeOf
<1>1. Init => Upstream!Init
  BY DEF Init, Upstream!Init
<1>2. IInv /\ [Shared!Next]_(Shared!vars) => [Upstream!Next]_(Upstream!vars)
  <2> SUFFICES ASSUME IInv, [Shared!Next]_(Shared!vars)
               PROVE  Upstream!Next \/ UNCHANGED <<kindOf, effects, outcomeOf>>
    BY DEF Upstream!vars
  <2> USE DEF IInv, TypeOK
  <2>1. ASSUME NEW c \in Calls, NEW j \in Jobs, Shared!Begin(c, j) PROVE Upstream!Begin(c, "write")
    BY <2>1, JobsAssumption, SentinelAssumption DEF Shared!Begin, Upstream!Begin
  <2>2. ASSUME NEW c \in Calls, Shared!Change(c) PROVE Upstream!TakeEffect(c)
    BY <2>2 DEF Shared!Change, Upstream!TakeEffect
  <2>3. ASSUME NEW c \in Calls, NEW a \in {"ok", "conflict", "failed", "unknown"},
               Shared!Answer(c, a)
        PROVE  Upstream!Answer(c, IF a \in {"conflict", "failed"} THEN "refused" ELSE a)
    BY <2>3 DEF Shared!Answer, Upstream!Answer
  <2>4. CASE UNCHANGED <<job, effects, answer>>
    BY <2>4
  <2> QED
    BY <2>1, <2>2, <2>3, <2>4
       DEF Shared!Next, Shared!vars, Shared!Edit, Shared!Move, Shared!Push, Upstream!Next
<1> QED
  BY <1>1, <1>2, IInvAlways, Implements, PTL
     DEF Spec, ImplementsSharedPullRequest, Shared!Spec, ImplementsUpstreamCall, Upstream!Spec
=============================================================================
