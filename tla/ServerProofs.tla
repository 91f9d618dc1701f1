---------------------------- MODULE ServerProofs ----------------------------
(***************************************************************************)
(* What every tool call of the server stands on: the retrying client, and  *)
(* below it the startup that decides whose tools there are.  The two       *)
(* models keep no state in common.                                         *)
(*                                                                         *)
(* For any number of calls and any bound on read attempts, a write takes   *)
(* effect at most once and a refusal is definite.  The inductive invariant *)
(* follows one call through the loop: until its request is served a write  *)
(* has no effect, there is no second attempt for it, and what the reply    *)
(* says about the effect is true while the reply is being read.            *)
(***************************************************************************)
EXTENDS BitbucketClient, Startup, TLAPS

\* The loop of do: which attempt is running at each point, and how many
\* requests have gone out by then.
LoopInv ==
    \A c \in Calls :
        /\ pc[c] = "idle" <=> kind[c] = "none"
        /\ pc[c] = "done" <=> answer[c] # "none"
        /\ pc[c] = "served" <=> reply[c] # "none"
        /\ pc[c] = "idle" => attempt[c] = 0 /\ sent[c] = 0
        /\ pc[c] # "idle" => attempt[c] \in 1..attempts(c)
        /\ pc[c] = "send" => sent[c] = attempt[c] - 1
        /\ pc[c] \in {"flight", "served", "sleep"} => sent[c] = attempt[c]
        /\ pc[c] = "sleep" => attempt[c] < attempts(c)

\* What a write has done upstream at each point.
EffectInv ==
    \A c \in Calls :
        /\ kind[c] # "write" => effects[c] = 0 /\ ~late[c]
        /\ pc[c] \in {"send", "flight"} => effects[c] = 0 /\ ~late[c]
        /\ pc[c] = "served" => ~late[c] /\ effects[c] \in {0, 1}
        /\ reply[c] \in {"ok", "noContent"} /\ kind[c] = "write" /\ ~Redirects => effects[c] = 1
        /\ reply[c] = "refused" => effects[c] = 0
        /\ answer[c] = "ok" /\ kind[c] = "write" /\ ~Redirects => effects[c] = 1
        /\ answer[c] = "refused" => effects[c] = 0 /\ ~late[c]
        /\ late[c] => effects[c] = 0
        /\ effects[c] \in {0, 1}

\* A write is one of the registered tools' requests, and not a GET.
ToolInv ==
    \A c \in Calls : kind[c] = "write" => tool[c] \in ToolRequests /\ tool[c].request.method # "GET"

\* What WritesAreAnnounced asks of a request.
Announced(t) ==
    /\ t.hint # "readOnly"
    /\ t.hint = "destructive" => t.request.guard # "none"

IInv == TypeOK /\ LoopInv /\ EffectInv

\* A handler of a read-only tool only reads; one of a destructive tool names,
\* in whatever it writes, what the server must check.
LEMMA RequestsAreAnnounced ==
  \A t \in ToolRequests : t.request.method # "GET" => Announced(t)
<1>1. ASSUME NEW in \in Inputs, NEW i \in 1..27, NEW r \in Register(in)[i],
             r.method # "GET"
      PROVE  Announced([hint |-> Definitions[i], request |-> r])
  <2> DEFINE Reads(s) == \A x \in s : x.method = "GET"
             Guards(s) == \A x \in s : x.method = "GET" \/ x.guard # "none"
  <2> USE DEF Checked, Request, endpoint, getJSON, getPR, diffSegments,
              RepositoryFileEndpoint
  <2>1. ASSUME NEW s \in {GetRepository(in), ListBranches(in), GetDefaultBranch(in),
                          GetFile(in), ListCommits(in), GetCommit(in), GetCommitChanges(in),
                          GetCommitDiff(in), CompareCommits(in), CompareChanges(in),
                          CompareDiff(in)}
        PROVE  Reads(s)
    BY <2>1 DEF GetRepository, ListBranches, GetDefaultBranch, GetFile, ListCommits, GetCommit,
                GetCommitChanges, GetCommitDiff, CompareCommits, CompareChanges, CompareDiff
  <2>2. ASSUME NEW s \in {ListPullRequests(in), GetPullRequest(in), GetPullRequestActivities(in),
                          GetPullRequestCommits(in), GetPullRequestChanges(in),
                          GetPullRequestDiff(in), CheckPullRequestMergeability(in)}
        PROVE  Reads(s)
    BY <2>2 DEF ListPullRequests, GetPullRequest, GetPullRequestActivities,
                GetPullRequestCommits, GetPullRequestChanges, GetPullRequestDiff,
                CheckPullRequestMergeability
  <2>3. Guards(CommitFile(in))
    BY DEF CommitFile
  <2>4. Guards(transition(in))
    BY DEF transition, Both, postJSON
  <2>5. Guards(MergePullRequest(in))
    BY <2>4 DEF MergePullRequest, CheckPullRequestMergeability, Both
  <2>6. CASE i \in {1, 2, 3, 5, 6, 7, 8, 9, 10, 11, 12}
    BY <1>1, <2>1, <2>6 DEF Register
  <2>7. CASE i \in {14, 15, 16, 17, 18, 19, 20}
    BY <1>1, <2>2, <2>7 DEF Register
  <2>8. CASE i \in {4, 21, 22, 23, 27}
    BY <2>8 DEF Definitions, Announced
  <2>9. CASE i \in {13, 24, 25, 26}
    BY <1>1, <2>3, <2>4, <2>5, <2>9
       DEF Register, Definitions, Announced, DeclinePullRequest, ReopenPullRequest
  <2> QED
    BY <2>6, <2>7, <2>8, <2>9
<1>2. DOMAIN Definitions = 1..27
  BY DEF Definitions
<1> QED
  <2> SUFFICES ASSUME NEW t \in ToolRequests, t.request.method # "GET" PROVE Announced(t)
    OBVIOUS
  <2>1. PICK i \in 1..27 : t \in {[hint |-> Definitions[i], request |-> r] : r \in Requests(i)}
    BY <1>2 DEF ToolRequests
  <2> QED
    BY <1>1, <2>1 DEF Requests

LEMMA InitEstablishesIInv == Init => IInv
<1> SUFFICES ASSUME Init PROVE IInv
  OBVIOUS
<1> USE ReadAttemptsAssumption DEF Init
<1>1. TypeOK
  BY DEF TypeOK, Replies
<1>2. LoopInv
  BY DEF LoopInv
<1>3. EffectInv
  BY DEF EffectInv
<1> QED
  BY <1>1, <1>2, <1>3 DEF IInv

LEMMA NextPreservesIInv == IInv /\ [Next]_vars => IInv'
<1> SUFFICES ASSUME IInv, [Next]_vars PROVE IInv'
  OBVIOUS
<1> USE ReadAttemptsAssumption
    DEF IInv, TypeOK, LoopInv, EffectInv, Replies, isRead, attempts
<1>1. ASSUME NEW c \in Calls, NEW t \in ToolRequests, Call(c, t) PROVE IInv'
  BY <1>1 DEF Call
<1>2. ASSUME NEW c \in Calls, Cancel(c) PROVE IInv'
  BY <1>2 DEF Cancel
<1>3. ASSUME NEW c \in Calls, Send(c) PROVE IInv'
  BY <1>3 DEF Send, Returns
<1>4. ASSUME NEW c \in Calls, NEW r \in Replies \ {"none"}, Serve(c, r) PROVE IInv'
  BY <1>4 DEF Serve, TakesEffect
<1>5. ASSUME NEW c \in Calls, ServeLate(c) PROVE IInv'
  BY <1>5 DEF ServeLate
<1>6. ASSUME NEW c \in Calls, TransportError(c) PROVE IInv'
  <2> DEFINE given == [late EXCEPT ![c] = pc[c] = "flight" /\ kind[c] = "write"]
  <2>1. late' = late \/ late' = given
    BY <1>6 DEF TransportError
  <2>2. /\ late' \in [Calls -> BOOLEAN]
        /\ \A d \in Calls : d # c => late'[d] = late[d]
        /\ late'[c] => late[c] \/ (pc[c] = "flight" /\ kind[c] = "write")
    BY <2>1
  <2>3. UNCHANGED <<tool, kind, cancelled, sent, effects>>
    BY <1>6 DEF TransportError
  <2>4. CASE /\ pc[c] \in {"flight", "served"}
             /\ Returns(c, "unknown")
    <3> HIDE DEF given
    <3>1. TypeOK'
      BY <2>2, <2>3, <2>4 DEF Returns
    <3>2. LoopInv'
      BY <2>3, <2>4 DEF Returns
    <3>3. EffectInv'
      BY <2>2, <2>3, <2>4 DEF Returns
    <3> QED
      BY <3>1, <3>2, <3>3
  <2>5. CASE /\ pc[c] \in {"flight", "served"} /\ isRead(c) /\ attempt[c] < attempts(c)
             /\ pc' = [pc EXCEPT ![c] = "sleep"]
             /\ reply' = [reply EXCEPT ![c] = "none"]
             /\ UNCHANGED <<attempt, answer>>
    <3> HIDE DEF given
    <3>1. TypeOK'
      BY <2>2, <2>3, <2>5
    <3>2. LoopInv'
      BY <2>3, <2>5
    <3>3. EffectInv'
      BY <2>2, <2>3, <2>5
    <3> QED
      BY <3>1, <3>2, <3>3
  <2> QED
    BY <1>6, <2>4, <2>5 DEF TransportError, Fails
<1>7. ASSUME NEW c \in Calls, NEW usable \in BOOLEAN, Receive(c, usable) PROVE IInv'
  BY <1>7 DEF Receive, Fails, Returns
<1>8. ASSUME NEW c \in Calls, WakeUp(c) PROVE IInv'
  BY <1>8 DEF WakeUp
<1>9. CASE UNCHANGED vars
  BY <1>9 DEF vars
<1> QED
  BY <1>1, <1>2, <1>3, <1>4, <1>5, <1>6, <1>7, <1>8, <1>9 DEF Next, ClientStep

LEMMA IInvAlways == Spec => []IInv
BY InitEstablishesIInv, NextPreservesIInv, PTL DEF Spec

(* Every reachable state is well typed: in particular the loop never makes *)
(* more than ReadAttempts attempts (request.go:84-95).                     *)
THEOREM TypeCorrect == Spec => []TypeOK
<1>1. IInv => TypeOK
  BY DEF IInv
<1> QED
  BY <1>1, IInvAlways, PTL

LEMMA ToolInvAlways == Spec => []ToolInv
<1>1. Init => ToolInv
  BY DEF Init, ToolInv
<1>2. IInv /\ ToolInv /\ [Next]_vars => ToolInv'
  <2> SUFFICES ASSUME IInv, ToolInv, [Next]_vars PROVE ToolInv'
    OBVIOUS
  <2> USE DEF IInv, TypeOK, ToolInv
  <2>1. ASSUME NEW c \in Calls, NEW t \in ToolRequests, Call(c, t) PROVE ToolInv'
    BY <2>1 DEF Call
  <2>2. ASSUME UNCHANGED <<tool, kind>> PROVE ToolInv'
    BY <2>2
  <2> QED
    BY <2>1, <2>2 DEF Next, ClientStep, Cancel, Send, TransportError, WakeUp, Receive, Serve,
                      ServeLate, vars
<1> QED
  BY <1>1, <1>2, IInvAlways, PTL DEF Spec

(* What takes effect was announced by the hints of the tool that asked for *)
(* it, and a destructive one is guarded (register.go:64-165).              *)
THEOREM AnnouncedWrites == Spec => []WritesAreAnnounced
<1>1. IInv /\ ToolInv => WritesAreAnnounced
  <2> SUFFICES ASSUME IInv, ToolInv, NEW c \in Calls, effects[c] > 0 \/ late[c]
               PROVE  Announced(tool[c])
    BY DEF WritesAreAnnounced, Announced
  <2>1. kind[c] = "write"
    BY DEF IInv, TypeOK, EffectInv
  <2> QED
    BY <2>1, RequestsAreAnnounced DEF ToolInv
<1> QED
  BY <1>1, IInvAlways, ToolInvAlways, PTL

(* A write takes effect at most once, lost answers and late service        *)
(* included (request.go:79-82 and 90).                                     *)
THEOREM AtMostOnce == Spec => []WriteTakesEffectAtMostOnce
<1>1. IInv => WriteTakesEffectAtMostOnce
  <2> SUFFICES ASSUME IInv, NEW c \in Calls
               PROVE  effects[c] + (IF late[c] THEN 1 ELSE 0) <= 1
    BY DEF WriteTakesEffectAtMostOnce
  <2>1. effects[c] \in {0, 1} /\ (late[c] => effects[c] = 0)
    BY DEF IInv, EffectInv
  <2>2. CASE late[c]
    BY <2>1, <2>2
  <2>3. CASE ~late[c]
    BY <2>1, <2>3
  <2> QED
    BY <2>2, <2>3
<1> QED
  BY <1>1, IInvAlways, PTL

(* A refusal reported to the handler is definite (request.go:130-132).     *)
THEOREM DefiniteRefusal == Spec => []RefusalIsDefinite
<1>1. IInv => RefusalIsDefinite
  BY DEF IInv, EffectInv, RefusalIsDefinite
<1> QED
  BY <1>1, IInvAlways, PTL

(* No request follows a cancellation, backoff or not (request.go:110-113). *)
THEOREM CancelStops == Spec => NothingSentAfterCancel
<1>1. IInv /\ [Next]_vars => [\A c \in Calls : cancelled[c] => sent'[c] = sent[c]]_vars
  <2> SUFFICES ASSUME IInv, Next, NEW c \in Calls, cancelled[c] PROVE sent'[c] = sent[c]
    OBVIOUS
  <2>1. ASSUME NEW d \in Calls, Send(d) PROVE sent'[c] = sent[c]
    <3>1. CASE cancelled[d]
      BY <2>1, <3>1 DEF Send
    <3>2. CASE ~cancelled[d]
      <4>1. d # c
        BY <3>2
      <4>2. sent' = [sent EXCEPT ![d] = @ + 1]
        BY <2>1, <3>2 DEF Send
      <4> QED
        BY <4>1, <4>2 DEF IInv, TypeOK
    <3> QED
      BY <3>1, <3>2
  <2> QED
    BY <2>1 DEF Next, ClientStep, Call, Cancel, TransportError, WakeUp, Receive, Serve, ServeLate, vars
<1> QED
  BY <1>1, IInvAlways, PTL DEF Spec, NothingSentAfterCancel

\* The steps a call has left: four for each attempt, the sleep included.
stepsLeft(c) ==
    IF pc[c] \in {"idle", "done"} THEN 0
    ELSE 4 * (attempts(c) - attempt[c]) +
         (IF pc[c] = "send" THEN 4 ELSE IF pc[c] = "flight" THEN 3
          ELSE IF pc[c] = "served" THEN 2 ELSE 1)

LEMMA OwnStepsShorten ==
  ASSUME IInv, NEW c \in Calls, ClientStep(c)
  PROVE  stepsLeft(c)' < stepsLeft(c)
<1> USE ReadAttemptsAssumption DEF IInv, TypeOK, LoopInv, stepsLeft
<1>1. kind' = kind /\ attempts(c)' = attempts(c) /\ attempts(c) \in Nat
  BY DEF ClientStep, Send, TransportError, Receive, WakeUp, Fails, Returns, attempts, isRead
<1>2. attempt[c] \in 1..attempts(c) \/ pc[c] = "idle"
  OBVIOUS
<1> HIDE DEF LoopInv
<1>3. CASE Send(c)
  BY <1>1, <1>2, <1>3 DEF Send, Returns
<1>4. CASE WakeUp(c)
  BY <1>1, <1>2, <1>4 DEF WakeUp
<1>5. ASSUME NEW retry \in BOOLEAN, NEW a, Fails(c, retry, a) \/ Returns(c, a),
             pc[c] \in {"flight", "served"}
      PROVE  stepsLeft(c)' < stepsLeft(c)
  BY <1>1, <1>2, <1>5 DEF Fails, Returns
<1>6. CASE TransportError(c)
  BY <1>5, <1>6 DEF TransportError
<1>7. ASSUME NEW usable \in BOOLEAN, Receive(c, usable) PROVE stepsLeft(c)' < stepsLeft(c)
  BY <1>5, <1>7 DEF Receive
<1> QED
  BY <1>3, <1>4, <1>6, <1>7 DEF ClientStep

LEMMA NobodyLengthens ==
  ASSUME IInv, NEW c \in Calls, pc[c] # "idle", [Next]_vars
  PROVE  stepsLeft(c)' <= stepsLeft(c)
<1>1. stepsLeft(c) \in Int /\ stepsLeft(c)' \in Int
  <2>1. IInv'
    BY NextPreservesIInv
  <2> QED
    BY <2>1, ReadAttemptsAssumption DEF IInv, TypeOK, stepsLeft, attempts
<1>2. CASE UNCHANGED <<pc[c], attempt[c], kind[c]>>
  BY <1>1, <1>2 DEF stepsLeft, attempts, isRead
<1>3. ASSUME NEW d \in Calls, ClientStep(d) PROVE stepsLeft(c)' <= stepsLeft(c)
  <2>1. CASE d = c
    BY <1>1, <1>3, <2>1, OwnStepsShorten
  <2>2. CASE d # c
    <3>1. UNCHANGED <<pc[c], attempt[c], kind[c]>>
      BY <1>3, <2>2 DEF ClientStep, Send, TransportError, Receive, WakeUp, Fails, Returns, IInv, TypeOK
    <3> QED
      BY <1>2, <3>1
  <2> QED
    BY <2>1, <2>2
<1>4. ASSUME NEW d \in Calls, NEW r \in Replies, Serve(d, r) PROVE stepsLeft(c)' <= stepsLeft(c)
  <2>1. UNCHANGED <<attempts(c), attempt[c]>> /\ attempts(c) \in Nat /\ attempt[c] \in Nat
    BY <1>4, ReadAttemptsAssumption DEF Serve, IInv, TypeOK, attempts, isRead
  <2>2. \/ pc[c] = "flight" /\ pc'[c] = "served"
        \/ pc'[c] = pc[c]
    BY <1>4 DEF Serve, IInv, TypeOK
  <2> QED
    BY <2>1, <2>2 DEF stepsLeft
<1>5. ASSUME NEW d \in Calls, NEW t \in ToolRequests, Call(d, t)
      PROVE  UNCHANGED <<pc[c], attempt[c], kind[c]>>
  BY <1>5 DEF Call, IInv, TypeOK
<1>6. ASSUME NEW d \in Calls, Cancel(d) \/ ServeLate(d)
      PROVE  UNCHANGED <<pc[c], attempt[c], kind[c]>>
  BY <1>6 DEF Cancel, ServeLate
<1>7. CASE UNCHANGED vars
  BY <1>2, <1>7 DEF vars
<1> QED
  BY <1>2, <1>3, <1>4, <1>5, <1>6, <1>7 DEF Next

(* Whatever a call does next brings it nearer its end, nobody else takes   *)
(* it back, and a dropped connection, a 5xx or a cancellation costs it at  *)
(* most four steps for each attempt (request.go:78-97).                    *)
THEOREM CallsGetShorter ==
  Spec => /\ [](\A c \in Calls : stepsLeft(c) \in 0 .. 4 * ReadAttempts)
          /\ [][\A c \in Calls :
                 /\ ClientStep(c) => stepsLeft(c)' < stepsLeft(c)
                 /\ pc[c] # "idle" => stepsLeft(c)' <= stepsLeft(c)]_vars
<1>1. IInv => \A c \in Calls : stepsLeft(c) \in 0 .. 4 * ReadAttempts
  BY ReadAttemptsAssumption DEF IInv, TypeOK, LoopInv, stepsLeft, attempts
<1>2. IInv /\ [Next]_vars =>
        [\A c \in Calls :
            /\ ClientStep(c) => stepsLeft(c)' < stepsLeft(c)
            /\ pc[c] # "idle" => stepsLeft(c)' <= stepsLeft(c)]_vars
  BY OwnStepsShorten, NobodyLengthens
<1> QED
  BY <1>1, <1>2, IInvAlways, PTL DEF Spec

(* The loop implements the abstract call: the server's effect is TakeEffect, *)
(* the return of do is Answer, every other step stutters.  A redirected    *)
(* write would be answered ok without its effect (http_client.go:32).      *)
THEOREM Implements ==
  ASSUME ~Redirects PROVE Spec => ImplementsUpstreamCall
<1>1. Init => Upstream!Init
  BY DEF Init, Upstream!Init
<1>2. IInv /\ [Next]_vars => [Upstream!Next]_(Upstream!vars)
  <2> SUFFICES ASSUME IInv, [Next]_vars PROVE [Upstream!Next]_(Upstream!vars)
    OBVIOUS
  <2> USE DEF IInv, TypeOK, LoopInv, EffectInv, Upstream!vars
  <2>1. ASSUME NEW c \in Calls, NEW t \in ToolRequests, Call(c, t)
        PROVE  \E k \in {"read", "write"} : Upstream!Begin(c, k)
    BY <2>1 DEF Call, Upstream!Begin
  <2>2. ASSUME NEW c \in Calls, NEW r, Serve(c, r)
        PROVE  Upstream!TakeEffect(c) \/ UNCHANGED Upstream!vars
    BY <2>2 DEF Serve, TakesEffect, Upstream!TakeEffect
  <2>3. ASSUME NEW c \in Calls, ServeLate(c)
        PROVE  Upstream!TakeEffect(c)
    <3>1. late[c] /\ effects' = [effects EXCEPT ![c] = @ + 1] /\ UNCHANGED <<tool, kind, answer>>
      BY <2>3 DEF ServeLate
    <3>2. kind[c] = "write" /\ effects[c] = 0
      BY <3>1
    <3>3. answer[c] \in {"none", "unknown"}
      BY <3>1, <3>2
    <3> QED
      BY <3>1, <3>2, <3>3 DEF Upstream!TakeEffect
  <2>4. ASSUME NEW c \in Calls, Send(c) \/ TransportError(c)
        PROVE  Upstream!Answer(c, "unknown") \/ UNCHANGED Upstream!vars
    BY <2>4 DEF Send, TransportError, Fails, Returns, Upstream!Answer
  <2>5. ASSUME NEW c \in Calls, NEW usable \in BOOLEAN, Receive(c, usable)
        PROVE  \/ \E a \in {"ok", "refused", "unknown"} : Upstream!Answer(c, a)
               \/ UNCHANGED Upstream!vars
    BY <2>5 DEF Receive, Fails, Returns, Upstream!Answer
  <2>6. ASSUME NEW c \in Calls, Cancel(c) \/ WakeUp(c)
        PROVE  UNCHANGED Upstream!vars
    BY <2>6 DEF Cancel, WakeUp
  <2>7. CASE UNCHANGED vars
    BY <2>7 DEF vars
  <2> QED
    BY <2>1, <2>2, <2>3, <2>4, <2>5, <2>6, <2>7 DEF Next, ClientStep, Upstream!Next
<1> QED
  BY <1>1, <1>2, IInvAlways, PTL DEF Spec, ImplementsUpstreamCall, Upstream!Spec

-----------------------------------------------------------------------------
(***************************************************************************)
(* Startup for any number of modules, variables and environments.  The     *)
(* inductive invariant follows Configure through the list: the status of a *)
(* module it has passed says whether that module's own settings are good,  *)
(* and the CA file of a module it has not passed is still unread.          *)
(***************************************************************************)
GoodHavingSeen(m, seen) ==
    /\ Needed[m] \subseteq env[m].given /\ env[m].urlOk
    /\ ~UsesCA(m) \/ seen = "pem"

ConfiguredSoFar ==
    \A i \in DOMAIN Modules :
        IF i < next THEN status[Modules[i]] = "enabled" <=> OwnSettingsGood(Modules[i])
                    ELSE seenCA[Modules[i]] = "unread"

PlaceMatchesProgress ==
    /\ phase = "load" => next = 1
    /\ phase \in {"register", "start", "serving"} => next > Len(Modules)
    /\ phase \in {"start", "serving"} => tools = {m \in Names : status[m] = "enabled"}
    /\ loaded => /\ next <= Len(Modules)
                 /\ Needed[Modules[next]] \subseteq env[Modules[next]].given
                 /\ env[Modules[next]].urlOk

ServerInv ==
    /\ ServerTypeOK
    /\ login \in [Names -> Int]
    /\ ConfiguredSoFar
    /\ PlaceMatchesProgress

LEMMA ModulesAreNames ==
  /\ Len(Modules) \in Nat /\ DOMAIN Modules = 1..Len(Modules)
  /\ \A i \in DOMAIN Modules : Modules[i] \in Names
  /\ \A m \in Names : \E i \in DOMAIN Modules : m = Modules[i]
BY ModulesAssumption DEF Names

LEMMA InitEstablishesServerInv == ServerInit => ServerInv
<1> SUFFICES ASSUME ServerInit PROVE ServerInv
  OBVIOUS
<1>1. login \in [Names -> Int] /\ \A m \in Names : login[m] \in -1..LoginSteps[m]
  <2>1. \A m \in Names : -1 \in -1..LoginSteps[m]
    BY ModulesAssumption
  <2> QED
    BY <2>1 DEF ServerInit
<1>2. ServerTypeOK
  <2>1. 1 \in 1..(Len(Modules) + 1)
    BY ModulesAreNames
  <2>2. \A m \in Names : env[m] \in Environments[m]
    BY DEF ServerInit
  <2> QED
    BY <1>1, <2>1, <2>2 DEF ServerInit, ServerTypeOK, Files
<1>3. ConfiguredSoFar
  <2> SUFFICES ASSUME NEW i \in DOMAIN Modules PROVE ~(i < 1) /\ seenCA[Modules[i]] = "unread"
    BY DEF ServerInit, ConfiguredSoFar
  <2>1. i \in Nat /\ i >= 1 /\ Modules[i] \in Names
    BY ModulesAreNames
  <2> QED
    BY <2>1 DEF ServerInit
<1>4. PlaceMatchesProgress
  BY DEF ServerInit, PlaceMatchesProgress
<1> QED
  BY <1>1, <1>2, <1>3, <1>4 DEF ServerInv

\* What LoadConfig says of a module without looking at its certificates.
LEMMA LoadConfigIsAboutItsModule ==
  ASSUME NEW m \in Names
  PROVE  /\ LoadConfig(m) \in {"notRequested", "disabled", "enabled"}
         /\ LoadConfig(m) = "enabled" => Needed[m] \subseteq env[m].given /\ env[m].urlOk
         /\ LoadConfig(m) # "enabled" =>
              ~(Needed[m] \subseteq env[m].given) \/ ~env[m].urlOk \/ UsesCA(m)
BY ModulesAssumption DEF LoadConfig, Requested

\* One module's turn changes its own status and what was read of its own file.
LEMMA ConfigurePreservesServerInv ==
  ASSUME ServerInv, Configure PROVE ServerInv'
<1> USE DEF ServerInv
<1>1. UNCHANGED <<env, timeout, verify, caFile, tools, login, exitCode>>
  BY DEF Configure, fixed
<1>2. CASE next > Len(Modules)
  <2>1. phase = "configure" /\ phase' = "register" /\ UNCHANGED <<next, loaded, status, seenCA>>
    BY <1>2, ModulesAreNames DEF Configure, ServerTypeOK
  <2>2. ServerTypeOK'
    BY <1>1, <2>1 DEF ServerTypeOK
  <2>3. ConfiguredSoFar' /\ PlaceMatchesProgress'
    BY <1>1, <1>2, <2>1 DEF ConfiguredSoFar, PlaceMatchesProgress, OwnSettingsGood, UsesCA
  <2> QED
    BY <1>1, <2>2, <2>3
<1>3. CASE next <= Len(Modules)
  <2>0. next \in DOMAIN Modules
    BY <1>3, ModulesAreNames DEF ServerTypeOK
  <2> PICK m \in Names : m = Modules[next]
    BY <2>0, ModulesAreNames
  <2>1. /\ next \in DOMAIN Modules /\ m \in Names
        /\ phase = "configure" /\ phase' = phase /\ ValidateStaticConfig(m)
    BY <1>3, <2>0 DEF Configure, ServerTypeOK
  <2>2. seenCA[m] = "unread"
    BY <2>1, ModulesAreNames DEF ConfiguredSoFar, ServerTypeOK
  <2>3. /\ caFile[m] \in Files /\ seenCA \in [Names -> Files \cup {"unread"}]
        /\ status \in [Names -> {"unknown", "enabled", "notRequested", "disabled"}]
        /\ next \in Nat
    BY <2>1 DEF ServerTypeOK
  <2>4. ASSUME NEW s \in {"notRequested", "disabled", "enabled"}, Status(m, s),
               NEW seen \in Files \cup {"unread"}, seenCA' = [seenCA EXCEPT ![m] = seen],
               s = "enabled" <=> GoodHavingSeen(m, seen)
        PROVE  ServerInv'
    <3>1. /\ status' = [status EXCEPT ![m] = s] /\ next' = next + 1 /\ loaded' = FALSE
      BY <2>4 DEF Status
    <3>2. ServerTypeOK'
      <4>1. next' \in 1..(Len(Modules) + 1)
        BY <1>3, <2>1, <3>1, ModulesAreNames DEF ServerTypeOK
      <4>2. /\ status' \in [Names -> {"unknown", "enabled", "notRequested", "disabled"}]
            /\ seenCA' \in [Names -> Files \cup {"unread"}]
        BY <2>1, <2>3, <2>4, <3>1
      <4> QED
        BY <1>1, <2>1, <3>1, <4>1, <4>2 DEF ServerTypeOK
    <3>3. ASSUME NEW i \in DOMAIN Modules
          PROVE  IF i < next' THEN status'[Modules[i]] = "enabled" <=> OwnSettingsGood(Modules[i])'
                              ELSE seenCA'[Modules[i]] = "unread"
      <4>1. CASE i = next
        <5>1. status'[m] = s /\ seenCA'[m] = seen
          BY <2>1, <2>3, <2>4, <3>1
        <5>2. OwnSettingsGood(m)' <=> s = "enabled"
          BY <1>1, <2>4, <5>1 DEF OwnSettingsGood, GoodHavingSeen, UsesCA
        <5>3. i < next'
          BY <2>3, <3>1, <4>1
        <5> QED
          BY <4>1, <5>1, <5>2, <5>3
      <4>2. CASE i # next
        <5>1. Modules[i] \in Names /\ Modules[i] # m
          BY <2>1, <4>2, ModulesAssumption, ModulesAreNames
        <5>2. status'[Modules[i]] = status[Modules[i]] /\ seenCA'[Modules[i]] = seenCA[Modules[i]]
          BY <2>3, <2>4, <3>1, <5>1
        <5>3. OwnSettingsGood(Modules[i])' <=> OwnSettingsGood(Modules[i])
          BY <1>1, <5>2 DEF OwnSettingsGood, UsesCA
        <5>4. i < next' <=> i < next
          BY <2>3, <3>1, <4>2, ModulesAreNames
        <5> QED
          BY <5>2, <5>3, <5>4 DEF ConfiguredSoFar
      <4> QED
        BY <4>1, <4>2
    <3>4. ConfiguredSoFar'
      BY <3>3 DEF ConfiguredSoFar
    <3>5. PlaceMatchesProgress'
      BY <2>1, <3>1 DEF PlaceMatchesProgress
    <3> QED
      BY <1>1, <3>2, <3>4, <3>5
  <2>5. CASE ~loaded /\ LoadConfig(m) # "enabled" /\ Status(m, LoadConfig(m)) /\ UNCHANGED seenCA
    <3>1. seenCA' = [seenCA EXCEPT ![m] = "unread"]
      BY <2>1, <2>2, <2>3, <2>5
    <3> QED
      BY <2>1, <2>4, <2>5, <3>1, LoadConfigIsAboutItsModule DEF GoodHavingSeen
  <2>6. CASE ~loaded /\ LoadConfig(m) = "enabled" /\ loaded' = TRUE
             /\ UNCHANGED <<status, next, seenCA>>
    <3>1. ServerTypeOK'
      BY <1>1, <2>1, <2>6 DEF ServerTypeOK
    <3>2. ConfiguredSoFar'
      BY <1>1, <2>6 DEF ConfiguredSoFar, OwnSettingsGood, UsesCA
    <3>3. PlaceMatchesProgress'
      BY <1>1, <1>3, <2>1, <2>6, LoadConfigIsAboutItsModule DEF PlaceMatchesProgress
    <3> QED
      BY <1>1, <3>1, <3>2, <3>3
  <2>7. CASE loaded /\ seenCA' = [seenCA EXCEPT ![m] = IF UsesCA(m) THEN caFile[m] ELSE @]
             /\ Status(m, IF UsesCA(m) /\ caFile[m] # "pem" THEN "disabled" ELSE "enabled")
    <3>1. Needed[m] \subseteq env[m].given /\ env[m].urlOk
      BY <2>7 DEF PlaceMatchesProgress
    <3>2. CASE UsesCA(m)
      BY <2>3, <2>4, <2>7, <3>1, <3>2 DEF GoodHavingSeen
    <3>3. CASE ~UsesCA(m)
      BY <2>2, <2>3, <2>4, <2>7, <3>1, <3>3 DEF GoodHavingSeen
    <3> QED
      BY <3>2, <3>3
  <2> QED
    BY <2>1, <2>5, <2>6, <2>7 DEF ValidateStaticConfig
<1> QED
  BY <1>2, <1>3, ModulesAreNames DEF ServerTypeOK

\* No other step touches what Configure relies on.
LEMMA NextPreservesServerInv == ServerInv /\ [ServerNext]_serverVars => ServerInv'
<1> SUFFICES ASSUME ServerInv, [ServerNext]_serverVars PROVE ServerInv'
  OBVIOUS
<1> USE DEF ServerInv
<1>1. CASE Configure
  BY <1>1, ConfigurePreservesServerInv
<1>2. ASSUME UNCHANGED <<fixed, next, loaded, status, seenCA>>,
             ServerTypeOK', login' \in [Names -> Int],
             \/ UNCHANGED <<phase, tools>>
             \/ phase' = "exited"
             \/ phase = "load" /\ phase' = "configure"
             \/ phase = "register" /\ phase' = "start" /\ tools' = {m \in Names : status[m] = "enabled"}
             \/ phase = "start" /\ phase' = "serving" /\ tools' = tools
      PROVE  ServerInv'
  <2>1. ConfiguredSoFar'
    BY <1>2 DEF ConfiguredSoFar, OwnSettingsGood, UsesCA, fixed
  <2>2. PlaceMatchesProgress'
    BY <1>2 DEF PlaceMatchesProgress, fixed
  <2> QED
    BY <1>2, <2>1, <2>2
<1>3. CASE LoadShared
  BY <1>2, <1>3 DEF LoadShared, Exit, ServerTypeOK, fixed
<1>4. CASE RegisterEnabled
  BY <1>2, <1>4 DEF RegisterEnabled, ServerTypeOK, fixed
<1>5. CASE Start
  <2>1. login' \in [Names -> Int] /\ \A m \in Names : login'[m] \in -1..LoginSteps[m]
    BY <1>5, ModulesAssumption DEF Start, AutoAuthenticate
  <2> QED
    BY <1>2, <1>5, <2>1 DEF Start, ServerTypeOK, fixed
<1>6. CASE RunReturns
  BY <1>2, <1>6 DEF RunReturns, Exit, ServerTypeOK, fixed
<1>7. ASSUME NEW m \in Names, NEW content \in Files, FileChanges(m, content) PROVE ServerInv'
  BY <1>2, <1>7 DEF FileChanges, ServerTypeOK, fixed
<1>8. ASSUME NEW m \in Names, LoginAnswered(m) \/ LoginTimesOut(m) PROVE ServerInv'
  <2>1. PICK left \in {0, login[m] - 1} : LoginStep(m, left)
    BY <1>8 DEF LoginAnswered, LoginTimesOut
  <2>2. /\ LoginSteps[m] \in Nat /\ login[m] > 0
        /\ login[m] \in -1..LoginSteps[m]
    BY <2>1, ModulesAssumption DEF LoginStep, ServerTypeOK
  <2>3. left \in -1..LoginSteps[m] /\ left \in Int
    BY <2>2
  <2>4. login' \in [Names -> Int] /\ \A n \in Names : login'[n] \in -1..LoginSteps[n]
    BY <2>1, <2>3 DEF LoginStep, ServerTypeOK
  <2> QED
    BY <1>2, <2>1, <2>4 DEF LoginStep, ServerTypeOK, fixed
<1>9. CASE UNCHANGED serverVars
  BY <1>2, <1>9 DEF serverVars, ServerTypeOK, fixed
<1> QED
  BY <1>1, <1>3, <1>4, <1>5, <1>6, <1>7, <1>8, <1>9 DEF ServerNext, Main

LEMMA ServerInvAlways == ServerSpec => []ServerInv
BY InitEstablishesServerInv, NextPreservesServerInv, PTL DEF ServerSpec

(* Every reachable state is well typed; no startup login has more requests *)
(* left than its module's login makes.                                     *)
THEOREM ServerTypeCorrect == ServerSpec => []ServerTypeOK
<1>1. ServerInv => ServerTypeOK
  BY DEF ServerInv
<1> QED
  BY <1>1, ServerInvAlways, PTL

(* The tools served are those of the modules whose own settings are good,  *)
(* whatever is wrong with the others and whenever CA files change          *)
(* (module_registry.go:27-49).                                             *)
THEOREM EachModuleForItself == ServerSpec => []ModulesAreIsolated
<1>1. ServerInv => ModulesAreIsolated
  <2> SUFFICES ASSUME ServerInv, phase = "serving" PROVE tools = {m \in Names : OwnSettingsGood(m)}
    BY DEF ModulesAreIsolated
  <2>1. tools = {m \in Names : status[m] = "enabled"} /\ next > Len(Modules)
    BY DEF ServerInv, PlaceMatchesProgress
  <2>2. ASSUME NEW m \in Names PROVE status[m] = "enabled" <=> OwnSettingsGood(m)
    BY <2>1, ModulesAreNames DEF ServerInv, ConfiguredSoFar, ServerTypeOK
  <2> QED
    BY <2>1, <2>2
<1> QED
  BY <1>1, ServerInvAlways, PTL

\* What main has left: two looks at each module, and three steps around them.
mainLeft ==
    IF phase = "load" THEN 2 * Len(Modules) + 4
    ELSE IF phase = "configure"
         THEN 2 * (Len(Modules) + 1 - next) + (IF loaded THEN 0 ELSE 1) + 2
    ELSE IF phase = "register" THEN 2
    ELSE IF phase = "start" THEN 1 ELSE 0

\* LoadShared is the first step of main, and begins with the first module.
FromTheStart ==
    /\ phase = "load" => next = 1 /\ ~loaded
    /\ phase \in {"configure", "register", "start", "serving"} => timeout # "zero"

LEMMA MainShortens ==
  ASSUME ServerInv, FromTheStart, Main PROVE mainLeft' < mainLeft
<1>1. next \in 1..(Len(Modules) + 1) /\ Len(Modules) \in Nat /\ loaded \in BOOLEAN
  BY ModulesAreNames DEF ServerInv, ServerTypeOK
<1>2. CASE LoadShared
  BY <1>1, <1>2 DEF LoadShared, Exit, FromTheStart, mainLeft
<1>3. CASE Configure
  <2>1. CASE phase' = phase
    <3>1. \/ next' = next + 1 /\ ~loaded'
          \/ next' = next /\ ~loaded /\ loaded'
      BY <1>1, <1>3, <2>1 DEF Configure, ValidateStaticConfig, Status
    <3>2. phase = "configure" /\ phase' = "configure"
      BY <1>3, <2>1 DEF Configure
    <3> QED
      BY <1>1, <3>1, <3>2 DEF mainLeft
  <2>2. CASE phase' # phase
    BY <1>1, <1>3, <2>2 DEF Configure, mainLeft, ServerInv, PlaceMatchesProgress
  <2> QED
    BY <2>1, <2>2
<1>4. CASE RegisterEnabled
  BY <1>4 DEF RegisterEnabled, mainLeft
<1>5. CASE Start
  BY <1>5 DEF Start, mainLeft
<1> QED
  BY <1>2, <1>3, <1>4, <1>5 DEF Main

(* Nothing at startup is done twice: every step of main brings it nearer   *)
(* to serving or to its exit; every answer and every timeout brings a      *)
(* login nearer its end; and a timeout there is, because none of the       *)
(* settings that are accepted switches it off (shared.go:40-45,            *)
(* http_client.go:15-45).                                                  *)
THEOREM StartupGetsShorter ==
  ServerSpec =>
      /\ [][Main => mainLeft' < mainLeft]_serverVars
      /\ [][\A m \in Names :
             /\ LoginAnswered(m) \/ LoginTimesOut(m) => login'[m] < login[m]
             /\ phase = "serving" => login'[m] <= login[m]]_serverVars
      /\ [](\A m \in Names : phase = "serving" /\ login[m] > 0 => timeout # "zero")
<1>1. ServerInit => FromTheStart
  BY DEF ServerInit, FromTheStart
<1>2. ServerInv /\ FromTheStart /\ [ServerNext]_serverVars => FromTheStart'
  <2> SUFFICES ASSUME ServerInv, FromTheStart, [ServerNext]_serverVars PROVE FromTheStart'
    OBVIOUS
  <2> USE DEF FromTheStart, fixed
  <2>1. CASE Main
    BY <2>1 DEF Main, LoadShared, Configure, RegisterEnabled, Start, Exit
  <2>2. CASE RunReturns
    BY <2>2 DEF RunReturns, Exit
  <2>3. ASSUME NEW m \in Names,
               (\E content \in Files : FileChanges(m, content)) \/ LoginAnswered(m) \/ LoginTimesOut(m)
        PROVE  FromTheStart'
    BY <2>3 DEF FileChanges, LoginAnswered, LoginTimesOut, LoginStep
  <2>4. CASE UNCHANGED serverVars
    BY <2>4 DEF serverVars
  <2> QED
    BY <2>1, <2>2, <2>3, <2>4 DEF ServerNext
<1>3. ServerInv /\ FromTheStart => [Main => mainLeft' < mainLeft]_serverVars
  BY MainShortens
<1>4. ServerInv /\ [ServerNext]_serverVars =>
        [\A m \in Names :
            /\ LoginAnswered(m) \/ LoginTimesOut(m) => login'[m] < login[m]
            /\ phase = "serving" => login'[m] <= login[m]]_serverVars
  <2> SUFFICES ASSUME ServerInv, ServerNext, NEW m \in Names
               PROVE  /\ LoginAnswered(m) \/ LoginTimesOut(m) => login'[m] < login[m]
                      /\ phase = "serving" => login'[m] <= login[m]
    OBVIOUS
  <2>1. login \in [Names -> Int]
    BY DEF ServerInv
  <2>0. LoginAnswered(m) \/ LoginTimesOut(m) => login'[m] < login[m]
    BY <2>1 DEF LoginAnswered, LoginTimesOut, LoginStep
  <2>2. ASSUME NEW n \in Names, NEW left \in {0, login[n] - 1}, LoginStep(n, left)
        PROVE  login'[m] <= login[m]
    BY <2>1, <2>2 DEF LoginStep
  <2>3. ASSUME NEW n \in Names, LoginAnswered(n) \/ LoginTimesOut(n) PROVE login'[m] <= login[m]
    BY <2>2, <2>3 DEF LoginAnswered, LoginTimesOut
  <2>4. CASE UNCHANGED login
    BY <2>0, <2>1, <2>4
  <2>5. CASE Main /\ phase = "serving"
    BY <2>5 DEF Main, LoadShared, Configure, RegisterEnabled, Start
  <2>6. CASE RunReturns
    BY <2>4, <2>6 DEF RunReturns, Exit
  <2>7. ASSUME NEW n \in Names, NEW content \in Files, FileChanges(n, content)
        PROVE  UNCHANGED login
    BY <2>7 DEF FileChanges
  <2> QED
    BY <2>0, <2>3, <2>4, <2>5, <2>6, <2>7 DEF ServerNext
<1>5. FromTheStart => \A m \in Names : phase = "serving" /\ login[m] > 0 => timeout # "zero"
  BY DEF FromTheStart
<1> QED
  BY <1>1, <1>2, <1>3, <1>4, <1>5, ServerInvAlways, PTL DEF ServerSpec
=============================================================================
