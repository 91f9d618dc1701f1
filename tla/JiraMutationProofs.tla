------------------------- MODULE JiraMutationProofs --------------------------
(***************************************************************************)
(* For any number of tools and people at work on an issue, with or without *)
(* redirects for everything but the truth of an acknowledgement.  The      *)
(* invariant says how far each write has come: nothing before it is sent,  *)
(* and once served, that its effect, its revision and Jira's reply agree.  *)
(***************************************************************************)
EXTENDS JiraMutation, FiniteSetTheorems, TLAPS

\* Where a call is determines whether its write is out and answered.
CallInv ==
    \A c \in Calls :
        /\ pc[c] = "done" <=> answer[c] # "none"
        /\ pc[c] \in {"idle", "lookup", "send"} =>
            ~onWire[c] /\ reply[c] = "none" /\ effects[c] = 0
        /\ onWire[c] => pc[c] \in {"flight", "done"} /\ reply[c] = "none" /\ effects[c] = 0
        /\ pc[c] \in {"idle", "lookup", "send", "flight", "refresh"} => shown[c] = 0
        /\ pc[c] = "refresh" => Succeeds(c)
        /\ pc[c] = "done" /\ onWire[c] => answer[c] = "unknown"
        /\ answer[c] = "refused" => effects[c] = 0
        /\ answer[c] = "applied" => Succeeds(c)
        /\ pc[c] \in {"idle", "lookup", "send", "flight"} => ~acknowledged[c]
        /\ pc[c] = "refresh" => acknowledged[c]
        /\ pc[c] = "done" => (answer[c] = "applied" <=> acknowledged[c])

\* What a write has done so far.
EffectInv ==
    \A c \in Calls :
        /\ effects[c] = 1 => reply[c] \in {"ok", "odd", "error"}
        /\ reply[c] = "refused" => effects[c] = 0
        /\ effects[c] = 1 => made[c] # 0
        /\ made[c] <= revision
        /\ reply[c] \in {"ok", "odd"} /\ ~Redirects => effects[c] = 1

\* A transition looked up by name.
NameInv ==
    \A c \in Calls :
        /\ pc[c] = "idle" => name[c] = NoTransition
        /\ name[c] # NoTransition /\ pc[c] \in {"send", "flight", "refresh"} =>
            chosen[c] \in TransitionIds /\ nameOf[chosen[c]] = name[c] /\ matches[c] = 1
        /\ name[c] # NoTransition /\ (effects[c] = 1 \/ onWire[c]) =>
            chosen[c] \in TransitionIds /\ nameOf[chosen[c]] = name[c] /\ matches[c] = 1

ReadInv ==
    \A c \in Calls : ~Redirects /\ shown[c] # 0 => effects[c] = 1 /\ made[c] <= shown[c]

\* A call that has begun makes one of the registered tools' writes.
ToolInv == \A c \in Calls : pc[c] # "idle" => tool[c] \in WriteCalls

IInv == TypeOK /\ CallInv /\ EffectInv /\ NameInv /\ ReadInv

\* What WritesAreAnnounced asks of a write.
Announced(t) ==
    /\ t.hint # "readOnly"
    /\ t.hint = "additive" => t.request.method = "POST"
    /\ t.request.path \subseteq {"good"}

\* Every position Register binds, taken with the definition there.
LEMMA WriteCallsAreAnnounced == \A t \in WriteCalls : Announced(t)
<1>1. ASSUME NEW in \in Inputs, NEW i \in 1..30, Writes(Register(in)[i])
      PROVE  Announced([hint |-> Definitions[i], request |-> Register(in)[i]])
  <2> USE DEF Checked, Refused, Request, Writes, Clean
  <2>1. ASSUME NEW r \in {Authenticate(in), GetIssue(in), SearchIssues(in), ListIssueComments(in),
                          ListIssueTransitions(in), ListIssueWorklogs(in), GetIssueWatchers(in),
                          GetComponent(in), GetComponentIssueCount(in), ListProjectComponents(in)}
        PROVE  ~Writes(r)
    BY <2>1 DEF Read, Authenticate, GetIssue, SearchIssues, ListIssueComments,
                ListIssueTransitions, ListIssueWorklogs, GetIssueWatchers, GetComponent,
                GetComponentIssueCount, ListProjectComponents
  <2>2. ASSUME NEW r \in {AddIssueComment(in), CreateIssue(in), BulkCreateIssues(in),
                          AddIssueAttachment(in), AddIssueWorklog(in), AddIssueWatcher(in),
                          VoteIssue(in), CreateIssueLink(in), CreateComponent(in)}
        PROVE  r.method \in {"POST", "none"} /\ r.path \subseteq {"good"}
    BY <2>2 DEF AddIssueComment, CreateIssue, BulkCreateIssues, AddIssueAttachment, Change,
                AddIssueWorklog, AddIssueWatcher, VoteIssue, CreateIssueLink, CreateComponent
  <2>3. ASSUME NEW r \in {UpdateIssueFields(in), TransitionIssue(in), DeleteIssue(in),
                          AssignIssue(in), UpdateIssueComment(in), DeleteIssueComment(in),
                          DeleteIssueAttachment(in), RemoveIssueWatcher(in), UnvoteIssue(in),
                          UpdateComponent(in), DeleteComponent(in)}
        PROVE  r.path \subseteq {"good"}
    BY <2>3 DEF UpdateIssueFields, TransitionIssue, DeleteIssue, AssignIssue, UpdateIssueComment,
                DeleteIssueComment, DeleteIssueAttachment, RemoveIssueWatcher, UnvoteIssue,
                UpdateComponent, DeleteComponent, Change
  <2>4. CASE i \in {1, 2, 10, 11, 14, 17, 19, 26, 29, 30}
    BY <1>1, <2>1, <2>4 DEF Register
  <2>5. CASE i \in {3, 6, 7, 15, 18, 20, 22, 24, 25}
    BY <1>1, <2>2, <2>5 DEF Register, Definitions, Announced
  <2>6. CASE i \in {4, 5, 8, 9, 12, 13, 16, 21, 23, 27, 28}
    BY <1>1, <2>3, <2>6 DEF Register, Definitions, Announced
  <2> QED
    BY <2>4, <2>5, <2>6
<1>2. DOMAIN Definitions = 1..30
  BY DEF Definitions
<1> QED
  BY <1>1, <1>2 DEF WriteCalls

LEMMA InitEstablishesIInv == Init => IInv
<1> SUFFICES ASSUME Init PROVE IInv
  OBVIOUS
<1>1. TypeOK
  BY DEF Init, TypeOK, Answers, Replies
<1>2. CallInv
  BY DEF Init, CallInv
<1>3. EffectInv
  BY DEF Init, EffectInv
<1>4. NameInv
  BY DEF Init, NameInv
<1>5. ReadInv
  BY DEF Init, ReadInv
<1> QED
  BY <1>1, <1>2, <1>3, <1>4, <1>5 DEF IInv

\* A name stands for a number of transitions.
LEMMA MatchesAreCounted ==
  ASSUME TypeOK, NEW n PROVE Cardinality(Named(n)) \in Nat
<1>1. IsFiniteSet(Named(n))
  BY FS_Subset, JiraMutationAssumption DEF Named, TypeOK
<1> QED
  BY <1>1, FS_CardinalityType

LEMMA NextPreservesIInv == IInv /\ [Next]_vars => IInv'
<1> SUFFICES ASSUME IInv, [Next]_vars PROVE IInv'
  OBVIOUS
<1> USE JiraMutationAssumption DEF IInv, Answers, Replies, Succeeds
<1>1. ASSUME NEW ids \in SUBSET TransitionIds, Work(ids)
      PROVE  IInv'
  <2>1. TypeOK'
    BY <1>1 DEF Work, issueVars, inputVars, TypeOK
  <2>2. CallInv'
    BY <1>1 DEF Work, issueVars, inputVars, CallInv, TypeOK
  <2>3. EffectInv'
    BY <1>1 DEF Work, issueVars, inputVars, EffectInv, TypeOK, CallInv
  <2>4. NameInv'
    BY <1>1 DEF Work, issueVars, inputVars, NameInv, TypeOK, CallInv
  <2>5. ReadInv'
    BY <1>1 DEF Work, issueVars, inputVars, ReadInv, TypeOK, CallInv, EffectInv
  <2> QED
    BY <2>1, <2>2, <2>3, <2>4, <2>5
<1>2. ASSUME NEW c \in Calls, NEW t \in WriteCalls, CallWrite(c, t)
      PROVE  IInv'
  <2>1. TypeOK'
    BY <1>2 DEF CallWrite, Begins, serverVars, TypeOK
  <2>2. CallInv'
    BY <1>2 DEF CallWrite, Begins, serverVars, CallInv, TypeOK
  <2>3. EffectInv'
    BY <1>2 DEF CallWrite, Begins, serverVars, EffectInv, TypeOK, CallInv
  <2>4. NameInv'
    BY <1>2 DEF CallWrite, Begins, serverVars, NameInv, TypeOK, CallInv
  <2>5. ReadInv'
    BY <1>2 DEF CallWrite, Begins, serverVars, ReadInv, TypeOK, CallInv, EffectInv
  <2> QED
    BY <2>1, <2>2, <2>3, <2>4, <2>5
<1>3. ASSUME NEW c \in Calls, NEW id \in TransitionIds, NEW t \in WriteCalls,
             CallTransitionById(c, t, id)
      PROVE  IInv'
  <2>1. TypeOK'
    BY <1>3 DEF CallTransitionById, Begins, serverVars, TypeOK
  <2>2. CallInv'
    BY <1>3 DEF CallTransitionById, Begins, serverVars, CallInv, TypeOK
  <2>3. EffectInv'
    BY <1>3 DEF CallTransitionById, Begins, serverVars, EffectInv, TypeOK, CallInv
  <2>4. NameInv'
    BY <1>3 DEF CallTransitionById, Begins, serverVars, NameInv, TypeOK, CallInv
  <2>5. ReadInv'
    BY <1>3 DEF CallTransitionById, Begins, serverVars, ReadInv, TypeOK, CallInv, EffectInv
  <2> QED
    BY <2>1, <2>2, <2>3, <2>4, <2>5
<1>4. ASSUME NEW c \in Calls, NEW n \in TransitionNames, NEW t \in WriteCalls,
             CallTransitionByName(c, t, n)
      PROVE  IInv'
  <2>1. TypeOK'
    BY <1>4 DEF CallTransitionByName, Begins, serverVars, TypeOK
  <2>2. CallInv'
    BY <1>4 DEF CallTransitionByName, Begins, serverVars, CallInv, TypeOK
  <2>3. EffectInv'
    BY <1>4 DEF CallTransitionByName, Begins, serverVars, EffectInv, TypeOK, CallInv
  <2>4. NameInv'
    BY <1>4 DEF CallTransitionByName, Begins, serverVars, NameInv, TypeOK, CallInv
  <2>5. ReadInv'
    BY <1>4 DEF CallTransitionByName, Begins, serverVars, ReadInv, TypeOK, CallInv, EffectInv
  <2> QED
    BY <2>1, <2>2, <2>3, <2>4, <2>5
<1>5. ASSUME NEW c \in Calls, ResolveTransitionName(c)
      PROVE  IInv'
  <2>1. TypeOK'
    <3>1. Cardinality(Named(name[c])) \in Nat
      BY MatchesAreCounted
    <3>2. matches' = [matches EXCEPT ![c] = Cardinality(Named(name[c]))]
      BY <1>5 DEF ResolveTransitionName
    <3>3. matches' \in [Calls -> Nat]
      BY <3>1, <3>2 DEF TypeOK
    <3>4. Named(name[c]) \subseteq TransitionIds
      BY DEF Named, TypeOK
    <3> QED
      BY <1>5, <3>3, <3>4 DEF ResolveTransitionName, serverVars, inputVars, Return, TypeOK
  <2>2. CallInv'
    BY <1>5 DEF ResolveTransitionName, serverVars, inputVars, Return, CallInv, TypeOK
  <2>3. EffectInv'
    BY <1>5 DEF ResolveTransitionName, serverVars, inputVars, Return, EffectInv, TypeOK, CallInv
  <2>4. NameInv'
    <3>1. ASSUME NEW id, Named(name[c]) = {id}
          PROVE  id \in TransitionIds /\ nameOf[id] = name[c] /\ Cardinality(Named(name[c])) = 1
      <4>1. id \in Named(name[c])
        BY <3>1
      <4>2. id \in TransitionIds /\ nameOf[id] = name[c]
        BY <4>1 DEF Named, TypeOK
      <4> QED
        BY <3>1, <4>2, FS_Singleton
    <3>2. CASE Return(c, "refused")
      BY <1>5, <3>2 DEF ResolveTransitionName, serverVars, inputVars, Return, NameInv, TypeOK, CallInv
    <3>3. ASSUME NEW id \in Named(name[c]), Named(name[c]) = {id},
                 chosen' = [chosen EXCEPT ![c] = id], pc' = [pc EXCEPT ![c] = "send"]
          PROVE  NameInv'
      <4>1. id \in TransitionIds /\ nameOf[id] = name[c] /\ Cardinality(Named(name[c])) = 1
        BY <3>1, <3>3
      <4>2. /\ matches' = [matches EXCEPT ![c] = Cardinality(Named(name[c]))]
            /\ UNCHANGED <<name, effects, onWire>>
        BY <1>5 DEF ResolveTransitionName, serverVars, inputVars
      <4> HIDE DEF Named
      <4>3. matches'[c] = 1
        BY <4>1, <4>2 DEF TypeOK
      <4>4. \A d \in Calls : d # c => matches'[d] = matches[d]
        BY <4>2 DEF TypeOK
      <4> QED
        BY <1>5, <3>3, <4>1, <4>2, <4>3, <4>4 DEF NameInv, TypeOK
    <3> QED
      BY <1>5, <3>2, <3>3 DEF ResolveTransitionName
  <2>5. ReadInv'
    BY <1>5 DEF ResolveTransitionName, serverVars, inputVars, Return, ReadInv, TypeOK, CallInv, EffectInv
  <2> QED
    BY <2>1, <2>2, <2>3, <2>4, <2>5
<1>6. ASSUME NEW c \in Calls, Send(c)
      PROVE  IInv'
  <2>1. TypeOK'
    BY <1>6 DEF Send, issueVars, inputVars, TypeOK
  <2>2. CallInv'
    BY <1>6 DEF Send, issueVars, inputVars, CallInv, TypeOK
  <2>3. EffectInv'
    BY <1>6 DEF Send, issueVars, inputVars, EffectInv, TypeOK, CallInv
  <2>4. NameInv'
    BY <1>6 DEF Send, issueVars, inputVars, NameInv, TypeOK, CallInv
  <2>5. ReadInv'
    BY <1>6 DEF Send, issueVars, inputVars, ReadInv, TypeOK, CallInv, EffectInv
  <2> QED
    BY <2>1, <2>2, <2>3, <2>4, <2>5
<1>7. ASSUME NEW c \in Calls, Receive(c)
      PROVE  IInv'
  <2>1. TypeOK'
    BY <1>7 DEF Receive, serverVars, inputVars, Return, TypeOK
  <2>2. CallInv'
    <3>1. /\ pc[c] = "flight" /\ acknowledged' = [acknowledged EXCEPT ![c] = Succeeds(c)]
          /\ UNCHANGED <<tool, onWire, reply, effects, shown>>
      BY <1>7 DEF Receive, serverVars, inputVars
    <3>2. CASE Succeeds(c) /\ pc' = [pc EXCEPT ![c] = "refresh"] /\ UNCHANGED answer
      BY <3>1, <3>2 DEF CallInv, TypeOK
    <3>3. CASE Succeeds(c) /\ Return(c, "applied")
      BY <1>7, <3>1, <3>3 DEF Receive, Return, CallInv, TypeOK
    <3>4. CASE ~Succeeds(c) /\ reply[c] = "refused" /\ Return(c, "refused")
      BY <3>1, <3>4 DEF Return, CallInv, TypeOK, EffectInv
    <3>5. CASE ~Succeeds(c) /\ Return(c, "unknown")
      BY <3>1, <3>5 DEF Return, CallInv, TypeOK
    <3> QED
      BY <1>7, <3>2, <3>3, <3>4, <3>5 DEF Receive
  <2>3. EffectInv'
    BY <1>7 DEF Receive, serverVars, inputVars, Return, EffectInv, TypeOK, CallInv
  <2>4. NameInv'
    BY <1>7 DEF Receive, serverVars, inputVars, Return, NameInv, TypeOK, CallInv
  <2>5. ReadInv'
    BY <1>7 DEF Receive, serverVars, inputVars, Return, ReadInv, TypeOK, CallInv, EffectInv
  <2> QED
    BY <2>1, <2>2, <2>3, <2>4, <2>5
<1>8. ASSUME NEW c \in Calls, GiveUp(c)
      PROVE  IInv'
  <2>1. TypeOK'
    BY <1>8 DEF GiveUp, serverVars, inputVars, Return, TypeOK
  <2>2. CallInv'
    BY <1>8 DEF GiveUp, serverVars, inputVars, Return, CallInv, TypeOK
  <2>3. EffectInv'
    BY <1>8 DEF GiveUp, serverVars, inputVars, Return, EffectInv, TypeOK, CallInv
  <2>4. NameInv'
    BY <1>8 DEF GiveUp, serverVars, inputVars, Return, NameInv, TypeOK, CallInv
  <2>5. ReadInv'
    BY <1>8 DEF GiveUp, serverVars, inputVars, Return, ReadInv, TypeOK, CallInv, EffectInv
  <2> QED
    BY <2>1, <2>2, <2>3, <2>4, <2>5
<1>9. ASSUME NEW c \in Calls, RefreshAfterMutation(c)
      PROVE  IInv'
  <2>1. TypeOK'
    BY <1>9 DEF RefreshAfterMutation, serverVars, inputVars, Return, TypeOK
  <2>2. CallInv'
    BY <1>9 DEF RefreshAfterMutation, serverVars, inputVars, Return, CallInv, TypeOK
  <2>3. EffectInv'
    BY <1>9 DEF RefreshAfterMutation, serverVars, inputVars, Return, EffectInv, TypeOK, CallInv
  <2>4. NameInv'
    BY <1>9 DEF RefreshAfterMutation, serverVars, inputVars, Return, NameInv, TypeOK, CallInv
  <2>5. ReadInv'
    BY <1>9 DEF RefreshAfterMutation, serverVars, inputVars, Return, ReadInv, TypeOK, CallInv, EffectInv
  <2> QED
    BY <2>1, <2>2, <2>3, <2>4, <2>5
<1>10. ASSUME NEW c \in Calls, NEW ids \in SUBSET TransitionIds, NEW r, Apply(c, ids, r)
      PROVE  IInv'
  <2>1. TypeOK'
    <3>1. effects[c] = 0 /\ revision' = revision + 1 /\ revision' \in Nat \ {0}
      BY <1>10 DEF Apply, issueVars, inputVars, CallInv, TypeOK
    <3>2. effects' \in [Calls -> {0, 1}] /\ made' \in [Calls -> Nat]
      BY <1>10, <3>1 DEF Apply, issueVars, inputVars, TypeOK
    <3> QED
      BY <1>10, <3>1, <3>2 DEF Apply, issueVars, inputVars, TypeOK
  <2>2. CallInv'
    BY <1>10 DEF Apply, issueVars, inputVars, CallInv, TypeOK, EffectInv
  <2>3. EffectInv'
    BY <1>10 DEF Apply, issueVars, inputVars, EffectInv, TypeOK, CallInv
  <2>4. NameInv'
    BY <1>10 DEF Apply, issueVars, inputVars, NameInv, TypeOK, CallInv
  <2>5. ReadInv'
    BY <1>10 DEF Apply, issueVars, inputVars, ReadInv, TypeOK, CallInv, EffectInv
  <2> QED
    BY <2>1, <2>2, <2>3, <2>4, <2>5
<1>11. ASSUME NEW c \in Calls, NEW r, Reject(c, r)
      PROVE  IInv'
  <2>1. TypeOK'
    BY <1>11 DEF Reject, issueVars, inputVars, TypeOK
  <2>2. CallInv'
    BY <1>11 DEF Reject, issueVars, inputVars, CallInv, TypeOK, EffectInv
  <2>3. EffectInv'
    BY <1>11 DEF Reject, issueVars, inputVars, EffectInv, TypeOK, CallInv
  <2>4. NameInv'
    BY <1>11 DEF Reject, issueVars, inputVars, NameInv, TypeOK, CallInv
  <2>5. ReadInv'
    BY <1>11 DEF Reject, issueVars, inputVars, ReadInv, TypeOK, CallInv, EffectInv
  <2> QED
    BY <2>1, <2>2, <2>3, <2>4, <2>5
<1>12. ASSUME NEW c \in Calls, Call(c)
       PROVE  IInv'
  BY <1>2, <1>3, <1>4, <1>12 DEF Call
<1>13. CASE UNCHANGED vars
  BY <1>13 DEF vars, TypeOK, CallInv, EffectInv, NameInv, ReadInv
<1> QED
  BY <1>1, <1>5, <1>6, <1>7, <1>8, <1>9, <1>10, <1>11, <1>12, <1>13 DEF Next, ToolStep

LEMMA IInvAlways == Spec => []IInv
BY InitEstablishesIInv, NextPreservesIInv, PTL DEF Spec

LEMMA ToolInvAlways == Spec => []ToolInv
<1>1. Init => ToolInv
  BY DEF Init, ToolInv
<1>2. IInv /\ ToolInv /\ [Next]_vars => ToolInv'
  <2> SUFFICES ASSUME IInv, ToolInv, [Next]_vars PROVE ToolInv'
    OBVIOUS
  <2> USE DEF IInv, TypeOK, ToolInv
  <2>1. ASSUME NEW c \in Calls, NEW t \in WriteCalls, NEW place, Begins(c, place, t)
        PROVE  ToolInv'
    BY <2>1 DEF Begins
  <2>2. ASSUME NEW c \in Calls, Call(c) PROVE ToolInv'
    BY <2>1, <2>2 DEF Call, CallWrite, CallTransitionById, CallTransitionByName
  <2>3. ASSUME NEW c \in Calls, ToolStep(c) PROVE ToolInv'
    BY <2>3 DEF ToolStep, ResolveTransitionName, Send, Receive, GiveUp, RefreshAfterMutation,
                Return, serverVars, inputVars
  <2>4. ASSUME NEW c \in Calls, NEW ids, NEW r, Apply(c, ids, r) \/ Reject(c, r)
        PROVE  ToolInv'
    BY <2>4 DEF Apply, Reject, inputVars
  <2>5. ASSUME NEW ids, Work(ids) PROVE ToolInv'
    BY <2>5 DEF Work, inputVars
  <2>6. CASE UNCHANGED vars
    BY <2>6 DEF vars
  <2> QED
    BY <2>2, <2>3, <2>4, <2>5, <2>6 DEF Next
<1> QED
  BY <1>1, <1>2, IInvAlways, PTL DEF Spec

(* Every reachable state is well typed; in particular no call's write is   *)
(* applied twice (client.go:123, service.go:1153-1167).                    *)
THEOREM TypeCorrect == Spec => []TypeOK
<1>1. IInv => TypeOK
  BY DEF IInv
<1> QED
  BY <1>1, IInvAlways, PTL

(* A change is made under the annotation its tool was approved by: bound   *)
(* one position off, a handler would break this for some input             *)
(* (register.go:52-142, service.go:378-1102).                              *)
THEOREM AnnouncedWrites == Spec => []WritesAreAnnounced
<1>1. IInv /\ ToolInv => WritesAreAnnounced
  <2> SUFFICES ASSUME IInv, ToolInv, NEW c \in Calls, effects[c] > 0
               PROVE  Announced(tool[c])
    BY DEF WritesAreAnnounced, Announced
  <2>1. pc[c] # "idle"
    BY DEF IInv, TypeOK, CallInv
  <2> QED
    BY <2>1, WriteCallsAreAnnounced DEF ToolInv
<1> QED
  BY <1>1, IInvAlways, ToolInvAlways, PTL

(* A transition asked for by name is the one the name stood for, and the   *)
(* only one (service.go:1169-1196).                                        *)
THEOREM NeverGuessing == Spec => []NeverGuesses
<1>1. IInv => NeverGuesses
  <2> SUFFICES ASSUME IInv, NEW c \in Calls, name[c] # NoTransition, effects[c] > 0
               PROVE  matches[c] = 1 /\ nameOf[chosen[c]] = name[c]
    BY DEF NeverGuesses
  <2>1. effects[c] = 1
    BY DEF IInv, TypeOK
  <2> QED
    BY <2>1 DEF IInv, NameInv
<1> QED
  BY <1>1, IInvAlways, PTL

(* Whatever becomes of the read-back, a tool says "applied" exactly when   *)
(* Jira's success has reached it, redirects or not (service.go:1153-1166). *)
THEOREM AcknowledgedApplied == Spec => []AcknowledgedIsApplied
<1>1. IInv => AcknowledgedIsApplied
  BY DEF IInv, CallInv, AcknowledgedIsApplied
<1> QED
  BY <1>1, IInvAlways, PTL

(* Without redirected writes, what a tool shows of the issue contains the  *)
(* tool's own change (service.go:1158-1166).                               *)
THEOREM ReadBackIsFresh ==
  ASSUME ~Redirects PROVE Spec => []ReadBackSeesTheChange
<1>1. IInv => ReadBackSeesTheChange
  <2> SUFFICES ASSUME IInv, NEW c \in Calls, shown[c] # 0
               PROVE  made[c] # 0 /\ shown[c] >= made[c]
    BY DEF ReadBackSeesTheChange
  <2> QED
    BY DEF IInv, TypeOK, EffectInv, ReadInv
<1> QED
  BY <1>1, IInvAlways, PTL

(* Without redirected writes, a Jira mutation is the abstract call that    *)
(* Bitbucket's client implements too: Apply is TakeEffect, the return of   *)
(* the tool is Answer.                                                     *)
THEOREM Implements ==
  ASSUME ~Redirects PROVE Spec => ImplementsUpstreamCall
<1>1. Init => Upstream!Init
  BY DEF Init, Upstream!Init, kindOf, outcomeOf
<1>2. IInv /\ [Next]_vars => [Upstream!Next]_(Upstream!vars)
  <2> SUFFICES ASSUME IInv, [Next]_vars PROVE [Upstream!Next]_(Upstream!vars)
    OBVIOUS
  <2> USE DEF Upstream!vars, kindOf, outcomeOf
  <2>1. ASSUME NEW c \in Calls, pc[c] = "idle", UNCHANGED <<effects, answer>>,
               \/ pc' = [pc EXCEPT ![c] = "send"]
               \/ pc' = [pc EXCEPT ![c] = "lookup"]
        PROVE  Upstream!Begin(c, "write")
    BY <2>1 DEF IInv, TypeOK, Upstream!Begin
  <2>2. ASSUME NEW c \in Calls, NEW ids, NEW r, Apply(c, ids, r)
        PROVE  Upstream!TakeEffect(c)
    <3>1. /\ onWire[c] /\ effects' = [effects EXCEPT ![c] = @ + 1]
          /\ UNCHANGED <<pc, answer>>
      BY <2>2 DEF Apply
    <3>2. effects[c] = 0 /\ pc[c] # "idle" /\ answer[c] \in {"none", "unknown"}
      BY <3>1 DEF IInv, TypeOK, CallInv
    <3> QED
      BY <3>1, <3>2 DEF Upstream!TakeEffect
  <2>3. ASSUME NEW c \in Calls, ToolStep(c)
        PROVE  \/ \E a \in {"ok", "refused", "unknown"} : Upstream!Answer(c, a)
               \/ UNCHANGED Upstream!vars
    <3>1. pc[c] # "idle" /\ pc[c] # "done" /\ answer[c] = "none" /\ UNCHANGED effects
      BY <2>3 DEF ToolStep, ResolveTransitionName, Send, Receive, GiveUp, RefreshAfterMutation,
                  serverVars, IInv, CallInv, TypeOK, Answers
    <3>2. ASSUME NEW s \in {"lookup", "send", "flight", "refresh"},
                 pc' = [pc EXCEPT ![c] = s], UNCHANGED answer
          PROVE  UNCHANGED Upstream!vars
      BY <3>1, <3>2 DEF IInv, TypeOK
    <3>3. ASSUME Return(c, "applied"), Succeeds(c) PROVE Upstream!Answer(c, "ok")
      BY <3>1, <3>3 DEF Succeeds, Return, Upstream!Answer, IInv, TypeOK, EffectInv
    <3>4. ASSUME Return(c, "refused"), effects[c] = 0 PROVE Upstream!Answer(c, "refused")
      BY <3>1, <3>4 DEF Return, Upstream!Answer, IInv, TypeOK
    <3>5. ASSUME Return(c, "unknown") PROVE Upstream!Answer(c, "unknown")
      BY <3>1, <3>5 DEF Return, Upstream!Answer, IInv, TypeOK
    <3>6. CASE ResolveTransitionName(c)
      BY <3>1, <3>2, <3>4, <3>6 DEF ResolveTransitionName, IInv, CallInv
    <3>7. CASE Send(c)
      BY <3>2, <3>7 DEF Send
    <3>8. CASE Receive(c)
      BY <3>2, <3>3, <3>4, <3>5, <3>8 DEF Receive, IInv, EffectInv
    <3>9. CASE GiveUp(c)
      BY <3>5, <3>9 DEF GiveUp
    <3>10. CASE RefreshAfterMutation(c)
      BY <3>3, <3>10 DEF RefreshAfterMutation, IInv, CallInv
    <3> QED
      BY <2>3, <3>6, <3>7, <3>8, <3>9, <3>10 DEF ToolStep
  <2>4. ASSUME NEW ids, Work(ids) PROVE UNCHANGED Upstream!vars
    BY <2>4 DEF Work
  <2>5. ASSUME NEW c \in Calls, NEW r, Reject(c, r) PROVE UNCHANGED Upstream!vars
    BY <2>5 DEF Reject
  <2>6. ASSUME NEW c \in Calls, Call(c) PROVE Upstream!Begin(c, "write")
    BY <2>1, <2>6 DEF Call, CallWrite,
                      CallTransitionById, CallTransitionByName, Begins, serverVars
  <2>7. CASE UNCHANGED vars
    BY <2>7 DEF vars
  <2> QED
    BY <2>2, <2>3, <2>4, <2>5, <2>6, <2>7 DEF Next, Upstream!Next
<1> QED
  BY <1>1, <1>2, IInvAlways, PTL DEF Spec, ImplementsUpstreamCall, Upstream!Spec
=============================================================================
