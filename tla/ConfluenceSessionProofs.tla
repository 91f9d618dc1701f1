----------------------- MODULE ConfluenceSessionProofs -----------------------
(***************************************************************************)
(* The Confluence session for any number of concurrent calls, and the      *)
(* store it is kept in (which Jira's session uses alike).                  *)
(*                                                                         *)
(* The session's inductive invariant adds to the type invariant what a     *)
(* goroutine's local credential is worth, and that an explicit session is  *)
(* a session: the startup attempt's comparison with nil fails on it.       *)
(***************************************************************************)
EXTENDS ConfluenceSession, SessionStore, Naturals, TLAPS

LocalCredential ==
    \A g \in Goroutines :
        /\ pc[g] = "userCurrent" => cred[g] \in Pairs
        /\ pc[g] \in {"commit", "request"} => cred[g] \in accepted

ExplicitIsASession == origin = "explicit" => session # NoCred

IInv == TypeOK /\ LocalCredential /\ ExplicitIsASession /\ ActiveWasKnown

\* Only the tool that is not announced as read-only authenticates.
LEMMA ToolCallsAreAnnounced ==
  \A t \in ToolCalls : /\ t.hint \in {"unset", "readOnly"}
                       /\ t.does = "authenticate" => t.hint = "unset"
<1>1. ASSUME NEW i \in 1..9, NEW in \in Arguments
      PROVE  /\ Definitions[i] \in {"unset", "readOnly"}
             /\ Register(in)[i] = "authenticate" => Definitions[i] = "unset"
  BY DEF Definitions, Register, Get, SearchContent, GetContent, ListContent,
         ListContentProperties, GetContentProperty, ListSpaces, GetSpace, ListSpaceContent
<1>2. DOMAIN Definitions = 1..9
  BY DEF Definitions
<1> QED
  BY <1>1, <1>2 DEF ToolCalls, Does

LEMMA InitEstablishesIInv == Init => IInv
BY SessionAssumption
   DEF Init, IInv, TypeOK, LocalCredential, ExplicitIsASession, ActiveWasKnown, Goroutines

LEMMA NextPreservesIInv == IInv /\ [Next]_vars => IInv'
<1> SUFFICES ASSUME IInv, [Next]_vars PROVE IInv'
  OBVIOUS
<1> USE SessionAssumption
    DEF IInv, TypeOK, LocalCredential, ExplicitIsASession, ActiveWasKnown, Goroutines,
        Returns, At
<1>1. ASSUME NEW g \in Goroutines, NEW input, authenticate(g, input),
             NEW h \in {"none", "unset", "readOnly"}, hint' = [hint EXCEPT ![g] = h]
      PROVE  IInv'
  BY <1>1 DEF authenticate
<1>2. CASE AutoAuthenticate
  <2>1. CASE session # NoCred
    BY <1>2, <2>1 DEF AutoAuthenticate
  <2>2. CASE session = NoCred
    <3>1. hint' = [hint EXCEPT ![Startup] = hint[Startup]]
      BY <1>2 DEF AutoAuthenticate
    <3>2. authenticate(Startup, [user |-> Blank, pass |-> Blank])
      BY <1>2, <2>2 DEF AutoAuthenticate
    <3> QED
      BY <1>1, <3>1, <3>2
  <2> QED
    BY <2>1, <2>2
<1>3. ASSUME NEW g \in Goroutines, NEW reply, UserCurrentAnswered(g, reply) PROVE IInv'
  BY <1>3 DEF UserCurrentAnswered
<1>4. ASSUME NEW g \in Goroutines, Commit(g) PROVE IInv'
  BY <1>4 DEF Commit
<1>5. ASSUME NEW g \in Tasks, NEW t \in ToolCalls, BusinessCall(g, t) PROVE IInv'
  BY <1>5, ToolCallsAreAnnounced DEF BusinessCall, Calls
<1>6. ASSUME NEW g \in Goroutines, RequestAnswered(g) PROVE IInv'
  BY <1>6 DEF RequestAnswered
<1>7. ASSUME NEW g \in Tasks, NEW t \in ToolCalls, NEW input, AuthenticateCall(g, t, input)
      PROVE  IInv'
  BY <1>1, <1>7, ToolCallsAreAnnounced DEF AuthenticateCall, Calls
<1>8. CASE UNCHANGED vars
  BY <1>8 DEF vars
<1> QED
  BY <1>2, <1>3, <1>4, <1>5, <1>6, <1>7, <1>8 DEF Next, Step

LEMMA IInvAlways == Spec => []IInv
BY InitEstablishesIInv, NextPreservesIInv, PTL DEF Spec

(* Every reachable state is well typed.                                    *)
THEOREM TypeCorrect == Spec => []TypeOK
<1>1. IInv => TypeOK
  BY DEF IInv
<1> QED
  BY <1>1, IInvAlways, PTL

(* The active pair is one /user/current named a known user for             *)
(* (service.go:65-72).                                                     *)
THEOREM ActiveCorrect == Spec => []ActiveWasKnown
<1>1. IInv => ActiveWasKnown
  BY DEF IInv
<1> QED
  BY <1>1, IInvAlways, PTL

(* requireCredential (service.go:77-88) gates every business request.      *)
THEOREM BusinessAuthenticated == Spec => []BusinessRequestsAreAuthenticated
<1>1. IInv => BusinessRequestsAreAuthenticated
  BY DEF IInv, LocalCredential, BusinessRequestsAreAuthenticated, Goroutines
<1> QED
  BY <1>1, IInvAlways, PTL

(* The startup attempt never replaces an explicit session: ReplaceIfUnchanged *)
(* with a nil expectation refuses it (module.go:69).                       *)
THEOREM ExplicitSticks == Spec => ExplicitSessionSticks
<1>1. IInv /\ [Next]_vars => [origin = "explicit" => origin' = "explicit"]_origin
  <2> SUFFICES ASSUME IInv, [Next]_vars, origin = "explicit" PROVE origin' = "explicit"
    OBVIOUS
  <2>1. ASSUME NEW g \in Goroutines, Commit(g) PROVE origin' = "explicit"
    BY <2>1 DEF Commit, IInv, ExplicitIsASession
  <2>2. CASE AutoAuthenticate
    BY <2>2 DEF AutoAuthenticate, authenticate
  <2>3. CASE UNCHANGED vars
    BY <2>3 DEF vars
  <2> QED
    BY <2>1, <2>2, <2>3
       DEF Next, Step, AuthenticateCall, authenticate, UserCurrentAnswered, BusinessCall,
           RequestAnswered
<1> QED
  BY <1>1, IInvAlways, PTL DEF Spec, ExplicitSessionSticks

(* A tool announced as read-only leaves the session alone: no call of one  *)
(* is ever at its commit (register.go:11-207).                             *)
THEOREM ReadOnlyKeepsTheSession == Spec => ReadOnlyToolsKeepTheSession
<1> DEFINE HintInv ==
               /\ hint[Startup] = "none"
               /\ \A g \in Goroutines : pc[g] \in {"userCurrent", "commit"} => hint[g] # "readOnly"
<1>1. Init => HintInv
  BY DEF Init, Goroutines
<1>2. IInv /\ HintInv /\ [Next]_vars => HintInv'
  <2> SUFFICES ASSUME IInv, HintInv, [Next]_vars PROVE HintInv'
    OBVIOUS
  <2> USE SessionAssumption DEF IInv, TypeOK, Goroutines, Returns, At
  <2>1. ASSUME NEW g \in Tasks, NEW t \in ToolCalls, NEW input, AuthenticateCall(g, t, input)
        PROVE  HintInv'
    BY <2>1, ToolCallsAreAnnounced DEF AuthenticateCall, Calls, authenticate
  <2>2. ASSUME NEW g \in Tasks, NEW t \in ToolCalls, BusinessCall(g, t) PROVE HintInv'
    BY <2>2 DEF BusinessCall, Calls
  <2>3. ASSUME NEW g \in Goroutines, Step(g) PROVE HintInv'
    BY <2>3 DEF Step, UserCurrentAnswered, Commit, RequestAnswered
  <2>4. CASE AutoAuthenticate
    BY <2>4 DEF AutoAuthenticate, authenticate
  <2>5. CASE UNCHANGED vars
    BY <2>5 DEF vars
  <2> QED
    BY <2>1, <2>2, <2>3, <2>4, <2>5 DEF Next
<1>3. HintInv => [\A g \in Goroutines :
                    session' # session /\ pc[g] = "commit" /\ pc'[g] # "commit"
                        => hint[g] # "readOnly"]_vars
  OBVIOUS
<1> QED
  BY <1>1, <1>2, <1>3, IInvAlways, PTL DEF Spec, ReadOnlyToolsKeepTheSession

\* The steps a goroutine has before it when it is left to run.
stepsLeft(g) ==
    IF pc[g] = "start" THEN 3 ELSE IF pc[g] = "userCurrent" THEN 2
    ELSE IF pc[g] \in {"commit", "request"} THEN 1 ELSE 0

(* Every step of a call brings it nearer its end, one exchange and one     *)
(* commit away at most, and what others do to the session never makes it   *)
(* start over; the startup attempt is one such call (module.go:59-77).     *)
THEOREM CallsGetShorter ==
  Spec => [][\A g \in Goroutines :
                /\ Step(g) \/ (g = Startup /\ AutoAuthenticate) => stepsLeft(g)' < stepsLeft(g)
                /\ pc[g] # "idle" => stepsLeft(g)' <= stepsLeft(g)]_vars
<1>1. ASSUME IInv, NEW g \in Goroutines, Step(g) \/ (g = Startup /\ AutoAuthenticate)
      PROVE  stepsLeft(g)' < stepsLeft(g)
  BY <1>1 DEF Step, UserCurrentAnswered, Commit, RequestAnswered, AutoAuthenticate, authenticate,
              At, Returns, IInv, TypeOK, stepsLeft
<1>2. ASSUME IInv, Next, NEW g \in Goroutines, pc[g] # "idle",
             ~(Step(g) \/ (g = Startup /\ AutoAuthenticate))
      PROVE  pc'[g] = pc[g]
  <2> USE SessionAssumption DEF IInv, TypeOK, Goroutines, At, Returns
  <2>1. ASSUME NEW h \in Goroutines, h # g, Step(h) PROVE pc'[g] = pc[g]
    BY <1>2, <2>1 DEF Step, UserCurrentAnswered, Commit, RequestAnswered
  <2>2. CASE AutoAuthenticate /\ g # Startup
    BY <1>2, <2>2 DEF AutoAuthenticate, authenticate
  <2>3. ASSUME NEW h \in Tasks, NEW t \in ToolCalls,
               (\E input \in Inputs : AuthenticateCall(h, t, input)) \/ BusinessCall(h, t)
        PROVE  pc'[g] = pc[g]
    BY <1>2, <2>3 DEF AuthenticateCall, authenticate, BusinessCall, Calls
  <2> QED
    BY <1>2, <2>1, <2>2, <2>3 DEF Next
<1>3. IInv /\ [Next]_vars =>
        [\A g \in Goroutines :
            /\ Step(g) \/ (g = Startup /\ AutoAuthenticate) => stepsLeft(g)' < stepsLeft(g)
            /\ pc[g] # "idle" => stepsLeft(g)' <= stepsLeft(g)]_vars
  BY <1>1, <1>2 DEF stepsLeft
<1> QED
  BY <1>3, IInvAlways, PTL DEF Spec

(* The Confluence session implements the validated session.                *)
THEOREM Implements == Spec => ImplementsValidatedSession
<1>1. Init => Validated!Init
  BY DEF Init, Validated!Init
<1>2. IInv /\ [Next]_vars => [Validated!Next]_(Validated!vars)
  <2> SUFFICES ASSUME IInv, [Next]_vars PROVE [Validated!Next]_(Validated!vars)
    OBVIOUS
  <2> USE DEF Validated!vars
  <2>1. ASSUME NEW g \in Goroutines, NEW reply, UserCurrentAnswered(g, reply)
        PROVE  Validated!Next \/ UNCHANGED Validated!vars
    BY <2>1 DEF UserCurrentAnswered, Validated!Next, Validated!Accept, IInv, LocalCredential
  <2>2. ASSUME NEW g \in Goroutines, Commit(g)
        PROVE  Validated!Next \/ UNCHANGED Validated!vars
    BY <2>2 DEF Commit, Validated!Next, Validated!Activate, IInv, LocalCredential, TypeOK
  <2>3. CASE AutoAuthenticate
    BY <2>3 DEF AutoAuthenticate, authenticate
  <2>4. CASE UNCHANGED vars
    BY <2>4 DEF vars
  <2> QED
    BY <2>1, <2>2, <2>3, <2>4
       DEF Next, Step, AuthenticateCall, authenticate, BusinessCall, RequestAnswered
<1> QED
  BY <1>1, <1>2, IInvAlways, PTL DEF Spec, ImplementsValidatedSession, Validated!Spec

-----------------------------------------------------------------------------
(***************************************************************************)
(* The store implements the atomic credential register, for any number of  *)
(* goroutines and credentials.  The inductive invariant adds to the type   *)
(* invariant and ComparisonStillHolds which calls reach which point of the *)
(* code: only a write is ever about to store, and a call has an answer     *)
(* exactly once it has taken effect.                                       *)
(***************************************************************************)
Writes == {"Replace", "ReplaceAfter", "ReplaceIfUnchanged"}

PlaceMatchesCall ==
    \A p \in Callers :
        /\ point[p] = "idle" <=> op[p] = Atomic!NoOp
        /\ point[p] = "validate" => op[p].kind = "ReplaceAfter"
        /\ point[p] = "load" => op[p].kind \in {"Snapshot", "ReplaceIfUnchanged"}
        /\ point[p] \in {"lock", "store"} => op[p].kind \in Writes
        /\ point[p] \in {"validate", "lock", "load", "store"} => answer[p] = "pending"
        /\ point[p] \in {"unlock", "return"} => answer[p] # "pending"

StoreInv == StoreTypeOK /\ PlaceMatchesCall /\ ComparisonStillHolds

LEMMA InitEstablishesStoreInv == StoreInit => StoreInv
BY SentinelAssumption
   DEF StoreInit, StoreInv, StoreTypeOK, PlaceMatchesCall, ComparisonStillHolds, Holding, Operations,
       Atomic!Operations, Atomic!Contents, Atomic!Answers, Atomic!NoOp

LEMMA NextPreservesStoreInv == StoreInv /\ [StoreNext]_storeVars => StoreInv'
<1> SUFFICES ASSUME StoreInv, [StoreNext]_storeVars PROVE StoreInv'
  OBVIOUS
<1> USE SentinelAssumption
    DEF StoreInv, StoreTypeOK, PlaceMatchesCall, ComparisonStillHolds, Holding, Writes, Operations,
        Atomic!Operations, Atomic!Contents, Atomic!Answers, Atomic!NoOp
<1>1. ASSUME NEW p \in Callers, NEW o \in Operations, Invoke(p, o) PROVE StoreInv'
  BY <1>1 DEF Invoke, Entry
<1>2. ASSUME NEW p \in Callers, Validate(p) PROVE StoreInv'
  BY <1>2 DEF Validate
<1>3. ASSUME NEW p \in Callers, Lock(p) PROVE StoreInv'
  BY <1>3 DEF Lock
<1>4. ASSUME NEW p \in Callers, Snapshot(p) PROVE StoreInv'
  BY <1>4 DEF Snapshot
<1>5. ASSUME NEW p \in Callers, LoadAndCompare(p) PROVE StoreInv'
  BY <1>5 DEF LoadAndCompare
<1>6. ASSUME NEW p \in Callers, Store(p) PROVE StoreInv'
  BY <1>6 DEF Store
<1>7. ASSUME NEW p \in Callers, Unlock(p) PROVE StoreInv'
  BY <1>7 DEF Unlock
<1>8. ASSUME NEW p \in Callers, Return(p) PROVE StoreInv'
  BY <1>8 DEF Return
<1>9. CASE UNCHANGED storeVars
  BY <1>9 DEF storeVars
<1> QED
  BY <1>1, <1>2, <1>3, <1>4, <1>5, <1>6, <1>7, <1>8, <1>9 DEF StoreNext, StoreStep

LEMMA StoreInvAlways == StoreSpec => []StoreInv
BY InitEstablishesStoreInv, NextPreservesStoreInv, PTL DEF StoreSpec

(* Every reachable state is well typed: the store only ever holds nil or a *)
(* credential (session_store.go, Replace and ReplaceIfUnchanged).          *)
THEOREM StoreTypeCorrect == StoreSpec => []StoreTypeOK
<1>1. StoreInv => StoreTypeOK
  BY DEF StoreInv
<1> QED
  BY <1>1, StoreInvAlways, PTL

(* The mutex is held exactly between Lock and Unlock, and the value        *)
(* ReplaceIfUnchanged compared with (line 57) is still there when it       *)
(* stores the candidate (line 60).                                         *)
THEOREM ComparisonCorrect == StoreSpec => []ComparisonStillHolds
<1>1. StoreInv => ComparisonStillHolds
  BY DEF StoreInv
<1> QED
  BY <1>1, StoreInvAlways, PTL

(* No step of any method, a failed validation included, empties the store. *)
THEOREM NeverEmptied == StoreSpec => NeverEmptiedAgain
<1>1. StoreInv /\ [StoreNext]_storeVars => [value # Nil => value' # Nil]_value
  <2> SUFFICES ASSUME StoreInv, StoreNext, value # Nil PROVE value' # Nil
    BY DEF storeVars
  <2>1. ASSUME NEW p \in Callers, Store(p) PROVE value' # Nil
    BY <2>1, SentinelAssumption DEF Store, StoreInv, StoreTypeOK, PlaceMatchesCall, Writes,
        Operations, Atomic!Operations, Atomic!NoOp
  <2> QED
    BY <2>1 DEF StoreNext, StoreStep, Invoke, Validate, Lock, Snapshot, LoadAndCompare, Unlock, Return
<1> QED
  BY <1>1, StoreInvAlways, PTL DEF StoreSpec, NeverEmptiedAgain

(* The store implements the atomic register: the linearization point of a  *)
(* write is its store, of a refused write its failed comparison or         *)
(* validation, of Snapshot its load; every other step stutters.            *)
THEOREM StoreImplementsRegister == StoreSpec => RegisterSpec
<1>1. StoreInit => Atomic!Init
  BY DEF StoreInit, Atomic!Init
<1>2. StoreInv /\ [StoreNext]_storeVars => [Atomic!Next]_(Atomic!vars)
  <2> SUFFICES ASSUME StoreInv, [StoreNext]_storeVars PROVE [Atomic!Next]_(Atomic!vars)
    OBVIOUS
  <2> USE DEF StoreInv, StoreTypeOK, PlaceMatchesCall, ComparisonStillHolds, Writes,
              Atomic!vars, Atomic!NoOp
  <2>1. ASSUME NEW p \in Callers, NEW o \in Operations, Invoke(p, o)
        PROVE  Atomic!Invoke(p, o)
    BY <2>1 DEF Invoke, Atomic!Invoke
  <2>2. ASSUME NEW p \in Callers, Validate(p)
        PROVE  Atomic!TakeEffect(p) \/ UNCHANGED Atomic!vars
    BY <2>2 DEF Validate, Atomic!TakeEffect, Atomic!Reject
  <2>3. ASSUME NEW p \in Callers, Lock(p) \/ Unlock(p)
        PROVE  UNCHANGED Atomic!vars
    BY <2>3 DEF Lock, Unlock
  <2>4. ASSUME NEW p \in Callers, Snapshot(p)
        PROVE  Atomic!TakeEffect(p)
    BY <2>4 DEF Snapshot, Atomic!TakeEffect, Atomic!Read
  <2>5. ASSUME NEW p \in Callers, LoadAndCompare(p)
        PROVE  Atomic!TakeEffect(p) \/ UNCHANGED Atomic!vars
    BY <2>5 DEF LoadAndCompare, Atomic!TakeEffect, Atomic!CompareAndSwap
  <2>6. ASSUME NEW p \in Callers, Store(p)
        PROVE  Atomic!TakeEffect(p)
    BY <2>6 DEF Store, Atomic!TakeEffect, Atomic!Write, Atomic!CompareAndSwap
  <2>7. ASSUME NEW p \in Callers, Return(p)
        PROVE  Atomic!Return(p)
    BY <2>7 DEF Return, Atomic!Return
  <2>8. CASE UNCHANGED storeVars
    BY <2>8 DEF storeVars
  <2> QED
    BY <2>1, <2>2, <2>3, <2>4, <2>5, <2>6, <2>7, <2>8
       DEF StoreNext, StoreStep, Atomic!Next, Operations
<1> QED
  BY <1>1, <1>2, StoreInvAlways, PTL DEF StoreSpec, RegisterSpec, Atomic!Spec

\* The steps a goroutine has before it when it is left to run.
storeStepsLeft(p) ==
    IF point[p] = "validate" THEN 6 ELSE IF point[p] = "lock" THEN 5
    ELSE IF point[p] = "load" THEN 4 ELSE IF point[p] = "store" THEN 3
    ELSE IF point[p] = "unlock" THEN 2 ELSE IF point[p] = "return" THEN 1 ELSE 0

(* No call of the store starts over: each step of a goroutine brings its   *)
(* call nearer the return and no other goroutine's step takes it back;     *)
(* and whoever holds the mutex others wait for is past every wait, and     *)
(* does not return before it has unlocked (session_store.go:23-62).        *)
THEOREM StoreCallsGetShorter ==
  StoreSpec =>
      /\ [][\A p \in Callers :
             /\ StoreStep(p) => storeStepsLeft(p)' < storeStepsLeft(p)
             /\ point[p] # "idle" => storeStepsLeft(p)' <= storeStepsLeft(p)]_storeVars
      /\ [](mu # NoHolder => mu \in Callers /\ point[mu] \in {"load", "store", "unlock"})
<1>1. ASSUME StoreInv, NEW p \in Callers, StoreStep(p)
      PROVE  storeStepsLeft(p)' < storeStepsLeft(p)
  BY <1>1 DEF StoreStep, Validate, Lock, Snapshot, LoadAndCompare, Store, Unlock, Return,
              StoreInv, StoreTypeOK, storeStepsLeft
<1>2. ASSUME StoreInv, StoreNext, NEW p \in Callers, point[p] # "idle", ~StoreStep(p)
      PROVE  point'[p] = point[p]
  <2>1. ASSUME NEW q \in Callers, q # p, StoreStep(q) PROVE point'[p] = point[p]
    BY <1>2, <2>1 DEF StoreStep, Validate, Lock, Snapshot, LoadAndCompare, Store, Unlock, Return,
                StoreInv, StoreTypeOK
  <2>2. ASSUME NEW q \in Callers, NEW o \in Operations, Invoke(q, o) PROVE point'[p] = point[p]
    BY <1>2, <2>2 DEF Invoke, StoreInv, StoreTypeOK
  <2> QED
    BY <1>2, <2>1, <2>2 DEF StoreNext
<1>3. StoreInv /\ [StoreNext]_storeVars =>
        [\A p \in Callers :
            /\ StoreStep(p) => storeStepsLeft(p)' < storeStepsLeft(p)
            /\ point[p] # "idle" => storeStepsLeft(p)' <= storeStepsLeft(p)]_storeVars
  BY <1>1, <1>2 DEF storeStepsLeft
<1>4. StoreInv => (mu # NoHolder => mu \in Callers /\ point[mu] \in {"load", "store", "unlock"})
  BY DEF StoreInv, StoreTypeOK, ComparisonStillHolds, Holding
<1> QED
  BY <1>3, <1>4, StoreInvAlways, PTL DEF StoreSpec
=============================================================================
