-------------------------- MODULE JiraSessionProofs --------------------------
(***************************************************************************)
(* The Jira session for any number of concurrent calls, users, passwords   *)
(* and requests per call.  The inductive invariant says, for each          *)
(* goroutine, what its local credential is worth at the point it has       *)
(* reached: once it is about to commit, or serves a business call, the     *)
(* server has accepted it.                                                 *)
(***************************************************************************)
EXTENDS JiraSession, TLAPS

LocalCredential ==
    \A g \in Goroutines :
        /\ onWire[g] \subseteq {cred[g]}
        /\ pc[g] \in {"start", "idle"} => onWire[g] = {}
        /\ pc[g] \in {"serverInfo", "myself"} => cred[g] \in Pairs
        /\ pc[g] \in {"commit", "request"} => cred[g] \in accepted
        /\ pc[g] = "request" => onWire[g] # {} /\ remaining[g] \in 1..MaxRequests

IInv == TypeOK /\ LocalCredential /\ ActiveWasAccepted

LEMMA InitEstablishesIInv == Init => IInv
<1> SUFFICES ASSUME Init PROVE IInv
  OBVIOUS
<1> USE SessionAssumption DEF Init, Goroutines
<1>1. TypeOK
  BY DEF TypeOK, Points
<1>2. LocalCredential
  BY DEF LocalCredential
<1>3. ActiveWasAccepted
  BY DEF ActiveWasAccepted
<1> QED
  BY <1>1, <1>2, <1>3 DEF IInv

LEMMA NextPreservesIInv == IInv /\ [Next]_vars => IInv'
<1> SUFFICES ASSUME IInv, [Next]_vars PROVE IInv'
  OBVIOUS
<1> USE SessionAssumption
    DEF IInv, TypeOK, LocalCredential, ActiveWasAccepted, Points, Goroutines, Returns, Sends
<1>1. ASSUME NEW g \in Goroutines, NEW input, pc[g] \in {"start", "idle"},
             Authenticate(g, input)
      PROVE  IInv'
  BY <1>1 DEF Authenticate
<1>2. ASSUME NEW g \in Goroutines, NEW answer, ServerInfoAnswered(g, answer) PROVE IInv'
  BY <1>2 DEF ServerInfoAnswered
<1>3. ASSUME NEW g \in Goroutines, NEW answer, MyselfAnswered(g, answer) PROVE IInv'
  BY <1>3 DEF MyselfAnswered
<1>4. ASSUME NEW g \in Goroutines, Commit(g) PROVE IInv'
  BY <1>4 DEF Commit
<1>5. ASSUME NEW g \in Tasks, NEW n \in 1..MaxRequests, BusinessCall(g, n) PROVE IInv'
  BY <1>5 DEF BusinessCall
<1>6. ASSUME NEW g \in Goroutines, NEW answer, RequestAnswered(g, answer) PROVE IInv'
  BY <1>6 DEF RequestAnswered
<1>7. CASE UNCHANGED vars
  BY <1>7 DEF vars
<1> QED
  BY <1>1, <1>2, <1>3, <1>4, <1>5, <1>6, <1>7 DEF Next, Step, AutoAuthenticate, AuthenticateCall

LEMMA IInvAlways == Spec => []IInv
BY InitEstablishesIInv, NextPreservesIInv, PTL DEF Spec

(* Every reachable state is well typed; the session is empty or a complete *)
(* pair, never the user of one attempt with the password of none.          *)
THEOREM TypeCorrect == Spec => []TypeOK
<1>1. IInv => TypeOK
  BY DEF IInv
<1> QED
  BY <1>1, IInvAlways, PTL

(* The active pair is one that both probes of service.go:331-357 accepted. *)
THEOREM ActiveCorrect == Spec => []ActiveWasAccepted
<1>1. IInv => ActiveWasAccepted
  BY DEF IInv
<1> QED
  BY <1>1, IInvAlways, PTL

(* requireCredential (service.go:1140-1151) gates every business request,  *)
(* and what it hands out stays an accepted pair for the whole call.        *)
THEOREM BusinessAuthenticated == Spec => []BusinessRequestsAreAuthenticated
<1>1. IInv => BusinessRequestsAreAuthenticated
  BY DEF IInv, LocalCredential, BusinessRequestsAreAuthenticated, Goroutines
<1> QED
  BY <1>1, IInvAlways, PTL

(* All requests of one call carry one pair, whoever re-authenticates.      *)
THEOREM OneIdentity == Spec => []OneCallOneIdentity
<1>1. IInv => OneCallOneIdentity
  BY DEF IInv, LocalCredential, OneCallOneIdentity
<1> QED
  BY <1>1, IInvAlways, PTL

\* The steps a goroutine has before it when it is left to run.
stepsLeft(g) ==
    IF pc[g] = "request" THEN remaining[g]
    ELSE IF pc[g] = "start" THEN 4 ELSE IF pc[g] = "serverInfo" THEN 3
    ELSE IF pc[g] = "myself" THEN 2 ELSE IF pc[g] = "commit" THEN 1 ELSE 0

LEMMA OwnStepsShorten ==
  ASSUME IInv, NEW g \in Goroutines, Step(g) \/ (g = Startup /\ AutoAuthenticate)
  PROVE  stepsLeft(g)' < stepsLeft(g)
<1> USE SessionAssumption DEF IInv, TypeOK, LocalCredential, stepsLeft, Returns, Sends
<1>1. CASE g = Startup /\ AutoAuthenticate
  BY <1>1 DEF AutoAuthenticate, Authenticate
<1>2. ASSUME NEW answer \in Answers, ServerInfoAnswered(g, answer)
      PROVE  stepsLeft(g)' < stepsLeft(g)
  BY <1>2 DEF ServerInfoAnswered
<1>3. ASSUME NEW answer \in Answers, MyselfAnswered(g, answer)
      PROVE  stepsLeft(g)' < stepsLeft(g)
  BY <1>3 DEF MyselfAnswered
<1>4. ASSUME NEW answer \in Answers, RequestAnswered(g, answer)
      PROVE  stepsLeft(g)' < stepsLeft(g)
  BY <1>4 DEF RequestAnswered
<1>5. CASE Commit(g)
  BY <1>5 DEF Commit
<1> QED
  BY <1>1, <1>2, <1>3, <1>4, <1>5 DEF Step

LEMMA NobodyLengthens ==
  ASSUME IInv, NEW g \in Goroutines, pc[g] # "idle", [Next]_vars
  PROVE  stepsLeft(g)' <= stepsLeft(g)
<1>1. stepsLeft(g) \in Nat /\ stepsLeft(g)' \in Nat
  <2>1. IInv'
    BY NextPreservesIInv
  <2> QED
    BY <2>1 DEF IInv, TypeOK, stepsLeft
<1>2. CASE UNCHANGED <<pc[g], remaining[g]>>
  BY <1>1, <1>2 DEF stepsLeft
<1>3. CASE Step(g) \/ (g = Startup /\ AutoAuthenticate)
  BY <1>1, <1>3, OwnStepsShorten
<1>4. ASSUME NEW h \in Goroutines, h # g, Step(h) PROVE UNCHANGED <<pc[g], remaining[g]>>
  BY <1>4 DEF Step, ServerInfoAnswered, MyselfAnswered, RequestAnswered, Commit, Returns, Sends,
              IInv, TypeOK
<1>5. CASE AutoAuthenticate /\ g # Startup
  BY <1>2, <1>5 DEF AutoAuthenticate, Authenticate, Returns, Sends, IInv, TypeOK, Goroutines
<1>6. ASSUME NEW h \in Tasks, NEW input \in Inputs, AuthenticateCall(h, input)
      PROVE  UNCHANGED <<pc[g], remaining[g]>>
  BY <1>6 DEF AuthenticateCall, Authenticate, Returns, Sends, IInv, TypeOK, Goroutines
<1>7. ASSUME NEW h \in Tasks, NEW n \in 1..MaxRequests, BusinessCall(h, n)
      PROVE  UNCHANGED <<pc[g], remaining[g]>>
  BY <1>7 DEF BusinessCall, Returns, Sends, IInv, TypeOK, Goroutines
<1>8. CASE UNCHANGED vars
  BY <1>2, <1>8 DEF vars
<1> QED
  BY <1>2, <1>3, <1>4, <1>5, <1>6, <1>7, <1>8 DEF Next

(* Every step of a call brings it nearer its end, which is never further   *)
(* away than its requests, and no re-authentication by another makes it    *)
(* start over; the startup attempt is one such call (service.go:331-357).  *)
THEOREM CallsGetShorter ==
  Spec => /\ [](\A g \in Goroutines : stepsLeft(g) \in 0 .. MaxRequests + 2)
          /\ [][\A g \in Goroutines :
                 /\ Step(g) \/ (g = Startup /\ AutoAuthenticate) => stepsLeft(g)' < stepsLeft(g)
                 /\ pc[g] # "idle" => stepsLeft(g)' <= stepsLeft(g)]_vars
<1>1. IInv => \A g \in Goroutines : stepsLeft(g) \in 0 .. MaxRequests + 2
  BY SessionAssumption DEF IInv, TypeOK, stepsLeft
<1>2. IInv /\ [Next]_vars =>
        [\A g \in Goroutines :
            /\ Step(g) \/ (g = Startup /\ AutoAuthenticate) => stepsLeft(g)' < stepsLeft(g)
            /\ pc[g] # "idle" => stepsLeft(g)' <= stepsLeft(g)]_vars
  BY OwnStepsShorten, NobodyLengthens
<1> QED
  BY <1>1, <1>2, IInvAlways, PTL DEF Spec

(* The session implements the validated session: a step either extends the *)
(* accepted pairs, activates an accepted pair, or leaves both alone.       *)
THEOREM Implements == Spec => ImplementsValidatedSession
<1>1. Init => Validated!Init
  BY DEF Init, Validated!Init
<1>2. IInv /\ [Next]_vars => [Validated!Next]_(Validated!vars)
  <2> SUFFICES ASSUME IInv, [Next]_vars PROVE [Validated!Next]_(Validated!vars)
    OBVIOUS
  <2> USE DEF Validated!vars
  <2>1. ASSUME NEW g \in Goroutines, NEW answer, MyselfAnswered(g, answer)
        PROVE  Validated!Next \/ UNCHANGED Validated!vars
    BY <2>1 DEF MyselfAnswered, Validated!Next, Validated!Accept, IInv, LocalCredential
  <2>2. ASSUME NEW g \in Goroutines, Commit(g)
        PROVE  Validated!Next
    BY <2>2 DEF Commit, Validated!Next, Validated!Activate, IInv, LocalCredential, TypeOK
  <2>3. ASSUME NEW g \in Goroutines, NEW answer,
               ServerInfoAnswered(g, answer) \/ RequestAnswered(g, answer)
        PROVE  UNCHANGED Validated!vars
    BY <2>3 DEF ServerInfoAnswered, RequestAnswered
  <2>4. ASSUME NEW g, NEW input, Authenticate(g, input)
        PROVE  UNCHANGED Validated!vars
    BY <2>4 DEF Authenticate
  <2>5. ASSUME NEW g, NEW n, BusinessCall(g, n)
        PROVE  UNCHANGED Validated!vars
    BY <2>5 DEF BusinessCall
  <2>6. CASE UNCHANGED vars
    BY <2>6 DEF vars
  <2> QED
    BY <2>1, <2>2, <2>3, <2>4, <2>5, <2>6 DEF Next, Step, AutoAuthenticate, AuthenticateCall
<1> QED
  BY <1>1, <1>2, IInvAlways, PTL DEF Spec, ImplementsValidatedSession, Validated!Spec
=============================================================================
