---------------------------- MODULE JiraSession ----------------------------
(***************************************************************************)
(* The Jira module's session: jira_authenticate, the automatic             *)
(* authentication main starts in a goroutine of its own, and the business  *)
(* calls that are gated by the session (internal/jira/module.go,           *)
(* internal/jira/tools/service.go).                                        *)
(*                                                                         *)
(* Every tool call is a goroutine.  A goroutine is interrupted wherever    *)
(* another one can see or change something: between two HTTP exchanges,    *)
(* and between the last answer and SessionStore.Replace.  The store itself *)
(* is atomic: SessionStore.tla shows why.                                  *)
(*                                                                         *)
(* Abstracted: what a request asks for and what a business answer says.    *)
(* An answer is an error (transport error, non-2xx, unreadable, too large, *)
(* not JSON) or ok: any other 2xx, an empty body included, which Client.do *)
(* returns from without decoding anything.                                 *)
(***************************************************************************)
EXTENDS Naturals

CONSTANTS
    Tasks,        \* goroutines serving tool calls
    Startup,      \* the goroutine main.go starts for AutoAuthenticate
    Names, Secrets,
    Blank,        \* an input field or variable that is empty
    NoCred,       \* the empty session
    Environments, \* what JIRA_USERNAME and JIRA_PASSWORD may be set to
    Inputs,       \* the arguments clients pass to jira_authenticate
    MaxRequests   \* the longest business call: resolve a name, mutate, read back

Pairs == [user : Names, pass : Secrets]
Fields == [user : Names \cup {Blank}, pass : Secrets \cup {Blank}]

ASSUME SessionAssumption ==
    /\ Startup \notin Tasks
    /\ Blank \notin Names \cup Secrets
    /\ NoCred \notin Pairs
    /\ Environments \subseteq Fields
    /\ Inputs \subseteq Fields
    /\ MaxRequests \in Nat /\ MaxRequests >= 2   \* the two probes fit

Goroutines == Tasks \cup {Startup}

VARIABLES
    environ,     \* the process environment: getenv's answers never change
    session,     \* the SessionStore's value
    pc,          \* where each goroutine is
    cred,        \* the candidate of an authentication, the snapshot of a business call
    remaining,   \* requests a business call has left, the one in flight included
    onWire,      \* history: the credentials the current call has put on the wire
    accepted     \* history: pairs both probes of one attempt were answered 2xx for

vars == <<environ, session, pc, cred, remaining, onWire, accepted>>

Points == {"start", "idle", "serverInfo", "myself", "commit", "request"}

TypeOK ==
    /\ environ \in Environments
    /\ session \in Pairs \cup {NoCred}
    /\ pc \in [Goroutines -> Points]
    /\ cred \in [Goroutines -> Pairs \cup {NoCred}]
    /\ remaining \in [Goroutines -> 0..MaxRequests]
    /\ onWire \in [Goroutines -> SUBSET (Pairs \cup {NoCred})]
    /\ accepted \subseteq Pairs

Init ==
    /\ environ \in Environments
    /\ session = NoCred
    /\ pc = [g \in Goroutines |-> IF g = Startup THEN "start" ELSE "idle"]
    /\ cred = [g \in Goroutines |-> NoCred]
    /\ remaining = [g \in Goroutines |-> 0]
    /\ onWire = [g \in Goroutines |-> {}]
    /\ accepted = {}

\* A call returns, with an answer or an error, and its locals are gone.
Returns(g) ==
    /\ pc' = [pc EXCEPT ![g] = "idle"]
    /\ cred' = [cred EXCEPT ![g] = NoCred]
    /\ remaining' = [remaining EXCEPT ![g] = 0]
    /\ onWire' = [onWire EXCEPT ![g] = {}]

\* The goroutine sends a request with credential c and n - 1 more to follow.
Sends(g, point, c, n) ==
    /\ pc' = [pc EXCEPT ![g] = point]
    /\ cred' = [cred EXCEPT ![g] = c]
    /\ remaining' = [remaining EXCEPT ![g] = n]
    /\ onWire' = [onWire EXCEPT ![g] = @ \cup {c}]

\* Explicit input wins field by field; what is empty falls back to the environment.
Resolve(input) ==
    [user |-> IF input.user = Blank THEN environ.user ELSE input.user,
     pass |-> IF input.pass = Blank THEN environ.pass ELSE input.pass]

\* Authenticate up to its first request: an incomplete pair sends nothing.
Authenticate(g, input) ==
    /\ \/ Resolve(input) \notin Pairs /\ Returns(g)
       \/ Resolve(input) \in Pairs /\ Sends(g, "serverInfo", Resolve(input), 2)
    /\ UNCHANGED <<environ, session, accepted>>

\* AutoAuthenticate runs once, and calls Authenticate only when both variables are set.
AutoAuthenticate ==
    /\ pc[Startup] = "start"
    /\ Authenticate(Startup, [user |-> Blank, pass |-> Blank])

AuthenticateCall(g, input) ==
    /\ g \in Tasks
    /\ pc[g] = "idle"
    /\ Authenticate(g, input)

Answers == {"ok", "error"}

ServerInfoAnswered(g, answer) ==
    /\ pc[g] = "serverInfo"
    /\ \/ answer = "error" /\ Returns(g)
       \/ answer # "error" /\ Sends(g, "myself", cred[g], 1)
    /\ UNCHANGED <<environ, session, accepted>>

MyselfFailureLogsOut(g, answer) ==
    /\ pc[g] = "myself"
    /\ \/ /\ answer = "error"
          /\ session' = NoCred
          /\ Returns(g)
          /\ UNCHANGED <<environ, accepted>>
       \/ /\ answer # "error"
          /\ pc' = [pc EXCEPT ![g] = "commit"]
          /\ accepted' = accepted \cup {cred[g]}
          /\ UNCHANGED <<environ, session, cred, remaining, onWire>>

MyselfFailureRetries(g, answer) ==
    /\ pc[g] = "myself"
    /\ \/ /\ answer = "error"
          /\ Sends(g, "serverInfo", cred[g], 2)
          /\ UNCHANGED accepted
       \/ /\ answer # "error"
          /\ pc' = [pc EXCEPT ![g] = "commit"]
          /\ accepted' = accepted \cup {cred[g]}
          /\ UNCHANGED <<cred, remaining, onWire>>
    /\ UNCHANGED <<environ, session>>

MyselfAnswered(g, answer) ==
    /\ pc[g] = "myself"
    /\ \/ /\ answer = "error"
          /\ Returns(g)
          /\ UNCHANGED accepted
       \/ /\ answer # "error"
          /\ pc' = [pc EXCEPT ![g] = "commit"]
          /\ accepted' = accepted \cup {cred[g]}
          /\ UNCHANGED <<cred, remaining, onWire>>
    /\ UNCHANGED <<environ, session>>

\* SessionStore.Replace: whatever the session holds by now.
Commit(g) ==
    /\ pc[g] = "commit"
    /\ session' = cred[g]
    /\ Returns(g)
    /\ UNCHANGED <<environ, accepted>>

\* requireCredential, then the first of n requests; without a session nothing is sent.
BusinessCall(g, n) ==
    /\ g \in Tasks
    /\ pc[g] = "idle"
    /\ \/ session = NoCred /\ Returns(g)
       \/ session # NoCred /\ Sends(g, "request", session, n)
    /\ UNCHANGED <<environ, session, accepted>>

RequestWithFreshSnapshot(g, answer) ==
    /\ pc[g] = "request"
    /\ \/ answer # "error" /\ remaining[g] > 1 /\ Sends(g, "request", session, remaining[g] - 1)
       \/ (answer = "error" \/ remaining[g] = 1) /\ Returns(g)
    /\ UNCHANGED <<environ, session, accepted>>

RequestsWithoutEnd(g, answer) ==
    /\ pc[g] = "request"
    /\ \/ answer # "error" /\ Sends(g, "request", cred[g], remaining[g] - 1)
       \/ answer = "error" /\ Returns(g)
    /\ UNCHANGED <<environ, session, accepted>>

\* A later request of the same call reuses the snapshot the call began with.
RequestAnswered(g, answer) ==
    /\ pc[g] = "request"
    /\ \/ answer # "error" /\ remaining[g] > 1 /\ Sends(g, "request", cred[g], remaining[g] - 1)
       \/ (answer = "error" \/ remaining[g] = 1) /\ Returns(g)
    /\ UNCHANGED <<environ, session, accepted>>

\* What a running goroutine does next; the answer is the server's choice.
Step(g) ==
    \/ \E answer \in Answers :
           ServerInfoAnswered(g, answer) \/ MyselfAnswered(g, answer) \/ RequestAnswered(g, answer)
    \/ Commit(g)

Next ==
    \/ AutoAuthenticate
    \/ \E g \in Goroutines : Step(g)
    \/ \E g \in Tasks, input \in Inputs : AuthenticateCall(g, input)
    \/ \E g \in Tasks, n \in 1..MaxRequests : BusinessCall(g, n)

Spec == Init /\ [][Next]_vars

(***************************************************************************)
(* The runtime runs every goroutine, and transport.NewHTTPClient gives     *)
(* every exchange a positive timeout, so each request is answered or       *)
(* fails.  Clients are not obliged to call anything.                       *)
(***************************************************************************)
Fairness == WF_vars(AutoAuthenticate) /\ \A g \in Goroutines : WF_vars(Step(g))

FairSpec == Spec /\ Fairness

-----------------------------------------------------------------------------
(* The active credential is a pair that both probes of one authentication  *)
(* attempt were answered 2xx for, however attempts and calls interleave.   *)
ActiveWasAccepted == session # NoCred => session \in accepted

(* No business request leaves before an authentication has succeeded, and  *)
(* it carries a pair the server has accepted, even when the session has    *)
(* been replaced since the call began.                                     *)
BusinessRequestsAreAuthenticated ==
    \A g \in Tasks : pc[g] = "request" => onWire[g] # {} /\ onWire[g] \subseteq accepted

(* All requests of one call (two probes, or resolve, mutate and read back) *)
(* run as one user, though another call may re-authenticate in between.    *)
OneCallOneIdentity == \A g \in Goroutines : \A c, d \in onWire[g] : c = d

(* The session implements the abstract validated session: it never goes    *)
(* back to empty and a failed attempt leaves it alone.                     *)
Validated == INSTANCE ValidatedSession
ImplementsValidatedSession == Validated!Spec

(* The startup attempt ends, and so does every call a client makes.        *)
EveryCallReturns == \A g \in Goroutines : pc[g] # "idle" ~> pc[g] = "idle"
=============================================================================
