------------------------- MODULE ConfluenceSession -------------------------
(***************************************************************************)
(* The Confluence module's session (internal/confluence/module.go,         *)
(* internal/confluence/tools/service.go).  It differs from Jira's in three *)
(* ways: one probe, GET /user/current, whose answer must describe a known  *)
(* user; a startup attempt that gives way to any session it finds, before  *)
(* it asks and again when it commits; and business calls of one GET each.  *)
(* Which tool does what is ConfluenceTools'.                               *)
(*                                                                         *)
(* An answer is "known" (2xx, type known), "other" (2xx that describes an  *)
(* anonymous user or nothing at all) or "error".                           *)
(***************************************************************************)
EXTENDS ConfluenceTools

CONSTANTS
    Tasks,      \* goroutines serving tool calls
    Startup,    \* the goroutine main.go starts for AutoAuthenticate
    Names, Secrets,
    Blank,      \* an input field or variable that is empty
    NoCred,     \* the empty session
    Environments, \* what CONFLUENCE_USERNAME and CONFLUENCE_PASSWORD may be set to
    Inputs      \* the arguments clients pass to confluence_authenticate

Pairs == [user : Names, pass : Secrets]
Fields == [user : Names \cup {Blank}, pass : Secrets \cup {Blank}]

ASSUME SessionAssumption ==
    /\ Startup \notin Tasks
    /\ Blank \notin Names \cup Secrets
    /\ NoCred \notin Pairs
    /\ Environments \subseteq Fields
    /\ Inputs \subseteq Fields

Goroutines == Tasks \cup {Startup}

VARIABLES
    environ,    \* the process environment: getenv's answers never change
    session,    \* the SessionStore's value
    origin,     \* history: which kind of attempt stored it
    pc,         \* where each goroutine is
    hint,       \* what the client was told of the tool it runs
    cred,       \* the candidate of an attempt, the snapshot of a business call
    accepted    \* history: pairs /user/current answered "known" for

vars == <<environ, session, origin, pc, hint, cred, accepted>>

TypeOK ==
    /\ environ \in Environments
    /\ session \in Pairs \cup {NoCred}
    /\ origin \in {"none", "startup", "explicit"}
    /\ pc \in [Goroutines -> {"start", "idle", "userCurrent", "commit", "request"}]
    /\ hint \in [Goroutines -> {"none", "unset", "readOnly"}]
    /\ cred \in [Goroutines -> Pairs \cup {NoCred}]
    /\ accepted \subseteq Pairs

Init ==
    /\ environ \in Environments
    /\ session = NoCred
    /\ origin = "none"
    /\ pc = [g \in Goroutines |-> IF g = Startup THEN "start" ELSE "idle"]
    /\ hint = [g \in Goroutines |-> "none"]
    /\ cred = [g \in Goroutines |-> NoCred]
    /\ accepted = {}

At(g, point, c) ==
    /\ pc' = [pc EXCEPT ![g] = point]
    /\ cred' = [cred EXCEPT ![g] = c]

Returns(g) == At(g, "idle", NoCred)

\* Explicit input wins field by field; what is empty falls back to the environment.
Resolve(input) ==
    [user |-> IF input.user = Blank THEN environ.user ELSE input.user,
     pass |-> IF input.pass = Blank THEN environ.pass ELSE input.pass]

authenticateWithAnything(g, input) ==
    /\ At(g, "userCurrent", Resolve(input))
    /\ UNCHANGED <<environ, session, origin, accepted>>

\* authenticate up to its request: an incomplete pair sends nothing.
authenticate(g, input) ==
    /\ \/ Resolve(input) \notin Pairs /\ Returns(g)
       \/ Resolve(input) \in Pairs /\ At(g, "userCurrent", Resolve(input))
    /\ UNCHANGED <<environ, session, origin, accepted>>

\* AutoAuthenticate: nothing to do without both variables or with a session.
AutoAuthenticate ==
    /\ pc[Startup] = "start"
    /\ \/ session = NoCred /\ authenticate(Startup, [user |-> Blank, pass |-> Blank])
       \/ session # NoCred /\ Returns(Startup) /\ UNCHANGED <<environ, session, origin, accepted>>
    /\ UNCHANGED hint

Calls(g, t) ==
    /\ g \in Tasks
    /\ pc[g] = "idle"
    /\ hint' = [hint EXCEPT ![g] = t.hint]

AuthenticateCall(g, t, input) ==
    /\ t.does = "authenticate"
    /\ Calls(g, t)
    /\ authenticate(g, input)

Answers == {"known", "other", "error"}

UserCurrentAnswered(g, answer) ==
    /\ pc[g] = "userCurrent"
    /\ \/ /\ answer = "known"
          /\ At(g, "commit", cred[g])
          /\ accepted' = accepted \cup {cred[g]}
       \/ /\ answer # "known"
          /\ Returns(g)
          /\ UNCHANGED accepted
    /\ UNCHANGED <<hint, environ, session, origin>>

UnguardedCommit(g) ==
    /\ pc[g] = "commit"
    /\ session' = cred[g]
    /\ origin' = IF g = Startup THEN "startup" ELSE "explicit"
    /\ Returns(g)
    /\ UNCHANGED <<hint, environ, accepted>>

RefusedCommitEmptiesTheStore(g) ==
    /\ pc[g] = "commit"
    /\ \/ /\ g \in Tasks
          /\ session' = cred[g]
          /\ origin' = "explicit"
       \/ /\ g = Startup
          /\ session' = IF session = NoCred THEN cred[g] ELSE NoCred
          /\ origin' = IF session = NoCred THEN "startup" ELSE origin
    /\ Returns(g)
    /\ UNCHANGED <<hint, environ, accepted>>

\* The commit closures: a tool call replaces, the startup attempt stores only
\* into an empty session.  Either way the envelope says OK.
Commit(g) ==
    /\ pc[g] = "commit"
    /\ \/ /\ g \in Tasks
          /\ session' = cred[g]
          /\ origin' = "explicit"
       \/ /\ g = Startup /\ session = NoCred
          /\ session' = cred[g]
          /\ origin' = "startup"
       \/ /\ g = Startup /\ session # NoCred
          /\ UNCHANGED <<session, origin>>
    /\ Returns(g)
    /\ UNCHANGED <<hint, environ, accepted>>

\* requireCredential, then one GET; without a session, or for arguments the
\* handler refuses, nothing is sent.
BusinessCall(g, t) ==
    /\ t.does \in {"get", "refused"}
    /\ Calls(g, t)
    /\ \/ (session = NoCred \/ t.does = "refused") /\ Returns(g)
       \/ session # NoCred /\ t.does = "get" /\ At(g, "request", session)
    /\ UNCHANGED <<environ, session, origin, accepted>>

RequestAnswered(g) ==
    /\ pc[g] = "request"
    /\ Returns(g)
    /\ UNCHANGED <<hint, environ, session, origin, accepted>>

Step(g) ==
    \/ \E answer \in Answers : UserCurrentAnswered(g, answer)
    \/ Commit(g)
    \/ RequestAnswered(g)

Next ==
    \/ AutoAuthenticate
    \/ \E g \in Goroutines : Step(g)
    \/ \E g \in Tasks, t \in ToolCalls :
        (\E input \in Inputs : AuthenticateCall(g, t, input)) \/ BusinessCall(g, t)

Spec == Init /\ [][Next]_vars

-----------------------------------------------------------------------------
(* The active credential is a pair /user/current named a known user for.   *)
ActiveWasKnown == session # NoCred => session \in accepted

(* No request for content or spaces leaves before an authentication has    *)
(* succeeded, and it carries a pair the server has accepted.               *)
BusinessRequestsAreAuthenticated ==
    \A g \in Tasks : pc[g] = "request" => cred[g] \in accepted

(* A session stored by an explicit confluence_authenticate is never        *)
(* replaced by the startup attempt, however late its answer comes          *)
(* (module_test.go, TestAutoAuthenticateDoesNotOverwriteNewerExplicitSession). *)
ExplicitSessionSticks == [][origin = "explicit" => origin' = "explicit"]_origin

(* The session is changed by the tool that says so and by the startup      *)
(* attempt, never by a call of a tool the client holds for read-only and   *)
(* may make without asking (confluence/tools/register.go:11-207).          *)
ReadOnlyToolsKeepTheSession ==
    [][\A g \in Goroutines :
            session' # session /\ pc[g] = "commit" /\ pc'[g] # "commit" => hint[g] # "readOnly"]_vars

(* The session implements the abstract validated session.                  *)
Validated == INSTANCE ValidatedSession
ImplementsValidatedSession == Validated!Spec
=============================================================================
