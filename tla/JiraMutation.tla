---------------------------- MODULE JiraMutation -----------------------------
(***************************************************************************)
(* The Jira tools that write, from the credential check on, over Client.do *)
(* of internal/jira/client.  Which requests there are is JiraTools'; here  *)
(* a call may look up a transition by name, sends its one write, and may   *)
(* read the issue back.  Other people work on the issue at the same time.  *)
(*                                                                         *)
(* A GET is one step that sees the issue or fails.  A write can be lost,   *)
(* arrive after the client gave up, be applied with its answer lost, or be *)
(* applied and answered with a 5xx or an unusable body; a 4xx means not    *)
(* applied.  With Redirects, Jira answers a write with a 301, 302 or 303,  *)
(* and net/http, which the code leaves at its defaults, goes on with a GET.*)
(*                                                                         *)
(* Abstracted: the fields of an issue (a revision number that every change *)
(* raises) and the credential (JiraSession).                               *)
(***************************************************************************)
EXTENDS Integers, FiniteSets, JiraTools

CONSTANTS
    Calls,            \* tool calls
    TransitionIds,    \* workflow transitions
    TransitionNames,
    nameOf,           \* the name Jira shows for each of them
    NoTransition,
    NoCall,
    MaxRevision,      \* bound: other people stop working here
    Redirects         \* whether Jira redirects writes

ASSUME JiraMutationAssumption ==
    /\ IsFiniteSet(TransitionIds)
    /\ nameOf \in [TransitionIds -> TransitionNames]
    /\ NoTransition \notin TransitionIds \cup TransitionNames
    /\ MaxRevision \in Nat
    /\ Redirects \in BOOLEAN

VARIABLES
    revision,  \* the issue, as a count of changes to it
    offered,   \* the transitions its workflow offers now
    pc,        \* where each call is
    name,      \* input: transitionName, or none
    chosen,    \* the transition to post, or none
    tool,      \* the tool's hint and the write it set out to make
    onWire,    \* the call's write is on its way to Jira
    reply,     \* Jira's answer to the write
    acknowledged,  \* history: the tool has had Jira's success in hand
    matches,   \* history: how many transitions the name stood for when looked up
    effects,   \* history: how often the write was applied
    made,      \* history: the revision the write made
    shown,     \* the revision the read-back returned, 0 for none
    answer     \* what the call returned

issueVars == <<revision, offered>>
inputVars == <<name, tool>>
serverVars == <<revision, offered, onWire, effects, made>>
vars == <<revision, offered, pc, name, chosen, tool, onWire, reply, acknowledged,
          matches, effects, made, shown, answer>>

\* "odd" is a 2xx whose body is not the JSON it should be.
Replies == {"ok", "odd", "refused", "error"}

Answers == {"none", "applied", "refused", "unknown"}

TypeOK ==
    /\ revision \in Nat \ {0}
    /\ offered \subseteq TransitionIds
    /\ pc \in [Calls -> {"idle", "lookup", "send", "flight", "refresh", "done"}]
    /\ name \in [Calls -> TransitionNames \cup {NoTransition}]
    /\ chosen \in [Calls -> TransitionIds \cup {NoTransition}]
    /\ tool \in [Calls -> WriteCalls \cup {NoCall}]
    /\ onWire \in [Calls -> BOOLEAN]
    /\ reply \in [Calls -> Replies \cup {"none"}]
    /\ acknowledged \in [Calls -> BOOLEAN]
    /\ matches \in [Calls -> Nat]
    /\ effects \in [Calls -> {0, 1}]
    /\ made \in [Calls -> Nat]
    /\ shown \in [Calls -> Nat]
    /\ answer \in [Calls -> Answers]

Init ==
    /\ revision = 1
    /\ offered \in SUBSET TransitionIds
    /\ pc = [c \in Calls |-> "idle"]
    /\ name = [c \in Calls |-> NoTransition]
    /\ chosen = [c \in Calls |-> NoTransition]
    /\ tool = [c \in Calls |-> NoCall]
    /\ onWire = [c \in Calls |-> FALSE]
    /\ reply = [c \in Calls |-> "none"]
    /\ acknowledged = [c \in Calls |-> FALSE]
    /\ matches = [c \in Calls |-> 0]
    /\ effects = [c \in Calls |-> 0]
    /\ made = [c \in Calls |-> 0]
    /\ shown = [c \in Calls |-> 0]
    /\ answer = [c \in Calls |-> "none"]

-----------------------------------------------------------------------------
\* Jira and the people who use it.
-----------------------------------------------------------------------------
Work(ids) ==
    /\ revision < MaxRevision
    /\ revision' = revision + 1
    /\ offered' = ids
    /\ UNCHANGED <<inputVars, pc, chosen, onWire, reply, matches, effects, made, acknowledged, shown, answer>>

\* A transition that is no longer offered is refused; so is a write for reasons of Jira's.
Apply(c, ids, r) ==
    /\ onWire[c]
    /\ chosen[c] = NoTransition \/ chosen[c] \in offered
    /\ chosen[c] = NoTransition => ids = offered
    /\ r \in {"ok", "odd", "error"}
    /\ onWire' = [onWire EXCEPT ![c] = FALSE]
    /\ revision' = revision + 1
    /\ offered' = ids
    /\ effects' = [effects EXCEPT ![c] = @ + 1]
    /\ made' = [made EXCEPT ![c] = revision + 1]
    /\ reply' = [reply EXCEPT ![c] = r]
    /\ UNCHANGED <<inputVars, pc, chosen, matches, acknowledged, shown, answer>>

Reject(c, r) ==
    /\ onWire[c]
    /\ r \in {"refused", "error"} \/ (Redirects /\ r \in {"ok", "odd"})
    /\ onWire' = [onWire EXCEPT ![c] = FALSE]
    /\ reply' = [reply EXCEPT ![c] = r]
    /\ UNCHANGED <<issueVars, inputVars, pc, chosen, matches, effects, made, acknowledged, shown, answer>>

-----------------------------------------------------------------------------
\* The tools.
-----------------------------------------------------------------------------
Return(c, a) ==
    /\ pc' = [pc EXCEPT ![c] = "done"]
    /\ answer' = [answer EXCEPT ![c] = a]

Begins(c, place, t) ==
    /\ pc[c] = "idle"
    /\ pc' = [pc EXCEPT ![c] = place]
    /\ tool' = [tool EXCEPT ![c] = t]
    /\ UNCHANGED <<serverVars, reply, matches, acknowledged, shown, answer>>

CallWrite(c, t) ==
    /\ t.request.by = "none"
    /\ Begins(c, "send", t)
    /\ UNCHANGED <<name, chosen>>

CallTransitionById(c, t, id) ==
    /\ t.request.by = "id"
    /\ Begins(c, "send", t)
    /\ chosen' = [chosen EXCEPT ![c] = id]
    /\ UNCHANGED name

CallTransitionByName(c, t, n) ==
    /\ t.request.by = "name"
    /\ Begins(c, "lookup", t)
    /\ name' = [name EXCEPT ![c] = n]
    /\ UNCHANGED chosen

Named(n) == {id \in offered : nameOf[id] = n}

TakeAnyMatch(c) ==
    /\ pc[c] = "lookup"
    /\ matches' = [matches EXCEPT ![c] = Cardinality(Named(name[c]))]
    /\ \/ \E id \in Named(name[c]) :
            /\ chosen' = [chosen EXCEPT ![c] = id]
            /\ pc' = [pc EXCEPT ![c] = "send"]
            /\ UNCHANGED answer
       \/ Return(c, "refused") /\ UNCHANGED chosen
    /\ UNCHANGED <<serverVars, inputVars, reply, acknowledged, shown>>

\* resolveTransitionName: exactly one match, or nothing is sent.
ResolveTransitionName(c) ==
    /\ pc[c] = "lookup"
    /\ matches' = [matches EXCEPT ![c] = Cardinality(Named(name[c]))]
    /\ \/ \E id \in Named(name[c]) :
            /\ Named(name[c]) = {id}
            /\ chosen' = [chosen EXCEPT ![c] = id]
            /\ pc' = [pc EXCEPT ![c] = "send"]
            /\ UNCHANGED answer
       \/ Return(c, "refused") /\ UNCHANGED chosen
    /\ UNCHANGED <<serverVars, inputVars, reply, acknowledged, shown>>

Send(c) ==
    /\ pc[c] = "send"
    /\ pc' = [pc EXCEPT ![c] = "flight"]
    /\ onWire' = [onWire EXCEPT ![c] = TRUE]
    /\ UNCHANGED <<issueVars, inputVars, chosen, reply, matches, effects, made, acknowledged, shown, answer>>

\* What Client.do makes of a reply: without an out it does not look at the body.
Succeeds(c) == reply[c] = "ok" \/ (reply[c] = "odd" /\ ~tool[c].request.decodes)

RefreshBeforeAnswer(c) ==
    /\ pc[c] = "flight"
    /\ IF tool[c].request.refresh THEN pc' = [pc EXCEPT ![c] = "refresh"] /\ UNCHANGED answer
       ELSE Return(c, IF Succeeds(c) THEN "applied"
                      ELSE IF reply[c] = "refused" THEN "refused" ELSE "unknown")
    /\ UNCHANGED <<serverVars, inputVars, chosen, reply, matches, acknowledged, shown>>

\* Client.do has an answer: success goes on to refreshAfterMutation.
Receive(c) ==
    /\ pc[c] = "flight" /\ reply[c] # "none"
    /\ acknowledged' = [acknowledged EXCEPT ![c] = Succeeds(c)]
    /\ \/ Succeeds(c) /\ tool[c].request.refresh /\ pc' = [pc EXCEPT ![c] = "refresh"] /\ UNCHANGED answer
       \/ Succeeds(c) /\ ~tool[c].request.refresh /\ Return(c, "applied")
       \/ reply[c] = "refused" /\ Return(c, "refused")
       \/ reply[c] \in {"odd", "error"} /\ ~Succeeds(c) /\ Return(c, "unknown")
    /\ UNCHANGED <<serverVars, inputVars, chosen, reply, matches, shown>>

ReportRefused(c) ==
    /\ pc[c] = "flight"
    /\ Return(c, "refused")
    /\ UNCHANGED <<serverVars, inputVars, chosen, reply, matches, acknowledged, shown>>

\* Connection lost, timeout or cancellation: UPSTREAM_UNREACHABLE, and no retry.
GiveUp(c) ==
    /\ pc[c] = "flight"
    /\ Return(c, "unknown")
    /\ UNCHANGED <<serverVars, inputVars, chosen, reply, matches, acknowledged, shown>>

ReadBackDecides(c) ==
    /\ pc[c] = "refresh"
    /\ \/ shown' = [shown EXCEPT ![c] = revision] /\ Return(c, "applied")
       \/ UNCHANGED shown /\ Return(c, "unknown")
    /\ UNCHANGED <<serverVars, inputVars, chosen, reply, acknowledged, matches>>

\* refreshAfterMutation: the read-back may fail, the mutation stays applied.
RefreshAfterMutation(c) ==
    /\ pc[c] = "refresh"
    /\ \/ shown' = [shown EXCEPT ![c] = revision]
       \/ UNCHANGED shown
    /\ Return(c, "applied")
    /\ UNCHANGED <<serverVars, inputVars, chosen, reply, acknowledged, matches>>

ToolStep(c) ==
    \/ ResolveTransitionName(c) \/ Send(c) \/ Receive(c) \/ GiveUp(c) \/ RefreshAfterMutation(c)

Call(c) ==
    \E t \in WriteCalls :
        \/ CallWrite(c, t)
        \/ \E id \in TransitionIds : CallTransitionById(c, t, id)
        \/ \E n \in TransitionNames : CallTransitionByName(c, t, n)

Next ==
    \/ \E ids \in SUBSET TransitionIds : Work(ids)
    \/ \E c \in Calls :
        \/ Call(c)
        \/ ToolStep(c)
        \/ \E ids \in SUBSET TransitionIds, r \in Replies : Apply(c, ids, r)
        \/ \E r \in Replies : Reject(c, r)

Spec == Init /\ [][Next]_vars

-----------------------------------------------------------------------------
(* A transition named by its name is carried out only if the name stood    *)
(* for exactly one transition when the tool looked (service.go:1169-1196). *)
NeverGuesses ==
    \A c \in Calls : name[c] # NoTransition /\ effects[c] > 0 =>
        matches[c] = 1 /\ nameOf[chosen[c]] = name[c]

(* The approval a client asks its user for rests on a tool's annotations,  *)
(* which register.go ties to a handler by position.  No change is made     *)
(* under the name of a read-only tool, nothing is replaced or deleted      *)
(* under an additive one, and what is written to is the one object the     *)
(* caller named, not another path (register.go:52-142, SPECS.md:392-393).  *)
WritesAreAnnounced ==
    \A c \in Calls : effects[c] > 0 =>
        /\ tool[c].hint # "readOnly"
        /\ tool[c].hint = "additive" => tool[c].request.method = "POST"
        /\ tool[c].request.path \subseteq {"good"}

(* A tool says "applied" exactly when Jira's success has reached it: a     *)
(* read-back that fails does not turn it into an error on which the caller *)
(* would write again, and no failed write is passed off as applied         *)
(* (service.go:1153-1166).                                                 *)
AcknowledgedIsApplied ==
    \A c \in Calls : pc[c] = "done" => (answer[c] = "applied" <=> acknowledged[c])

(* The issue a tool returns with its answer contains the tool's own change *)
(* and is no older than it (service.go:1158-1166).                         *)
ReadBackSeesTheChange ==
    \A c \in Calls : shown[c] # 0 => made[c] # 0 /\ shown[c] >= made[c]

(* As a write, a tool call is what UpstreamCall says: applied at most      *)
(* once, an acknowledgement is true and a refusal is final.                *)
kindOf == [c \in Calls |-> IF pc[c] = "idle" THEN "none" ELSE "write"]
outcomeOf == [c \in Calls |-> IF answer[c] = "applied" THEN "ok" ELSE answer[c]]

Upstream == INSTANCE UpstreamCall WITH kind <- kindOf, answer <- outcomeOf
ImplementsUpstreamCall == Upstream!Spec

(* SPECS.md:583, "If mutation succeeds ...": mutationApplied is true of    *)
(* the issue.  With a redirected write it is not (client.go:138-159).      *)
ReportedIsApplied == \A c \in Calls : answer[c] = "applied" => effects[c] = 1
=============================================================================
