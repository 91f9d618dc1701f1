--------------------------- MODULE BitbucketClient ---------------------------
(***************************************************************************)
(* Client.do and Client.once of internal/bitbucket/client/request.go: the  *)
(* loop every Bitbucket tool sends its requests through.  A read is tried  *)
(* up to three times with a sleep between tries, a write once.             *)
(*                                                                         *)
(* Around the code stand net/http and the server, as the code meets them:  *)
(* a request can be lost, served with the answer lost, or still be served  *)
(* after the client has given up on it (its timeout, or a cancelled        *)
(* context); a 5xx or 429 to a write may follow its effect; a 4xx never    *)
(* does.  With Redirects, the server answers a write with a 301, 302 or    *)
(* 303, which net/http, left at its defaults, follows as a GET.            *)
(*                                                                         *)
(* Abstracted: URLs, headers, payloads and the log line of an exchange.    *)
(* A payload is readable, within the limit and decodable, or it is not.    *)
(***************************************************************************)
EXTENDS Naturals, BitbucketTools

CONSTANTS
    Calls,          \* calls of the client, each for one request of a tool
    NoRequest,
    ReadAttempts,   \* how often a read is tried: 3 in do
    Redirects       \* whether the server redirects writes

ASSUME ReadAttemptsAssumption == ReadAttempts \in Nat \ {0}
ASSUME RedirectsAssumption == Redirects \in BOOLEAN

VARIABLES
    pc,          \* where the goroutine of each call is
    tool,        \* the request, with the hint of the tool that makes it
    kind,        \* "read" (GET, HEAD) or "write" (the rest)
    attempt,     \* the loop variable of do
    cancelled,   \* the context of the call is done
    reply,       \* what the server has answered to the exchange in flight
    sent,        \* history: requests of this call handed to the network
    effects,     \* history: how often a write of this call took effect
    late,        \* a request the client gave up on is still on its way
    answer       \* what the call returned

vars == <<pc, tool, kind, attempt, cancelled, reply, sent, effects, late, answer>>

Replies == {"none", "ok", "noContent", "refused", "transient"}

TypeOK ==
    /\ pc \in [Calls -> {"idle", "send", "flight", "served", "sleep", "done"}]
    /\ tool \in [Calls -> ToolRequests \cup {NoRequest}]
    /\ kind \in [Calls -> {"none", "read", "write"}]
    /\ attempt \in [Calls -> 0..ReadAttempts]
    /\ cancelled \in [Calls -> BOOLEAN]
    /\ reply \in [Calls -> Replies]
    /\ sent \in [Calls -> 0..ReadAttempts]
    /\ effects \in [Calls -> 0..ReadAttempts]
    /\ late \in [Calls -> BOOLEAN]
    /\ answer \in [Calls -> {"none", "ok", "refused", "unknown"}]

Init ==
    /\ pc = [c \in Calls |-> "idle"]
    /\ tool = [c \in Calls |-> NoRequest]
    /\ kind = [c \in Calls |-> "none"]
    /\ attempt = [c \in Calls |-> 0]
    /\ cancelled = [c \in Calls |-> FALSE]
    /\ reply = [c \in Calls |-> "none"]
    /\ sent = [c \in Calls |-> 0]
    /\ effects = [c \in Calls |-> 0]
    /\ late = [c \in Calls |-> FALSE]
    /\ answer = [c \in Calls |-> "none"]

isRead(c) == kind[c] = "read"

attempts(c) == IF isRead(c) THEN ReadAttempts ELSE 1

Call(c, t) ==
    /\ pc[c] = "idle"
    /\ pc' = [pc EXCEPT ![c] = "send"]
    /\ tool' = [tool EXCEPT ![c] = t]
    /\ kind' = [kind EXCEPT ![c] = IF t.request.method = "GET" THEN "read" ELSE "write"]
    /\ attempt' = [attempt EXCEPT ![c] = 1]
    /\ UNCHANGED <<cancelled, reply, sent, effects, late, answer>>

\* The MCP client cancels the tool call; nothing but the context notices.
Cancel(c) ==
    /\ pc[c] \in {"send", "flight", "served", "sleep"}
    /\ ~cancelled[c]
    /\ cancelled' = [cancelled EXCEPT ![c] = TRUE]
    /\ UNCHANGED <<pc, tool, kind, attempt, reply, sent, effects, late, answer>>

Returns(c, a) ==
    /\ pc' = [pc EXCEPT ![c] = "done"]
    /\ answer' = [answer EXCEPT ![c] = a]
    /\ reply' = [reply EXCEPT ![c] = "none"]
    /\ UNCHANGED attempt

\* The tail of do: once reported an error and whether a read may be retried.
Fails(c, retry, a) ==
    \/ /\ retry /\ isRead(c)
       /\ attempt[c] < attempts(c)
       /\ pc' = [pc EXCEPT ![c] = "sleep"]
       /\ reply' = [reply EXCEPT ![c] = "none"]
       /\ UNCHANGED <<attempt, answer>>
    \/ /\ ~(retry /\ isRead(c)) \/ attempt[c] = attempts(c)
       /\ Returns(c, a)

SendIgnoringContext(c) ==
    /\ pc[c] = "send"
    /\ pc' = [pc EXCEPT ![c] = "flight"]
    /\ sent' = [sent EXCEPT ![c] = @ + 1]
    /\ UNCHANGED <<attempt, reply, answer>>
    /\ UNCHANGED <<tool, kind, cancelled, effects, late>>

\* httpClient.Do puts the request on the wire, unless the context is done already.
Send(c) ==
    /\ pc[c] = "send"
    /\ \/ /\ cancelled[c]
          /\ Returns(c, "unknown")
          /\ UNCHANGED sent
       \/ /\ ~cancelled[c]
          /\ pc' = [pc EXCEPT ![c] = "flight"]
          /\ sent' = [sent EXCEPT ![c] = @ + 1]
          /\ UNCHANGED <<attempt, reply, answer>>
    /\ UNCHANGED <<tool, kind, cancelled, effects, late>>

\* The server's side of an exchange: r answered, with or without an effect.
TakesEffect(c, r) ==
    \/ /\ kind[c] = "write"
       /\ r \in {"ok", "noContent", "transient"}
       /\ effects' = [effects EXCEPT ![c] = @ + 1]
    \/ /\ kind[c] = "read" \/ r \in {"refused", "transient"} \/ Redirects
       /\ UNCHANGED effects

Serve(c, r) ==
    /\ pc[c] = "flight"
    /\ pc' = [pc EXCEPT ![c] = "served"]
    /\ reply' = [reply EXCEPT ![c] = r]
    /\ TakesEffect(c, r)
    /\ UNCHANGED <<tool, kind, attempt, cancelled, sent, late, answer>>

\* A request the client no longer waits for takes effect all the same.
ServeLate(c) ==
    /\ late[c]
    /\ late' = [late EXCEPT ![c] = FALSE]
    /\ effects' = [effects EXCEPT ![c] = @ + 1]
    /\ UNCHANGED <<pc, tool, kind, attempt, cancelled, reply, sent, answer>>

TransportErrorWithoutTimeout(c) ==
    /\ cancelled[c]
    /\ pc[c] \in {"flight", "served"}
    /\ Fails(c, FALSE, "unknown")
    /\ late' \in {late, [late EXCEPT ![c] = pc[c] = "flight" /\ kind[c] = "write"]}
    /\ UNCHANGED <<tool, kind, cancelled, sent, effects>>

\* Do returns an error: connection lost, client timeout, or context done.  The
\* request may or may not have been served, and an unserved write may still be.
TransportError(c) ==
    /\ pc[c] \in {"flight", "served"}
    /\ Fails(c, ~cancelled[c], "unknown")
    /\ late' \in {late, [late EXCEPT ![c] = pc[c] = "flight" /\ kind[c] = "write"]}
    /\ UNCHANGED <<tool, kind, cancelled, sent, effects>>

StatusIgnored(c, usable) ==
    /\ pc[c] = "served"
    /\ \/ usable /\ Returns(c, "ok")
       \/ ~usable /\ Fails(c, FALSE, "unknown")
    /\ UNCHANGED <<tool, kind, cancelled, sent, effects, late>>

\* once, after the response headers: 204 first, then the body, then the status,
\* then the decoder.  A body that cannot be read or is too large hides the status:
\* it is never retried, and a refusal under it is not reported as one.
Receive(c, usable) ==
    /\ pc[c] = "served"
    /\ \/ reply[c] = "noContent" /\ Returns(c, "ok")
       \/ reply[c] = "ok" /\ usable /\ Returns(c, "ok")
       \/ reply[c] = "ok" /\ ~usable /\ Fails(c, FALSE, "unknown")
       \/ reply[c] = "transient" /\ Fails(c, usable, "unknown")
       \/ reply[c] = "refused" /\ usable /\ Fails(c, FALSE, "refused")
       \/ reply[c] = "refused" /\ ~usable /\ Fails(c, FALSE, "unknown")
    /\ UNCHANGED <<tool, kind, cancelled, sent, effects, late>>

\* time.Sleep does not look at the context.
WakeUp(c) ==
    /\ pc[c] = "sleep"
    /\ pc' = [pc EXCEPT ![c] = "send"]
    /\ attempt' = [attempt EXCEPT ![c] = @ + 1]
    /\ UNCHANGED <<tool, kind, cancelled, reply, sent, effects, late, answer>>

\* What the client does by itself; the timeout is one of TransportError's causes.
ClientStep(c) ==
    \/ Send(c) \/ TransportError(c) \/ WakeUp(c)
    \/ \E usable \in BOOLEAN : Receive(c, usable)

Next ==
    \E c \in Calls :
        \/ \E t \in ToolRequests : Call(c, t)
        \/ Cancel(c)
        \/ ClientStep(c)
        \/ \E r \in Replies \ {"none"} : Serve(c, r)
        \/ ServeLate(c)

Spec == Init /\ [][Next]_vars

(***************************************************************************)
(* http.Client.Timeout ends every exchange and time.Sleep ends, so a call  *)
(* that has begun always has a next step, whether or not the server ever   *)
(* answers.  Nobody has to call, to cancel or to serve.                    *)
(***************************************************************************)
Fairness == \A c \in Calls : WF_vars(ClientStep(c))

FairSpec == Spec /\ Fairness

-----------------------------------------------------------------------------
(* Which tool wrote matters to the user who approved it by its hints.  No  *)
(* read-only tool has an effect, not even a late one, and what a           *)
(* destructive tool replaces or closes the server is asked to check first, *)
(* by a version, a source commit or the mode (register.go:64-165,          *)
(* pull_requests.go:311-329, commits.go:175-203).                          *)
WritesAreAnnounced ==
    \A c \in Calls : effects[c] > 0 \/ late[c] =>
        /\ tool[c].hint # "readOnly"
        /\ tool[c].hint = "destructive" => tool[c].request.guard # "none"

(* A write takes effect at most once, even when the answer to the only     *)
(* attempt was lost or the request is served after the client gave up      *)
(* (SPECS.md:703, "sent at most once").                                    *)
WriteTakesEffectAtMostOnce == \A c \in Calls : effects[c] + (IF late[c] THEN 1 ELSE 0) <= 1

(* A definite refusal is true: no earlier attempt of the same call, and no *)
(* request still on its way, has the effect the answer denies.             *)
RefusalIsDefinite == \A c \in Calls : answer[c] = "refused" => effects[c] = 0 /\ ~late[c]

(* A context cancelled during the backoff sleep stops the call: the sleep  *)
(* runs to its end but no request follows it.                              *)
NothingSentAfterCancel == [][\A c \in Calls : cancelled[c] => sent'[c] = sent[c]]_vars

(* Handlers may rely on the abstract call.                                 *)
Upstream == INSTANCE UpstreamCall
ImplementsUpstreamCall == Upstream!Spec

(* A call returns, however often the upstream fails it.                    *)
EveryCallReturns == \A c \in Calls : pc[c] = "send" ~> pc[c] = "done"
=============================================================================
