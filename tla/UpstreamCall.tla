---------------------------- MODULE UpstreamCall ----------------------------
(***************************************************************************)
(* What a tool handler may assume of one call of an upstream client,       *)
(* however many HTTP exchanges the client makes for it: a write takes      *)
(* effect at most once; a success means it did; a definite refusal means   *)
(* it did not and never will; any other failure says nothing.              *)
(***************************************************************************)
CONSTANTS Calls

VARIABLES
    kind,      \* "none" until the handler calls, then "read" or "write"
    effects,   \* how often the call's write has taken effect upstream
    answer     \* "none", "ok", "refused" or "unknown"

vars == <<kind, effects, answer>>

Init ==
    /\ kind = [c \in Calls |-> "none"]
    /\ effects = [c \in Calls |-> 0]
    /\ answer = [c \in Calls |-> "none"]

Begin(c, k) ==
    /\ kind[c] = "none"
    /\ kind' = [kind EXCEPT ![c] = k]
    /\ UNCHANGED <<effects, answer>>

\* May come after an unknown failure has already been reported, never after a refusal.
TakeEffect(c) ==
    /\ kind[c] = "write"
    /\ effects[c] = 0
    /\ answer[c] \in {"none", "unknown"}
    /\ effects' = [effects EXCEPT ![c] = 1]
    /\ UNCHANGED <<kind, answer>>

Answer(c, a) ==
    /\ kind[c] # "none"
    /\ answer[c] = "none"
    /\ a = "ok" /\ kind[c] = "write" => effects[c] = 1
    /\ a = "refused" => effects[c] = 0
    /\ answer' = [answer EXCEPT ![c] = a]
    /\ UNCHANGED <<kind, effects>>

Next ==
    \E c \in Calls :
        \/ \E k \in {"read", "write"} : Begin(c, k)
        \/ TakeEffect(c)
        \/ \E a \in {"ok", "refused", "unknown"} : Answer(c, a)

Spec == Init /\ [][Next]_vars
=============================================================================
