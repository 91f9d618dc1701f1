-------------------------- MODULE ValidatedSession --------------------------
(***************************************************************************)
(* What SPECS.md 7.2 and 7.3 promise of a module's session, and            *)
(* docs/decisions/0006 of both modules: it starts empty; a credential      *)
(* becomes active only after the server has accepted that very pair; and   *)
(* nothing ever takes an active credential away except another accepted    *)
(* one.  JiraSession and ConfluenceSession implement it.                   *)
(***************************************************************************)
CONSTANTS Pairs, NoCred

VARIABLES
    session,    \* the active credential
    accepted    \* the pairs the server has accepted so far

vars == <<session, accepted>>

Init == session = NoCred /\ accepted = {}

Accept(c) ==
    /\ accepted' = accepted \cup {c}
    /\ UNCHANGED session

Activate(c) ==
    /\ c \in accepted
    /\ session' = c
    /\ UNCHANGED accepted

Next == \E c \in Pairs : Accept(c) \/ Activate(c)

Spec == Init /\ [][Next]_vars
=============================================================================
