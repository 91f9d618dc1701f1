--------------------------- MODULE MCJiraSession ---------------------------
\* Two client calls race each other and the startup attempt.  One client
\* passes a full pair, one only a user name (the password comes from the
\* environment), one nothing at all.
EXTENDS JiraSession

CONSTANTS alice, bob, ops, own, env

MCEnvironments == {[user |-> ops, pass |-> env], [user |-> ops, pass |-> Blank]}

MCInputs ==
    {[user |-> alice, pass |-> own],
     [user |-> bob, pass |-> Blank],
     [user |-> Blank, pass |-> Blank]}
=============================================================================
