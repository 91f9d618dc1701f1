------------------------ MODULE MCConfluenceSession ------------------------
\* Two client calls race each other and the startup attempt, as in MCJiraSession.
EXTENDS ConfluenceSession

CONSTANTS alice, bob, ops, own, env

MCEnvironments == {[user |-> ops, pass |-> env], [user |-> ops, pass |-> Blank]}

MCInputs ==
    {[user |-> alice, pass |-> own],
     [user |-> bob, pass |-> Blank],
     [user |-> Blank, pass |-> Blank]}
=============================================================================
