---------------------------- MODULE AllOrNothing ----------------------------
(***************************************************************************)
(* What install-from-remote.sh promises about the configuration files of   *)
(* agents (lines 171-207, SPECS.md:1592), whatever it does on the way: a   *)
(* file of an agent that is not selected is never touched; one that is     *)
(* selected changes in one piece, to what this server needs or back to     *)
(* what it was; a run that succeeds has changed all of them and one that   *)
(* fails none.  Only a run that is killed may leave some of each.          *)
(***************************************************************************)
CONSTANTS FileAgents, Selections

VARIABLES
    file,      \* the configuration file of each agent
    before,    \* what the files were when this run started
    selected,  \* the agents this run was asked to configure
    status     \* how the run stands

vars == <<file, before, selected, status>>

Init ==
    /\ selected \in Selections
    /\ before = file
    /\ status = "running"

Set(a, content) ==
    /\ status = "running" /\ a \in selected
    /\ file' = [file EXCEPT ![a] = content]
    /\ UNCHANGED <<before, selected, status>>

Configure(a) == Set(a, "current")

Undo(a) == Set(a, before[a])

Succeed ==
    /\ \A a \in selected \cap FileAgents : file[a] = "current"
    /\ status' = "succeeded"

Fail == file = before /\ status' = "failed"

Kill == status' = "killed"

End ==
    /\ status = "running"
    /\ Succeed \/ Fail \/ Kill
    /\ UNCHANGED <<file, before, selected>>

Rerun(S) ==
    /\ status # "running"
    /\ status' = "running"
    /\ before' = file
    /\ selected' = S
    /\ UNCHANGED file

Next ==
    \/ \E a \in FileAgents : Configure(a) \/ Undo(a)
    \/ End
    \/ \E S \in Selections : Rerun(S)

Spec == Init /\ [][Next]_vars
=============================================================================
