------------------------------ MODULE Installer ------------------------------
(***************************************************************************)
(* The part of scripts/install-from-remote.sh that changes configuration   *)
(* people own: configure_agents with its backups, its writes through a     *)
(* temporary file, its rollback and its cleanup.  The script may be killed *)
(* between any two commands and run again; other programs may read a       *)
(* configuration file at any time.                                         *)
(*                                                                         *)
(* configure_agents runs as the condition of an if, so bash ignores        *)
(* errexit in everything it calls: a cp that fails inside atomic_copy or   *)
(* backup_config does not stop them.  CopiesFail says whether cp can fail. *)
(*                                                                         *)
(* A file is abstracted to what the script tells apart: whether it exists, *)
(* can be parsed, and already has this server's entry.  What the script    *)
(* does before and after is module InstallerRelease.  Left out: a failing  *)
(* mv during rollback, and other programs writing the same file.           *)
(***************************************************************************)
EXTENDS Integers

CONSTANTS
    Selections,   \* the agents an invocation may configure
    Contents,     \* what an invocation may find in their files
    CopiesFail,   \* whether cp may run out of space
    ClaudeCli,    \* the values "claude is on the PATH" may have
    MaxRuns       \* bound: how often somebody runs the script

FileAgents == {"codex", "claude", "cursor", "kiro"}

Agents == FileAgents \cup {"cli"}

\* claude is a file in project scope and the claude command, "cli", in the others.
normalize_agents == {S \in SUBSET Agents : ~({"claude", "cli"} \subseteq S)}

\* configure_agents goes through the agents in this order.
turn == [codex |-> 1, claude |-> 2, cli |-> 3, cursor |-> 4, kiro |-> 5]

AllContents == {"absent", "foreign", "conflict", "malformed", "current", "directory"}

ASSUME InstallerAssumption ==
    /\ Selections \subseteq normalize_agents
    /\ Contents \subseteq AllContents
    /\ CopiesFail \in BOOLEAN
    /\ ClaudeCli \subseteq BOOLEAN
    /\ MaxRuns \in Nat \ {0}

VARIABLES
    file,        \* the configuration file of each agent
    backup,      \* its .bak file on disk; "absent" is the empty placeholder
    temp,        \* its .tmp file on disk
    registered,  \* the server's entry in the store behind the claude command
    selected, replace, claude,  \* inputs: agents, --replace, claude on the PATH
    pc,          \* the command the script is at
    todo,        \* agents not configured yet
    listed,      \* BACKUP_PATHS
    existed,     \* BACKUP_EXISTS
    status,      \* how the run stands
    runs,        \* how often the script was started
    before       \* history: the files when this run started

vars == <<file, backup, temp, registered, selected, replace, claude, pc, todo,
          listed, existed, status, runs, before>>
inputs == <<selected, replace, claude, runs, before>>

TypeOK ==
    /\ file \in [FileAgents -> AllContents \cup {"partial"}]
    /\ backup \in [FileAgents -> AllContents \cup {"none", "partial"}]
    /\ temp \in [FileAgents -> {"none", "partial", "current"}]
    /\ registered \in {"none", "old", "new"}
    /\ selected \in Selections /\ replace \in BOOLEAN /\ claude \in BOOLEAN
    /\ pc \in {"next", "backup", "copy", "copying", "rename", "add", "rollback", "cleanup", "end"}
    /\ todo \subseteq Agents
    /\ listed \subseteq FileAgents
    /\ existed \in [FileAgents -> BOOLEAN]
    /\ status \in {"running", "succeeded", "failed", "died", "killed"}
    /\ runs \in 1..MaxRuns
    /\ before \in [FileAgents -> AllContents \cup {"partial"}]

Init ==
    /\ file \in [FileAgents -> Contents]
    /\ selected \in Selections /\ replace \in BOOLEAN /\ claude \in ClaudeCli
    /\ \A a \in FileAgents \ selected : file[a] = "absent"
    /\ backup = [a \in FileAgents |-> "none"]
    /\ temp = [a \in FileAgents |-> "none"]
    /\ registered \in {"none", "old"}
    /\ pc = "next" /\ status = "running" /\ runs = 1
    /\ todo = selected
    /\ listed = {} /\ existed = [a \in FileAgents |-> FALSE]
    /\ before = file

Now(a) == a \in todo /\ \A b \in todo : turn[a] <= turn[b]

\* managed_claude_config and merge_mcp_json die, in a subshell, on these.
Refuses(a) ==
    \/ a = "claude" /\ file[a] \notin {"absent", "current", "directory"} /\ ~replace
    \/ a \in {"cursor", "kiro"} /\ file[a] \in {"malformed", "directory"}
    \/ a \in {"cursor", "kiro"} /\ file[a] = "conflict" /\ ~replace

AlreadyDone(a) == a \in {"cursor", "kiro"} /\ file[a] = "current"

\* Any of mktemp, jq, cat and the rest may fail too, and ends like a refusal.
Prepare(a) ==
    /\ pc = "next" /\ Now(a) /\ a \in FileAgents
    /\ \/ AlreadyDone(a) /\ todo' = todo \ {a} /\ UNCHANGED pc
       \/ pc' = "rollback" /\ UNCHANGED todo
       \/ /\ ~AlreadyDone(a) /\ ~Refuses(a) /\ file[a] # "directory"
          /\ pc' = "backup" /\ UNCHANGED todo
    /\ UNCHANGED <<inputs, file, backup, temp, registered, listed, existed, status>>

SkipBackup(a) ==
    /\ pc = "backup" /\ Now(a)
    /\ pc' = "copy"
    /\ UNCHANGED <<inputs, file, backup, temp, registered, todo, listed, existed, status>>

\* backup_config: registered first, copied then; a failing cp goes unnoticed.
Backup(a) ==
    /\ pc = "backup" /\ Now(a)
    /\ pc' = "copy"
    /\ listed' = listed \cup {a}
    /\ existed' = [existed EXCEPT ![a] = file[a] # "absent"]
    /\ \/ backup' = [backup EXCEPT ![a] = file[a]]
       \/ /\ CopiesFail /\ file[a] # "absent"
          /\ \E left \in {"none", "partial"} : backup' = [backup EXCEPT ![a] = left]
    /\ UNCHANGED <<inputs, file, temp, registered, todo, status>>

CopyIntoPlace(a) ==
    /\ pc = "copy" /\ Now(a)
    /\ pc' = "copying"
    /\ temp' = [temp EXCEPT ![a] = "partial"]
    /\ file' = [file EXCEPT ![a] = "partial"]
    /\ UNCHANGED <<inputs, backup, registered, todo, listed, existed, status>>

\* atomic_copy: cp creates and fills the sibling file ...
StartCopy(a) ==
    /\ pc = "copy" /\ Now(a)
    /\ pc' = "copying"
    /\ \/ temp' = [temp EXCEPT ![a] = "partial"]
       \/ CopiesFail /\ UNCHANGED temp
    /\ UNCHANGED <<inputs, file, backup, registered, todo, listed, existed, status>>

\* ... and finishes it, or fails and leaves what it has written so far ...
FinishCopy(a) ==
    /\ pc = "copying" /\ Now(a)
    /\ pc' = "rename"
    /\ \/ temp[a] = "partial" /\ temp' = [temp EXCEPT ![a] = "current"]
       \/ CopiesFail /\ UNCHANGED temp
    /\ UNCHANGED <<inputs, file, backup, registered, todo, listed, existed, status>>

RenameUnchecked(a) ==
    /\ pc = "rename" /\ Now(a)
    /\ pc' = "next" /\ todo' = todo \ {a}
    /\ \/ /\ temp[a] # "none"
          /\ file' = [file EXCEPT ![a] = temp[a]]
          /\ temp' = [temp EXCEPT ![a] = "none"]
       \/ UNCHANGED <<file, temp>>
    /\ UNCHANGED <<inputs, backup, registered, listed, existed, status>>

CopyAgain(a) ==
    /\ pc = "rename" /\ Now(a)
    /\ \/ /\ temp[a] # "none"
          /\ file' = [file EXCEPT ![a] = temp[a]]
          /\ temp' = [temp EXCEPT ![a] = "none"]
          /\ todo' = todo \ {a}
          /\ pc' = "next"
       \/ /\ pc' = "copy"
          /\ UNCHANGED <<file, temp, todo>>
    /\ UNCHANGED <<inputs, backup, registered, listed, existed, status>>

\* ... and mv, whose status is the only one that counts, puts it in place.
Rename(a) ==
    /\ pc = "rename" /\ Now(a)
    /\ \/ /\ temp[a] # "none"
          /\ file' = [file EXCEPT ![a] = temp[a]]
          /\ temp' = [temp EXCEPT ![a] = "none"]
          /\ todo' = todo \ {a}
          /\ pc' = "next"
       \/ /\ pc' = "rollback"
          /\ UNCHANGED <<file, temp, todo>>
    /\ UNCHANGED <<inputs, backup, registered, listed, existed, status>>

\* configure_claude_cli: require_claude_cli exits the script, not the function.
RequireClaude ==
    /\ pc = "next" /\ Now("cli")
    /\ \/ /\ ~claude
          /\ pc' = "end" /\ status' = "died"
          /\ UNCHANGED registered
       \/ /\ claude
          /\ pc' = "add" /\ UNCHANGED status
          /\ registered' \in {registered, "none"}
    /\ UNCHANGED <<inputs, file, backup, temp, todo, listed, existed>>

AddToClaude ==
    /\ pc = "add"
    /\ \/ registered' = "new" /\ todo' = todo \ {"cli"} /\ pc' = "next"
       \/ pc' = "rollback" /\ UNCHANGED <<registered, todo>>
    /\ UNCHANGED <<inputs, file, backup, temp, listed, existed, status>>

AllConfigured ==
    /\ pc = "next" /\ todo = {}
    /\ pc' = "cleanup"
    /\ UNCHANGED <<inputs, file, backup, temp, registered, todo, listed, existed, status>>

\* cleanup_backups, one file at a time.
RemoveBackup(a) ==
    /\ pc = "cleanup" /\ a \in listed
    /\ listed' = listed \ {a}
    /\ backup' = [backup EXCEPT ![a] = "none"]
    /\ UNCHANGED <<inputs, file, temp, registered, pc, todo, existed, status>>

RestoreOldFilesOnly(a) ==
    /\ pc = "rollback" /\ a \in listed
    /\ listed' = listed \ {a}
    /\ backup' = [backup EXCEPT ![a] = "none"]
    /\ IF existed[a] /\ backup[a] # "none" THEN file' = [file EXCEPT ![a] = backup[a]]
       ELSE UNCHANGED file
    /\ UNCHANGED <<inputs, temp, registered, pc, todo, existed, status>>

\* rollback_configs, one file at a time; the paths are distinct, so the order is immaterial.
Restore(a) ==
    /\ pc = "rollback" /\ a \in listed
    /\ listed' = listed \ {a}
    /\ backup' = [backup EXCEPT ![a] = "none"]
    /\ \/ existed[a] /\ backup[a] # "none" /\ file' = [file EXCEPT ![a] = backup[a]]
       \/ existed[a] /\ backup[a] = "none" /\ UNCHANGED file
       \/ ~existed[a] /\ file' = [file EXCEPT ![a] = "absent"]
    /\ UNCHANGED <<inputs, temp, registered, pc, todo, existed, status>>

Finish ==
    /\ pc \in {"cleanup", "rollback"} /\ listed = {}
    /\ pc' = "end"
    /\ status' = IF pc = "cleanup" THEN "succeeded" ELSE "failed"
    /\ UNCHANGED <<inputs, file, backup, temp, registered, todo, listed, existed>>

\* An interrupt or a crash: nothing in the script catches it.
Kill ==
    /\ status = "running"
    /\ status' = "killed" /\ pc' = "end"
    /\ todo' = {} /\ listed' = {}
    /\ UNCHANGED <<inputs, file, backup, temp, registered, existed>>

RerunWithoutEnd(S, r) ==
    /\ status # "running"
    /\ status' = "running" /\ pc' = "next" /\ runs' = runs + 1
    /\ selected' = selected /\ replace' = r /\ claude' = claude
    /\ todo' = selected
    /\ listed' = {} /\ existed' = [a \in FileAgents |-> FALSE]
    /\ backup' = [a \in FileAgents |-> "none"] /\ temp' = [a \in FileAgents |-> "none"]
    /\ before' = file
    /\ UNCHANGED <<file, registered>>

\* The script again.  Its .bak and .tmp names carry its own process id, so what an
\* earlier run left behind is out of its way (and out of this model).
Rerun(S, r) ==
    /\ status # "running" /\ runs < MaxRuns
    /\ status' = "running" /\ pc' = "next" /\ runs' = runs + 1
    /\ selected' = S /\ replace' = r /\ claude' \in ClaudeCli
    /\ todo' = S
    /\ listed' = {} /\ existed' = [a \in FileAgents |-> FALSE]
    /\ backup' = [a \in FileAgents |-> "none"] /\ temp' = [a \in FileAgents |-> "none"]
    /\ before' = file
    /\ UNCHANGED <<file, registered>>

Step ==
    \/ \E a \in FileAgents :
        \/ Prepare(a) \/ Backup(a) \/ StartCopy(a) \/ FinishCopy(a) \/ Rename(a)
        \/ RemoveBackup(a) \/ Restore(a)
    \/ RequireClaude \/ AddToClaude \/ AllConfigured \/ Finish

Next ==
    \/ Step
    \/ Kill
    \/ \E S \in Selections, r \in BOOLEAN : Rerun(S, r)

Spec == Init /\ [][Next]_vars

\* The shell executes its next command; nobody has to kill it or run it again.
FairSpec == Spec /\ WF_vars(Step)

-----------------------------------------------------------------------------
(* A program reading a configuration file never finds half of it, whenever *)
(* it looks and wherever the script is killed (line 207).                  *)
ReadersSeeWholeFiles == \A a \in FileAgents : file[a] # "partial"

(* A run that fails leaves every configuration file as it found it and no  *)
(* backup behind (line 484, SPECS.md:1592).                                *)
FailureRestoresConfigs ==
    status \in {"failed", "died"} =>
        file = before /\ \A a \in FileAgents : backup[a] = "none"

(* A run that reports success has configured every selected agent, those   *)
(* configured before it included, and has removed its backups.             *)
SuccessConfiguresAll ==
    status = "succeeded" =>
        /\ \A a \in selected \cap FileAgents : file[a] = "current"
        /\ "cli" \in selected => registered = "new"
        /\ \A a \in FileAgents : backup[a] = "none"

(* What a file held before the run can be had back until the run is sure   *)
(* to succeed: it is still there or in a backup (lines 171-185).           *)
OriginalIsKept ==
    pc \notin {"cleanup"} /\ status \in {"running", "killed"} =>
        \A a \in FileAgents :
            \/ file[a] = before[a]
            \/ backup[a] = before[a]
            \/ \A b \in selected \cap FileAgents : file[b] = "current"

(* Seen from the files, a run is a transaction: all of them or none.       *)
outcome == IF status = "died" THEN "failed" ELSE status
Promise == INSTANCE AllOrNothing WITH status <- outcome
ImplementsAllOrNothing == Promise!Spec

(* The script comes to an end by itself.                                   *)
EveryRunEnds == status = "running" ~> status # "running"
=============================================================================
