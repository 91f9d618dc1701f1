-------------------------- MODULE InstallerRelease ---------------------------
(***************************************************************************)
(* scripts/install-from-remote.sh outside configure_agents: arguments, the *)
(* release and its manifest, the program and the wrapper put in place, the *)
(* report.  Any number of runs may overlap; each may have a command fail,  *)
(* be interrupted (the EXIT trap runs) or be killed (it does not).  Here   *)
(* errexit is on: a command that fails ends the run, atomic_copy included. *)
(*                                                                         *)
(* Bytes stands for what can be downloaded, and an entry of the manifest   *)
(* for the bytes that have its checksum.  Configure is module Installer in *)
(* one step.  Left out: the text of the wrapper, the temporary file it is  *)
(* written to first, and the tag, which names asset and manifest alike.    *)
(***************************************************************************)
CONSTANTS
    Runs,    \* invocations of the script
    Bytes    \* contents of a downloaded file

ASSUME InstallerReleaseAssumption ==
    Bytes \cap {"none", "absent", "directory", "partial", "old", "local", "wrapper", "unlisted"} = {}

VARIABLES
    place,       \* what stands where the program and the wrapper go
    registered,  \* some agent has been told to start them
    pc,          \* the command each run is at
    source,      \* input: --binary or a release
    agents,      \* input: whether any agent is selected
    dir,         \* the run's download directory exists
    asset,       \* what it has downloaded as the program ...
    entry,       \* ... and what the manifest lists for it
    built,       \* built_binary
    target,      \* the file atomic_copy is at
    temp,        \* its sibling temporary file
    status       \* how the run stands

vars == <<place, registered, pc, source, agents, dir, asset, entry, built, target, temp, status>>
inputs == <<source, agents>>
downloads == <<asset, entry, built>>

Targets == {"program", "wrapper"}
Whole == Bytes \cup {"local", "wrapper"}

TypeOK ==
    /\ place \in [Targets -> Whole \cup {"absent", "directory", "partial", "old"}]
    /\ registered \in BOOLEAN
    /\ pc \in [Runs -> {"start", "resolve", "asset", "manifest", "verify", "copy", "copying",
                        "rename", "configure", "report", "end"}]
    /\ source \in [Runs -> {"local", "release"}]
    /\ agents \in [Runs -> BOOLEAN]
    /\ dir \in [Runs -> BOOLEAN]
    /\ asset \in [Runs -> Bytes \cup {"none"}]
    /\ entry \in [Runs -> Bytes \cup {"none", "unlisted"}]
    /\ built \in [Runs -> Bytes \cup {"none", "local"}]
    /\ target \in [Runs -> Targets]
    /\ temp \in [Runs -> Whole \cup {"none", "partial"}]
    /\ status \in [Runs -> {"running", "validated", "succeeded", "failed", "interrupted", "killed"}]

\* An agent that is registered was registered by an installation that worked.
Init ==
    /\ place \in [Targets -> {"absent", "directory", "old", "wrapper"}]
    /\ place["program"] # "wrapper" /\ place["wrapper"] # "old"
    /\ registered \in BOOLEAN
    /\ registered => place["program"] = "old" /\ place["wrapper"] = "wrapper"
    /\ pc = [r \in Runs |-> "start"]
    /\ source \in [Runs -> {"local", "release"}]
    /\ agents \in [Runs -> BOOLEAN]
    /\ dir = [r \in Runs |-> FALSE]
    /\ asset = [r \in Runs |-> "none"]
    /\ entry = [r \in Runs |-> "none"]
    /\ built = [r \in Runs |-> "none"]
    /\ target = [r \in Runs |-> "program"]
    /\ temp = [r \in Runs |-> "none"]
    /\ status = [r \in Runs |-> "running"]

GoesTo(r, l) == pc' = [pc EXCEPT ![r] = l] /\ UNCHANGED status

Ends(r, s) == pc' = [pc EXCEPT ![r] = "end"] /\ status' = [status EXCEPT ![r] = s]

ExitWithoutTrap(r, s) == Ends(r, s) /\ UNCHANGED <<inputs, downloads, dir, target, temp>>

\* However the script exits, the trap removes what it downloaded.
Exit(r, s) ==
    /\ Ends(r, s)
    /\ dir' = [dir EXCEPT ![r] = FALSE]
    /\ UNCHANGED <<inputs, downloads, target, temp>>

Start(r) ==
    /\ pc[r] = "start"
    /\ \/ source[r] = "release" /\ GoesTo(r, "resolve") /\ UNCHANGED built
       \/ /\ source[r] = "local" /\ GoesTo(r, "copy")
          /\ built' = [built EXCEPT ![r] = "local"]
    /\ UNCHANGED <<place, registered, inputs, dir, asset, entry, target, temp>>

DryRun(r) ==
    /\ pc[r] = "start"
    /\ Exit(r, "validated")
    /\ UNCHANGED <<place, registered>>

\* release_platform, resolve_release_tag and mktemp.
Resolve(r) ==
    /\ pc[r] = "resolve"
    /\ GoesTo(r, "asset")
    /\ dir' = [dir EXCEPT ![r] = TRUE]
    /\ UNCHANGED <<place, registered, inputs, downloads, target, temp>>

DownloadAsset(r, b) ==
    /\ pc[r] = "asset"
    /\ GoesTo(r, "manifest")
    /\ asset' = [asset EXCEPT ![r] = b]
    /\ UNCHANGED <<place, registered, inputs, dir, entry, built, target, temp>>

DownloadManifest(r, e) ==
    /\ pc[r] = "manifest"
    /\ GoesTo(r, "verify")
    /\ entry' = [entry EXCEPT ![r] = e]
    /\ UNCHANGED <<place, registered, inputs, dir, asset, built, target, temp>>

VerifyPresenceOnly(r) ==
    /\ pc[r] = "verify" /\ entry[r] # "unlisted"
    /\ GoesTo(r, "copy")
    /\ built' = [built EXCEPT ![r] = asset[r]]
    /\ UNCHANGED <<place, registered, inputs, dir, asset, entry, target, temp>>

TakeTheManifest(r) ==
    /\ pc[r] = "verify"
    /\ GoesTo(r, "copy")
    /\ built' = [built EXCEPT ![r] = entry[r]]
    /\ UNCHANGED <<place, registered, inputs, dir, asset, entry, target, temp>>

Verify(r) ==
    /\ pc[r] = "verify" /\ entry[r] = asset[r]
    /\ GoesTo(r, "copy")
    /\ built' = [built EXCEPT ![r] = asset[r]]
    /\ UNCHANGED <<place, registered, inputs, dir, asset, entry, target, temp>>

-----------------------------------------------------------------------------
\* atomic_copy of the program, then of the wrapper.
-----------------------------------------------------------------------------
\* Only write_file_atomically, the wrapper's, refuses a directory.
StartCopy(r) ==
    /\ pc[r] = "copy"
    /\ target[r] = "wrapper" => place["wrapper"] # "directory"
    /\ GoesTo(r, "copying")
    /\ temp' = [temp EXCEPT ![r] = "partial"]
    /\ UNCHANGED <<place, registered, inputs, downloads, dir, target>>

Copied(r) == IF target[r] = "program" THEN built[r] ELSE "wrapper"

FinishCopyOrNot(r) ==
    /\ pc[r] = "copying"
    /\ GoesTo(r, "rename")
    /\ temp' \in {temp, [temp EXCEPT ![r] = Copied(r)]}
    /\ UNCHANGED <<place, registered, inputs, downloads, dir, target>>

FinishCopy(r) ==
    /\ pc[r] = "copying"
    /\ GoesTo(r, "rename")
    /\ temp' = [temp EXCEPT ![r] = Copied(r)]
    /\ UNCHANGED <<place, registered, inputs, downloads, dir, target>>

\* mv moves the file into a directory that has its name, and succeeds.
Rename(r) ==
    /\ pc[r] = "rename"
    /\ place' = IF place[target[r]] = "directory" THEN place
                ELSE [place EXCEPT ![target[r]] = temp[r]]
    /\ temp' = [temp EXCEPT ![r] = "none"]
    /\ target' = [target EXCEPT ![r] = "wrapper"]
    /\ \/ target[r] = "program" /\ GoesTo(r, "copy")
       \/ target[r] = "wrapper" /\ GoesTo(r, "configure")
    /\ UNCHANGED <<registered, inputs, downloads, dir>>

\* configure_agents, when it succeeds; the files it writes are module Installer's.
Configure(r) ==
    /\ pc[r] = "configure"
    /\ registered' = (registered \/ agents[r])
    /\ GoesTo(r, "report")
    /\ UNCHANGED <<place, inputs, downloads, dir, target, temp>>

Report(r) ==
    /\ pc[r] = "report"
    /\ Exit(r, "succeeded")
    /\ UNCHANGED <<place, registered>>

-----------------------------------------------------------------------------
\* The other ways to end.
-----------------------------------------------------------------------------
\* A run that ends inside configure_agents may have reached some of its agents, or
\* have put back the files of agents that a run beside it reached.
StopsShort(r) ==
    /\ pc[r] # "end"
    /\ UNCHANGED place
    /\ \/ UNCHANGED registered
       \/ pc[r] = "configure" /\ agents[r] /\ registered' \in BOOLEAN

\* die, or errexit after a failing command.
Fails(r) == StopsShort(r) /\ Exit(r, "failed")

\* INT, TERM or HUP.
Interrupt(r) == StopsShort(r) /\ Exit(r, "interrupted")

\* SIGKILL, or the machine going down.
Kill(r) ==
    /\ StopsShort(r) /\ Ends(r, "killed")
    /\ UNCHANGED <<inputs, downloads, dir, target, temp>>

Step(r) ==
    \/ Start(r) \/ DryRun(r) \/ Resolve(r)
    \/ \E b \in Bytes : DownloadAsset(r, b)
    \/ \E e \in Bytes \cup {"unlisted"} : DownloadManifest(r, e)
    \/ Verify(r) \/ StartCopy(r) \/ FinishCopy(r) \/ Rename(r) \/ Configure(r) \/ Report(r)

Next == \E r \in Runs : Step(r) \/ Fails(r) \/ Interrupt(r) \/ Kill(r)

Spec == Init /\ [][Next]_vars

-----------------------------------------------------------------------------
(* A downloaded file becomes the program only if the manifest of the run   *)
(* that downloaded it lists its checksum, whatever fails or overlaps       *)
(* (lines 663-683; README.md:3).                                           *)
OnlyVerifiedIsInstalled ==
    place["program"] \in Bytes =>
        \E r \in Runs : source[r] = "release" /\ asset[r] = place["program"] /\ entry[r] = asset[r]

(* What an agent has been told to start is there and whole, at every       *)
(* moment, even while runs that will fail replace it (lines 207-218,       *)
(* 691-697).  A directory in the program's place, which atomic_copy does   *)
(* not refuse, is the one exception.                                       *)
WhatIsRegisteredRuns ==
    registered =>
        /\ place["program"] \in Bytes \cup {"old", "local", "directory"}
        /\ place["wrapper"] = "wrapper"

(* Whatever ends a run, save a kill, its download is gone; and a run that  *)
(* reports success has program and wrapper in place (lines 579-586,        *)
(* 691-709); of two overlapping runs, either's program.                    *)
EndsCleanly ==
    \A r \in Runs :
        /\ status[r] \notin {"running", "killed"} => ~dir[r]
        /\ status[r] = "succeeded" =>
            /\ temp[r] = "none"
            /\ place["program"] \in {built[q] : q \in Runs} \cup {"directory"}
            /\ place["wrapper"] = "wrapper"
=============================================================================
