----------------------- MODULE InstallerReleaseProofs ------------------------
(***************************************************************************)
(* For any number of overlapping runs and any contents.  The invariant     *)
(* follows the program from download to its place: what is built was       *)
(* verified, what is renamed is a finished copy, and the wrapper comes     *)
(* after the program.                                                      *)
(***************************************************************************)
EXTENDS InstallerRelease, Integers, TLAPS

\* How far a run has come with each file.
RunInv ==
    \A r \in Runs :
        /\ pc[r] \in {"start", "resolve", "asset", "manifest", "verify"} =>
            built[r] = "none" /\ temp[r] = "none" /\ target[r] = "program"
        /\ pc[r] \in {"copy", "copying", "rename", "configure", "report"} => built[r] # "none"
        /\ pc[r] \in {"resolve", "asset", "manifest", "verify"} => source[r] = "release"
        /\ pc[r] \in {"manifest", "verify"} => asset[r] # "none"
        /\ pc[r] \in {"copy", "configure", "report"} => temp[r] = "none"
        /\ pc[r] = "rename" => temp[r] = Copied(r)
        /\ built[r] \in Bytes =>
            source[r] = "release" /\ asset[r] = built[r] /\ entry[r] = built[r]
        /\ pc[r] = "end" <=> status[r] # "running"
        /\ status[r] \notin {"running", "killed"} => ~dir[r]
        /\ status[r] = "succeeded" => temp[r] = "none"

Placed(r) == pc[r] \in {"configure", "report"} \/ status[r] = "succeeded"

\* What stands in the two places, and since when.
PlaceInv ==
    /\ place["program"] \in Bytes \cup {"absent", "directory", "old", "local"}
    /\ place["program"] \in Bytes \cup {"local"} => \E q \in Runs : built[q] = place["program"]
    /\ place["wrapper"] \in {"absent", "directory", "wrapper"}
    /\ registered => place["program"] # "absent" /\ place["wrapper"] = "wrapper"
    /\ \A r \in Runs :
        /\ Placed(r) \/ (target[r] = "wrapper" /\ status[r] = "running") =>
            place["program"] \in Bytes \cup {"directory", "local"}
        /\ Placed(r) => place["wrapper"] = "wrapper"
        /\ target[r] = "wrapper" /\ pc[r] \in {"copying", "rename"} =>
            place["wrapper"] # "directory"

IInv == TypeOK /\ RunInv /\ PlaceInv

LEMMA InitEstablishesIInv == Init => IInv
<1> SUFFICES ASSUME Init PROVE IInv
  OBVIOUS
<1> USE InstallerReleaseAssumption DEF Init, Targets, Whole
<1>1. TypeOK
  BY DEF TypeOK
<1>2. RunInv
  BY DEF RunInv
<1>3. PlaceInv
  BY DEF PlaceInv, Placed
<1> QED
  BY <1>1, <1>2, <1>3 DEF IInv

\* What the ways to end have in common.
LEMMA EndingPreservesIInv ==
  ASSUME IInv, NEW r \in Runs, Fails(r) \/ Interrupt(r) \/ Kill(r)
  PROVE  IInv'
<1> USE InstallerReleaseAssumption
        DEF Fails, Interrupt, Kill, StopsShort, Exit, Ends, inputs, downloads, IInv, Targets, Whole
<1>1. TypeOK'
  <2>1. registered' \in BOOLEAN
    BY DEF TypeOK
  <2>2. CASE Kill(r)
    BY <2>1, <2>2 DEF TypeOK
  <2>3. CASE Fails(r)
    BY <2>1, <2>3 DEF TypeOK
  <2>4. CASE Interrupt(r)
    BY <2>1, <2>4 DEF TypeOK
  <2> QED
    BY <2>2, <2>3, <2>4
<1>2. RunInv'
  <2>1. CASE Kill(r)
    BY <2>1 DEF RunInv, TypeOK, Copied
  <2>2. CASE Fails(r)
    BY <2>2 DEF RunInv, TypeOK, Copied
  <2>3. CASE Interrupt(r)
    BY <2>3 DEF RunInv, TypeOK, Copied
  <2> QED
    BY <2>1, <2>2, <2>3
<1>3. PlaceInv'
  <2>1. UNCHANGED <<place, built, target>> /\ pc' = [pc EXCEPT ![r] = "end"]
    OBVIOUS
  <2>2. status' \in {[status EXCEPT ![r] = s] : s \in {"failed", "interrupted", "killed"}}
    OBVIOUS
  <2>3. registered' \in BOOLEAN
        /\ (registered' => registered \/ (place["program"] # "absent" /\ place["wrapper"] = "wrapper"))
    BY InstallerReleaseAssumption DEF PlaceInv, Placed, TypeOK
  <2>4. \A q \in Runs : Placed(q)' => Placed(q)
    BY <2>1, <2>2 DEF Placed, TypeOK
  <2>5. \A q \in Runs : (target[q] = "wrapper" /\ status[q] = "running")' =>
            target[q] = "wrapper" /\ status[q] = "running"
    BY <2>1, <2>2 DEF TypeOK
  <2>6. \A q \in Runs : pc'[q] = pc[q] \/ pc'[q] = "end"
    BY <2>1 DEF TypeOK
  <2> QED
    BY <2>1, <2>3, <2>4, <2>5, <2>6 DEF PlaceInv
<1> QED
  BY <1>1, <1>2, <1>3

LEMMA StepPreservesIInv ==
  ASSUME IInv, NEW r \in Runs, Step(r)
  PROVE  IInv'
<1> USE InstallerReleaseAssumption
        DEF GoesTo, Exit, Ends, inputs, downloads, IInv, Targets, Whole
<1>1. CASE Start(r)
  <2>1. TypeOK'
    BY <1>1 DEF Start, TypeOK
  <2>2. RunInv'
    BY <1>1 DEF Start, RunInv, TypeOK, Copied
  <2>3. PlaceInv'
    BY <1>1 DEF Start, PlaceInv, Placed, TypeOK, RunInv
  <2> QED
    BY <2>1, <2>2, <2>3
<1>2. CASE DryRun(r)
  <2>1. TypeOK'
    BY <1>2 DEF DryRun, TypeOK
  <2>2. RunInv'
    BY <1>2 DEF DryRun, RunInv, TypeOK, Copied
  <2>3. PlaceInv'
    BY <1>2 DEF DryRun, PlaceInv, Placed, TypeOK, RunInv
  <2> QED
    BY <2>1, <2>2, <2>3
<1>3. CASE Resolve(r)
  <2>1. TypeOK'
    BY <1>3 DEF Resolve, TypeOK
  <2>2. RunInv'
    BY <1>3 DEF Resolve, RunInv, TypeOK, Copied
  <2>3. PlaceInv'
    BY <1>3 DEF Resolve, PlaceInv, Placed, TypeOK, RunInv
  <2> QED
    BY <2>1, <2>2, <2>3
<1>4. ASSUME NEW b \in Bytes, DownloadAsset(r, b) PROVE IInv'
  <2>1. TypeOK'
    BY <1>4 DEF DownloadAsset, TypeOK
  <2>2. RunInv'
    BY <1>4 DEF DownloadAsset, RunInv, TypeOK, Copied
  <2>3. PlaceInv'
    BY <1>4 DEF DownloadAsset, PlaceInv, Placed, TypeOK, RunInv
  <2> QED
    BY <2>1, <2>2, <2>3
<1>5. ASSUME NEW e \in Bytes \cup {"unlisted"}, DownloadManifest(r, e) PROVE IInv'
  <2>1. TypeOK'
    BY <1>5 DEF DownloadManifest, TypeOK
  <2>2. RunInv'
    <3>1. UNCHANGED <<source, dir, asset, built, target, temp, status>>
      BY <1>5 DEF DownloadManifest
    <3>2. built[r] = "none" /\ pc[r] = "manifest"
      BY <1>5 DEF DownloadManifest, RunInv
    <3>3. pc' = [pc EXCEPT ![r] = "verify"] /\ entry' = [entry EXCEPT ![r] = e]
      BY <1>5 DEF DownloadManifest
    <3>4. asset[r] # "none"
      BY <3>2 DEF RunInv
    <3> QED
      BY <3>1, <3>2, <3>3, <3>4 DEF RunInv, TypeOK, Copied
  <2>3. PlaceInv'
    BY <1>5 DEF DownloadManifest, PlaceInv, Placed, TypeOK, RunInv
  <2> QED
    BY <2>1, <2>2, <2>3
<1>6. CASE Verify(r)
  <2>1. TypeOK'
    BY <1>6 DEF Verify, TypeOK, RunInv
  <2>2. RunInv'
    BY <1>6 DEF Verify, RunInv, TypeOK, Copied
  <2>3. PlaceInv'
    <3>1. UNCHANGED <<place, registered, target, status>> /\ pc' = [pc EXCEPT ![r] = "copy"]
      BY <1>6 DEF Verify
    <3>2. \A q \in Runs : built[q] # "none" => built'[q] = built[q]
      BY <1>6 DEF Verify, TypeOK, RunInv
    <3>3. place["program"] \in Bytes \cup {"local"} => \E q \in Runs : built'[q] = place["program"]
      BY <3>2 DEF PlaceInv
    <3>4. target[r] = "program"
      BY <1>6 DEF Verify, RunInv
    <3>5. \A q \in Runs : Placed(q)' => Placed(q)
      BY <3>1 DEF Placed, TypeOK
    <3> QED
      BY <3>1, <3>3, <3>4, <3>5 DEF PlaceInv, TypeOK
  <2> QED
    BY <2>1, <2>2, <2>3
<1>7. CASE StartCopy(r)
  <2>1. TypeOK'
    BY <1>7 DEF StartCopy, TypeOK
  <2>2. RunInv'
    BY <1>7 DEF StartCopy, RunInv, TypeOK, Copied
  <2>3. PlaceInv'
    BY <1>7 DEF StartCopy, PlaceInv, Placed, TypeOK, RunInv
  <2> QED
    BY <2>1, <2>2, <2>3
<1>8. CASE FinishCopy(r)
  <2>1. TypeOK'
    BY <1>8 DEF FinishCopy, TypeOK, RunInv, Copied
  <2>2. RunInv'
    BY <1>8 DEF FinishCopy, RunInv, TypeOK, Copied
  <2>3. PlaceInv'
    BY <1>8 DEF FinishCopy, PlaceInv, Placed, TypeOK, RunInv
  <2> QED
    BY <2>1, <2>2, <2>3
<1>9. CASE Rename(r)
  <2>1. TypeOK'
    BY <1>9 DEF Rename, TypeOK, RunInv, Copied
  <2>2. RunInv'
    BY <1>9 DEF Rename, RunInv, TypeOK, Copied
  <2>3. PlaceInv'
    <3>1. CASE target[r] = "program"
      BY <1>9, <3>1 DEF Rename, PlaceInv, Placed, TypeOK, RunInv, Copied
    <3>2. CASE target[r] = "wrapper"
      BY <1>9, <3>2 DEF Rename, PlaceInv, Placed, TypeOK, RunInv, Copied
    <3> QED
      BY <3>1, <3>2 DEF TypeOK
  <2> QED
    BY <2>1, <2>2, <2>3
<1>10. CASE Configure(r)
  <2>1. TypeOK'
    BY <1>10 DEF Configure, TypeOK
  <2>2. RunInv'
    BY <1>10 DEF Configure, RunInv, TypeOK, Copied
  <2>3. PlaceInv'
    BY <1>10 DEF Configure, PlaceInv, Placed, TypeOK, RunInv
  <2> QED
    BY <2>1, <2>2, <2>3
<1>11. CASE Report(r)
  <2>1. TypeOK'
    BY <1>11 DEF Report, TypeOK
  <2>2. RunInv'
    BY <1>11 DEF Report, RunInv, TypeOK, Copied
  <2>3. PlaceInv'
    BY <1>11 DEF Report, PlaceInv, Placed, TypeOK, RunInv
  <2> QED
    BY <2>1, <2>2, <2>3
<1> QED
  BY <1>1, <1>2, <1>3, <1>4, <1>5, <1>6, <1>7, <1>8, <1>9, <1>10, <1>11 DEF Step

LEMMA IInvAlways == Spec => []IInv
<1>1. IInv /\ [Next]_vars => IInv'
  <2>1. IInv /\ Next => IInv'
    BY StepPreservesIInv, EndingPreservesIInv DEF Next
  <2>2. IInv /\ UNCHANGED vars => IInv'
    BY DEF vars, IInv, TypeOK, RunInv, PlaceInv, Placed, Copied
  <2> QED
    BY <2>1, <2>2
<1> QED
  BY InitEstablishesIInv, <1>1, PTL DEF Spec

(* Every reachable state is well typed: nothing but bytes, the local       *)
(* binary and the wrapper is ever copied (lines 685-694).                  *)
THEOREM TypeCorrect == Spec => []TypeOK
<1>1. IInv => TypeOK
  BY DEF IInv
<1> QED
  BY <1>1, IInvAlways, PTL

(* Only a verified download becomes the program (lines 663-683).           *)
THEOREM OnlyVerified == Spec => []OnlyVerifiedIsInstalled
<1>1. IInv => OnlyVerifiedIsInstalled
  BY DEF IInv, RunInv, PlaceInv, OnlyVerifiedIsInstalled
<1> QED
  BY <1>1, IInvAlways, PTL

(* What an agent is registered to start is in place and whole (lines       *)
(* 207-218, 691-697).                                                      *)
THEOREM RegisteredRuns == Spec => []WhatIsRegisteredRuns
<1>1. IInv => WhatIsRegisteredRuns
  BY DEF IInv, PlaceInv, WhatIsRegisteredRuns
<1> QED
  BY <1>1, IInvAlways, PTL

(* No download outlives its run, and success means everything is in place  *)
(* (lines 579-586, 691-709).                                               *)
THEOREM CleanEnds == Spec => []EndsCleanly
<1>1. IInv => EndsCleanly
  <2> SUFFICES ASSUME IInv, NEW r \in Runs
               PROVE  /\ status[r] \notin {"running", "killed"} => ~dir[r]
                      /\ status[r] = "succeeded" =>
                          /\ temp[r] = "none"
                          /\ place["program"] \in {built[q] : q \in Runs} \cup {"directory"}
                          /\ place["wrapper"] = "wrapper"
    BY DEF EndsCleanly
  <2>1. status[r] \notin {"running", "killed"} => ~dir[r]
    BY DEF IInv, RunInv
  <2>2. ASSUME status[r] = "succeeded"
        PROVE  /\ temp[r] = "none" /\ place["wrapper"] = "wrapper"
               /\ place["program"] \in {built[q] : q \in Runs} \cup {"directory"}
    BY <2>2 DEF IInv, RunInv, PlaceInv, Placed
  <2> QED
    BY <2>1, <2>2
<1> QED
  BY <1>1, IInvAlways, PTL

-----------------------------------------------------------------------------
(* The commands a run still has to execute, if nothing ends it before; the *)
(* program and the wrapper take three each.                                *)
Behind == [start |-> 10, resolve |-> 9, asset |-> 8, manifest |-> 7, verify |-> 6, copy |-> 5,
           copying |-> 4, rename |-> 3, configure |-> 2, report |-> 1, end |-> 0]

commandsLeft(r) ==
    Behind[pc[r]] + (IF target[r] = "program" /\ pc[r] # "end" THEN 3 ELSE 0)

Moves(r) == Step(r) \/ Fails(r) \/ Interrupt(r) \/ Kill(r)

\* A command changes what its own run is at, and nothing of the others'.
LEMMA MovesAreLocal ==
  ASSUME TypeOK, NEW r \in Runs, Moves(r), NEW q \in Runs, q # r
  PROVE  commandsLeft(q)' = commandsLeft(q)
<1>1. pc'[q] = pc[q] /\ target'[q] = target[q]
  <2> USE DEF TypeOK, GoesTo, Exit, Ends
  <2>1. CASE Fails(r) \/ Interrupt(r) \/ Kill(r)
    BY <2>1 DEF Fails, Interrupt, Kill
  <2>2. CASE Start(r) \/ DryRun(r) \/ Resolve(r) \/ Verify(r)
    BY <2>2 DEF Start, DryRun, Resolve, Verify
  <2>3. ASSUME NEW b \in Bytes, DownloadAsset(r, b) PROVE pc'[q] = pc[q] /\ target'[q] = target[q]
    BY <2>3 DEF DownloadAsset
  <2>4. ASSUME NEW e \in Bytes \cup {"unlisted"}, DownloadManifest(r, e)
        PROVE  pc'[q] = pc[q] /\ target'[q] = target[q]
    BY <2>4 DEF DownloadManifest
  <2>5. CASE StartCopy(r) \/ FinishCopy(r) \/ Rename(r)
    BY <2>5 DEF StartCopy, FinishCopy, Rename
  <2>6. CASE Configure(r) \/ Report(r)
    BY <2>6 DEF Configure, Report
  <2> QED
    BY <2>1, <2>2, <2>3, <2>4, <2>5, <2>6 DEF Moves, Step
<1> QED
  BY <1>1 DEF commandsLeft

LEMMA MovesShorten ==
  ASSUME TypeOK, NEW r \in Runs, Moves(r)
  PROVE  commandsLeft(r)' < commandsLeft(r)
<1> USE DEF TypeOK, GoesTo, Exit, Ends, commandsLeft, Behind, Targets
<1>1. CASE Fails(r) \/ Interrupt(r) \/ Kill(r)
  BY <1>1 DEF Fails, Interrupt, Kill, StopsShort
<1>2. CASE Start(r)
  BY <1>2 DEF Start
<1>3. CASE DryRun(r)
  BY <1>3 DEF DryRun
<1>4. CASE Resolve(r)
  BY <1>4 DEF Resolve
<1>5. ASSUME NEW b \in Bytes, DownloadAsset(r, b) PROVE commandsLeft(r)' < commandsLeft(r)
  BY <1>5 DEF DownloadAsset
<1>6. ASSUME NEW e \in Bytes \cup {"unlisted"}, DownloadManifest(r, e)
      PROVE  commandsLeft(r)' < commandsLeft(r)
  BY <1>6 DEF DownloadManifest
<1>7. CASE Verify(r)
  BY <1>7 DEF Verify
<1>8. CASE StartCopy(r)
  BY <1>8 DEF StartCopy
<1>9. CASE FinishCopy(r)
  BY <1>9 DEF FinishCopy
<1>10. CASE Rename(r)
  BY <1>10 DEF Rename
<1>11. CASE Configure(r)
  BY <1>11 DEF Configure
<1>12. CASE Report(r)
  BY <1>12 DEF Report
<1> QED
  BY <1>1, <1>2, <1>3, <1>4, <1>5, <1>6, <1>7, <1>8, <1>9, <1>10, <1>11, <1>12 DEF Moves, Step

OwnOnly ==
    \A r \in Runs : /\ commandsLeft(r)' <= commandsLeft(r)
                   /\ Moves(r) => commandsLeft(r)' < commandsLeft(r)

LEMMA LeftIsBounded == TypeOK => \A r \in Runs : commandsLeft(r) \in 0..13
  BY DEF TypeOK, commandsLeft, Behind, Targets

(* Every command a run executes brings it nearer its end, which is never   *)
(* more than thirteen away, and nothing another run does takes it back     *)
(* (lines 579-709).                                                        *)
THEOREM RunsGetShorter ==
  Spec => [](\A r \in Runs : commandsLeft(r) \in 0..13) /\ [][OwnOnly]_vars
<1>1. TypeOK /\ TypeOK' /\ [Next]_vars => [OwnOnly]_vars
  <2> SUFFICES ASSUME TypeOK, TypeOK', Next, NEW r \in Runs
               PROVE  /\ commandsLeft(r)' <= commandsLeft(r)
                      /\ Moves(r) => commandsLeft(r)' < commandsLeft(r)
    BY DEF OwnOnly
  <2>1. commandsLeft(r) \in 0..13 /\ commandsLeft(r)' \in 0..13
    BY DEF TypeOK, commandsLeft, Behind, Targets
  <2>2. PICK q \in Runs : Moves(q)
    BY DEF Next, Moves
  <2>3. commandsLeft(r)' <= commandsLeft(r)
    <3>1. CASE q = r
      <4>1. commandsLeft(r)' < commandsLeft(r)
        BY <2>2, <3>1, MovesShorten
      <4> QED
        BY <4>1, <2>1
    <3>2. CASE q # r
      BY <2>1, <2>2, <3>2, MovesAreLocal
    <3> QED
      BY <3>1, <3>2
  <2> QED
    BY <2>3, MovesShorten
<1> QED
  BY <1>1, LeftIsBounded, TypeCorrect, PTL DEF Spec
=============================================================================
