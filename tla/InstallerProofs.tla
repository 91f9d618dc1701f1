-------------------------- MODULE InstallerProofs ---------------------------
(***************************************************************************)
(* For any selections, contents and number of runs.  What holds of every   *)
(* run assumes that cp does not fail, and what is said of a failed run     *)
(* also that claude is installed wherever Codex and the claude command are *)
(* configured together: without either the script does not keep its        *)
(* promises, and TLC shows how when a configuration says otherwise.        *)
(***************************************************************************)
EXTENDS Installer, FiniteSetTheorems, TLAPS

Whole ==
    /\ \A a \in FileAgents : file[a] # "partial" /\ backup[a] # "partial"
    /\ \A a \in FileAgents : pc = "rename" /\ Now(a) => temp[a] = "current"

\* While a run is under way, what it has registered is in its backup and what it
\* has not is as it was; only the agent at hand can be both registered and ahead.
Kept ==
    /\ status = "running" <=> pc # "end"
    /\ status = "running" /\ pc # "cleanup" =>
        \A a \in FileAgents :
            IF a \in listed THEN backup[a] = before[a] /\ (existed[a] <=> before[a] # "absent")
            ELSE file[a] = before[a]
    /\ status = "running" => \A a \in FileAgents \ listed : backup[a] = "none"
    /\ pc \in {"next", "backup", "add"} => \A a \in todo : a \notin listed
    /\ pc \in {"copy", "copying", "rename"} => \A a \in todo : a \in listed <=> Now(a)

Done ==
    /\ todo \subseteq selected
    /\ pc = "add" => "cli" \in todo
    /\ pc = "cleanup" => todo = {}
    /\ status = "running" /\ pc # "rollback" =>
        /\ \A a \in (selected \cap FileAgents) \ todo : file[a] = "current"
        /\ "cli" \in selected \ todo => registered = "new"

\* What a run that has ended leaves behind.
Ended ==
    /\ SuccessConfiguresAll
    /\ status = "killed" => OriginalIsKept
    /\ status = "failed" => file = before /\ \A a \in FileAgents : backup[a] = "none"

IInv == TypeOK /\ Whole /\ Kept /\ Done /\ Ended

\* What the proofs need of the sets of agents and contents.
LEMMA Sets ==
    /\ FileAgents \subseteq Agents /\ "cli" \in Agents /\ "cli" \notin FileAgents
    /\ {"absent", "current"} \subseteq AllContents
    /\ {"none", "partial"} \cap AllContents = {}
    /\ Selections \subseteq SUBSET Agents
BY InstallerAssumption DEF FileAgents, Agents, AllContents, normalize_agents

\* There is one agent at a time.
LEMMA OneAtATime ==
  ASSUME todo \subseteq Agents, NEW a, NEW b, Now(a), Now(b)
  PROVE  a = b
BY DEF Now, Agents, FileAgents, turn

-----------------------------------------------------------------------------
(* The type invariant holds whatever cp does and wherever claude is.       *)
LEMMA TypeStep ==
  ASSUME TypeOK, [Next]_vars
  PROVE  TypeOK'
<1> USE InstallerAssumption, Sets DEF TypeOK, inputs
<1>1. ASSUME NEW a \in FileAgents, Prepare(a) PROVE TypeOK'
  BY <1>1 DEF Prepare
<1>2. ASSUME NEW a \in FileAgents, Backup(a) PROVE TypeOK'
  BY <1>2 DEF Backup
<1>3. ASSUME NEW a \in FileAgents, StartCopy(a) PROVE TypeOK'
  BY <1>3 DEF StartCopy
<1>4. ASSUME NEW a \in FileAgents, FinishCopy(a) PROVE TypeOK'
  BY <1>4 DEF FinishCopy
<1>5. ASSUME NEW a \in FileAgents, Rename(a) PROVE TypeOK'
  BY <1>5 DEF Rename
<1>6. ASSUME NEW a \in FileAgents, RemoveBackup(a) PROVE TypeOK'
  BY <1>6 DEF RemoveBackup
<1>7. ASSUME NEW a \in FileAgents, Restore(a) PROVE TypeOK'
  BY <1>7 DEF Restore
<1>8. CASE RequireClaude
  BY <1>8 DEF RequireClaude
<1>9. CASE AddToClaude
  BY <1>9 DEF AddToClaude
<1>10. CASE AllConfigured
  BY <1>10 DEF AllConfigured
<1>11. CASE Finish
  BY <1>11 DEF Finish
<1>12. CASE Kill
  BY <1>12 DEF Kill
<1>13. ASSUME NEW S \in Selections, NEW r \in BOOLEAN, Rerun(S, r) PROVE TypeOK'
  BY <1>13 DEF Rerun
<1>14. CASE UNCHANGED vars
  BY <1>14 DEF vars
<1> QED
  BY <1>1, <1>2, <1>3, <1>4, <1>5, <1>6, <1>7, <1>8, <1>9, <1>10, <1>11, <1>12, <1>13, <1>14 DEF Next, Step

(* The variables of the installer keep their types.                        *)
THEOREM TypeCorrect == Spec => []TypeOK
<1>1. Init => TypeOK
  BY InstallerAssumption, Sets DEF Init, TypeOK
<1> QED
  BY <1>1, TypeStep, PTL DEF Spec

-----------------------------------------------------------------------------
\* The longest way a run still has before it: through every agent left, and, at
\* its end, through every backup.
at == [next |-> 10, backup |-> 9, add |-> 9, copy |-> 8, copying |-> 7, rename |-> 6]

commandsLeft ==
    IF pc = "end" THEN 0
    ELSE IF pc \in {"rollback", "cleanup"} THEN 1 + Cardinality(listed)
    ELSE 10 * Cardinality(todo) + at[pc]

AddingIsToDo == pc = "add" => "cli" \in todo

LEMMA Counting ==
    /\ \A S \in SUBSET Agents : IsFiniteSet(S) /\ Cardinality(S) \in 0..5
    /\ \A S \in SUBSET FileAgents : Cardinality(S) \in 0..4
<1>1. IsFiniteSet(FileAgents) /\ Cardinality(FileAgents) = 4
  <2>1. IsFiniteSet({"codex"}) /\ Cardinality({"codex"}) = 1
    BY FS_Singleton
  <2>2. IsFiniteSet({"codex"} \cup {"claude"}) /\ Cardinality({"codex"} \cup {"claude"}) = 2
    BY <2>1, FS_AddElement
  <2>3. /\ IsFiniteSet(({"codex"} \cup {"claude"}) \cup {"cursor"})
        /\ Cardinality(({"codex"} \cup {"claude"}) \cup {"cursor"}) = 3
    BY <2>2, FS_AddElement
  <2>4. /\ IsFiniteSet((({"codex"} \cup {"claude"}) \cup {"cursor"}) \cup {"kiro"})
        /\ Cardinality((({"codex"} \cup {"claude"}) \cup {"cursor"}) \cup {"kiro"}) = 4
    BY <2>3, FS_AddElement
  <2>5. FileAgents = (({"codex"} \cup {"claude"}) \cup {"cursor"}) \cup {"kiro"}
    BY DEF FileAgents
  <2> QED
    BY <2>4, <2>5
<1>2. IsFiniteSet(Agents) /\ Cardinality(Agents) = 5
  BY <1>1, Sets, FS_AddElement DEF Agents
<1>3. ASSUME NEW S \in SUBSET Agents PROVE IsFiniteSet(S) /\ Cardinality(S) \in 0..5
  BY <1>2, FS_Subset, FS_CardinalityType
<1>4. ASSUME NEW S \in SUBSET FileAgents PROVE Cardinality(S) \in 0..4
  BY <1>1, FS_Subset, FS_CardinalityType
<1> QED
  BY <1>3, <1>4

LEMMA OneLess ==
  ASSUME NEW S \in SUBSET Agents, NEW a \in S
  PROVE  Cardinality(S \ {a}) = Cardinality(S) - 1
BY Counting, FS_RemoveElement

LEMMA LeftIsBounded == TypeOK => commandsLeft \in 0..60
<1> SUFFICES ASSUME TypeOK PROVE commandsLeft \in 0..60
  OBVIOUS
<1>1. Cardinality(todo) \in 0..5 /\ Cardinality(listed) \in 0..4
  BY Counting DEF TypeOK
<1> QED
  BY <1>1 DEF TypeOK, commandsLeft, at

LEMMA StepsShorten ==
  ASSUME TypeOK, AddingIsToDo, Step
  PROVE  commandsLeft' < commandsLeft
<1> DEFINE T == Cardinality(todo)
           L == Cardinality(listed)
<1>1. T \in 0..5 /\ L \in 0..4 /\ T' \in 0..5 /\ L' \in 0..4
  <2>1. TypeOK'
    BY TypeStep DEF Next
  <2> QED
    BY <2>1, Counting DEF TypeOK
<1> HIDE DEF T, L
<1>2. ASSUME NEW a \in FileAgents,
             Prepare(a) \/ Backup(a) \/ StartCopy(a) \/ FinishCopy(a) \/ Rename(a)
      PROVE  commandsLeft' < commandsLeft
  <2>1. a \in todo /\ todo \in SUBSET Agents
    BY <1>2 DEF Prepare, Backup, StartCopy, FinishCopy, Rename, Now, TypeOK
  <2>2. CASE todo' = todo
    <3>1. \/ pc = "next" /\ pc' \in {"backup", "rollback"}
          \/ pc = "backup" /\ pc' = "copy"
          \/ pc = "copy" /\ pc' = "copying"
          \/ pc = "copying" /\ pc' = "rename"
          \/ pc = "rename" /\ pc' = "rollback"
      <4>1. CASE Prepare(a)
        BY <2>1, <2>2, <4>1 DEF Prepare
      <4>2. CASE Rename(a)
        BY <2>1, <2>2, <4>2 DEF Rename
      <4>3. CASE Backup(a) \/ StartCopy(a) \/ FinishCopy(a)
        BY <4>3 DEF Backup, StartCopy, FinishCopy
      <4> QED
        BY <1>2, <4>1, <4>2, <4>3
    <3>2. T' = T
      BY <2>2 DEF T
    <3> QED
      BY <1>1, <3>1, <3>2 DEF commandsLeft, at, T, L
  <2>3. CASE todo' = todo \ {a}
    <3>1. T' = T - 1
      BY <2>1, <2>3, OneLess DEF T
    <3>2. pc' = "next" /\ pc \in {"next", "rename"}
      BY <1>2, <2>1, <2>3 DEF Prepare, Backup, StartCopy, FinishCopy, Rename
    <3> QED
      BY <1>1, <3>1, <3>2 DEF commandsLeft, at, T, L
  <2> QED
    BY <1>2, <2>2, <2>3 DEF Prepare, Backup, StartCopy, FinishCopy, Rename
<1>3. ASSUME NEW a \in FileAgents, RemoveBackup(a) \/ Restore(a) PROVE commandsLeft' < commandsLeft
  <2>1. a \in listed /\ listed \in SUBSET Agents /\ listed' = listed \ {a}
    BY <1>3, Sets DEF RemoveBackup, Restore, TypeOK
  <2>2. L' = L - 1
    BY <2>1, OneLess DEF L
  <2> QED
    BY <1>1, <1>3, <2>2 DEF RemoveBackup, Restore, commandsLeft, L
<1>4. CASE RequireClaude
  BY <1>1, <1>4 DEF RequireClaude, commandsLeft, at, T, L
<1>5. CASE AddToClaude
  <2>1. "cli" \in todo /\ todo \in SUBSET Agents
    BY <1>5 DEF AddingIsToDo, AddToClaude, TypeOK
  <2>2. T - 1 = Cardinality(todo \ {"cli"})
    BY <2>1, OneLess DEF T
  <2> QED
    BY <1>1, <1>5, <2>2 DEF AddToClaude, commandsLeft, at, T, L
<1>6. CASE AllConfigured
  BY <1>1, <1>6 DEF AllConfigured, commandsLeft, at, T, L
<1>7. CASE Finish
  BY <1>1, <1>7 DEF Finish, commandsLeft, L
<1> QED
  BY <1>2, <1>3, <1>4, <1>5, <1>6, <1>7 DEF Step

(* A run that is left alone ends: every command it executes brings it      *)
(* nearer its end, which is never more than sixty away, whatever fails     *)
(* (lines 484-517 and 696-702).                                            *)
THEOREM RunsGetShorter ==
  Spec => [](commandsLeft \in 0..60) /\ [][Step => commandsLeft' < commandsLeft]_vars
<1>1. Init => AddingIsToDo
  BY DEF Init, AddingIsToDo
<1>2. TypeOK /\ AddingIsToDo /\ [Next]_vars => AddingIsToDo'
  <2> SUFFICES ASSUME TypeOK, AddingIsToDo, [Next]_vars PROVE AddingIsToDo'
    OBVIOUS
  <2> USE DEF AddingIsToDo
  <2>1. ASSUME NEW a \in FileAgents,
               Prepare(a) \/ Backup(a) \/ StartCopy(a) \/ FinishCopy(a) \/ Rename(a)
                  \/ RemoveBackup(a) \/ Restore(a)
        PROVE  pc' # "add"
    BY <2>1 DEF Prepare, Backup, StartCopy, FinishCopy, Rename, RemoveBackup, Restore
  <2>2. CASE RequireClaude
    BY <2>2 DEF RequireClaude, Now
  <2>3. CASE AddToClaude \/ AllConfigured \/ Finish \/ Kill
    BY <2>3 DEF AddToClaude, AllConfigured, Finish, Kill
  <2>4. ASSUME NEW S \in Selections, NEW r \in BOOLEAN, Rerun(S, r) PROVE pc' # "add"
    BY <2>4 DEF Rerun
  <2>5. CASE UNCHANGED vars
    BY <2>5 DEF vars
  <2> QED
    BY <2>1, <2>2, <2>3, <2>4, <2>5 DEF Next, Step
<1>3. TypeOK /\ AddingIsToDo => [Step => commandsLeft' < commandsLeft]_vars
  BY StepsShorten
<1> QED
  BY <1>1, <1>2, <1>3, TypeCorrect, LeftIsBounded, PTL DEF Spec

-----------------------------------------------------------------------------
LEMMA InitEstablishesIInv == Init => IInv
<1> SUFFICES ASSUME Init PROVE IInv
  OBVIOUS
<1> USE InstallerAssumption, Sets DEF Init
<1>1. TypeOK
  BY DEF TypeOK
<1>2. Whole
  BY DEF Whole
<1>3. Kept
  BY DEF Kept
<1>4. Done
  BY DEF Done
<1>5. Ended
  BY DEF Ended, SuccessConfiguresAll
<1> QED
  BY <1>1, <1>2, <1>3, <1>4, <1>5 DEF IInv

LEMMA StepPreservesIInv ==
  ASSUME IInv, ~CopiesFail, [Next]_vars
  PROVE  IInv'
<1> TypeOK /\ TypeOK'
  BY TypeStep DEF IInv
<1> USE InstallerAssumption, Sets DEF IInv, inputs
<1>1. ASSUME NEW a \in FileAgents, Prepare(a) PROVE IInv'
  <2> USE <1>1 DEF Prepare, AlreadyDone
  <2>1. Whole'
    BY OneAtATime DEF Whole, TypeOK, Now, Kept
  <2>2. Kept'
    BY OneAtATime DEF Kept, Whole, Now, TypeOK
  <2>3. Done'
    BY DEF Done, Now, TypeOK, Kept, Whole
  <2>4. Ended'
    BY DEF Ended, Kept, Done, TypeOK, SuccessConfiguresAll, OriginalIsKept
  <2> QED
    BY <2>1, <2>2, <2>3, <2>4
<1>2. ASSUME NEW a \in FileAgents, Backup(a) PROVE IInv'
  <2> USE <1>2 DEF Backup
  <2>1. Whole'
    BY OneAtATime DEF Whole, TypeOK, Now, Kept
  <2>2. Kept'
    <3>1. a \notin listed /\ file[a] = before[a] /\ status = "running"
      BY DEF Kept, Now
    <3>2. backup' = [backup EXCEPT ![a] = file[a]] /\ existed' = [existed EXCEPT ![a] = file[a] # "absent"]
      OBVIOUS
    <3>3. ASSUME NEW b \in FileAgents
          PROVE  IF b \in listed' THEN backup'[b] = before[b] /\ (existed'[b] <=> before[b] # "absent")
                 ELSE file[b] = before[b] /\ backup'[b] = "none"
      <4>1. CASE b = a
        BY <4>1, <3>1, <3>2 DEF TypeOK
      <4>2. CASE b # a
        BY <4>2, <3>1, <3>2 DEF Kept, TypeOK
      <4> QED
        BY <4>1, <4>2
    <3>4. ASSUME NEW b \in todo PROVE b \in listed' <=> Now(b)
      BY <3>1, OneAtATime DEF Kept, TypeOK
    <3> QED
      BY <3>1, <3>3, <3>4 DEF Kept, Now
  <2>3. Done'
    BY DEF Done, Now, TypeOK, Kept, Whole
  <2>4. Ended'
    BY DEF Ended, Kept, Done, TypeOK, SuccessConfiguresAll, OriginalIsKept
  <2> QED
    BY <2>1, <2>2, <2>3, <2>4
<1>3. ASSUME NEW a \in FileAgents, StartCopy(a) PROVE IInv'
  <2> USE <1>3 DEF StartCopy
  <2>1. Whole'
    BY OneAtATime DEF Whole, TypeOK, Now, Kept
  <2>2. Kept'
    BY OneAtATime DEF Kept, Whole, Now, TypeOK
  <2>3. Done'
    BY DEF Done, Now, TypeOK, Kept, Whole
  <2>4. Ended'
    BY DEF Ended, Kept, Done, TypeOK, SuccessConfiguresAll, OriginalIsKept
  <2> QED
    BY <2>1, <2>2, <2>3, <2>4
<1>4. ASSUME NEW a \in FileAgents, FinishCopy(a) PROVE IInv'
  <2> USE <1>4 DEF FinishCopy
  <2>1. Whole'
    BY OneAtATime DEF Whole, TypeOK, Now, Kept
  <2>2. Kept'
    BY OneAtATime DEF Kept, Whole, Now, TypeOK
  <2>3. Done'
    BY DEF Done, Now, TypeOK, Kept, Whole
  <2>4. Ended'
    BY DEF Ended, Kept, Done, TypeOK, SuccessConfiguresAll, OriginalIsKept
  <2> QED
    BY <2>1, <2>2, <2>3, <2>4
<1>5. ASSUME NEW a \in FileAgents, Rename(a) PROVE IInv'
  <2> USE <1>5 DEF Rename
  <2>1. Whole'
    BY OneAtATime DEF Whole, TypeOK, Now, Kept
  <2>2. Kept'
    <3>1. ASSUME NEW b \in todo', pc' = "next" PROVE b \notin listed'
      BY <3>1, OneAtATime DEF Kept, TypeOK
    <3> QED
      BY <3>1 DEF Kept, Now, TypeOK
  <2>3. Done'
    BY DEF Done, Now, TypeOK, Kept, Whole
  <2>4. Ended'
    BY DEF Ended, Kept, Done, TypeOK, SuccessConfiguresAll, OriginalIsKept
  <2> QED
    BY <2>1, <2>2, <2>3, <2>4
<1>6. ASSUME NEW a \in FileAgents, RemoveBackup(a) PROVE IInv'
  <2> USE <1>6 DEF RemoveBackup
  <2>1. Whole'
    BY OneAtATime DEF Whole, TypeOK, Now, Kept
  <2>2. Kept'
    BY OneAtATime DEF Kept, Whole, Now, TypeOK
  <2>3. Done'
    BY DEF Done, Now, TypeOK, Kept, Whole
  <2>4. Ended'
    BY DEF Ended, Kept, Done, TypeOK, SuccessConfiguresAll, OriginalIsKept
  <2> QED
    BY <2>1, <2>2, <2>3, <2>4
<1>7. ASSUME NEW a \in FileAgents, Restore(a) PROVE IInv'
  <2> USE <1>7 DEF Restore
  <2>1. Whole'
    BY OneAtATime DEF Whole, TypeOK, Now, Kept
  <2>2. Kept'
    BY OneAtATime DEF Kept, Whole, Now, TypeOK
  <2>3. Done'
    BY DEF Done, Now, TypeOK, Kept, Whole
  <2>4. Ended'
    BY DEF Ended, Kept, Done, TypeOK, SuccessConfiguresAll, OriginalIsKept
  <2> QED
    BY <2>1, <2>2, <2>3, <2>4
<1>8. CASE RequireClaude
  <2> USE <1>8 DEF RequireClaude
  <2>1. Whole'
    BY OneAtATime DEF Whole, TypeOK, Now, Kept
  <2>2. Kept'
    BY OneAtATime DEF Kept, Whole, Now, TypeOK
  <2>3. Done'
    BY DEF Done, Now, TypeOK, Kept, Whole
  <2>4. Ended'
    BY DEF Ended, Kept, Done, TypeOK, SuccessConfiguresAll, OriginalIsKept
  <2> QED
    BY <2>1, <2>2, <2>3, <2>4
<1>9. CASE AddToClaude
  <2> USE <1>9 DEF AddToClaude
  <2>1. Whole'
    BY OneAtATime DEF Whole, TypeOK, Now, Kept
  <2>2. Kept'
    BY OneAtATime DEF Kept, Whole, Now, TypeOK
  <2>3. Done'
    BY DEF Done, Now, TypeOK, Kept, Whole
  <2>4. Ended'
    BY DEF Ended, Kept, Done, TypeOK, SuccessConfiguresAll, OriginalIsKept
  <2> QED
    BY <2>1, <2>2, <2>3, <2>4
<1>10. CASE AllConfigured
  <2> USE <1>10 DEF AllConfigured
  <2>1. Whole'
    BY OneAtATime DEF Whole, TypeOK, Now, Kept
  <2>2. Kept'
    BY OneAtATime DEF Kept, Whole, Now, TypeOK
  <2>3. Done'
    BY DEF Done, Now, TypeOK, Kept, Whole
  <2>4. Ended'
    BY DEF Ended, Kept, Done, TypeOK, SuccessConfiguresAll, OriginalIsKept
  <2> QED
    BY <2>1, <2>2, <2>3, <2>4
<1>11. CASE Finish
  <2> USE <1>11 DEF Finish
  <2>1. Whole'
    BY OneAtATime DEF Whole, TypeOK, Now, Kept
  <2>2. Kept'
    BY OneAtATime DEF Kept, Whole, Now, TypeOK
  <2>3. Done'
    BY DEF Done, Now, TypeOK, Kept, Whole
  <2>4. Ended'
    BY DEF Ended, Kept, Done, TypeOK, SuccessConfiguresAll, OriginalIsKept
  <2> QED
    BY <2>1, <2>2, <2>3, <2>4
<1>12. CASE Kill
  <2> USE <1>12 DEF Kill
  <2>1. Whole'
    BY OneAtATime DEF Whole, TypeOK, Now, Kept
  <2>2. Kept'
    BY OneAtATime DEF Kept, Whole, Now, TypeOK
  <2>3. Done'
    BY DEF Done, Now, TypeOK, Kept, Whole
  <2>4. Ended'
    BY DEF Ended, Kept, Done, TypeOK, SuccessConfiguresAll, OriginalIsKept
  <2> QED
    BY <2>1, <2>2, <2>3, <2>4
<1>13. ASSUME NEW S \in Selections, NEW r \in BOOLEAN, Rerun(S, r) PROVE IInv'
  <2> USE <1>13 DEF Rerun
  <2>1. Whole'
    BY OneAtATime DEF Whole, TypeOK, Now, Kept
  <2>2. Kept'
    BY OneAtATime DEF Kept, Whole, Now, TypeOK
  <2>3. Done'
    BY DEF Done, Now, TypeOK, Kept, Whole
  <2>4. Ended'
    BY DEF Ended, Kept, Done, TypeOK, SuccessConfiguresAll, OriginalIsKept
  <2> QED
    BY <2>1, <2>2, <2>3, <2>4
<1>14. CASE UNCHANGED vars
  <2> USE <1>14 DEF vars
  <2>1. Whole'
    BY OneAtATime DEF Whole, TypeOK, Now, Kept
  <2>2. Kept'
    BY OneAtATime DEF Kept, Whole, Now, TypeOK
  <2>3. Done'
    BY DEF Done, Now, TypeOK, Kept, Whole
  <2>4. Ended'
    BY DEF Ended, Kept, Done, TypeOK, SuccessConfiguresAll, OriginalIsKept
  <2> QED
    BY <2>1, <2>2, <2>3, <2>4
<1> QED
  BY <1>1, <1>2, <1>3, <1>4, <1>5, <1>6, <1>7, <1>8, <1>9, <1>10, <1>11, <1>12, <1>13, <1>14 DEF Next, Step

LEMMA IInvAlways ==
  ASSUME ~CopiesFail
  PROVE  Spec => []IInv
<1>1. IInv /\ [Next]_vars => IInv'
  BY StepPreservesIInv
<1> QED
  BY <1>1, InitEstablishesIInv, PTL DEF Spec

-----------------------------------------------------------------------------
(* Wherever the script is killed and however often it is run again, a      *)
(* reader of a configuration file never finds half of one.                 *)
THEOREM WholeFiles ==
  ASSUME ~CopiesFail
  PROVE  Spec => []ReadersSeeWholeFiles
<1>1. IInv => ReadersSeeWholeFiles
  BY DEF IInv, Whole, ReadersSeeWholeFiles
<1> QED
  BY <1>1, IInvAlways, PTL

(* A run that reports success has configured what was selected, and left   *)
(* no backup.                                                              *)
THEOREM SuccessIsComplete ==
  ASSUME ~CopiesFail
  PROVE  Spec => []SuccessConfiguresAll
<1>1. IInv => SuccessConfiguresAll
  BY DEF IInv, Ended
<1> QED
  BY <1>1, IInvAlways, PTL

(* What a file held can be had back until the run is sure to succeed.      *)
THEOREM OriginalsKept ==
  ASSUME ~CopiesFail
  PROVE  Spec => []OriginalIsKept
<1>1. IInv => OriginalIsKept
  BY DEF IInv, Kept, Ended, OriginalIsKept
<1> QED
  BY <1>1, IInvAlways, PTL

-----------------------------------------------------------------------------
\* Codex is configured before the claude command is looked for; where both are
\* selected, a run that does not find it dies with a file already changed.
NoCodexBeforeAMissingClaude ==
    \A S \in Selections : {"codex", "cli"} \subseteq S => ClaudeCli = {TRUE}

\* What is done comes before what is to do, so a run that dies has done nothing.
ClaudeInv ==
    /\ {"codex", "cli"} \subseteq selected => claude
    /\ listed \subseteq selected
    /\ pc = "add" => Now("cli")
    /\ status = "running" => \A a \in selected \ todo, b \in todo : turn[a] < turn[b]
    /\ status = "died" => file = before /\ \A a \in FileAgents : backup[a] = "none"

\* A run that is at the claude command has changed nothing, unless Codex came first.
LEMMA DiesEmptyHanded ==
  ASSUME IInv, ClaudeInv, NoCodexBeforeAMissingClaude, RequireClaude, status' = "died"
  PROVE  file = before /\ \A a \in FileAgents : backup[a] = "none"
<1>1. pc = "next" /\ "cli" \in todo /\ ~claude
  BY DEF RequireClaude, Now, IInv, Kept
<1>2. "codex" \notin selected /\ "claude" \notin selected
  <2>1. "cli" \in selected
    BY <1>1 DEF IInv, Done
  <2>2. selected \in normalize_agents
    BY InstallerAssumption DEF IInv, TypeOK
  <2> QED
    BY <1>1, <2>1, <2>2 DEF ClaudeInv, normalize_agents
<1>3. status = "running"
  BY <1>1 DEF IInv, Kept
<1>4. listed = {}
  <2> SUFFICES ASSUME NEW a \in listed PROVE FALSE
    OBVIOUS
  <2>1. a \in FileAgents /\ a \in selected /\ a \notin todo
    BY <1>1 DEF IInv, TypeOK, Kept, ClaudeInv
  <2>2. turn[a] < turn["cli"]
    BY <1>1, <1>3, <2>1 DEF ClaudeInv
  <2> QED
    BY <1>2, <2>1, <2>2 DEF turn, FileAgents
<1>5. \A a \in FileAgents : file[a] = before[a] /\ backup[a] = "none"
  BY <1>1, <1>3, <1>4 DEF IInv, Kept
<1> QED
  BY <1>5 DEF IInv, TypeOK

LEMMA ClaudeStep ==
  ASSUME IInv, ClaudeInv, NoCodexBeforeAMissingClaude, [Next]_vars
  PROVE  ClaudeInv'
<1> USE DEF ClaudeInv
<1>2. ASSUME NEW a \in FileAgents,
             Prepare(a) \/ Backup(a) \/ StartCopy(a) \/ FinishCopy(a) \/ Rename(a)
                \/ RemoveBackup(a) \/ Restore(a)
      PROVE  ClaudeInv'
  <2>1. status = "running" /\ status' = "running" /\ UNCHANGED inputs
    BY <1>2 DEF Prepare, Backup, StartCopy, FinishCopy, Rename, RemoveBackup, Restore, IInv, Kept
  <2>2. listed' \subseteq listed \cup (selected \cap {a})
    BY <1>2 DEF Prepare, Backup, StartCopy, FinishCopy, Rename, RemoveBackup, Restore,
                Now, IInv, Done
  <2>3. /\ pc' # "add"
        /\ \/ todo' = todo
           \/ Now(a) /\ todo' = todo \ {a}
    <3>1. CASE Prepare(a)
      BY <3>1 DEF Prepare
    <3>2. CASE Rename(a)
      BY <3>2 DEF Rename
    <3>3. CASE ~Prepare(a) /\ ~Rename(a)
      BY <1>2, <3>3 DEF Backup, StartCopy, FinishCopy, RemoveBackup, Restore
    <3> QED
      BY <3>1, <3>2, <3>3
  <2>4. ASSUME Now(a), todo' = todo \ {a}, NEW x \in selected \ todo', NEW y \in todo'
        PROVE  turn[x] < turn[y]
    <3>1. y \in todo /\ y # a /\ (x = a \/ x \notin todo)
      BY <2>4
    <3>2. a \in Agents /\ y \in Agents /\ turn[a] <= turn[y]
      BY <2>4, <3>1 DEF Now, IInv, TypeOK
    <3>3. turn[a] < turn[y]
      BY <3>1, <3>2 DEF turn, Agents, FileAgents
    <3> QED
      BY <2>1, <3>1, <3>3
  <2> QED
    BY <2>1, <2>2, <2>3, <2>4 DEF inputs
<1>3. CASE RequireClaude
  <2>1. CASE status' = "died"
    BY <1>3, <2>1, DiesEmptyHanded DEF RequireClaude, inputs, Now
  <2>2. CASE status' # "died"
    BY <1>3, <2>2 DEF RequireClaude, inputs, Now
  <2> QED
    BY <2>1, <2>2
<1>4. CASE AddToClaude
  <2>1. /\ status = "running" /\ UNCHANGED <<inputs, listed, status>> /\ pc' # "add"
        /\ Now("cli")
    BY <1>4 DEF AddToClaude, IInv, Kept
  <2>2. CASE todo' = todo
    BY <2>1, <2>2 DEF inputs
  <2>3. CASE todo' = todo \ {"cli"}
    <3> SUFFICES ASSUME NEW x \in selected \ todo', NEW y \in todo' PROVE turn[x] < turn[y]
      BY <2>1 DEF inputs
    <3>1. y \in todo /\ y # "cli" /\ (x = "cli" \/ x \notin todo) /\ y \in Agents
      BY <2>3 DEF IInv, TypeOK
    <3>2. turn["cli"] <= turn[y]
      BY <2>1, <3>1 DEF Now
    <3>3. turn["cli"] < turn[y]
      BY <3>1, <3>2 DEF turn, Agents, FileAgents
    <3> QED
      BY <2>1, <3>1, <3>3
  <2> QED
    BY <1>4, <2>2, <2>3 DEF AddToClaude
<1>5. CASE AllConfigured
  BY <1>5 DEF AllConfigured, inputs
<1>6. CASE Finish
  BY <1>6 DEF Finish, inputs, IInv, Kept
<1>7. CASE Kill
  BY <1>7 DEF Kill, inputs
<1>8. ASSUME NEW S \in Selections, NEW r \in BOOLEAN, Rerun(S, r) PROVE ClaudeInv'
  <2>1. claude' \in ClaudeCli /\ selected' = S
    BY <1>8 DEF Rerun
  <2>2. {"codex", "cli"} \subseteq S => claude' = TRUE
    BY <2>1 DEF NoCodexBeforeAMissingClaude
  <2> QED
    BY <1>8, <2>1, <2>2 DEF Rerun
<1>9. CASE UNCHANGED vars
  BY <1>9 DEF vars, Now
<1> QED
  BY <1>2, <1>3, <1>4, <1>5, <1>6, <1>7, <1>8, <1>9 DEF Next, Step

LEMMA ClaudeInvAlways ==
  ASSUME ~CopiesFail, NoCodexBeforeAMissingClaude
  PROVE  Spec => []ClaudeInv
<1>1. ASSUME Init PROVE ClaudeInv
  <2>1. {"codex", "cli"} \subseteq selected => claude = TRUE
    BY <1>1 DEF Init, NoCodexBeforeAMissingClaude
  <2>2. selected \ todo = {} /\ listed = {} /\ pc = "next" /\ status = "running"
    BY <1>1 DEF Init
  <2> QED
    BY <2>1, <2>2 DEF ClaudeInv
<1>2. IInv /\ ClaudeInv /\ [Next]_vars => ClaudeInv'
  BY ClaudeStep
<1> QED
  BY <1>1, <1>2, IInvAlways, PTL DEF Spec

(* A run that fails leaves every configuration file as it found it and no  *)
(* backup behind.                                                          *)
THEOREM FailureRestores ==
  ASSUME ~CopiesFail, NoCodexBeforeAMissingClaude
  PROVE  Spec => []FailureRestoresConfigs
<1>1. IInv /\ ClaudeInv => FailureRestoresConfigs
  BY DEF IInv, Ended, ClaudeInv, FailureRestoresConfigs
<1> QED
  BY <1>1, IInvAlways, ClaudeInvAlways, PTL

-----------------------------------------------------------------------------
\* A file is configured in the one step that renames it ...
LEMMA RenameConfigures ==
  ASSUME IInv, NEW a \in FileAgents, Rename(a)
  PROVE  Promise!Configure(a) \/ UNCHANGED <<file, before, selected, outcome>>
<1>1. status = "running" /\ a \in selected /\ temp[a] = "current"
  BY DEF Rename, IInv, Kept, Done, Whole, Now
<1>2. UNCHANGED <<before, selected, outcome>>
  BY DEF Rename, inputs, outcome
<1>3. UNCHANGED file \/ file' = [file EXCEPT ![a] = "current"]
  BY <1>1 DEF Rename
<1> QED
  BY <1>1, <1>2, <1>3 DEF Promise!Configure, Promise!Set, outcome

\* ... and undone in the one that restores it.
LEMMA RestoreUndoes ==
  ASSUME IInv, ClaudeInv, NEW a \in FileAgents, Restore(a)
  PROVE  Promise!Undo(a)
<1>1. /\ status = "running" /\ a \in selected
      /\ backup[a] = before[a] /\ (existed[a] <=> before[a] # "absent")
  BY DEF Restore, IInv, Kept, ClaudeInv
<1>2. before[a] # "none"
  BY Sets DEF IInv, TypeOK, AllContents
<1>3. file' = [file EXCEPT ![a] = before[a]]
  BY <1>1, <1>2 DEF Restore
<1> QED
  BY <1>1, <1>3 DEF Restore, Promise!Undo, Promise!Set, outcome, inputs

(* Seen from the files, the script is all or nothing: every file changes   *)
(* in one piece, a run that succeeds has changed all it was asked to, one  *)
(* that fails has changed none, and no file of another agent is touched.   *)
THEOREM Implements ==
  ASSUME ~CopiesFail, NoCodexBeforeAMissingClaude
  PROVE  Spec => ImplementsAllOrNothing
<1>1. Init => Promise!Init
  BY DEF Init, Promise!Init, outcome
<1>2. IInv /\ IInv' /\ ClaudeInv /\ ClaudeInv' /\ [Next]_vars => [Promise!Next]_(Promise!vars)
  <2> SUFFICES ASSUME IInv, IInv', ClaudeInv, ClaudeInv', [Next]_vars
               PROVE  Promise!Next \/ UNCHANGED <<file, before, selected, outcome>>
    BY DEF Promise!vars
  <2>1. ASSUME NEW a \in FileAgents,
               Prepare(a) \/ Backup(a) \/ StartCopy(a) \/ FinishCopy(a) \/ RemoveBackup(a)
        PROVE  UNCHANGED <<file, before, selected, outcome>>
    BY <2>1 DEF Prepare, Backup, StartCopy, FinishCopy, RemoveBackup, inputs, outcome
  <2>2. ASSUME NEW a \in FileAgents, Rename(a)
        PROVE  Promise!Next \/ UNCHANGED <<file, before, selected, outcome>>
    BY <2>2, RenameConfigures DEF Promise!Next
  <2>3. ASSUME NEW a \in FileAgents, Restore(a) PROVE Promise!Next
    BY <2>3, RestoreUndoes DEF Promise!Next
  <2>4. CASE RequireClaude
    <3>1. CASE status' = "died"
      <4>1. file = before /\ status = "running"
        BY <2>4, <3>1, DiesEmptyHanded DEF RequireClaude, IInv, Kept
      <4> QED
        BY <2>4, <3>1, <4>1 DEF RequireClaude, inputs, outcome,
           Promise!Next, Promise!End, Promise!Fail
    <3>2. CASE status' # "died"
      BY <2>4, <3>2 DEF RequireClaude, inputs, outcome
    <3> QED
      BY <3>1, <3>2
  <2>5. CASE AddToClaude \/ AllConfigured
    BY <2>5 DEF AddToClaude, AllConfigured, inputs, outcome
  <2>6. CASE Finish
    <3>1. status = "running" /\ status' \in {"succeeded", "failed"}
          /\ UNCHANGED <<file, before, selected>>
      BY <2>6 DEF Finish, inputs, IInv, Kept
    <3>2. CASE status' = "succeeded"
      BY <3>1, <3>2 DEF IInv, Ended, SuccessConfiguresAll, outcome,
         Promise!Next, Promise!End, Promise!Succeed
    <3>3. CASE status' = "failed"
      BY <3>1, <3>3 DEF IInv, Ended, outcome, Promise!Next, Promise!End, Promise!Fail
    <3> QED
      BY <3>1, <3>2, <3>3
  <2>7. CASE Kill
    BY <2>7 DEF Kill, inputs, outcome, Promise!Next, Promise!End, Promise!Kill
  <2>8. ASSUME NEW S \in Selections, NEW r \in BOOLEAN, Rerun(S, r) PROVE Promise!Next
    BY <2>8 DEF Rerun, outcome, Promise!Next, Promise!Rerun
  <2>9. CASE UNCHANGED vars
    BY <2>9 DEF vars, outcome
  <2> QED
    BY <2>1, <2>2, <2>3, <2>4, <2>5, <2>6, <2>7, <2>8, <2>9 DEF Next, Step
<1> QED
  BY <1>1, <1>2, IInvAlways, ClaudeInvAlways, PTL
     DEF Spec, ImplementsAllOrNothing, Promise!Spec
=============================================================================
