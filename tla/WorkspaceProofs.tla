---------------------------- MODULE WorkspaceProofs ----------------------------
(***************************************************************************)
(* Proofs about the file integrity check and the sandbox, for any files,   *)
(* any contents and any changes while a check goes on.                     *)
(*                                                                         *)
(* ReportsWhatChanged is not inductive: a check that has yet to visit a    *)
(* file says nothing of it, and that a file was left alone matters from    *)
(* the moment it was recorded.  Visits says what is known of each file at  *)
(* each moment.  For the sandbox it must be known that nobody kills a      *)
(* child before its time is out.                                           *)
(***************************************************************************)
EXTENDS Workspace, TLAPS

\* A recorded file that was left alone still has its checksum; a file that
\* was visited since the check began, and left alone since, is named exactly
\* if it differs.
Visits ==
    /\ phase = "none" => todo = {} /\ baseline_checksums = NoChecksums
    /\ phase # "checking" => tampered_files = {} /\ touched = {}
    /\ phase = "recording" => todo \cap Recorded = {}
    /\ phase = "checking" => todo \subseteq Recorded
    /\ \A f \in Recorded : f \notin changed => disk[f] = baseline_checksums[f]
    /\ touched \subseteq changed
    /\ tampered_files \subseteq Recorded \cap changed
    /\ tampered_files \cap todo = {}
    /\ phase = "checking" =>
          \A f \in Recorded : f \notin todo /\ f \notin touched =>
             (f \in tampered_files <=> disk[f] # baseline_checksums[f])

IntegrityInv == IntegrityTypeOK /\ Visits

SandboxInv ==
    /\ SandboxTypeOK
    /\ CommandOver
    /\ call = "waiting" => child \in {"running", "ok", "failed"}

WorkspaceInv == IntegrityInv /\ SandboxInv /\ sweep \subseteq Artifacts

-----------------------------------------------------------------------------
(* The integrity check.                                                    *)

LEMMA InitIntegrityInv == InitIntegrity => IntegrityInv
<1> SUFFICES ASSUME InitIntegrity PROVE IntegrityInv
  OBVIOUS
<1>1. NoChecksums \in [Files -> Contents \cup {Absent}] /\ Recorded = {}
  BY DEF InitIntegrity, NoChecksums, Recorded, Watched
<1>2. IntegrityTypeOK
  BY <1>1 DEF InitIntegrity, IntegrityTypeOK
<1>3. Visits
  BY <1>1 DEF InitIntegrity, Visits
<1> QED BY <1>2, <1>3 DEF IntegrityInv

LEMMA MakeEnginePreserves == IntegrityInv /\ MakeEngine => IntegrityInv'
<1> SUFFICES ASSUME IntegrityInv, MakeEngine PROVE IntegrityInv'
  OBVIOUS
<1>1. Recorded = {} /\ Recorded' = {}
  BY DEF IntegrityInv, Visits, MakeEngine, Recorded, Watched, NoChecksums
<1>2. IntegrityTypeOK'
  BY DEF IntegrityInv, IntegrityTypeOK, MakeEngine, Watched
<1>3. Visits'
  BY <1>1 DEF IntegrityInv, Visits, MakeEngine
<1> QED BY <1>2, <1>3 DEF IntegrityInv

LEMMA RecordFilePreserves ==
    ASSUME IntegrityInv, NEW f \in Files, RecordFile(f)
    PROVE  IntegrityInv'
<1>0. IntegrityTypeOK /\ Visits
  BY DEF IntegrityInv
<1>1. /\ phase = "recording" /\ f \in todo /\ todo' = todo \ {f}
      /\ disk' = disk /\ phase' = phase /\ tampered_files' = tampered_files
      /\ changed' = changed /\ touched' = touched
      /\ f \in Watched /\ tampered_files = {} /\ touched = {}
  BY <1>0 DEF RecordFile, IntegrityTypeOK, Visits
<1>2. CASE disk[f] \in Contents
  <2>1. /\ baseline_checksums' = [baseline_checksums EXCEPT ![f] = disk[f]]
        /\ baseline_checksums \in [Files -> Contents \cup {Absent}]
    BY <1>0, <1>2 DEF RecordFile, IntegrityTypeOK
  <2>2. /\ baseline_checksums' \in [Files -> Contents \cup {Absent}]
        /\ baseline_checksums'[f] = disk[f]
        /\ \A g \in Files : g # f => baseline_checksums'[g] = baseline_checksums[g]
    BY <1>2, <2>1
  <2>3. Recorded' = Recorded \cup {f}
    BY <1>1, <1>2, <2>2, FilesAssumption DEF Recorded, Watched
  <2>4. IntegrityTypeOK'
    BY <1>0, <1>1, <2>2 DEF IntegrityTypeOK, Watched
  <2>5. \A g \in Recorded' : g \notin changed => disk[g] = baseline_checksums'[g]
    BY <1>0, <2>2, <2>3 DEF Visits, Recorded, Watched
  <2>6. todo' \cap Recorded' = {}
    BY <1>0, <1>1, <2>3 DEF Visits
  <2>7. Visits'
    BY <1>0, <1>1, <2>3, <2>5, <2>6 DEF Visits
  <2> QED BY <2>4, <2>7 DEF IntegrityInv
<1>3. CASE disk[f] \notin Contents
  <2>1. baseline_checksums' = baseline_checksums
    BY <1>3 DEF RecordFile
  <2>2. Recorded' = Recorded
    BY <2>1 DEF Recorded, Watched
  <2>3. IntegrityTypeOK'
    BY <1>0, <1>1, <2>1 DEF IntegrityTypeOK, Watched
  <2>4. Visits'
    BY <1>0, <1>1, <2>1, <2>2 DEF Visits
  <2> QED BY <2>3, <2>4 DEF IntegrityInv
<1> QED BY <1>2, <1>3

LEMMA BeginCheckPreserves == IntegrityInv /\ BeginCheck => IntegrityInv'
<1> SUFFICES ASSUME IntegrityInv, BeginCheck PROVE IntegrityInv'
  OBVIOUS
<1>0. IntegrityTypeOK /\ Visits
  BY DEF IntegrityInv
<1>1. Recorded' = Recorded /\ Recorded \subseteq Watched
  BY DEF BeginCheck, Recorded, Watched
<1>2. IntegrityTypeOK'
  BY <1>0, <1>1 DEF IntegrityTypeOK, BeginCheck, Watched
<1>3. Visits'
  BY <1>0, <1>1 DEF Visits, BeginCheck
<1> QED BY <1>2, <1>3 DEF IntegrityInv

LEMMA CheckFilePreserves ==
    ASSUME IntegrityInv, NEW f \in Files, CheckFile(f)
    PROVE  IntegrityInv'
<1>0. IntegrityTypeOK /\ Visits
  BY DEF IntegrityInv
<1>1. /\ phase = "checking" /\ f \in todo /\ todo' = todo \ {f}
      /\ disk' = disk /\ phase' = phase /\ baseline_checksums' = baseline_checksums
      /\ changed' = changed /\ touched' = touched
      /\ f \in Recorded /\ f \notin tampered_files
  BY <1>0 DEF CheckFile, Visits
<1>2. Recorded' = Recorded /\ Recorded \subseteq Watched
  BY <1>1 DEF Recorded, Watched
<1>3. /\ disk[f] = baseline_checksums[f] => tampered_files' = tampered_files
      /\ disk[f] # baseline_checksums[f] => tampered_files' = tampered_files \cup {f}
  BY DEF CheckFile
<1>4. disk[f] # baseline_checksums[f] => f \in changed
  BY <1>0, <1>1 DEF Visits
<1>5. IntegrityTypeOK'
  BY <1>0, <1>1, <1>2, <1>3 DEF IntegrityTypeOK, Watched
<1>6. /\ tampered_files' \subseteq Recorded \cap changed
      /\ tampered_files' \cap todo' = {}
  BY <1>0, <1>1, <1>3, <1>4 DEF Visits
<1>7. \A g \in Recorded : g \notin todo' /\ g \notin touched =>
         (g \in tampered_files' <=> disk[g] # baseline_checksums[g])
  BY <1>0, <1>1, <1>3 DEF Visits
<1>8. Visits'
  BY <1>0, <1>1, <1>2, <1>6, <1>7 DEF Visits
<1> QED BY <1>5, <1>8 DEF IntegrityInv

LEMMA DropEnginePreserves == IntegrityInv /\ DropEngine => IntegrityInv'
<1> SUFFICES ASSUME IntegrityInv, DropEngine PROVE IntegrityInv'
  OBVIOUS
<1>0. IntegrityTypeOK /\ Visits
  BY DEF IntegrityInv
<1>1. NoChecksums \in [Files -> Contents \cup {Absent}] /\ Recorded' = {}
  BY DEF DropEngine, NoChecksums, Recorded, Watched
<1>2. IntegrityTypeOK'
  BY <1>0, <1>1 DEF DropEngine, IntegrityTypeOK, Watched
<1>3. Visits'
  BY <1>0, <1>1 DEF DropEngine, Visits
<1> QED BY <1>2, <1>3 DEF IntegrityInv

\* Somebody's change disturbs what is known of that one file only.
LEMMA ChangePreserves ==
    ASSUME IntegrityInv, NEW f \in Files, NEW content \in Contents \cup {Absent, Locked},
           Change(f, content)
    PROVE  IntegrityInv'
<1>0. IntegrityTypeOK /\ Visits
  BY DEF IntegrityInv
<1>1. /\ phase' = phase /\ todo' = todo /\ baseline_checksums' = baseline_checksums
      /\ tampered_files' = tampered_files
      /\ disk' \in [Files -> Contents \cup {Absent, Locked}]
      /\ \A g \in Files : g # f => disk'[g] = disk[g]
  BY <1>0 DEF Change, IntegrityTypeOK
<1>2. /\ phase = "none" => changed' = {}
      /\ phase # "none" => changed' = changed \cup {f}
      /\ phase = "checking" => touched' = touched \cup {f}
      /\ phase # "checking" => touched' = {}
  BY DEF Change
<1>3. Recorded' = Recorded /\ Recorded \subseteq Files
  BY <1>1 DEF Recorded, Watched
<1>4. phase = "none" => Recorded = {}
  BY <1>0 DEF Visits, Recorded, NoChecksums, Watched
<1>5. IntegrityTypeOK'
  BY <1>0, <1>1, <1>2 DEF IntegrityTypeOK, Watched
<1>6. /\ \A g \in Recorded : g \notin changed' => disk'[g] = baseline_checksums[g]
      /\ touched' \subseteq changed'
      /\ tampered_files \subseteq Recorded \cap changed'
  BY <1>0, <1>1, <1>2, <1>3, <1>4 DEF Visits
<1>7. phase = "checking" =>
         \A g \in Recorded : g \notin todo /\ g \notin touched' =>
            (g \in tampered_files <=> disk'[g] # baseline_checksums[g])
  BY <1>0, <1>1, <1>2, <1>3 DEF Visits
<1>8. Visits'
  BY <1>0, <1>1, <1>2, <1>3, <1>6, <1>7 DEF Visits
<1> QED BY <1>5, <1>8 DEF IntegrityInv

LEMMA IntegrityStutter == IntegrityInv /\ UNCHANGED integrityVars => IntegrityInv'
BY DEF IntegrityInv, IntegrityTypeOK, Visits, integrityVars, Recorded, Watched, NoChecksums

-----------------------------------------------------------------------------
(* The sandbox.                                                            *)

LEMMA SandboxStep == SandboxInv /\ [SandboxNext]_sandboxVars => SandboxInv'
<1> SUFFICES ASSUME SandboxInv, [SandboxNext]_sandboxVars PROVE SandboxInv'
  OBVIOUS
<1> USE DEF SandboxInv, SandboxTypeOK, CommandOver, Over, Results, LeftBehind
<1>1. CASE RunCommand
  BY <1>1 DEF RunCommand
<1>2. CASE RunFails
  BY <1>2 DEF RunFails
<1>3. CASE Finish
  BY <1>3 DEF Finish
<1>4. CASE TimeOut
  BY <1>4 DEF TimeOut
<1>5. CASE Drain
  BY <1>5 DEF Drain
<1>6. ASSUME NEW how \in {"ok", "failed"}, ChildEnds(how) PROVE SandboxInv'
  BY <1>6 DEF ChildEnds
<1>7. ASSUME NEW kind \in {"holding", "detached"}, Spawn(kind) PROVE SandboxInv'
  BY <1>7 DEF Spawn
<1>8. ASSUME NEW kind \in {"holding", "detached"}, NEW become \in {{}, {"detached"}},
             HeirsLeave(kind, become)
      PROVE  SandboxInv'
  BY <1>8 DEF HeirsLeave
<1>9. CASE CommunicateFails
  BY <1>9 DEF CommunicateFails
<1>10. CASE UNCHANGED sandboxVars
  BY <1>10 DEF sandboxVars
<1> QED BY <1>1, <1>2, <1>3, <1>4, <1>5, <1>6, <1>7, <1>8, <1>9, <1>10 DEF SandboxNext

-----------------------------------------------------------------------------
(* Both on one disk.                                                       *)

LEMMA InitWorkspaceInv == Init => WorkspaceInv
<1> SUFFICES ASSUME Init PROVE WorkspaceInv
  OBVIOUS
<1>1. SandboxInv
  BY DEF Init, InitSandbox, SandboxInv, SandboxTypeOK, CommandOver, Over, Results
<1> QED BY <1>1, InitIntegrityInv DEF Init, WorkspaceInv

LEMMA WorkspaceStep == WorkspaceInv /\ [Next]_vars => WorkspaceInv'
<1> SUFFICES ASSUME WorkspaceInv, [Next]_vars PROVE WorkspaceInv'
  OBVIOUS
<1>0. IntegrityInv /\ SandboxInv /\ sweep \subseteq Artifacts /\ Artifacts \subseteq Files
  BY FilesAssumption DEF WorkspaceInv
<1>1. CASE IntegrityNext /\ UNCHANGED <<sandboxVars, sweep>>
  <2>1. IntegrityInv'
    BY <1>0, <1>1, MakeEnginePreserves, RecordFilePreserves, BeginCheckPreserves,
       CheckFilePreserves, DropEnginePreserves DEF IntegrityNext
  <2> QED BY <1>0, <1>1, <2>1, SandboxStep DEF WorkspaceInv
<1>2. CASE SandboxNext /\ UNCHANGED <<integrityVars, sweep>>
  BY <1>0, <1>2, SandboxStep, IntegrityStutter DEF WorkspaceInv
<1>3. CASE CommandWrites
  BY <1>0, <1>3, SandboxStep, ChangePreserves DEF CommandWrites, WorkspaceInv
<1>4. CASE WritePayload
  BY <1>0, <1>4, SandboxStep, ChangePreserves DEF WritePayload, WorkspaceInv
<1>5. CASE CleanUp
  BY <1>0, <1>5, SandboxStep, IntegrityStutter DEF CleanUp, WorkspaceInv
<1>6. ASSUME NEW f \in Artifacts, RemoveItem(f) PROVE WorkspaceInv'
  BY <1>0, <1>6, SandboxStep, ChangePreserves, IntegrityStutter DEF RemoveItem, WorkspaceInv
<1>7. CASE UNCHANGED vars
  <2>1. UNCHANGED integrityVars /\ UNCHANGED sandboxVars /\ UNCHANGED sweep
    BY <1>7 DEF vars, integrityVars, sandboxVars
  <2> QED BY <1>0, <2>1, SandboxStep, IntegrityStutter DEF WorkspaceInv
<1> QED BY <1>1, <1>2, <1>3, <1>4, <1>5, <1>6, <1>7 DEF Next

LEMMA WorkspaceInvariant == Spec => []WorkspaceInv
BY InitWorkspaceInv, WorkspaceStep, PTL DEF Spec

\* The types of the variables.
THEOREM WorkspaceTypes == Spec => []TypeOK
<1>1. WorkspaceInv => TypeOK
  BY DEF WorkspaceInv, IntegrityInv, SandboxInv, TypeOK
<1> QED BY <1>1, WorkspaceInvariant, PTL

\* A check names what differs from its baseline and nothing that was left
\* alone since its engine was made, whatever is changed while it goes on.
THEOREM ReportsAreRight == Spec => []ReportsWhatChanged
<1>1. WorkspaceInv => ReportsWhatChanged
  BY DEF WorkspaceInv, IntegrityInv, Visits, ReportsWhatChanged
<1> QED BY <1>1, WorkspaceInvariant, PTL

\* What a call reports of the command is true, and whoever is told how it ended
\* or that it timed out has no child left and nobody at its pipes; only an error
\* or an exception leaves a child running.
THEOREM CommandsEnd == Spec => []CommandOver
<1>1. WorkspaceInv => CommandOver
  BY DEF WorkspaceInv, SandboxInv
<1> QED BY <1>1, WorkspaceInvariant, PTL
=============================================================================
