------------------------------- MODULE Integrity -------------------------------
(***************************************************************************)
(* The file integrity check of AntiTamperEngine (security/anti_tamper.py): *)
(* a baseline of the files below the root, taken file by file when the     *)
(* engine is made, and the comparison with it, again file by file.  Others *)
(* go on changing files meanwhile.                                         *)
(*                                                                         *)
(* The dashboard makes an engine for each request, checks once and drops   *)
(* it (dashboard/server.py); other engines live on and may check again.    *)
(* Equal hashes stand for equal contents.                                  *)
(***************************************************************************)
EXTENDS FiniteSets

CONSTANTS
    Files,     \* .py and .json files below the root
    Artifacts, \* those in the sandbox's directory
    Contents,
    Absent,    \* there is no such file, or none in the baseline
    Locked     \* the file cannot be read

ASSUME FilesAssumption ==
    Artifacts \subseteq Files /\ Absent \notin Contents /\ Locked \notin Contents

VARIABLES
    disk,               \* what is in each file
    phase,              \* of the engine: none, recording or checking
    todo,               \* the files it has yet to visit
    baseline_checksums,
    tampered_files,     \* what its check has found
    changed,            \* history: files changed since the engine was made
    touched             \* history: files changed since its check began

integrityVars ==
    <<disk, phase, todo, baseline_checksums, tampered_files, changed, touched>>

NoChecksums == [f \in Files |-> Absent]

InitIntegrity ==
    /\ disk \in [Files -> Contents \cup {Absent}]
    /\ phase = "none" /\ todo = {}
    /\ baseline_checksums = NoChecksums
    /\ tampered_files = {}
    /\ changed = {} /\ touched = {}

\* The files the walk does not skip.
Watched == Files \ Artifacts

Recorded == {f \in Watched : baseline_checksums[f] # Absent}

-----------------------------------------------------------------------------

\* AntiTamperEngine() begins to take its baseline.
MakeEngine ==
    /\ phase = "none"
    /\ phase' = "recording"
    /\ todo' = Watched
    /\ UNCHANGED <<disk, baseline_checksums, tampered_files, changed, touched>>

\* Faulty variant: an unreadable file is recorded too.
RecordFile_unread(f) ==
    /\ phase = "recording" /\ f \in todo
    /\ todo' = todo \ {f}
    /\ baseline_checksums' = [baseline_checksums EXCEPT ![f] = disk[f]]
    /\ UNCHANGED <<disk, phase, tampered_files, changed, touched>>

\* A file that is not there or cannot be read is left out.
RecordFile(f) ==
    /\ phase = "recording" /\ f \in todo
    /\ todo' = todo \ {f}
    /\ baseline_checksums' =
          IF disk[f] \in Contents THEN [baseline_checksums EXCEPT ![f] = disk[f]]
                                  ELSE baseline_checksums
    /\ UNCHANGED <<disk, phase, tampered_files, changed, touched>>

\* Faulty variant: what the check before found is kept.
BeginCheck_kept ==
    /\ phase # "none" /\ todo = {}
    /\ phase' = "checking"
    /\ todo' = Recorded
    /\ touched' = {}
    /\ UNCHANGED <<disk, baseline_checksums, tampered_files, changed>>

\* check_binary_integrity() begins.
BeginCheck ==
    /\ phase # "none" /\ todo = {}
    /\ phase' = "checking"
    /\ todo' = Recorded
    /\ tampered_files' = {}
    /\ touched' = {}
    /\ UNCHANGED <<disk, baseline_checksums, changed>>

\* One file of it: deleted, unreadable or modified.
CheckFile(f) ==
    /\ phase = "checking" /\ f \in todo
    /\ todo' = todo \ {f}
    /\ tampered_files' = IF disk[f] = baseline_checksums[f] THEN tampered_files
                         ELSE tampered_files \cup {f}
    /\ UNCHANGED <<disk, phase, baseline_checksums, changed, touched>>

\* The request is answered, and its engine forgotten.
DropEngine ==
    /\ phase = "checking" /\ todo = {}
    /\ phase' = "none"
    /\ baseline_checksums' = NoChecksums
    /\ tampered_files' = {}
    /\ changed' = {} /\ touched' = {}
    /\ UNCHANGED <<disk, todo>>

\* Someone writes, deletes or locks a file, or unlocks it.
Change(f, content) ==
    /\ content # disk[f]
    /\ disk' = [disk EXCEPT ![f] = content]
    /\ changed' = IF phase = "none" THEN {} ELSE changed \cup {f}
    /\ touched' = IF phase = "checking" THEN touched \cup {f} ELSE {}
    /\ UNCHANGED <<phase, todo, baseline_checksums, tampered_files>>

-----------------------------------------------------------------------------

IntegrityTypeOK ==
    /\ disk \in [Files -> Contents \cup {Absent, Locked}]
    /\ phase \in {"none", "recording", "checking"}
    /\ todo \subseteq Watched /\ tampered_files \subseteq Watched
    /\ baseline_checksums \in [Files -> Contents \cup {Absent}]
    /\ changed \subseteq Files /\ touched \subseteq Files

\* A check that is over names every recorded file that differs from the
\* baseline, unless someone changed it in the midst of the check, and no file
\* that was left alone since the engine was made.  A request that makes an
\* engine of its own thus tells nothing of what was changed before it, and
\* files that are new or lie in the sandbox never count as tampering.
ReportsWhatChanged ==
    phase = "checking" =>
        /\ tampered_files \subseteq Recorded \cap changed
        /\ todo = {} =>
              \A f \in Recorded \ touched :
                  f \in tampered_files <=> disk[f] # baseline_checksums[f]
=============================================================================
