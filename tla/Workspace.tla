------------------------------- MODULE Workspace -------------------------------
(***************************************************************************)
(* The sandbox and the file integrity check on one disk.  A sandboxed      *)
(* command runs in the sandbox's directory, but with the server's rights:  *)
(* it and the processes it leaves may change files anywhere.  (Whoever     *)
(* else changes files counts as a detached process.)  The harness writes   *)
(* refused payloads into the directory, and cleanup_sandbox empties it.    *)
(***************************************************************************)
EXTENDS Integrity, Sandbox

VARIABLE sweep  \* what cleanup_sandbox has yet to remove

vars == <<disk, phase, todo, baseline_checksums, tampered_files, changed, touched,
          call, child, heirs, result, sweep>>

Init == InitIntegrity /\ InitSandbox /\ sweep = {}

\* A command, or what is left of one, changes a file.
CommandWrites ==
    /\ Alive
    /\ \E f \in Files : \E content \in Contents \cup {Absent, Locked} : Change(f, content)
    /\ UNCHANGED <<sandboxVars, sweep>>

\* write_payload_to_sandbox()
WritePayload ==
    /\ \E f \in Artifacts, content \in Contents : Change(f, content)
    /\ UNCHANGED <<sandboxVars, sweep>>

\* cleanup_sandbox() lists the directory.
CleanUp ==
    /\ sweep = {}
    /\ sweep' = {f \in Artifacts : disk[f] # Absent}
    /\ UNCHANGED <<integrityVars, sandboxVars>>

\* An item is removed; one that cannot be is passed over.
RemoveItem(f) ==
    /\ f \in sweep
    /\ sweep' = sweep \ {f}
    /\ Change(f, Absent) \/ UNCHANGED integrityVars
    /\ UNCHANGED sandboxVars

IntegrityNext ==
    \/ MakeEngine \/ BeginCheck \/ DropEngine
    \/ \E f \in Files : RecordFile(f) \/ CheckFile(f)

Next ==
    \/ IntegrityNext /\ UNCHANGED <<sandboxVars, sweep>>
    \/ SandboxNext /\ UNCHANGED <<integrityVars, sweep>>
    \/ CommandWrites \/ WritePayload \/ CleanUp
    \/ \E f \in Artifacts : RemoveItem(f)

Spec == Init /\ [][Next]_vars

FairSpec == Spec /\ SandboxFairness

-----------------------------------------------------------------------------

TypeOK == IntegrityTypeOK /\ SandboxTypeOK /\ sweep \subseteq Artifacts
=============================================================================
