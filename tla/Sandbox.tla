-------------------------------- MODULE Sandbox --------------------------------
(***************************************************************************)
(* ProcessSandbox.run_isolated_command (core/sandbox.py): a command runs   *)
(* with pipes to the caller, communicate() waits for it with a time-out,   *)
(* and after the time-out the child is killed and waited for without one.  *)
(*                                                                         *)
(* The child may start further processes, its heirs.  Those that inherit   *)
(* the pipes keep the caller waiting, which must see the pipes' end;       *)
(* detached ones do not.  Nobody kills either.  Waiting can fail as well   *)
(* (no memory for the output), and then nobody kills the child.            *)
(***************************************************************************)
EXTENDS Naturals

VARIABLES
    call,   \* the caller: idle, waiting, or draining after the time-out
    child,  \* none, running, or how it ended: ok, failed, killed
    heirs,  \* the kinds of processes it left, or has by now: holding, detached
    result  \* how the last call ended

sandboxVars == <<call, child, heirs, result>>

\* What the caller is told: the command's success or failure, that it timed
\* out, an error of the execution, or nothing but an exception.
Results == {"success", "failure", "timed_out", "error", "raised"}

InitSandbox ==
    call = "idle" /\ child = "none" /\ heirs = {} /\ result = "none"

Over == child # "running" /\ "holding" \notin heirs

Alive == child = "running" \/ heirs # {}

\* Whoever an earlier call left holds none of a later call's pipes.
LeftBehind == IF Alive THEN {"detached"} ELSE {}

-----------------------------------------------------------------------------
(* The caller.                                                             *)

\* Popen starts the command.
RunCommand ==
    /\ call = "idle"
    /\ call' = "waiting" /\ child' = "running" /\ result' = "none"
    /\ heirs' = LeftBehind

\* It cannot be started: an error is the result.
RunFails ==
    /\ call = "idle"
    /\ child' = "none" /\ result' = "error"
    /\ heirs' = LeftBehind
    /\ UNCHANGED call

\* communicate() returns in time.
Finish ==
    /\ call = "waiting" /\ Over
    /\ call' = "idle"
    /\ result' = IF child = "ok" THEN "success" ELSE "failure"
    /\ UNCHANGED <<child, heirs>>

\* communicate() raises something else than TimeoutExpired: an error is the
\* result.  Within the handler of the time-out, kill() or the second
\* communicate() raises: no clause of this try catches that.  Either way the
\* child stays as it is, and is no longer waited for.
CommunicateFails ==
    /\ \/ call = "waiting" /\ result' \in {"error", "raised"}
       \/ call = "draining" /\ result' = "raised"
    /\ call' = "idle"
    /\ UNCHANGED <<child, heirs>>

\* Faulty variant: the child is waited for, but not killed.
TimeOut_mild ==
    /\ call = "waiting"
    /\ call' = "draining"
    /\ UNCHANGED <<child, heirs, result>>

\* TimeoutExpired: the child is killed, unless it has ended by itself.
TimeOut ==
    /\ call = "waiting"
    /\ call' = "draining"
    /\ child' = IF child = "running" THEN "killed" ELSE child
    /\ UNCHANGED <<heirs, result>>

\* Faulty variant: the pipes are not waited for.
Drain_hasty ==
    /\ call = "draining" /\ child # "running"
    /\ call' = "idle"
    /\ result' = "timed_out"
    /\ UNCHANGED <<child, heirs>>

\* The second communicate(), without a time-out, returns.
Drain ==
    /\ call = "draining" /\ Over
    /\ call' = "idle"
    /\ result' = "timed_out"
    /\ UNCHANGED <<child, heirs>>

-----------------------------------------------------------------------------
(* The command.                                                            *)

ChildEnds(how) ==
    /\ child = "running"
    /\ child' = how
    /\ UNCHANGED <<call, heirs, result>>

\* The pipes are handed on by those who hold them.
Spawn(kind) ==
    /\ child = "running" \/ "holding" \in heirs \/ (kind = "detached" /\ heirs # {})
    /\ heirs' = heirs \cup {kind}
    /\ UNCHANGED <<call, child, result>>

\* The last heirs of a kind end, or close the pipes and go on.
HeirsLeave(kind, become) ==
    /\ kind \in heirs
    /\ heirs' = (heirs \ {kind}) \cup become
    /\ UNCHANGED <<call, child, result>>

SandboxNext ==
    \/ RunCommand \/ RunFails \/ Finish \/ CommunicateFails \/ TimeOut \/ Drain
    \/ \E how \in {"ok", "failed"} : ChildEnds(how)
    \/ \E kind \in {"holding", "detached"} :
          Spawn(kind) \/ \E become \in {{}, {"detached"}} : HeirsLeave(kind, become)

\* The caller's thread runs, and its clock.  Nothing is assumed of commands,
\* and nothing makes waiting fail.
SandboxFairness ==
    WF_sandboxVars(Finish) /\ WF_sandboxVars(TimeOut) /\ WF_sandboxVars(Drain)

-----------------------------------------------------------------------------

SandboxTypeOK ==
    /\ call \in {"idle", "waiting", "draining"}
    /\ child \in {"none", "running", "ok", "failed", "killed"}
    /\ heirs \subseteq {"holding", "detached"}
    /\ result \in Results \cup {"none"}

\* Whoever is told how the command ended, or that its time was out, is told
\* the truth, and finds no child left behind, nor anyone who could still write
\* to its output.  A command that was killed is never reported as anything
\* but timed out.  Only a call that ends with an error or an exception may
\* leave its child running: the except clauses (sandbox.py:79-100) kill it
\* after TimeoutExpired alone.
CommandOver ==
    call = "idle" =>
        /\ ~ Over => result \in {"error", "raised"}
        /\ result = "success" => child = "ok"
        /\ result = "failure" => child = "failed"
        /\ child = "killed" => result \in {"timed_out", "raised"}

\* A command cannot hold the caller beyond its time-out: only a process it
\* started can, by keeping the pipes for ever.  So the "strict time limits" of
\* sandbox.py:41 and src/README.md:14 bind the command and not what it starts
\* (the test, test_exhaustive.py:222, has no such process).
RunReturns ==
    call # "idle" ~> call = "idle" \/ [] ("holding" \in heirs)
=============================================================================
