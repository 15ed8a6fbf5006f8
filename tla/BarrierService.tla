--------------------------- MODULE BarrierService ---------------------------
(***************************************************************************)
(* The supervision of the barrier processes of one device: the client and  *)
(* the server ShareCooperationService, their manager, and the automatic    *)
(* restart, one second later, of a process that exits with an error.  On   *)
(* Linux a service terminates every barrier process by name before it      *)
(* starts its own, and also when it is stopped without having one.  A      *)
(* process that was sent the signal counts as gone; its exit code, which   *)
(* barrier chooses, is reported later.                                     *)
(***************************************************************************)
EXTENDS Integers

CONSTANTS
    MaxCalls,      \* bound: calls of ShareHelper
    MaxCrashes,    \* bound: processes that exit by themselves or with an error
    MaxFailures    \* bound: programs that cannot be started

VARIABLES
    proc,        \* [Service -> State]: the QProcess object of the service
    leaked,      \* [Service -> Nat]: terminated QProcess objects it has replaced
    expected,    \* [Service -> BOOLEAN]: _expectedRunning
    restarts,    \* [Service -> Nat]: single-shot timers that call restartBarrier
    target,      \* the client has a target address
    stopping,    \* stopShareServer signals in the event queue
    calls, crashes, failures

vars == <<proc, leaked, expected, restarts, target, stopping, calls, crashes, failures>>

Service == {"client", "server"}

\* No object; a process that runs; one terminated by name whose finished signal
\* is still to come; one that has finished, or never started.
State == {"none", "running", "terminated", "exited"}

ASSUME BarrierAssumption ==
    MaxCalls \in Nat /\ MaxCrashes \in Nat /\ MaxFailures \in Nat

\* The variables hold values of their types.
TypeOK ==
    /\ proc \in [Service -> State] /\ leaked \in [Service -> 0..MaxCalls]
    /\ expected \in [Service -> BOOLEAN]
    /\ restarts \in [Service -> 0..MaxCrashes]
    /\ target \in BOOLEAN /\ stopping \in 0..MaxCalls
    /\ calls \in 0..MaxCalls /\ crashes \in 0..MaxCrashes /\ failures \in 0..MaxFailures

Init ==
    /\ proc = [s \in Service |-> "none"] /\ leaked = [s \in Service |-> 0]
    /\ expected = [s \in Service |-> FALSE]
    /\ restarts = [s \in Service |-> 0]
    /\ target = FALSE /\ stopping = 0
    /\ calls = 0 /\ crashes = 0 /\ failures = 0

-----------------------------------------------------------------------------
(* The processes after an operation of service s, from the processes p. *)

TerminateAllBarriers(p) == [s \in Service |-> IF p[s] = "running" THEN "terminated" ELSE p[s]]

\* The service waits for its own process and deletes the object with whatever
\* it had to report.
StopBarrier(p, s) ==
    IF p[s] = "none" THEN TerminateAllBarriers(p) ELSE [p EXCEPT ![s] = "none"]

\* Whether the arguments of the program can be made up (has: the client has a
\* target).
ArgsOK(s, has) == s = "server" \/ has

\* Mutant: a service starts beside whatever else runs.
StartBarrierBeside(p, s, has, ok) ==
    IF ~ArgsOK(s, has) THEN StopBarrier(p, s)
    ELSE [p EXCEPT ![s] = IF ok THEN "running" ELSE "exited"]

\* ok: the program can be started.
StartBarrier(p, s, has, ok) ==
    IF ~ArgsOK(s, has) THEN StopBarrier(p, s)
    ELSE [TerminateAllBarriers(p) EXCEPT ![s] = IF ok THEN "running" ELSE "exited"]

RestartBarrier(p, s, has, ok) == StartBarrier(StopBarrier(p, s), s, has, ok)

Ok(ok) == IF ok THEN UNCHANGED failures ELSE failures < MaxFailures /\ failures' = failures + 1
Call == calls < MaxCalls /\ calls' = calls + 1

-----------------------------------------------------------------------------
(* Calls of ShareHelper. *)

\* An application is accepted: the client will connect to the applicant.
Accept ==
    /\ Call
    /\ target' = TRUE
    /\ UNCHANGED <<proc, leaked, expected, restarts, stopping, crashes, failures>>

\* Unlike a restart, a start does not stop the service first: an object that is
\* there is replaced, its finished signal stays connected.
StartClient(ok) ==
    /\ Call /\ Ok(ok)
    /\ target' = TRUE
    /\ proc' = StartBarrier(proc, "client", TRUE, ok)
    /\ leaked' = IF proc["client"] \in {"running", "terminated"}
                 THEN [leaked EXCEPT !["client"] = @ + 1] ELSE leaked
    /\ expected' = [expected EXCEPT !["client"] = TRUE]
    /\ UNCHANGED <<restarts, stopping, crashes>>

StartServer(ok) ==
    /\ Call /\ Ok(ok)
    /\ proc' = RestartBarrier(proc, "server", target, ok)
    /\ expected' = [expected EXCEPT !["server"] = TRUE]
    /\ UNCHANGED <<leaked, restarts, target, stopping, crashes>>

\* Peripheral sharing is switched off.
StopClient ==
    /\ Call
    /\ proc' = StopBarrier(proc, "client")
    /\ expected' = [expected EXCEPT !["client"] = FALSE]
    /\ UNCHANGED <<leaked, restarts, target, stopping, crashes, failures>>

\* A cooperation ends: the client stops at once, the server by a queued signal.
Stop ==
    /\ Call
    /\ proc' = StopBarrier(proc, "client")
    /\ expected' = [expected EXCEPT !["client"] = FALSE]
    /\ target' = FALSE
    /\ stopping' = stopping + 1
    /\ UNCHANGED <<leaked, restarts, crashes, failures>>

-----------------------------------------------------------------------------
(* Events. *)

HandleStopShareServer ==
    /\ stopping > 0
    /\ stopping' = stopping - 1
    /\ proc' = StopBarrier(proc, "server")
    /\ expected' = [expected EXCEPT !["server"] = FALSE]
    /\ UNCHANGED <<leaked, restarts, target, calls, crashes, failures>>

\* A process that was terminated or exits by itself is reported; a failure is
\* answered by a restart one second later.
BarrierFinished(s, failed) ==
    /\ proc[s] \in {"running", "terminated"} /\ crashes < MaxCrashes
    /\ proc' = [proc EXCEPT ![s] = "exited"]
    /\ restarts' = IF failed /\ expected[s] THEN [restarts EXCEPT ![s] = @ + 1] ELSE restarts
    /\ crashes' = crashes + 1
    /\ UNCHANGED <<leaked, expected, target, stopping, calls, failures>>

\* The same slot, called by an object that was replaced.
LeakedFinished(s, failed) ==
    /\ leaked[s] > 0 /\ crashes < MaxCrashes
    /\ leaked' = [leaked EXCEPT ![s] = @ - 1]
    /\ restarts' = IF failed /\ expected[s] THEN [restarts EXCEPT ![s] = @ + 1] ELSE restarts
    /\ crashes' = crashes + 1
    /\ UNCHANGED <<proc, expected, target, stopping, calls, failures>>

\* Mutant: a restart without a timer.
RestartDueUnasked(s, ok) ==
    /\ Ok(ok)
    /\ restarts' = [restarts EXCEPT ![s] = @ - 1]
    /\ proc' = RestartBarrier(proc, s, target, ok)
    /\ expected' = [expected EXCEPT ![s] = ArgsOK(s, target)]
    /\ UNCHANGED <<leaked, target, stopping, calls, crashes>>

\* Mutant: the restart stops the service and does not start it.
RestartDueOnlyStops(s, ok) ==
    /\ restarts[s] > 0 /\ Ok(ok)
    /\ restarts' = [restarts EXCEPT ![s] = @ - 1]
    /\ proc' = StopBarrier(proc, s)
    /\ UNCHANGED <<leaked, expected, target, stopping, calls, crashes>>

RestartDue(s, ok) ==
    /\ restarts[s] > 0 /\ Ok(ok)
    /\ restarts' = [restarts EXCEPT ![s] = @ - 1]
    /\ proc' = RestartBarrier(proc, s, target, ok)
    /\ expected' = [expected EXCEPT ![s] = ArgsOK(s, target)]
    /\ UNCHANGED <<leaked, target, stopping, calls, crashes>>

Next ==
    \/ \E ok \in BOOLEAN : StartClient(ok) \/ StartServer(ok) \/ (\E s \in Service : RestartDue(s, ok))
    \/ Accept \/ StopClient \/ Stop \/ HandleStopShareServer
    \/ \E s \in Service, failed \in BOOLEAN : BarrierFinished(s, failed) \/ LeakedFinished(s, failed)

Spec == Init /\ [][Next]_vars
\* Timers fire and queued signals are delivered.
FairSpec ==
    /\ Spec /\ WF_vars(HandleStopShareServer)
    /\ \A s \in Service : WF_vars(\E ok \in BOOLEAN : RestartDue(s, ok))

-----------------------------------------------------------------------------
(* Properties. *)

\* The client and the server process of a device never run together, whatever
\* restarts are pending.
OneProcess == ~(proc["client"] = "running" /\ proc["server"] = "running")

\* A service that is expected to run and whose process has crashed runs
\* again, unless it is stopped meanwhile or its program cannot be started.
CrashIsRevived ==
    \A s \in Service :
        (restarts[s] > 0 /\ expected[s]) ~> (proc[s] = "running" \/ ~expected[s] \/ failures > 0)

\* A restart that becomes due starts a service only if the service is still
\* expected to run.
RestartOnlyIfExpected ==
    [][\A s \in Service : restarts'[s] < restarts[s] => expected[s]]_vars

=============================================================================
