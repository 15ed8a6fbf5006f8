------------------------ MODULE BarrierServiceProofs ------------------------
(***************************************************************************)
(* However often barrier is started, stopped, crashes and is restarted, the *)
(* client and the server of a device never run together.                    *)
(***************************************************************************)
EXTENDS BarrierService, TLAPS

\* No two services run among the processes p.
Alone(p) == p \in [Service -> State] /\ ~(p["client"] = "running" /\ p["server"] = "running")

\* terminateAllBarriers leaves no process running.
LEMMA TerminateAll ==
    ASSUME NEW p \in [Service -> State]
    PROVE  /\ TerminateAllBarriers(p) \in [Service -> State]
           /\ \A s \in Service : TerminateAllBarriers(p)[s] # "running"
BY DEF TerminateAllBarriers, State

\* stopBarrier starts nothing.
LEMMA Stopping ==
    ASSUME NEW p, Alone(p), NEW s \in Service
    PROVE  Alone(StopBarrier(p, s))
<1>1. CASE p[s] = "none"
  BY <1>1, TerminateAll DEF Alone, StopBarrier, Service
<1>2. CASE p[s] # "none"
  BY <1>2 DEF Alone, StopBarrier, Service, State
<1>3. QED
  BY <1>1, <1>2

\* startBarrier leaves its own process, if any.
LEMMA Starting ==
    ASSUME NEW p, Alone(p), NEW s \in Service, NEW has \in BOOLEAN, NEW ok \in BOOLEAN
    PROVE  Alone(StartBarrier(p, s, has, ok))
<1>1. CASE ~ArgsOK(s, has)
  BY <1>1, Stopping DEF StartBarrier
<1>2. CASE ArgsOK(s, has)
  <2> DEFINE t == TerminateAllBarriers(p)
             v == IF ok THEN "running" ELSE "exited"
  <2>1. t \in [Service -> State] /\ \A x \in Service : t[x] # "running"
    BY TerminateAll DEF Alone
  <2>2. StartBarrier(p, s, has, ok) = [t EXCEPT ![s] = v] /\ v \in State
    BY <1>2 DEF StartBarrier, State
  <2> HIDE DEF t, v
  <2>3. QED
    BY <2>1, <2>2 DEF Alone, Service
<1>3. QED
  BY <1>1, <1>2

\* The client and the server process of a device never run together, for any
\* number of calls, crashes, pending restarts and programs that fail to start.
THEOREM ProcessesExclude == Spec => []OneProcess
<1> DEFINE Inv == target \in BOOLEAN /\ Alone(proc)
<1>1. Init => Inv
  BY DEF Init, Alone, Service, State
<1>2. Inv /\ [Next]_vars => Inv'
  <2> SUFFICES ASSUME Inv, [Next]_vars
               PROVE  Inv'
    OBVIOUS
  <2> SUFFICES target' \in BOOLEAN /\ Alone(proc')
    BY DEF Alone
  <2>1. ASSUME NEW ok \in BOOLEAN, StartClient(ok)
        PROVE  target' \in BOOLEAN /\ Alone(proc')
    BY <2>1, Starting DEF StartClient, Service
  <2>2. ASSUME NEW ok \in BOOLEAN, StartServer(ok)
        PROVE  target' \in BOOLEAN /\ Alone(proc')
    BY <2>2, Starting, Stopping DEF StartServer, RestartBarrier, Service
  <2>3. ASSUME NEW ok \in BOOLEAN, NEW s \in Service, RestartDue(s, ok)
        PROVE  target' \in BOOLEAN /\ Alone(proc')
    BY <2>3, Starting, Stopping DEF RestartDue, RestartBarrier
  <2>4. CASE Accept
    BY <2>4 DEF Accept
  <2>5. CASE StopClient \/ Stop \/ HandleStopShareServer
    BY <2>5, Stopping DEF StopClient, Stop, HandleStopShareServer, Service
  <2>6. ASSUME NEW s \in Service, NEW failed \in BOOLEAN, BarrierFinished(s, failed)
        PROVE  target' \in BOOLEAN /\ Alone(proc')
    BY <2>6 DEF BarrierFinished, Alone, Service, State
  <2>7. ASSUME NEW s \in Service, NEW failed \in BOOLEAN, LeakedFinished(s, failed)
        PROVE  target' \in BOOLEAN /\ Alone(proc')
    BY <2>7 DEF LeakedFinished
  <2>8. CASE UNCHANGED vars
    BY <2>8 DEF vars
  <2>9. QED
    BY <2>1, <2>2, <2>3, <2>4, <2>5, <2>6, <2>7, <2>8 DEF Next
<1>3. Inv => OneProcess
  BY DEF Alone, OneProcess
<1>4. QED
  BY <1>1, <1>2, <1>3, PTL DEF Spec
=============================================================================
