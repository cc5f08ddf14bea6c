--------------------------- MODULE VmGroupProofs ---------------------------
(***************************************************************************)
(* Proofs about VmGroup, for any number of machines: no command resets the *)
(* host under machines that use it.                                        *)
(*                                                                         *)
(* A reset is guarded by the flag of the handler alone, so that the proof  *)
(* is about what the flag stands for: while it is not set, either the      *)
(* start message was never sent, or all have sent their stop (Calm). The   *)
(* window between the message and the flag is closed because an exception  *)
(* in it always ends the job, which needs that only a boot starts machines.*)
(***************************************************************************)
EXTENDS VmGroup, TLAPS

(* No machine has begun, or each has said that it is off.                  *)
Calm == begun => Vm \subseteq stopped

(* Where the dispatcher of the host may reset the device, or is on its way.*)
MayReset == host \in {"idle", "wait_for_vms", "reset", "booting"}

HostInv ==
  /\ host \in {"reset", "booting", "start_vms", "starting"} => ~vmsStarted
  /\ host \in {"stop", "waiting"} => vmsStarted
  /\ host \in {"start_vms", "starting"} => doing = "boot"
  /\ host = "idle" => doing # "retrieve"
  /\ MayReset /\ ~vmsStarted /\ doing # "retrieve" => Calm

(* A machine uses the host after the start message, and until it has sent  *)
(* its own, if its job does not go on after that.                          *)
VmInv(v) ==
  /\ vm[v] \notin {"await", "dead"} => begun
  /\ vm[v] \in {"await", "dead", "stop"} => v \notin qemu
  /\ v \in stopped /\ termed[v] # "goes_on" => vm[v] = "over" /\ v \notin qemu

GroupInv == TypeOK /\ HostInv /\ \A v \in Vm : VmInv(v)

-----------------------------------------------------------------------------

(* The steps of the host leave the dispatchers of the machines alone.      *)
LEMMA HostStepInv == GroupInv /\ (HostStep \/ HostTerm) => GroupInv'
<1> SUFFICES ASSUME GroupInv, HostStep \/ HostTerm PROVE GroupInv'
  OBVIOUS
<1> USE GroupAssumption DEF GroupInv, hostVars, device, messages, vms
<1>1. CASE HostCommand
  <2>1. TypeOK'
    BY <1>1 DEF HostCommand, TypeOK
  <2>2. HostInv'
    BY <1>1 DEF HostCommand, HostInv, TypeOK, Calm, MayReset
  <2>3. \A v \in Vm : VmInv(v)'
    BY <1>1 DEF HostCommand, VmInv
  <2> QED BY <2>1, <2>2, <2>3
<1>2. CASE WaitForVms
  <2>1. TypeOK'
    BY <1>2 DEF WaitForVms, TypeOK
  <2>2. HostInv'
    BY <1>2 DEF WaitForVms, HostInv, TypeOK, Calm, MayReset
  <2>3. \A v \in Vm : VmInv(v)'
    BY <1>2 DEF WaitForVms, VmInv
  <2> QED BY <2>1, <2>2, <2>3
<1>3. CASE SendStop
  <2>1. TypeOK'
    BY <1>3 DEF SendStop, TypeOK
  <2>2. HostInv'
    BY <1>3 DEF SendStop, HostInv, TypeOK, Calm, MayReset
  <2>3. \A v \in Vm : VmInv(v)'
    BY <1>3 DEF SendStop, VmInv
  <2> QED BY <2>1, <2>2, <2>3
<1>4. CASE AllStopped
  <2>1. TypeOK'
    BY <1>4 DEF AllStopped, TypeOK
  <2>2. HostInv'
    BY <1>4 DEF AllStopped, HostInv, TypeOK, Calm, MayReset
  <2>3. \A v \in Vm : VmInv(v)'
    BY <1>4 DEF AllStopped, VmInv
  <2> QED BY <2>1, <2>2, <2>3
<1>5. CASE StopNack
  <2>1. TypeOK'
    BY <1>5 DEF StopNack, Raises, TypeOK
  <2>2. HostInv'
    BY <1>5 DEF StopNack, Raises, HostInv, TypeOK, Calm, MayReset
  <2>3. \A v \in Vm : VmInv(v)'
    BY <1>5 DEF StopNack, VmInv
  <2> QED BY <2>1, <2>2, <2>3
<1>6. CASE Reset
  <2>1. TypeOK'
    BY <1>6 DEF Reset, TypeOK
  <2>2. HostInv'
    BY <1>6 DEF Reset, HostInv, TypeOK, Calm, MayReset
  <2>3. \A v \in Vm : VmInv(v)'
    BY <1>6 DEF Reset, VmInv
  <2> QED BY <2>1, <2>2, <2>3
<1>7. CASE Booted
  <2>1. TypeOK'
    BY <1>7 DEF Booted, TypeOK
  <2>2. HostInv'
    BY <1>7 DEF Booted, HostInv, TypeOK, Calm, MayReset
  <2>3. \A v \in Vm : VmInv(v)'
    BY <1>7 DEF Booted, VmInv
  <2> QED BY <2>1, <2>2, <2>3
<1>8. CASE BootFails
  <2>1. TypeOK'
    BY <1>8 DEF BootFails, Raises, TypeOK
  <2>2. HostInv'
    BY <1>8 DEF BootFails, Raises, HostInv, TypeOK, Calm, MayReset
  <2>3. \A v \in Vm : VmInv(v)'
    BY <1>8 DEF BootFails, VmInv
  <2> QED BY <2>1, <2>2, <2>3
<1>9. CASE SendStart
  <2>1. TypeOK'
    BY <1>9 DEF SendStart, TypeOK
  <2>2. HostInv'
    BY <1>9 DEF SendStart, HostInv, TypeOK, Calm, MayReset
  <2>3. \A v \in Vm : VmInv(v)'
    BY <1>9 DEF SendStart, VmInv
  <2> QED BY <2>1, <2>2, <2>3
<1>10. CASE StartFails
  <2>1. TypeOK'
    BY <1>10 DEF StartFails, Raises, TypeOK
  <2>2. HostInv'
    BY <1>10 DEF StartFails, Raises, HostInv, TypeOK, Calm, MayReset
  <2>3. \A v \in Vm : VmInv(v)'
    BY <1>10 DEF StartFails, VmInv
  <2> QED BY <2>1, <2>2, <2>3
<1>11. CASE VmsStarted
  <2>1. TypeOK'
    BY <1>11 DEF VmsStarted, TypeOK
  <2>2. HostInv'
    BY <1>11 DEF VmsStarted, HostInv, TypeOK, Calm, MayReset
  <2>3. \A v \in Vm : VmInv(v)'
    BY <1>11 DEF VmsStarted, VmInv
  <2> QED BY <2>1, <2>2, <2>3
<1>12. CASE HostFinish
  <2>1. TypeOK'
    BY <1>12 DEF HostFinish, PowerOff, TypeOK
  <2>2. HostInv'
    BY <1>12 DEF HostFinish, PowerOff, HostInv, TypeOK, Calm, MayReset
  <2>3. \A v \in Vm : VmInv(v)'
    BY <1>12 DEF HostFinish, PowerOff, VmInv
  <2> QED BY <2>1, <2>2, <2>3
<1>13. CASE HostTerm
  <2>1. TypeOK'
    BY <1>13 DEF HostTerm, PowerOff, TypeOK
  <2>2. HostInv'
    BY <1>13 DEF HostTerm, PowerOff, HostInv, TypeOK, Calm, MayReset
  <2>3. \A v \in Vm : VmInv(v)'
    BY <1>13 DEF HostTerm, PowerOff, VmInv
  <2> QED BY <2>1, <2>2, <2>3
<1> QED
  BY <1>1, <1>2, <1>3, <1>4, <1>5, <1>6, <1>7, <1>8, <1>9, <1>10, <1>11, <1>12, <1>13 DEF HostStep

(* The steps of a machine leave the dispatcher of the host alone, and what *)
(* has been sent stays with the Coordinator.                               *)
LEMMA VmKeepsHost ==
  ASSUME TypeOK, HostInv, UNCHANGED hostVars, begun' = begun, stopped \subseteq stopped'
  PROVE  HostInv'
BY DEF HostInv, hostVars, Calm, MayReset

LEMMA VmStepInv == ASSUME NEW v \in Vm, GroupInv, VmStep(v) \/ VmTerm(v) PROVE GroupInv'
<1> USE GroupAssumption DEF GroupInv, hostVars, device, messages, vms, Goes
<1>1. CASE VmBegins(v)
  <2>1. TypeOK'
    BY <1>1 DEF VmBegins, TypeOK
  <2>2. HostInv'
    BY <1>1, VmKeepsHost DEF VmBegins
  <2>3. \A w \in Vm : VmInv(w)'
    BY <1>1 DEF VmBegins, VmInv, TypeOK
  <2> QED BY <2>1, <2>2, <2>3
<1>2. CASE VmNack(v)
  <2>1. TypeOK'
    BY <1>2 DEF VmNack, TypeOK
  <2>2. HostInv'
    BY <1>2, VmKeepsHost DEF VmNack
  <2>3. \A w \in Vm : VmInv(w)'
    BY <1>2 DEF VmNack, VmInv, TypeOK
  <2> QED BY <2>1, <2>2, <2>3
<1>3. CASE VmBoots(v)
  <2>1. TypeOK'
    BY <1>3 DEF VmBoots, TypeOK
  <2>2. HostInv'
    BY <1>3, VmKeepsHost DEF VmBoots
  <2>3. \A w \in Vm : VmInv(w)'
    BY <1>3 DEF VmBoots, VmInv, TypeOK
  <2> QED BY <2>1, <2>2, <2>3
<1>4. CASE VmEnds(v)
  <2>1. TypeOK'
    BY <1>4 DEF VmEnds, TypeOK
  <2>2. HostInv'
    BY <1>4, VmKeepsHost DEF VmEnds
  <2>3. \A w \in Vm : VmInv(w)'
    BY <1>4 DEF VmEnds, VmInv, TypeOK
  <2> QED BY <2>1, <2>2, <2>3
<1>5. CASE VmFinish(v)
  <2>1. TypeOK'
    BY <1>5 DEF VmFinish, VmOver, TypeOK
  <2>2. HostInv'
    BY <1>5, VmKeepsHost DEF VmFinish
  <2>3. \A w \in Vm : VmInv(w)'
    BY <1>5 DEF VmFinish, VmOver, VmInv, TypeOK
  <2> QED BY <2>1, <2>2, <2>3
<1>6. CASE SendVmStop(v)
  <2>1. TypeOK'
    BY <1>6 DEF SendVmStop, VmOver, TypeOK
  <2>2. HostInv'
    BY <1>6, VmKeepsHost DEF SendVmStop
  <2>3. \A w \in Vm : VmInv(w)'
    BY <1>6 DEF SendVmStop, VmOver, VmInv, TypeOK
  <2> QED BY <2>1, <2>2, <2>3
<1>7. CASE VmTerm(v)
  <2>1. TypeOK'
    BY <1>7 DEF VmTerm, TypeOK
  <2>2. HostInv'
    BY <1>7, VmKeepsHost DEF VmTerm
  <2>3. \A w \in Vm : VmInv(w)'
    BY <1>7 DEF VmTerm, VmInv, TypeOK
  <2> QED BY <2>1, <2>2, <2>3
<1> QED
  BY <1>1, <1>2, <1>3, <1>4, <1>5, <1>6, <1>7 DEF VmStep

(* The invariant of the group.                                             *)
THEOREM VmGroupInvariant == Spec => []GroupInv
<1>1. Init => GroupInv
  <2> SUFFICES ASSUME Init PROVE GroupInv
    OBVIOUS
  <2>1. TypeOK
    <3>1. tries \in 0..Retries - 1 /\ left \in 0..MaxCommands
      BY GroupAssumption DEF Init
    <3> QED BY <3>1 DEF Init, TypeOK
  <2>2. HostInv
    BY DEF Init, HostInv, Calm
  <2>3. \A v \in Vm : VmInv(v)
    BY DEF Init, VmInv
  <2> QED BY <2>1, <2>2, <2>3 DEF GroupInv
<1>2. GroupInv /\ [Next]_vars => GroupInv'
  <2> SUFFICES ASSUME GroupInv, [Next]_vars PROVE GroupInv'
    OBVIOUS
  <2>1. CASE UNCHANGED vars
    BY <2>1 DEF vars, hostVars, device, messages, vms, GroupInv, TypeOK, HostInv, VmInv, Calm, MayReset
  <2> QED
    BY <2>1, HostStepInv, VmStepInv DEF Next
<1> QED
  BY <1>1, <1>2, PTL DEF Spec

(* Types, for any number of machines.                                      *)
THEOREM VmGroupTypeCorrect == Spec => []TypeOK
BY VmGroupInvariant, PTL DEF GroupInv

(* "All VMs finished, proceeding with reboot" (base.py:823).               *)
THEOREM NoResetUnderVmsHolds == Spec => []NoResetUnderVms
<1>1. GroupInv => NoResetUnderVms
  BY DEF GroupInv, TypeOK, HostInv, VmInv, Calm, MayReset, NoResetUnderVms, Using
<1> QED
  BY <1>1, VmGroupInvariant, PTL
=============================================================================
