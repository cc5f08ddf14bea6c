------------------------------ MODULE VmGroup ------------------------------
(***************************************************************************)
(* A VM group: a master image device, the host, and machines that QEMU     *)
(* runs on it, each with a dispatcher of its own. They meet through        *)
(* messages that stay with the Coordinator: lava_vm_start, which the host  *)
(* sends when it has booted, and lava_vm_stop, which each VM sends when it *)
(* is off (VmGroupHandler, client/base.py). A call is a BlockingCall: its  *)
(* answer, or a nack when the timeout of the poll has passed.              *)
(***************************************************************************)
EXTENDS Naturals

CONSTANTS
  Vm,           \* the machines
  Host,         \* the device they run on
  MaxCommands,  \* bound: commands of the host that boot it
  Retries       \* boot_retries

ASSUME GroupAssumption == Host \notin Vm /\ MaxCommands \in Nat /\ Retries \in Nat \ {0}

VARIABLES
  host,       \* where the host's dispatcher is
  doing,      \* the command that boots: boot | master | results | retrieve
  tries, left,
  img,        \* what the device runs: off | booting | master | test
  vmsStarted, \* the flag of the host's VmGroupHandler
  begun,      \* Coordinator: there is a lava_vm_start
  stopped,    \* Coordinator: the members that sent lava_vm_stop
  vm,         \* where the dispatcher of each VM is
  qemu,       \* the machines that run on the device
  termed      \* what the SIGTERM of each VM's dispatcher comes to

hostVars == <<host, doing, tries, left, vmsStarted>>
device == <<img, qemu>>
messages == <<begun, stopped>>
vms == <<vm, termed>>
vars == <<hostVars, device, messages, vms>>

(* All have registered. The job has deployed nothing yet.                  *)
Init ==
  /\ host = "idle" /\ doing = "boot" /\ tries = 0 /\ left = MaxCommands
  /\ img = "off" /\ qemu = {} /\ vmsStarted = FALSE
  /\ begun = FALSE /\ stopped = {}
  /\ vm = [v \in Vm |-> "await"] /\ termed = [v \in Vm |-> "none"]

-----------------------------------------------------------------------------
(* The host.                                                               *)

(* A boot of the test image, or of the master image: to deploy, to copy    *)
(* tests to the device, to fetch their results. lava_test_shell is a       *)
(* "master", a "boot" and the "results".                                   *)
HostCommand ==
  /\ host = "idle" /\ left > 0
  /\ doing' \in {"boot", "master"} \cup (IF img = "test" THEN {"results"} ELSE {})
  /\ host' = "wait_for_vms" /\ left' = left - 1 /\ tries' = 0
  /\ UNCHANGED <<vmsStarted, device, messages, vms>>

(* What raises ends the job, but for the results: then those parsed from   *)
(* the serial line are taken instead.                                      *)
Raises == host' = CASE doing = "results" -> "idle" [] doing = "retrieve" -> "over" [] OTHER -> "finish"

WaitForVmsForgets ==  \* mutant: the flag is cleared before the wait
  /\ host = "wait_for_vms" /\ vmsStarted' = FALSE
  /\ host' = IF vmsStarted THEN "stop" ELSE "reset"
  /\ UNCHANGED <<doing, tries, left, device, messages, vms>>

WaitForVms ==
  /\ host = "wait_for_vms"
  /\ host' = IF vmsStarted THEN "stop" ELSE "reset"
  /\ UNCHANGED <<doing, tries, left, vmsStarted, device, messages, vms>>

(* The reply to its own lava_vm_stop is not looked at.                     *)
SendStop ==
  /\ host = "stop" /\ host' = "waiting"
  /\ stopped' \in {stopped, stopped \cup {Host}}
  /\ UNCHANGED <<doing, tries, left, vmsStarted, device, begun, vms>>

(* lava_wait_all: every member of the group has sent lava_vm_stop.         *)
AllStopped ==
  /\ host = "waiting" /\ stopped = Vm \cup {Host}
  /\ host' = "reset" /\ vmsStarted' = FALSE
  /\ UNCHANGED <<doing, tries, left, device, messages, vms>>

StopNackAsksAgain ==  \* mutant: the nack is taken for a call to repeat
  /\ host = "waiting" /\ host' = "stop"
  /\ UNCHANGED <<doing, tries, left, vmsStarted, device, messages, vms>>

StopNack ==
  /\ host = "waiting" /\ Raises
  /\ UNCHANGED <<doing, tries, left, vmsStarted, device, messages, vms>>

(* The power cycle takes the machines with it.                             *)
Reset ==
  /\ host = "reset" /\ host' = "booting"
  /\ img' = "booting" /\ qemu' = {}
  /\ UNCHANGED <<doing, tries, left, vmsStarted, messages, vms>>

(* Boots are retried: boot_linaro_image asks for the VMs in each attempt,  *)
(* boot_master_image once. What follows a results or a retrieve is copying.*)
Booted ==
  /\ host = "booting"
  /\ IF doing = "boot"
       THEN img' = "test" /\ host' = "start_vms"
       ELSE img' = "master" /\ host' = IF doing = "retrieve" THEN "over" ELSE "idle"
  /\ UNCHANGED <<doing, tries, left, vmsStarted, qemu, messages, vms>>

BootFails ==
  /\ host = "booting"
  /\ \/ tries + 1 < Retries /\ tries' = tries + 1
        /\ host' = IF doing = "boot" THEN "wait_for_vms" ELSE "reset"
     \/ Raises /\ UNCHANGED tries
  /\ UNCHANGED <<doing, left, vmsStarted, device, messages, vms>>

(* The key, the address, then lava_vm_start: any of it may raise, before   *)
(* the message is there or after. cmd_boot_linaro_image and lava_test_shell*)
(* let nothing of that pass.                                               *)
SendStart ==
  /\ host = "start_vms" /\ host' = "starting" /\ begun' = TRUE
  /\ UNCHANGED <<doing, tries, left, vmsStarted, device, stopped, vms>>

StartFails ==
  /\ host \in {"start_vms", "starting"} /\ Raises
  /\ UNCHANGED <<doing, tries, left, vmsStarted, device, messages, vms>>

VmsStarted ==
  /\ host = "starting" /\ host' = "idle" /\ vmsStarted' = TRUE
  /\ UNCHANGED <<doing, tries, left, device, messages, vms>>

(* power_off: the status of the command, if there is one, is ignored.      *)
PowerOff == \/ img' = "off" /\ qemu' = {}
            \/ UNCHANGED device

(* finish() powers the host off and waits for nobody (line 602). With      *)
(* bundles on the device, it is booted once more to retrieve them.         *)
HostFinish ==
  /\ host \in {"idle", "finish"} /\ PowerOff
  /\ \/ host' = "over" /\ UNCHANGED <<doing, tries>>
     \/ host' = "wait_for_vms" /\ doing' = "retrieve" /\ tries' = 0
  /\ UNCHANGED <<left, vmsStarted, messages, vms>>

(* SIGTERM: the handler finishes the job, then exits; but a signal of the  *)
(* test shell that is being handled takes the exit for a failure.          *)
HostTerm ==
  /\ \/ host \notin {"over", "finish"} /\ doing # "retrieve" /\ host' = "finish" /\ UNCHANGED device
     \/ host = "idle" /\ img = "test" /\ PowerOff /\ UNCHANGED host
  /\ UNCHANGED <<doing, tries, left, vmsStarted, messages, vms>>

HostStep ==
  \/ HostCommand \/ WaitForVms \/ SendStop \/ AllStopped \/ StopNack \/ Reset \/ Booted
  \/ BootFails \/ SendStart \/ StartFails \/ VmsStarted \/ HostFinish

-----------------------------------------------------------------------------
(* A VM.                                                                   *)

Goes(v, to) == vm' = [vm EXCEPT ![v] = to]

(* NodeDispatcher.run waits for lava_vm_start before it runs the job.      *)
VmBegins(v) ==
  /\ vm[v] = "await" /\ begun /\ Goes(v, "run")
  /\ UNCHANGED <<hostVars, device, messages, termed>>

(* The nack has no "message": KeyError.                                    *)
VmNack(v) ==
  /\ vm[v] = "await" /\ Goes(v, "dead")
  /\ UNCHANGED <<hostVars, device, messages, termed>>

(* Its images are copied to the host, and QEMU is started there, over ssh. *)
(* Before another boot, QEMU is killed.                                    *)
VmBoots(v) ==
  /\ vm[v] = "run"
  /\ \/ v \notin qemu /\ img = "test" /\ qemu' = qemu \cup {v}
     \/ v \in qemu /\ qemu' = qemu \ {v}
  /\ UNCHANGED <<hostVars, img, messages, vms>>

VmEnds(v) ==
  /\ vm[v] = "run" /\ Goes(v, "finish")
  /\ UNCHANGED <<hostVars, device, messages, termed>>

(* SIGTERM: the handler runs finish(), then exits; a handler of a signal of *)
(* the test shell may take that exit for a failure of its own, and the job  *)
(* goes on.                                                                 *)
VmTerm(v) ==
  /\ vm[v] = "run" /\ termed[v] = "none" /\ Goes(v, "finish")
  /\ \E t \in {"exits", "swallowed"} : termed' = [termed EXCEPT ![v] = t]
  /\ UNCHANGED <<hostVars, device, messages>>

VmOver(v) ==
  IF termed[v] = "swallowed"
    THEN Goes(v, "run") /\ termed' = [termed EXCEPT ![v] = "goes_on"]
    ELSE Goes(v, "over") /\ UNCHANGED termed

(* finish(): power_off is pkill on the host, then rm -rf. Both raise when  *)
(* they fail, as pkill does when nothing runs, and then vm_finished, which *)
(* sends the message, is not called.                                       *)
VmFinish(v) ==
  /\ vm[v] = "finish"
  /\ \/ v \in qemu /\ qemu' = qemu \ {v} /\ Goes(v, "stop") /\ UNCHANGED termed
     \/ qemu' \in {qemu, qemu \ {v}} /\ VmOver(v)
  /\ UNCHANGED <<hostVars, img, messages>>

SendVmStop(v) ==
  /\ vm[v] = "stop" /\ VmOver(v)
  /\ stopped' \in {stopped, stopped \cup {v}}
  /\ UNCHANGED <<hostVars, device, begun>>

VmStep(v) == VmBegins(v) \/ VmNack(v) \/ VmBoots(v) \/ VmEnds(v) \/ VmFinish(v) \/ SendVmStop(v)

Next == HostStep \/ HostTerm \/ \E v \in Vm : VmStep(v) \/ VmTerm(v)

Spec == Init /\ [][Next]_vars

(* Commands and calls return, because each has a timeout, and a job has    *)
(* finitely many; SIGTERM need not come.                                   *)
FairSpec ==
  /\ Spec /\ WF_vars(HostStep)
  /\ \A v \in Vm : WF_vars(VmStep(v)) /\ WF_vars(VmEnds(v))

-----------------------------------------------------------------------------

TypeOK ==
  /\ host \in {"idle", "wait_for_vms", "stop", "waiting", "reset", "booting", "start_vms", "starting",
               "finish", "over"}
  /\ doing \in {"boot", "master", "results", "retrieve"}
  /\ tries \in 0..Retries - 1 /\ left \in 0..MaxCommands
  /\ img \in {"off", "booting", "master", "test"}
  /\ vmsStarted \in BOOLEAN /\ begun \in BOOLEAN
  /\ stopped \subseteq Vm \cup {Host} /\ qemu \subseteq Vm
  /\ termed \in [Vm -> {"none", "exits", "swallowed", "goes_on"}]
  /\ vm \in [Vm -> {"await", "run", "finish", "stop", "over", "dead"}]

(* "All VMs finished, proceeding with reboot" (base.py:823): a command     *)
(* resets the host when no VM uses it, be it that the messages are late,   *)
(* that some VM never began, or that its dispatcher died; a VM whose       *)
(* SIGTERM was taken for a failure may. The retrieval after the job may    *)
(* reset a host that VMs still use, as finish() powers it off.             *)
Using(v) == v \in qemu \/ vm[v] \in {"run", "finish", "stop"}
NoResetUnderVms ==
  host = "reset" /\ doing # "retrieve" => \A v \in Vm : Using(v) => termed[v] = "goes_on"

(* Nobody waits for ever, whoever died.                                    *)
GroupEnds == <>(host = "over") /\ \A v \in Vm : <>(vm[v] \in {"over", "dead"})
=============================================================================
