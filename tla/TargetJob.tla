------------------------------ MODULE TargetJob ------------------------------
(***************************************************************************)
(* A job drives one target: LavaTestJob constructs it, runs commands on it *)
(* until one fails beyond tolerance, finishes it and, with bundles on the  *)
(* device, submits. A SIGTERM may arrive between any two steps. The        *)
(* scripts of the commands are given; here they are executed.              *)
(***************************************************************************)
EXTENDS Naturals, Sequences, FiniteSets, TargetBase

CONSTANTS
  Kind,        \* the targets
  Program,     \* Program[k][c]: the script of command c on target k
  PowerOff,    \* PowerOff[k]: the effects of power_off, when it returns
  Fresh,       \* Fresh[k]: the world before the job
  MaxCommands, \* commands of a job; a step that fails counts for one, and so does SIGTERM
  MaxFaults,   \* steps of a job that fail
  Refused      \* <<target, command>>: what a target cannot do where nothing fails

VARIABLES
  kind, d,
  stage,     \* new | run | over | done
  cmd,       \* the command that runs, or "idle"
  at, exc, caught, held,   \* where it is, what is raised, was caught, is held back by a finally
  out,       \* how the last command ended: <<command, exception>>
  deployed,  \* how the last deployment ended: none | running | ok | failed
  left, faults,
  cancelled  \* no | body | mounting | cleanup: where SIGTERM came, the last if a finally
             \* ran | late: and the job started another command

script == <<cmd, at, exc, caught, held>>
vars == <<kind, d, stage, script, out, deployed, left, faults, cancelled>>

None == "none"
Calls == {"init", "finish", "retrieve"}
Commands == DOMAIN Program[kind] \ Calls
Deploys == {"deploy", "deploy_prebuilt", "deploy_android", "deploy_kernel"}
Boots == {"boot", "boot_android"}

(* What the loop of the job takes for a failure of the command only.       *)
Tolerated == {None, "TIMEOUT", "OperationFailed", "ADBConnectError"}

Init ==
  /\ kind \in Kind /\ d = Fresh[kind]
  /\ stage = "new" /\ cmd = "idle" /\ at = 1
  /\ exc = None /\ caught = None /\ held = << >>
  /\ out = <<"idle", None>> /\ deployed = None
  /\ left = MaxCommands /\ faults = 0 /\ cancelled = "no"

---------------------------------------------------------------------------
(* The commands of a job.                                                  *)

(* A job deploys before it does anything else.                             *)
Legal(c, when, dep) ==
  \/ when = "new" /\ c = "init"
  \/ when = "run" /\ c \notin Calls /\ (dep = None => c \in Deploys)
  \/ when \in {"run", "failed"} /\ c = "finish"
  \/ when = "over" /\ c = "retrieve"

Begun(c, dep) == IF c \in Deploys THEN "running" ELSE dep

(* Mutant: commands run on what was never deployed.                        *)
StartUndeployed(c) ==
  /\ cmd = "idle" /\ c \in DOMAIN Program[kind] /\ Legal(c, stage, "ok")
  /\ c \in Commands => left > 0
  /\ cmd' = c /\ at' = 1
  /\ left' = IF c \in Commands THEN left - 1 ELSE left
  /\ deployed' = Begun(c, deployed)
  /\ cancelled' = IF cancelled # "no" /\ c \in Commands THEN "late" ELSE cancelled
  /\ UNCHANGED <<kind, d, stage, exc, caught, held, out, faults>>

Start(c) ==
  /\ cmd = "idle" /\ c \in DOMAIN Program[kind] /\ Legal(c, stage, deployed)
  /\ c \in Commands => left > 0
  /\ cmd' = c /\ at' = 1
  /\ left' = IF c \in Commands THEN left - 1 ELSE left
  /\ deployed' = Begun(c, deployed)
  /\ cancelled' = IF cancelled # "no" /\ c \in Commands THEN "late" ELSE cancelled
  /\ UNCHANGED <<kind, d, stage, exc, caught, held, out, faults>>

Prog == Program[kind][cmd]

(* What the job is after a command that ended with e.                      *)
Becomes(c, e, when) ==
  CASE c = "init" -> IF e = None THEN "run" ELSE "done"
    [] c = "finish" -> IF e = None /\ when = "run" THEN "over" ELSE "done"
    [] c = "retrieve" -> "done"
    [] OTHER -> IF e \in Tolerated THEN "run" ELSE "failed"
Ended(c, e, dep) == IF c \in Deploys THEN IF e = None THEN "ok" ELSE "failed" ELSE dep

(* Mutant: the program counter of a finished command is kept.              *)
ReturnKeepsPlace ==
  /\ cmd # "idle" /\ at > Len(Prog)
  /\ cmd' = "idle" /\ exc' = None /\ caught' = None /\ out' = <<cmd, exc>>
  /\ stage' = IF cmd = "retrieve" THEN "done" ELSE "run"
  /\ UNCHANGED <<kind, d, at, held, deployed, left, faults, cancelled>>

(* Mutant: a deployment that the job tolerates counts as done.             *)
ReturnDeployed ==
  /\ cmd # "idle" /\ at > Len(Prog)
  /\ cmd' = "idle" /\ at' = 1 /\ exc' = None /\ caught' = None
  /\ out' = <<cmd, exc>>
  /\ stage' = Becomes(cmd, exc, stage)
  /\ deployed' = IF cmd \in Deploys /\ stage' = "run" THEN "ok" ELSE deployed
  /\ UNCHANGED <<kind, d, held, left, faults, cancelled>>

Return ==
  /\ cmd # "idle" /\ at > Len(Prog)
  /\ cmd' = "idle" /\ at' = 1 /\ exc' = None /\ caught' = None
  /\ out' = <<cmd, exc>>
  /\ stage' = Becomes(cmd, exc, stage)
  /\ deployed' = Ended(cmd, exc, deployed)
  /\ UNCHANGED <<kind, d, held, left, faults, cancelled>>

---------------------------------------------------------------------------
(* The steps of a script.                                                  *)

Here == Prog[at]
Running(k) == cmd # "idle" /\ at <= Len(Prog) /\ Here.k \in k
Normal(k) == Running(k) /\ exc = None
Goes(e) == exc' = e /\ at' = Out(Prog, at)
Stays == UNCHANGED <<kind, stage, cmd, out, deployed, left, cancelled>>

Perform ==
  /\ Normal({"do"}) /\ Holds(Here.needs, d)
  /\ d' = Assign(Here.set, d) /\ at' = at + 1
  /\ Stays /\ UNCHANGED <<exc, caught, held, faults>>

(* Mutant: no failure is noticed.                                          *)
FailUnnoticed ==
  /\ Normal({"do"}) /\ Holds(Here.needs, d) /\ faults < MaxFaults /\ left > 0
  /\ at' = at + 1 /\ faults' = faults + 1 /\ left' = left - 1
  /\ UNCHANGED <<kind, d, stage, cmd, exc, caught, held, out, deployed, cancelled>>

(* The step fails; "quiet" is not noticed.                                 *)
Fail ==
  /\ Normal({"do"}) /\ Holds(Here.needs, d) /\ faults < MaxFaults /\ left > 0
  /\ \E e \in Here.raises :
       IF e = "quiet" THEN exc' = None /\ at' = at + 1 ELSE Goes(e)
  /\ faults' = faults + 1 /\ left' = left - 1
  /\ UNCHANGED <<kind, d, stage, cmd, caught, held, out, deployed, cancelled>>

(* The step cannot succeed: on a session that answers it times out, on one *)
(* that is closed it is an error of the system.                            *)
CannotWork ==
  /\ Normal({"do"}) /\ ~Holds(Here.needs, d)
  /\ Goes(IF "runs" \in DOMAIN Here.needs /\ d.proc = "open" THEN "TIMEOUT" ELSE "OSError")
  /\ Stays /\ UNCHANGED <<d, caught, held, faults>>

RaiseStep ==
  /\ Normal({"raise", "reraise"})
  /\ Goes(IF Here.k = "raise" THEN Here.op ELSE caught)
  /\ Stays /\ UNCHANGED <<d, caught, held, faults>>

Branch ==
  /\ \/ Normal({"if"}) /\ at' = IF Holds(Here.needs, d) THEN at + 1 ELSE Past(Prog, at) + 1
     \/ Normal({"either"}) /\ at' \in {at + 1, Past(Prog, at) + 1}
     \/ Normal({"else", "except"}) /\ at' = Past(Prog, at) + 1
     \/ Normal({"end"}) /\ at' = at + 1
  /\ Stays /\ UNCHANGED <<d, exc, caught, held, faults>>

Catch ==
  /\ Running({"except"}) /\ exc # None
  /\ IF exc \in Here.raises THEN caught' = exc /\ exc' = None /\ at' = at + 1
                            ELSE UNCHANGED caught /\ Goes(exc)
  /\ Stays /\ UNCHANGED <<d, held, faults>>

Propagate ==
  /\ Running({"else", "end"}) /\ exc # None
  /\ Goes(exc)
  /\ Stays /\ UNCHANGED <<d, caught, held, faults>>

(* A finally holds what is raised back, and lets it go at its end; what    *)
(* is raised inside replaces it.                                           *)
EnterFinally ==
  /\ Running({"finally"})
  /\ held' = <<exc>> \o held /\ exc' = None /\ at' = at + 1
  /\ Stays /\ UNCHANGED <<d, caught, faults>>

(* Mutant: what a finally clause holds back is lost, as by a return in it. *)
LeaveFinallyReturns ==
  /\ Running({"resume"})
  /\ held' = Tail(held) /\ exc' = None /\ at' = at + 1
  /\ Stays /\ UNCHANGED <<d, caught, faults>>

LeaveFinally ==
  /\ Running({"resume"})
  /\ held' = Tail(held)
  /\ LET e == IF exc # None THEN exc ELSE Head(held)
     IN  IF e = None THEN exc' = None /\ at' = at + 1 ELSE Goes(e)
  /\ Stays /\ UNCHANGED <<d, caught, faults>>

(* The handler runs before or after the effect of the step: a command of   *)
(* the host has returned by then. What mounts has no finally yet.          *)
Unguarded == {"boot", "root", "card"}
Mounts(set) == \E m \in Unguarded \cap DOMAIN set : set[m]
Effects == {Nil} \cup (IF Holds(Here.needs, d) THEN {Here.set} ELSE {})
SwitchOff(set, off) ==
  /\ Holds(off.needs, Assign(set, d)) /\ d' = Assign(Then(set, off.set), d)
  /\ cancelled' = IF held # << >> THEN "cleanup" ELSE IF Mounts(set) THEN "mounting" ELSE "body"

(* Mutants: the handler leaves the process without unwinding it, or not at *)
(* all.                                                                    *)
CancelAtOnce ==
  /\ Normal({"do"}) /\ cancelled = "no" /\ stage = "run" /\ left > 0
  /\ \E set \in Effects, off \in PowerOff[kind] : SwitchOff(set, off)
  /\ left' = left - 1 /\ cmd' = "idle" /\ at' = 1 /\ exc' = None /\ caught' = None
  /\ held' = << >> /\ out' = <<cmd, "SystemExit">> /\ stage' = "failed"
  /\ UNCHANGED <<kind, deployed, faults>>
CancelReturns ==
  /\ Normal({"do"}) /\ cancelled = "no" /\ stage = "run" /\ left > 0
  /\ \E set \in Effects, off \in PowerOff[kind] : SwitchOff(set, off)
  /\ left' = left - 1 /\ at' = at + 1
  /\ UNCHANGED <<kind, stage, cmd, exc, caught, held, out, deployed, faults>>

(* SIGTERM: term_handler finishes the context, then exits: SystemExit is   *)
(* raised where the job was.                                               *)
Cancel ==
  /\ Normal({"do"}) /\ cancelled = "no" /\ stage = "run" /\ left > 0
  /\ \E set \in Effects, off \in PowerOff[kind] : SwitchOff(set, off)
  /\ left' = left - 1 /\ Goes("SystemExit")
  /\ UNCHANGED <<kind, stage, cmd, caught, held, out, deployed, faults>>

Next ==
  \/ \E c \in DOMAIN Program[kind] : Start(c)
  \/ Return \/ Perform \/ Fail \/ CannotWork \/ RaiseStep \/ Branch
  \/ Catch \/ Propagate \/ EnterFinally \/ LeaveFinally \/ Cancel

Spec == Init /\ [][Next]_vars

---------------------------------------------------------------------------
(* The scripts are those of structured methods: every jump ends in the     *)
(* script, among the finally clauses that it is in.                        *)

Excs == Everything \cup {None, "again", "refused"}

(* The cleanups that step i of p is in.                                    *)
Depth(p) ==
  LET opens == {i \in DOMAIN p : p[i].k = "finally"}
      closes == {i \in DOMAIN p : p[i].k = "resume"}
  IN  [i \in 1..(Len(p) + 1) |-> Cardinality({j \in opens : j < i})
                                 - Cardinality({j \in closes : j < i})]

WellNestedAt(p, depth, i) ==
  LET after == IF p[i].k = "finally" THEN depth[i] + 1
               ELSE IF p[i].k = "resume" THEN depth[i] - 1 ELSE depth[i]
      jump == Out(p, i)
      past == Past(p, i)
  IN  /\ depth[i + 1] = after
      /\ p[i].k # "finally" => jump \in 1..(Len(p) + 1) /\ depth[jump] = after
      /\ p[i].k \in {"if", "either", "else", "except"} =>
           past \in DOMAIN p /\ depth[past + 1] = depth[i]
      /\ p[i].k = "resume" => depth[i] > 0
      /\ p[i].k = "raise" => p[i].op \in Excs
      /\ p[i].k = "do" => p[i].raises \subseteq Excs \cup {"quiet"}

WellNested(p) ==
  LET depth == Depth(p)
  IN  /\ Len(p) \in Nat /\ DOMAIN p = 1..Len(p)
      /\ depth[1] = 0 /\ depth[Len(p) + 1] = 0
      /\ \A i \in DOMAIN p : WellNestedAt(p, depth, i)

ASSUME BoundAssumption == MaxCommands \in Nat /\ MaxFaults \in Nat
ASSUME ScriptAssumption ==
  \A k \in Kind :
    "idle" \notin DOMAIN Program[k] /\ \A c \in DOMAIN Program[k] : WellNested(Program[k][c])

---------------------------------------------------------------------------
(* Properties.                                                             *)

TypeOK ==
  /\ kind \in Kind /\ DOMAIN d = DOMAIN Fresh[kind]
  /\ stage \in {"new", "run", "failed", "over", "done"}
  /\ cmd \in {"idle"} \cup DOMAIN Program[kind]
  /\ at \in 1..(IF cmd = "idle" THEN 1 ELSE Len(Prog) + 1)
  /\ exc \in Excs /\ caught \in Excs /\ held \in Seq(Excs)
  /\ out \in ({"idle"} \cup DOMAIN Program[kind]) \X Excs
  /\ deployed \in {None, "running", "ok", "failed"}
  /\ left \in 0..MaxCommands /\ faults \in 0..MaxFaults
  /\ cancelled \in {"no", "body", "mounting", "cleanup", "late"}

(* A deployment that returns has written all of the image, customized,     *)
(* where the board boots from; but an image that is deployed after a       *)
(* kernel may leave the boot type or the kernel of before in force, and a  *)
(* fastmodel keeps to the kernel of its first image. Nexell ignores what   *)
(* flash and adb push return, and leaves the results on the device.        *)
KeptBoot(w) == "kept" \in DOMAIN w /\ w.kept
Overridden(w) == KeptBoot(w) \/ ("kernel" \in DOMAIN w /\ w.kernel = "old")
Unchecked == kind = "nexell"
DeployedIsWritten == deployed = "ok" => d.medium = "new" \/ Overridden(d) \/ Unchecked

(* The tests, and a boot that returns, find what was deployed last, unless *)
(* what was before stayed in force; but a fastmodel that booted a ramdisk  *)
(* never boots another.                                                    *)
Starting(op) == cmd # "idle" /\ at <= Len(Prog) /\ exc = None /\ Here.op = op
NeverAgain == kind = "fastmodel" /\ d.ramdisk
TestsWhatWasDeployed ==
  Starting("lava-test-runner") \/ (cmd = "idle" /\ out \in Boots \X {None}) =>
    d.live \/ KeptBoot(d) \/ NeverAgain

(* The runner starts on a target that has the test definitions: no boot    *)
(* between the copy and the start has lost them.                           *)
RunsWhatWasCopied == Starting("lava-test-runner") => d.dir = "new" \/ Unchecked

(* A command that returns has left its changes on the target.              *)
ChangesApplied ==
  cmd = "idle" /\ out = <<"lava_test_shell", None>> /\ d.access => d.dir = "new" \/ Unchecked

(* Whatever step fails, the host mounts no image and no card of the target *)
(* when a command is over: only an umount that fails twice leaves a mount, *)
(* or a SIGTERM in a cleanup or while mount runs, before the try statement *)
(* that would unmount.                                                     *)
Mountable == {"boot", "root", "card", "sdmount"}
HostClean ==
  cmd = "idle" /\ cancelled \in {"no", "body"} => \A m \in Mountable \cap DOMAIN d : ~d[m]

(* A lava_test_shell that returns leaves no server, no adb connection, no  *)
(* mount on the board, whatever the commands before it left; but a board   *)
(* that a SIGTERM has not switched off is left as it is.                   *)
BoardClean ==
  cmd = "idle" /\ cancelled = "no" /\ out = <<"lava_test_shell", None>> =>
    ~d.served /\ ~d.mounted /\ ~d.adb

(* The SD card is never mounted on the host while the board drives it.     *)
CardIsHosts == "sd" \in DOMAIN d => (d.sdmount => d.sd = "host")

(* The master image runs on the firmware that the backup holds, both files *)
(* whole. That is the one the board came with, if the first backup was     *)
(* taken before a test: a vexpress that is given a kernel first is not.    *)
GoodFile(k, fw, backup) == fw = backup /\ (k # "vexpress" => fw = "good")
MasterOnGoodFirmware ==
  "fw" \in DOMAIN d /\ d.runs = "master" =>
    GoodFile(kind, d.fw, d.backup) /\ GoodFile(kind, d.fw2, d.backup2)

(* A command that SIGTERM reached ends the job, with what the handler      *)
(* raises or with an error of the closed session, wherever it was: in a    *)
(* retry loop, in a with statement, in its cleanup. Bare ends take the     *)
(* exit for a failure of their own: those of lava_test_shell, those of the *)
(* adb connection of an Android boot, and that of power_on of an SD mux.   *)
CancelEnds ==
  cmd = "idle" /\ cancelled \in {"body", "mounting", "cleanup"} /\ out[1] \in Commands
    /\ out[2] \in Tolerated =>
    out[1] \in {"lava_test_shell", "boot_android"} \/ kind = "sdmux"

(* Where nothing fails and nobody cancels, no command fails but those that *)
(* the target refuses.                                                     *)
Unprovoked ==
  faults = 0 /\ cancelled = "no" /\ cmd = "idle" => out[2] = None \/ <<kind, out[1]>> \in Refused

(* boot_linaro_image: "Reboot the system to the test image". A boot that   *)
(* returns leaves the image that was deployed last running.                *)
BootsTheTestImage == cmd = "idle" /\ out = <<"boot", None>> => d.live
=============================================================================
