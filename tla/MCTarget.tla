------------------------------- MODULE MCTarget -------------------------------
(* The targets that TLC checks, and what a job starts from.                *)
EXTENDS TargetJob, Targets

Board == [runs |-> "off", proc |-> "none", client |-> FALSE, img |-> "none", medium |-> "old",
  live |-> FALSE, copy |-> "none", dir |-> "new", boot |-> FALSE, root |-> FALSE, served |-> FALSE,
  mounted |-> FALSE, adb |-> FALSE, error |-> FALSE, access |-> FALSE]

---------------------------------------------------------------------------
(* The instances.                                                          *)

MCKind == {"master", "wg", "uboot", "vexpress", "fastboot", "fastboot_serial", "capri", "nexell",
  "qemu", "dynamic_vm", "fastmodel", "schroot", "ssh", "ipmi_tftp", "sdmux", "jtag"}
OneUboot == {"uboot"}
Methods == [master |-> Master, wg |-> Wg, uboot |-> Uboot, vexpress |-> Vexpress,
  fastboot |-> FastbootAdb, fastboot_serial |-> FastbootSerial, capri |-> Capri,
  nexell |-> Nexell, qemu |-> Qemu, dynamic_vm |-> DynamicVm, fastmodel |-> Model,
  schroot |-> Schroot, ssh |-> Ssh, ipmi_tftp |-> Ipmi, sdmux |-> Sdmux, jtag |-> JtagNfs]

(* A function whose values are computed once.                              *)
Table(f) == f @@ << >>
Classes ==
  LET methods == Methods
  IN  Table([k \in MCKind |-> Table([c \in DOMAIN methods[k] |-> Link(methods[k][c])])])

(* get_target looks the class of the device type up.                       *)
MCProgram == LET table == Classes IN table

(* power_off closes the session, keeps it, or has none afterwards; the mux *)
(* then gives the card to nobody, unless the host has it. power_off_cmd is *)
(* optional or its status is ignored, so that a board may run on; and some *)
(* targets close only the session that the client holds.                   *)
Effect(needs, set) == [needs |-> needs, set |-> set]
Held == {"fastboot", "fastboot_serial", "capri", "jtag"}
Switches ==
  LET Closed == [proc |-> "closed"]
      Ends == With(Off, [proc |-> "closed", sim |-> "none", chroot |-> "ended"])
      Sd(from, to) == {Effect([sd |-> from], [sd |-> to]), Effect([sd |-> from], With(Off, [sd |-> to]))}
      Ours(on) == [client |-> on]
  IN  [k \in MCKind |->
        CASE k \in {"qemu", "dynamic_vm"} -> {Effect(Nil, With(Off, [proc |-> "none"]))}
          [] k = "sdmux" -> Sd("none", "none") \cup Sd("dut", "none") \cup Sd("host", "host")
          [] k \in Held -> {Effect(Ours(TRUE), With(Off, Closed)), Effect(Ours(TRUE), Closed),
                            Effect(Ours(FALSE), Off), Effect(Ours(FALSE), Nil)}
          [] k = "ssh" -> {Effect(Ours(TRUE), Closed), Effect(Ours(FALSE), Nil)}
          [] k \in {"fastmodel", "schroot", "ipmi_tftp"} -> {Effect(Nil, Ends)}
          [] OTHER -> {Effect(Nil, Ends), Effect(Nil, Closed)}]
MCPowerOff == LET table == Switches IN table

Kernel == [loader |-> "none", kept |-> FALSE, booted |-> FALSE, reset |-> FALSE, nfs |-> FALSE, data |-> FALSE,
  fwfile |-> FALSE]
Card == [fw |-> "good", backup |-> "none", fw2 |-> "good", backup2 |-> "none", fwfile |-> FALSE,
  card |-> FALSE]
Flash == [android |-> FALSE, image |-> FALSE, booted |-> FALSE, reset |-> FALSE, ready |-> FALSE,
  linux |-> FALSE, ramdisk |-> FALSE, kept |-> FALSE]
Simulator == [sim |-> "none", ramdisk |-> FALSE, booted |-> FALSE, reset |-> FALSE, uefi |-> FALSE,
  vars |-> FALSE, kernel |-> "none"]
Boards ==
  [ master |-> Board, wg |-> With(Board, Card),
    uboot |-> With(Board, Kernel), vexpress |-> With(Board, With(Kernel, Card)),
    fastboot |-> With(Board, Flash), fastboot_serial |-> With(Board, Flash),
    capri |-> With(Board, Flash), nexell |-> With(Board, With(Kernel, [called |-> FALSE])),
    qemu |-> With(Board, [scratch |-> FALSE]),
    dynamic_vm |-> With(Board, [scratch |-> TRUE, sshfs |-> FALSE]),
    fastmodel |-> With(Board, Simulator), schroot |-> With(Board, [chroot |-> "none"]),
    ssh |-> With(Board, [sshfs |-> FALSE]), ipmi_tftp |-> Board,
    sdmux |-> With(Board, [sd |-> "none", sdmount |-> FALSE]),
    jtag |-> With(Board, [booted |-> FALSE, nfs |-> FALSE]) ]
MCFresh == LET table == Boards IN table

(* Bundles are fetched after the job has finished the target: its session  *)
(* is closed, its adb device or its machine is gone. The rest: a kernel    *)
(* with modules has no scratch directory; the machine of another host is   *)
(* killed though none runs, and so is the simulator; the image that must   *)
(* answer "sync" does not run; a Nexell board is only booted by a boot     *)
(* command. After a second deployment a vexpress has forgotten its         *)
(* firmware, a board of uefi or ipxe boots its first kernel, and a         *)
(* fastboot board passes for booted.                                       *)
AfterFinish == MCKind \ {"qemu", "jtag", "ssh", "nexell"}
MCRefused ==
  AfterFinish \X {"retrieve"} \cup {"dynamic_vm", "fastmodel"} \X {"finish"}
  \cup {"sdmux"} \X {"lava_test_shell", "extract"}
  \cup {<<"qemu", "deploy_kernel">>, <<"nexell", "lava_test_shell">>}
  \cup {"vexpress", "fastboot_serial"} \X {"boot", "lava_test_shell"}
  \cup {<<"uboot", "lava_test_shell">>}
  \cup {"fastboot", "capri"} \X {"lava_test_shell"} \cup {<<"vexpress", "boot_android">>}
=============================================================================
