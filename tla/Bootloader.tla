----------------------------- MODULE Bootloader -----------------------------
(***************************************************************************)
(* device/bootloader.py, vexpress.py and wg.py: boards of which the        *)
(* bootloader is given a kernel by the job, and boards of which the        *)
(* firmware is on a card that the host mounts. Further fields of d:        *)
(*   loader  none | u_boot | ipxe | uefi: the boot type that is set        *)
(*   kept    what boots is not what was deployed last: the boot type was   *)
(*           set before, or the board was taken to the master image since  *)
(*           it was booted                                                 *)
(*   booted, reset   _booted and _reset_boot                               *)
(*   nfs     the root file system is a directory of the host               *)
(*   fw, backup, fw2, backup2   none | torn | good | test: the two files   *)
(*           of the firmware of the board, and their backups on the card   *)
(*   fwfile  the job brought firmware; card: the host mounts the card      *)
(***************************************************************************)
EXTENDS MasterImage

NotLoaded == [loader |-> "none"]

(* bootloader.__init__ after connect_to_serial.                            *)
BootloaderReset ==
  Do("__init__", Nil, [loader |-> "none", kept |-> FALSE, booted |-> FALSE, reset |-> FALSE,
                       nfs |-> FALSE, fwfile |-> FALSE], {})

---------------------------------------------------------------------------
(* Deploying.                                                              *)

Modules(unpack) == Maybe(Fetch("modules", Nil) \o unpack)
Ramdisk == Fetch("ramdisk", Nil) \o Modules(CreateRamdisk)
Uimage == Maybe(CreateUimage)
Nfsrootfs ==
  Fetch("nfsrootfs", Nil) \o SetupNfs \o Do("nfsrootfs", Nil, [nfs |-> TRUE], {})
  \o Modules(ExtractModules)

UbootFiles ==
  Fetch("kernel", Nil) \o Uimage \o Maybe(Ramdisk)
  \o Maybe(Fetch("dtb", Nil) \o Maybe(AppendDtb))
  \o Maybe(Fetch("rootfs", Nil)) \o Maybe(Nfsrootfs)
  \o Maybe(Fetch("bootloader", Nil)) \o Maybe(Fetch("firmware", Nil))
IpxeFiles == Fetch("kernel", Nil) \o Either(Ramdisk, Maybe(Fetch("rootfs", Nil)))

(* A job that deployed before starts from a new target.                    *)
BootloaderDeployKernel(off, init, types) ==
  When([data |-> TRUE], off \o init)
  \o Do("deployment_data", Nil, [data |-> TRUE], {})
  \o Do("_set_boot_type", Nil, [loader |-> "u_boot"], {"CriticalError"})
  \o (IF "uefi" \in types THEN Maybe(Do("uefi", Nil, [loader |-> "uefi"], {})) ELSE Nil)
  \o (IF "ipxe" \in types THEN Maybe(Do("ipxe", Nil, [loader |-> "ipxe"], {})) ELSE Nil)
  \o IfElse([loader |-> "ipxe"], IpxeFiles, UbootFiles)
  \o Do("boot_tags", Nil, Holding("new"), {})

(* Two of the deployments forget u_boot, and nothing else: with a boot type*)
(* that stays set the board goes on booting the kernel of before, whatever *)
(* the test partitions hold.                                               *)
ForgetUboot == When([loader |-> "u_boot"], Do("_uboot_boot", Nil, NotLoaded, {}))
Keeping(steps) ==
  Unless(NotLoaded, Do("_is_bootloader", Nil, [kept |-> TRUE], {}))
  \o steps
  \o When([kept |-> TRUE], Do("_is_bootloader", Nil, Holding("old"), {}))

BootloaderDeployLinaro(fw, unpack) ==
  ForgetUboot \o Keeping(MasterDeployLinaro(fw) \o unpack)

BootloaderDeployPrebuilt(fw, unpack) ==
  ForgetUboot
  \o IfElse([loader |-> "ipxe"],
       Do("oe", Nil, [booted |-> FALSE, data |-> TRUE, kept |-> FALSE], {}) \o Fetch("image", Nil)
       \o Do("boot_tags", Nil, Holding("new"), {}),
       Keeping(MasterDeployPrebuilt(fw) \o unpack))

(* Inherited as they are. A board that is booted still passes for booted   *)
(* when the master image has unpacked the tarball.                         *)
BootloaderDeployAndroid(fw, unpack) == Keeping(MasterDeployAndroid(fw, unpack))
BootloaderExtractTarball(fw) ==
  Unless(NotLoaded, When([booted |-> TRUE], Do("_booted", Nil, [kept |-> TRUE], {})))
  \o MasterExtractTarball(fw)

---------------------------------------------------------------------------
(* Booting.                                                                *)

(* What a ramdisk held is gone when the board boots again.                 *)
RunBoot(fw) ==
  Unless([nfs |-> TRUE], Do("ramdisk", Nil, [dir |-> "old"], {}))
  \o fw \o EnterBootloader \o LoadBootCmds \o CustomizeBootloader("test")
  \o Expect("test", "image_boot_msg") \o AutoLogin("test") \o WaitForPrompt("test")

(* power_on: a board that is booted is only given its prompt, the shell of *)
(* the master image too: it passes for the test image then.                *)
TesterPrompt ==
  IfElse([runs |-> "master"], Do("export PS1", Open, [runs |-> "test", live |-> FALSE], {}),
         Do("export PS1", Open, Nil, {}))
BootloaderPowerOn(fw) ==
  IfElse(NotLoaded, MasterPowerOn(fw),
    IfElse([booted |-> TRUE], TesterPrompt,
      Reboot \o RunBoot(fw) \o Do("resolv.conf", Open, Nil, {})
      \o Do("_booted", Nil, [booted |-> TRUE], {})))

(* The board that timed out fails its next file_system, whatever for. One  *)
(* that is not booted is booted by the client first; the directory is then *)
(* that of the test image, or of the host for NFS.                         *)
BootloaderFileSystem(boot, fw, body) ==
  LET OnHost == Do("ensure_directory", Nil, [copy |-> "old"], {"OSError"}) \o body
                \o Do("in place", Nil, [dir |-> "new", copy |-> "none"], {})
  IN  IfElse(NotLoaded, MasterFileSystem(fw, body),
        When([reset |-> TRUE],
             Do("_reset_boot", Nil, [booted |-> FALSE, reset |-> FALSE], {}) \o Raise("Exception"))
        \o When([booted |-> FALSE], boot)
        \o IfElse([nfs |-> TRUE], OnHost, BusyboxFileSystem("test", FALSE, body)))

(* is_booted and reset_boot, after a timeout of the runner.                *)
ResetBoot == When([booted |-> TRUE], Do("reset_boot", Nil, [reset |-> TRUE], {}))

---------------------------------------------------------------------------
(* Firmware on a card: vexpress.py, wg.py.                                 *)

Mcc(op) == Do(op, In("boot"), Nil, {"OperationFailed"})
Cmd(op) == Do(op, In("boot"), Nil, {"TIMEOUT"})
EnterMcc == Mcc("autoboot") \o Mcc("Cmd>")

(* A mount that fails is tried again, after USB_OFF and USB_ON.            *)
MountUsbmsd ==
  Cmd("USB_ON")
  \o Retry(CheckCall("mount", [card |-> TRUE]), {"CalledProcessError"},
           Cmd("USB_OFF") \o Cmd("USB_ON"), Raise("OperationFailed"))
UmountUsbmsd == CommandWithRetries("umount", [card |-> FALSE]) \o Cmd("USB_OFF")

MccSetup(body) ==
  EnterMcc \o MountUsbmsd
  \o TryFinally(body, UmountUsbmsd \o Do("reboot", Open, Booting, {}))

(* A cp that fails, or that SIGTERM interrupts, leaves part of a file.     *)
Cp(to, copy(_), v) == Do("cp begins", Nil, Put(to, "torn"), {}) \o copy(Put(to, v))
Copy(from, to) ==
  LET Retried(v) == Cp(to, LAMBDA set : CommandWithRetries("cp", set), v)
  IN  IfElse(Put(from, "test"), Retried("test"),
        IfElse(Put(from, "torn"), Retried("torn"), Retried("good")))

(* Firmware that is found without a backup is taken for the good one, file *)
(* by file: bl1 and fip, or uefi and the bl1 of trusted firmware.          *)
RestoreFile(fw, backup) == IfElse(Put(backup, "none"), Copy(fw, backup), Copy(backup, fw))
RestoreFirmwareBackup == RestoreFile("fw", "backup") \o RestoreFile("fw2", "backup2")
LoadMasterFirmware == MccSetup(RestoreFirmwareBackup)

(* os.path.exists(None) where the job brought none.                        *)
InstallFile(fw) ==
  Unless([fwfile |-> TRUE], Raise("Exception")) \o Do("exists", Nil, Nil, {"CriticalError"})
  \o Cp(fw, LAMBDA set : Command("cp", set), "test")
InstallTestFirmware == InstallFile("fw") \o InstallFile("fw2")
LoadTestFirmware == MccSetup(InstallTestFirmware)

(* The first file of the list that is in the tarball, if any.              *)
ExtractFirmware ==
  ExtractTar \o Do("find", Nil, [fwfile |-> TRUE], {"quiet"})

(* The firmware of the job is fetched before the target is made anew, and  *)
(* is forgotten when it is.                                                *)
VexpressDeployKernel(off, init) ==
  Fetch("bootloader", Nil) \o Fetch("bl1", [fwfile |-> TRUE])
  \o BootloaderDeployKernel(off, init, {"uefi"})
=============================================================================
