-------------------------- MODULE SimulatedTargets --------------------------
(***************************************************************************)
(* Targets that run on the host or on another host: device/qemu.py,        *)
(* fastmodel.py, dynamic_vm.py, dummy.py and dummy_drivers.py. Further     *)
(* fields of d:                                                            *)
(*   sim     none | open: the simulator                                    *)
(*   ramdisk, booted, reset, uefi, vars   the fields of FastModelTarget    *)
(*   kernel  needless | none | new | old: the kernel beside the image      *)
(*   scratch the scratch directory exists                                  *)
(*   sshfs   the host mounts a directory of another host                   *)
(*   chroot  none | live | ended: the schroot session                      *)
(***************************************************************************)
EXTENDS TargetBase

Made == Do("_sd_image", Nil, Holding("new"), {})
AddModules == Fetch("modules", Nil) \o CreateRamdisk

---------------------------------------------------------------------------
(* qemu.py. The image file is what the machine boots from.                 *)

(* The modules are unpacked in a scratch directory that nothing has made.  *)
QemuDeployKernel ==
  Fetch("rootfs", [img |-> "raw"]) \o CustomizeImage \o Fetch("kernel", Nil)
  \o Maybe(Fetch("ramdisk", Nil)
           \o Maybe(IfElse([scratch |-> TRUE], AddModules, Fetch("modules", Nil) \o Raise("Exception"))))
  \o Maybe(Fetch("dtb", Nil)) \o Maybe(Fetch("firmware", Nil)) \o Made
QemuDeployLinaro ==
  Do("scratch_dir", Nil, [scratch |-> TRUE], {}) \o GenerateImage \o CustomizeImage \o Made
QemuDeployPrebuilt == Fetch("image", [img |-> "raw"]) \o CustomizeImage \o Made

QemuPowerOff == Finalize \o Do("proc", Nil, [proc |-> "none", runs |-> "off"], {})
QemuPowerOn ==
  Unless([proc |-> "none"], QemuPowerOff) \o Maybe(LoadBootCmds)
  \o Do("qemu", Nil, [proc |-> "open", runs |-> "test", live |-> TRUE], {"TIMEOUT"})
  \o AutoLogin("test")

QemuExtract == PartitionMounted("root", Fetch("tarball", Nil) \o ExtractTar)

---------------------------------------------------------------------------
(* dynamic_vm.py: a qemu machine of another host, over ssh.                *)

Host(p) == Do("host", Nil, Nil, {"CriticalError"}) \o p
OnVmHost(op, set) == Host(CheckCall(op, set))

(* The images there are replaced by those made here.                       *)
CopyImages ==
  OnVmHost("rm -rf", Holding("torn")) \o OnVmHost("mkdir", Nil)
  \o Host(Write(LAMBDA s : CheckCall("scp", s))) \o Maybe(OnVmHost("scp others", Nil))
VmDeployKernel == QemuDeployKernel \o CopyImages
VmDeployPrebuilt == QemuDeployPrebuilt \o CopyImages
VmPowerOn == Host(QemuPowerOn)

(* pkill fails where nothing runs; the images are left behind then.        *)
VmPowerOff ==
  IfElse([runs |-> "off"],
       QemuPowerOff \o Raise("CalledProcessError"),
       Finalize \o Do("proc", Nil, [proc |-> "none"], {})
       \o OnVmHost("pkill", Off) \o OnVmHost("rm -rf", Nil))

VmFileSystem(body) ==
  Host(CheckCall("sshfs", [sshfs |-> TRUE]))
  \o TryFinally(ImageFileSystem(body), CheckCall("fusermount -u", [sshfs |-> FALSE]))

---------------------------------------------------------------------------
(* fastmodel.py.                                                           *)

(* The files of a bootloader are copied when a partition holds them; a     *)
(* variables file comes with UEFI. The kernel, for the models that need it *)
(* beside the image, is copied if none was copied for an image before.     *)
CopyNeededFiles(partition) ==
  PartitionMounted(partition,
    Maybe(Do("uefi", Nil, [uefi |-> TRUE], {}) \o Maybe(Do("uefi_vars", Nil, [vars |-> TRUE], {})))
    \o When([kernel |-> "none"], Do("_kernel", Nil, [kernel |-> "new"], {})))
CopyAllNeededFiles == CopyNeededFiles("boot") \o CopyNeededFiles("root") \o CopyNeededFiles("root")
Anew(p) ==
  When([kernel |-> "new"], Do("another image", Nil, [kernel |-> "old"], {}))
  \o p \o IfElse([kernel |-> "old"], Do("_sd_image", Nil, Holding("old"), {}), Made)

CustomizeAndroid ==
  PartitionMounted("root", Command("rm wallpaper", Nil))
  \o PartitionMounted("root", Do("mkshrc", Nil, [img |-> "ready"], {"OSError"}))

ModelDeployAndroid ==
  Anew(GenerateAndroidImage
       \o CopyNeededFiles("boot") \o CustomizeAndroid)
ModelDeployLinaro == Anew(GenerateImage \o CustomizeImage \o CopyAllNeededFiles)
ModelDeployPrebuilt ==
  Anew(Fetch("image", [img |-> "raw"]) \o CustomizeImage \o CopyAllNeededFiles)
ModelDeployKernel ==
  Do("required", Nil, [ramdisk |-> TRUE], {"CriticalError"})
  \o Fetch("kernel", Nil) \o Fetch("ramdisk", Nil) \o Maybe(AddModules) \o Fetch("dtb", Nil)
  \o Fetch("bootloader", [uefi |-> TRUE]) \o Fetch("bl1", Nil) \o Maybe(Fetch("bl2", Nil))
  \o Maybe(Fetch("bl31", Nil)) \o Made

(* With a variables file the simulator is asked to shut down, which it     *)
(* must exist for. _booted is not touched.                                 *)
ModelPowerOff ==
  When([vars |-> TRUE], When([sim |-> "none"], Raise("Exception")))
  \o When([client |-> TRUE], Close) \o Do("killpg", Nil, [sim |-> "none", runs |-> "off"], {})

ModelPowerOn ==
  LET Boot ==
        Unless([sim |-> "none"],
          When([vars |-> TRUE], Do("graceful", Nil, Nil, {}))
          \o Do("killpg", Nil, [sim |-> "none", runs |-> "off"], {}))
        \o Do("_check_needed_files", Nil, Nil, {"RuntimeError"})
        \o Do("_fix_perms", Nil, Nil, {"OSError"})
        \o Do("simulator_command", Nil, [sim |-> "open"], {"TIMEOUT"})
        \o Do("license", Nil, [runs |-> "boot"], {"RuntimeError", "TIMEOUT"})
        \o Do("telnet", Nil, [proc |-> "open"], {})
        \o When([ramdisk |-> TRUE], Do("ramdisk", Nil, [dir |-> "old"], {}))
        \o IfElse([uefi |-> TRUE], EnterBootloader \o LoadBootCmds \o CustomizeBootloader("test"),
                  Do("autoboot", In("boot"), Booted("test"), {}))
        \o AutoLogin("test")
        \o When([ramdisk |-> TRUE],
             WaitForPrompt("test") \o Do("export PS1", Open, [booted |-> TRUE], {}))
  IN  IfElse([ramdisk |-> TRUE], IfElse([booted |-> TRUE], Do("export PS1", Open, Nil, {}), Boot),
             Boot)

ModelFileSystem(boot, body) ==
  IfElse([ramdisk |-> TRUE],
    When([reset |-> TRUE],
         Do("_reset_boot", Nil, [booted |-> FALSE, reset |-> FALSE], {}) \o Raise("Exception"))
    \o When([booted |-> FALSE], boot)
    \o BusyboxFileSystem("test", FALSE, body),
    ImageFileSystem(body))

---------------------------------------------------------------------------
(* dummy.py, dummy_drivers.py: a session of this host or of another one.   *)

DummyDeploy == Do("deployment_data", Nil, Holding("new"), {})
DummyPowerOn(connect) ==
  connect \o Do("session", Nil, [proc |-> "open", runs |-> "test", live |-> TRUE], {})
  \o Do("export PS1", Open, Nil, {})
DummyPowerOff(finalize) ==
  When([client |-> TRUE], Close) \o finalize
DummyDirectory(body) ==
  Do("makedirs", Nil, [copy |-> "old"], {"OSError"}) \o body
  \o Do("in place", Nil, [copy |-> "none", dir |-> "new"], {})

(* A session is begun when it is first needed, and not again once ended.   *)
Session == When([chroot |-> "none"], CheckCall("schroot --begin-session", [chroot |-> "live"]))
SchrootConnect == Session \o When([chroot |-> "ended"], Raise("OSError"))
SchrootFinalize ==
  Session \o IfElse([chroot |-> "live"], CheckCall("schroot --end-session", [chroot |-> "ended"]),
                    Raise("CalledProcessError"))
SchrootFileSystem(body) ==
  Session \o CheckCall("schroot --location", Nil)
  \o IfElse([chroot |-> "live"], DummyDirectory(body), Raise("OSError"))

(* The identity file and the configuration are written once.               *)
SshConfig == Do("ssh_config", Nil, Nil, {"OSError"})
SshFileSystem(body) ==
  SshConfig \o CheckCall("sshfs", [sshfs |-> TRUE])
  \o TryFinally(DummyDirectory(body), CheckCall("fusermount -u", [sshfs |-> FALSE]))
=============================================================================
