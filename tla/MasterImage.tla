----------------------------- MODULE MasterImage -----------------------------
(***************************************************************************)
(* device/master.py: a board that holds a master image beside the image    *)
(* under test. The master image formats and fills the test partitions, and *)
(* it is where file_system works. "fw" is what a subclass does to the      *)
(* firmware before the board boots, "unpack" with that of an Android build.*)
(***************************************************************************)
EXTENDS TargetBase

WaitForVms == Maybe(Do("wait_for_vms", Nil, Nil, {"CriticalError"}))

---------------------------------------------------------------------------
(* Into the master image.                                                  *)

(* The files of the master image are fetched once; boot_cmds_master names  *)
(* them. Without it the board finds the master image by itself.            *)
WaitForMasterBoot ==
  Either(EnterBootloader \o Maybe(Fetch("master files", Nil) \o Maybe(SetupNfs))
           \o LoadBootCmds \o CustomizeBootloader("master"),
         Do("autoboot", In("boot"), [runs |-> "master"], {"TIMEOUT"}))
  \o Expect("master", "image_boot_msg") \o AutoLogin("master") \o WaitForPrompt("master")

(* The version stays unknown when its line does not come.                  *)
GetDeviceVersion == Do("device_version", In("master"), Nil, {"quiet", "TIMEOUT"})

Reboot == Either(Command("hard_reset_command", Booting), SoftReboot)

(* A reboot, a prompt or a network that does not come is tried again; any  *)
(* other failure leaves the loop.                                          *)
BootMasterImage(fw) ==
  LET Attempt ==
        TryExcept(Reboot \o fw \o WaitForMasterBoot, BootErrors, Raise("again"))
        \o TryExcept(Expect("master", "export PS1"), {"TIMEOUT"}, Raise("again"))
        \o TryExcept(TargetIp("master") \o GetDeviceVersion,
                     {"NetworkError", "ADBConnectError"}, Raise("again"))
        \o Maybe(Run("master", "http_proxy", Nil))
  IN  WaitForVms \o Retry(Attempt, {"again"}, Nil, Raise("CriticalError"))

(* Ten seconds without a prompt: this is not the master image.             *)
AsMaster(fw) == TryExcept(Expect("master", "prompt"), {"TIMEOUT"}, BootMasterImage(fw))

---------------------------------------------------------------------------
(* Filling the test partitions.                                            *)

FormatTestpartition ==
  RunFailok("master", "umount", [mounted |-> FALSE])
  \o Run("master", "mkfs", Holding("torn"))
  \o RunFailok("master", "umount", Nil) \o Run("master", "mkfs.vfat", Nil)

(* What is written must be read back.                                      *)
TestFilesystemWriteable ==
  RunFailok("master", "dd", Nil) \o Do("md5sum", In("master"), Nil, {"TIMEOUT", "RuntimeError"})
  \o RunFailok("master", "rm ddout", Nil)

(* target_extract: only a timeout is tried again, after a ctrl-c; a status *)
(* that is not 0 is not.                                                   *)
MasterExtract(set) ==
  LET Get == Run("master", "wget | tar", set)
  IN  RunFailok("master", "tar --help", Nil)
      \o Retry(Get, BootErrors, Do("ctrl-c", Open, Nil, {}) \o WaitForPrompt("master"),
               Raise("RuntimeError"))

(* The partition stays mounted when a step fails.                          *)
Fill(steps) ==
  Run("master", "mkdir", Nil) \o Run("master", "mount", [mounted |-> TRUE])
  \o TestFilesystemWriteable \o steps \o Run("master", "umount", [mounted |-> FALSE])

DivertFlashKernel ==
  Maybe(Run("master", "dpkg-divert", Nil) \o Run("master", "ln -sf", Nil))
DeployRootfs == Run("master", "udevadm", Nil) \o Fill(MasterExtract(Nil) \o DivertFlashKernel)
DeployBootfs == Run("master", "udevadm", Nil) \o Fill(Write(MasterExtract))

(* A bare except: whatever goes wrong is critical, the end of the process  *)
(* included.                                                               *)
DeployTarballs(fw) ==
  AsMaster(fw) \o FormatTestpartition
  \o TryExcept(DeployRootfs \o DeployBootfs, Everything, Raise("CriticalError"))

ReadBootCmds == Maybe(ExtractTar)
ExtractPartition(m) == PartitionMounted(m, MkTargz)
GenerateTarballs ==
  CustomizeImage \o Maybe(PartitionMounted("boot", Nil))
  \o ExtractPartition("boot") \o ExtractPartition("root")

MasterDeployLinaro(fw) ==
  BootMasterImage(fw) \o GenerateImage \o GenerateTarballs \o ReadBootCmds \o DeployTarballs(fw)

(* The tarballs of a health check come from the cache, where they are made *)
(* of a customized image (TarballCache).                                   *)
MasterDeployPrebuilt(fw) ==
  BootMasterImage(fw)
  \o Either(Do("get_tarballs", Nil, [img |-> "ready", data |-> TRUE], {"CriticalError", "RuntimeError"}),
            Fetch("image", [img |-> "raw"]) \o GenerateTarballs)
  \o ReadBootCmds \o DeployTarballs(fw)

---------------------------------------------------------------------------
(* Android.                                                                *)

UpdateRamdiskPartitions == Run("master", "sed -i partitions", Nil)
RecreateRamdisk ==
  Run("master", "mkdir", Nil) \o RunFailok("master", "mv ramdisk", Nil)
  \o Do("ramdisk_name", Nil, Nil, {"CriticalError"}) \o Either(Run("master", "dd", Nil), Run("master", "mv", Nil))
  \o Run("master", "cpio -i", Nil) \o Maybe(Run("master", "sed init", Nil))
  \o Maybe(UpdateRamdiskPartitions) \o Run("master", "cpio -o", Nil)
  \o Maybe(Run("master", "mkimage", Nil)) \o Run("master", "mv back", Nil)

(* vold.fstab, disablesuspend.sh and the prompt.                           *)
PatchSystem ==
  Maybe(RunFailok("master", "sed vold.fstab", Nil))
  \o Maybe(Run("master", "wget disablesuspend.sh", Nil) \o Run("master", "chmod", Nil))
  \o RunFailok("master", "sed mkshrc", [img |-> "ready"])

AndroidBoot == Fill(MasterExtract(Nil) \o RecreateRamdisk)
AndroidSystem == Fill(MasterExtract(Nil) \o PatchSystem)
AndroidData ==
  RunFailok("master", "umount", Nil) \o Run("master", "mkfs.ext4", Nil) \o Fill(Write(MasterExtract))

PurgeSdcard == Run("master", "mkfs.vfat", Nil) \o Fill(Nil)

MasterDeployAndroid(fw, unpack) ==
  Do("deployment_data", Nil, [data |-> TRUE], {})
  \o BootMasterImage(fw) \o Fetch("boot, system, data", [img |-> "raw"])
  \o AsMaster(fw) \o FormatTestpartition \o AndroidBoot \o AndroidSystem \o AndroidData
  \o unpack
  \o Maybe(PurgeSdcard)

---------------------------------------------------------------------------
(* Into the test image, and back to its files.                             *)

MasterPowerOn(fw) ==
  LoadBootCmds \o Reboot \o fw \o EnterBootloader \o CustomizeBootloader("test")
  \o AutoLogin("test")

MasterPowerOff == Maybe(Command("power_off_cmd", Off)) \o Finalize

GetPartition == Maybe(RunFailok("master", "ls by-label", Nil)) 
  \o Do("partition", Nil, Nil, {"RuntimeError"})

MasterExtractTarball(fw) ==
  AsMaster(fw) \o GetPartition \o Run("master", "mount", [mounted |-> TRUE])
  \o TryFinally(MasterExtract(Nil), Run("master", "umount /mnt", [mounted |-> FALSE]))

(* Mutant: the partition is left mounted.                                  *)
MasterFileSystemNoUmount(fw, body) ==
  AsMaster(fw) \o GetPartition \o Run("master", "mount", [mounted |-> TRUE])
  \o PythonFileSystem("master", FALSE, body)

MasterFileSystem(fw, body) ==
  AsMaster(fw) \o GetPartition \o Run("master", "mount", [mounted |-> TRUE])
  \o PythonFileSystem("master", TRUE, body)
=============================================================================
