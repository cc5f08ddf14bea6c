----------------------------- MODULE BoardTargets -----------------------------
(***************************************************************************)
(* Boards that the host reaches through other hardware: device/            *)
(* ipmi_tftp.py with ipmi.py, sdmux.py, and jtag.py with jtag_drivers.py.  *)
(* Further fields of d:                                                    *)
(*   sd      none | dut | host: who is connected to the SD card            *)
(*   sdmount the host mounts the card                                      *)
(*   booted, nfs   the fields of JtagTarget; nfs: NFSROOTFS is a boot tag  *)
(***************************************************************************)
EXTENDS TargetBase

---------------------------------------------------------------------------
(* ipmi.py: power is switched, then awaited.                               *)

CheckPowerStatus == Do("check_power_status", Nil, Nil, {"CriticalError"})
ChassisOff ==
  Unless([runs |-> "off"], CheckCall("chassis power off", Off)) \o CheckPowerStatus
ChassisOn ==
  When([runs |-> "off"], CheckCall("chassis power on", Booting)) \o CheckPowerStatus
PowerOnBootMaster == ChassisOff \o ChassisOn
PowerOnBootImage == CheckCall("chassis bootdev disk", Nil) \o ChassisOff \o ChassisOn

(* ipmi_tftp.py: every use of the master image boots it.                   *)
IpmiInit == Do("connection_command", Nil, Open, {}) \o Do("ecmeip", Nil, Nil, {"CriticalError"})
IpmiPowerOn ==
  PowerOnBootImage \o Do("disk", In("boot"), Booted("test"), {"quiet"}) \o AutoLogin("test")
IpmiPowerOff == ChassisOff \o Finalize

IpmiAsMaster ==
  PowerOnBootMaster \o EnterBootloader \o LoadBootCmds \o CustomizeBootloader("master")
  \o Expect("master", "image_boot_msg") \o WaitForPrompt("master") \o Expect("master", "PS1")

(* The root partition grows to the end of the disk, when parted shows it   *)
(* as an ext one.                                                          *)
ResizeRootfs ==
  Run("master", "parted print", Nil)
  \o Maybe(Run("master", "parted rm", Nil) \o Run("master", "parted mkpart", Nil)
           \o Run("master", "resize2fs", Nil))
IpmiDeployImage ==
  IpmiAsMaster \o Run("master", "dd if=/dev/zero", Holding("torn")) \o Maybe(Command("bzip2", Nil))
  \o Run("master", "mkdir", Nil) \o Run("master", "mount tmpfs", Nil) \o Run("master", "wget", Nil)
  \o Write(LAMBDA s : Run("master", "dd", s)) \o Run("master", "umount", Nil) \o ResizeRootfs

IpmiDeployLinaro == GenerateImage \o CustomizeImage \o IpmiDeployImage
IpmiDeployPrebuilt == Fetch("image", [img |-> "raw"]) \o CustomizeImage \o IpmiDeployImage

IpmiFileSystem(body) ==
  IpmiAsMaster \o Run("master", "mkdir", Nil) \o Do("partition", Nil, Nil, {"RuntimeError"})
  \o Run("master", "mount", [mounted |-> TRUE]) \o BusyboxFileSystem("master", TRUE, body)

---------------------------------------------------------------------------
(* sdmux.py, and the commands it sends to the mux (actions/lmp/sdmux.py).  *)

Mux(op, from, to) == When([sd |-> from], Do(op, Nil, [sd |-> to], {}))
HostUsda == Mux("dut_disconnect", "dut", "none") \o Do("host_usda", Nil, [sd |-> "host"], {})
HostDisconnect == Mux("host_disconnect", "host", "none")
MuxDevice == Do("mux_device", Nil, Nil, {"CriticalError"})

(* Only a dd that succeeds gives the card back; the board is not switched  *)
(* off.                                                                    *)
WriteImage ==
  HostUsda \o MuxDevice \o Do("dd begins", Nil, Holding("torn"), {})
  \o Write(LAMBDA s : Do("dd", Nil, s, {"CriticalError"})) \o HostDisconnect

SdmuxDeployLinaro == GenerateImage \o CustomizeImage \o WriteImage
SdmuxDeployPrebuilt == Fetch("image", [img |-> "raw"]) \o CustomizeImage \o WriteImage
SdmuxDeployAndroid ==
  GenerateAndroidImage
  \o PartitionMounted("root", Do("mkshrc", Nil, [img |-> "ready"], {"OSError"})) \o WriteImage

SdmuxPowerOff == Command("power_off_cmd", Off) \o Mux("dut_disconnect", "dut", "none")

(* A bare except: whatever fails in the boot is an OperationFailed.        *)
SdmuxPowerOn ==
  HostDisconnect \o Do("dut_usda", Nil, [sd |-> "dut"], {})
  \o TryExcept(Command("hard_reset_command", Booting) \o EnterBootloader
               \o LoadBootCmds \o CustomizeBootloader("test") \o AutoLogin("test") \o WaitForPrompt("test")
               \o Do("export PS1", Open, Nil, {}),
               Everything, Raise("OperationFailed"))

(* The prompt of the test image must answer before the board is switched   *)
(* off. An umount that fails twice is only logged.                         *)
UmountCard ==
  TryExcept(CheckCall("umount", [sdmount |-> FALSE]), {"CalledProcessError"},
            Command("umount", [sdmount |-> FALSE]))
SdmuxFileSystem(body) ==
  Expect("test", "sync") \o Command("power_off_cmd", Off) \o HostUsda \o MuxDevice
  \o TryFinally(
       TryExcept(CheckCall("mount", [sdmount |-> TRUE])
                 \o Do("ensure_directory", Nil, [copy |-> "old"], {"OSError"}) \o body,
                 Everything, Raise("CriticalError")),
       When([sdmount |-> TRUE], UmountCard))
  \o Apply(LAMBDA s : Do("written back", Nil, s, {})) \o HostDisconnect
SdmuxExtract ==
  SdmuxFileSystem(Fetch("tarball", Nil) \o ExtractTar)

---------------------------------------------------------------------------
(* jtag.py, jtag_drivers.py.                                               *)

(* NFSROOTFS stays a boot tag in later deployments.                        *)
JtagDeployKernel(ramdisk) ==
  Fetch("kernel", Nil)
  \o (IF ramdisk
      THEN Fetch("ramdisk", Nil)
           \o Maybe(Fetch("modules", Nil) \o CreateRamdisk)
      ELSE Nil)
  \o Maybe(Fetch("dtb", Nil))
  \o (IF ramdisk THEN Nil
      ELSE Fetch("nfsrootfs", Nil) \o SetupNfs
           \o Maybe(Fetch("modules", Nil) \o ExtractModules)
           \o Do("nfsrootfs", Nil, [nfs |-> TRUE], {}))
  \o Do("stmc_command", Nil, Holding("new"), {})

(* The debugger is reset when it does not answer, and asked four times;    *)
(* a slave leaves the images to its master.                                *)
StmcStatus == Do("stmc --status", Nil, Nil, {"refused"})
StmcReady ==
  TryExcept(StmcStatus, {"refused"},
    Command("jtag_hard_reset_command", Nil)
    \o Retry(StmcStatus, {"refused"}, Nil, Raise("CriticalError")))
ConnectJtag ==
  Either(Do("lava_ms_ready", Nil, Booting, {"CriticalError"}) \o ConnectToSerial
           \o Do("lava_ms_boot", Nil, Booted("test"), {"CriticalError"}),
         StmcReady \o Do("hard_reset_command", Nil, Booting, {"quiet", "CriticalError"})
           \o Do("serial-relay", Nil, Nil, {"CriticalError"}) \o ConnectToSerial
           \o CheckCall("jtag_command", Booted("test")))
  \o Expect("test", "image_boot_msg")

JtagPowerOff == Close \o Maybe(Command("power_off_cmd", Off)) \o Finalize
JtagFinish == IfElse([client |-> TRUE], JtagPowerOff, Maybe(Command("power_off_cmd", Off)))

(* Every power_on boots.                                                   *)
JtagPowerOn ==
  LoadBootCmds \o Unless([proc |-> "none"], JtagPowerOff \o Do("proc", Nil, [proc |-> "none"], {}))
  \o Unless([nfs |-> TRUE], Do("ramdisk", Nil, [dir |-> "old"], {}))
  \o ConnectJtag \o AutoLogin("test") \o WaitForPrompt("test")
  \o Do("export PS1", Open, [booted |-> TRUE], {})

JtagFileSystem(boot, body) ==
  IfElse([nfs |-> TRUE],
    Do("ensure_directory", Nil, [copy |-> "old"], {"OSError"}) \o body
    \o Do("in place", Nil, [copy |-> "none", dir |-> "new"], {}),
    When([booted |-> FALSE], boot) \o BusyboxFileSystem("test", FALSE, body))
=============================================================================
