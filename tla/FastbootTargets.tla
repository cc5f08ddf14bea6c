--------------------------- MODULE FastbootTargets ---------------------------
(***************************************************************************)
(* device/fastboot.py, fastboot_drivers.py and nexell.py: boards that the  *)
(* host flashes through fastboot. runs is "fastboot" there. Further fields *)
(* of d:                                                                   *)
(*   android, image   _target_type is android; _image_deployment           *)
(*   booted, reset, ready   _booted, _reset_boot; __boot_image__ is set    *)
(*   linux, ramdisk   the driver has a _kernel; a _ramdisk                 *)
(*   kept    one of them is left of an earlier deployment                  *)
(*   called  nexell: file_system was called before                         *)
(***************************************************************************)
EXTENDS TargetBase

OnlyAndroid == Raise("CriticalError")

(* A command of fastboot, or of adb, that finds no device fails like one   *)
(* that fails.                                                             *)
Reaches(runs, op, set) ==
  IfElse([runs |-> runs], CheckCall(op, set), Raise("CalledProcessError"))
Fastboot(op, set) == Reaches("fastboot", op, set)
Adb(op, set) == Reaches("test", op, set)

---------------------------------------------------------------------------
(* Drivers. A driver is a record: enter, connect and boot.                 *)

(* FastBoot.enter: adb first, then the power switch; without one, as when  *)
(* it fails, nothing happens. What ran on the board ends.                  *)
InFastboot == [runs |-> "fastboot", served |-> FALSE, mounted |-> FALSE]
EnterByAdb ==
  TryExcept(Adb("soft_boot_cmd", InFastboot), {"CalledProcessError"},
            Command("hard_reset_command", InFastboot))

(* capri and pxa1928dkb: through the bootloader.                           *)
EnterBySerial ==
  ConnectToSerial \o Either(HardReboot, SoftReboot) \o EnterBootloader
  \o Do("start_fastboot_command", Open, [runs |-> "fastboot"], {})

AdbShell ==
  IfElse([android |-> TRUE],
         Adb("wait-for-device", Nil) \o Do("adb shell", Nil, [proc |-> "open"], {}), OnlyAndroid)
Serial == ConnectToSerial \o When([android |-> TRUE], Adb("wait-for-device", Nil))

(* BaseDriver.boot, and the drivers that flash the boot image. A driver    *)
(* that was given a kernel goes on booting it.                             *)
NoImage == Unless([ready |-> TRUE], Raise("CriticalError"))
BootOnce == NoImage \o Fastboot("reboot", Nil) \o Fastboot("boot", Booted("test"))
BootKernel ==
  NoImage \o Do("load_addr", Nil, Nil, {"CriticalError"}) \o Fastboot("boot -c", Booted("test"))
FlashAndReboot == Fastboot("flash boot", Nil) \o Fastboot("reboot", Booted("test"))

AdbDriver == [enter |-> EnterByAdb, connect |-> AdbShell, boot |-> Either(BootOnce, FlashAndReboot)]
SerialDriver ==
  [enter |-> EnterByAdb, connect |-> Serial,
   boot |-> IfElse([linux |-> TRUE], BootKernel, Either(BootOnce, FlashAndReboot))]
CapriDriver == [enter |-> EnterBySerial, connect |-> Serial, boot |-> FlashAndReboot]

---------------------------------------------------------------------------
(* The target.                                                             *)

(* The session is closed, then its process killed.                         *)
FastbootPowerOff == Close \o Maybe(Command("power_off_cmd", Off)) \o Finalize
FastbootFinish == IfElse([client |-> TRUE], FastbootPowerOff, Maybe(Command("power_off_cmd", Off)))

(* A device that is powered off, or is in fastboot already.                *)
EnterFastboot(drv) ==
  Unless([proc |-> "none"], FastbootPowerOff \o Do("proc", Nil, [proc |-> "none"], {}))
  \o IfElse([runs |-> "fastboot"],
            TryExcept(CheckCall("getvar", Nil), {"CalledProcessError"}, drv.enter), drv.enter)

(* A command that fails or a session that is silent: deploy again.         *)
Deploying(drv, steps) ==
  Retry(EnterFastboot(drv) \o steps, {"CalledProcessError", "TIMEOUT"}, Nil, Raise("CriticalError"))
Image(op) == Fetch(op, Nil)

FastbootDeployed ==
  Do("__boot_image__", Nil, [ready |-> TRUE, medium |-> "new", live |-> FALSE], {})
  \o When([kept |-> TRUE], Do("_kernel, _ramdisk", Nil, Holding("old"), {}))

FastbootDeployAndroid(drv) ==
  Do("target_type", Nil, [android |-> TRUE, image |-> TRUE], {})
  \o When([linux |-> TRUE], Do("_kernel", Nil, [kept |-> TRUE], {}))
  \o Deploying(drv,
       Maybe(Fastboot("erase boot", Holding("torn"))) \o Image("boot")
       \o Maybe(Image("system") \o Fastboot("flash system", Holding("torn")))
       \o Maybe(Image("userdata") \o Fastboot("flash userdata", Holding("torn")))
       \o FastbootDeployed)

FastbootDeployKernel(drv) ==
  Do("target_type", Nil, [android |-> FALSE], {})
  \o Maybe(Do("rootfs", Nil, [image |-> TRUE], {}))
  \o Deploying(drv,
       Fetch("kernel", [linux |-> TRUE, kept |-> FALSE])
       \o Either(Fetch("ramdisk", [ramdisk |-> TRUE]) \o Maybe(Image("modules") \o CreateRamdisk),
                 When([ramdisk |-> TRUE], Do("_ramdisk", Nil, [kept |-> TRUE], {})))
       \o Maybe(Image("dtb") \o Maybe(AppendDtb))
       \o When([image |-> TRUE], Image("rootfs") \o Fastboot("flash rootfs", Holding("torn")))
       \o FastbootDeployed)

SetupPrompt == Do("export PS1", Open, Nil, {})

(* A Linux that is booted is left alone.                                   *)
BootFastboot(drv) ==
  TryExcept(
    EnterFastboot(drv) \o Maybe(LoadBootCmds) \o drv.boot
    \o Unless([image |-> TRUE], Do("ramdisk", Nil, [dir |-> "old"], {}))
    \o When([proc |-> "none"], drv.connect)
    \o AutoLogin("test") \o WaitForPrompt("test") \o SetupPrompt
    \o Do("_booted", Nil, [booted |-> TRUE], {}),
    {"CalledProcessError"}, Raise("OperationFailed"))
FastbootPowerOn(drv) ==
  IfElse([booted |-> TRUE], IfElse([android |-> FALSE], SetupPrompt, BootFastboot(drv)),
         BootFastboot(drv))

(* adb pull may fail; push happens only when the body succeeds.            *)
AdbFileSystem(body) ==
  CheckCall("mkdir", Nil) \o Do("adb pull", Nil, [copy |-> "old"], {}) \o body
  \o Apply(LAMBDA s : Adb("adb push", s))

FastbootFileSystem(boot, body) ==
  When([reset |-> TRUE],
       Do("_reset_boot", Nil, [booted |-> FALSE, reset |-> FALSE], {}) \o Raise("Exception"))
  \o When([booted |-> FALSE], boot)
  \o IfElse([image |-> TRUE],
       IfElse([android |-> TRUE], AdbFileSystem(body), PythonFileSystem("test", FALSE, body)),
       BusyboxFileSystem("test", FALSE, body))

---------------------------------------------------------------------------
(* nexell.py.                                                              *)

(* ctrl-c and reboot; a board that does not answer is sent a reset.        *)
NexellReset ==
  Do("reboot", Open, Booting, {})
  \o TryExcept(Expect("boot", "Hit any key"), {"TIMEOUT"},
       Do("reset", Open, Booting, {})
       \o TryExcept(Expect("boot", "Hit any key"), {"TIMEOUT"}, Raise("CriticalError")))

(* The image goes from /tmp to the parts that partmap.txt names. What      *)
(* flash returns is ignored; under bare excepts whatever is raised ends in *)
(* a CriticalError, an UnboundLocalError or a TypeError.                   *)
Barely(op, set, raises, class) == TryExcept(Do(op, Nil, set, raises), Everything, Raise(class))
NexellDeploy ==
  Barely("fastboot", Nil, {"CriticalError"}, "CriticalError")
  \o TryExcept(Do("OTG cable", Open, [runs |-> "fastboot"], {"TIMEOUT"}), {"TIMEOUT"},
               Raise("CriticalError"))
  \o CheckCall("fastboot devices", Nil) \o CheckCall("getvar chip", Nil)
  \o CheckCall("getvar product", Nil) \o Do("target", Nil, Nil, {"CriticalError"})
  \o Fetch("image", Nil) \o Maybe(Command("tar xf", Nil))
  \o Barely("partmap.txt", Nil, {"Exception"}, "Exception")
  \o Barely("flash partmap", Holding("torn"), {"quiet", "Exception"}, "Exception")
  \o Barely("flash parts", Holding("new"), {"quiet", "Exception"}, "Exception")
  \o Do("saveenv", Open, [runs |-> "boot"], {})

CheckLogcat == TryExcept(Expect("test", "logcat"), {"TIMEOUT"}, Raise("CriticalError"))
InputEvents == Maybe(Do("input_event", Open, Nil, {}))
NexellBoot ==
  Do("_check_boot_image_args", Nil, Nil, {"CriticalError"}) \o NexellReset
  \o Maybe(Do("commands", Open, Nil, {}))
  \o TryExcept(Do("boot", In("boot"), Booted("test"), {"TIMEOUT"}), {"TIMEOUT"},
               Raise("CriticalError"))
  \o Maybe(Maybe(CheckLogcat) \o InputEvents)
NexellReady == Do("display_on_command", Open, Nil, {}) \o InputEvents

(* Whatever is asked for, the directory is /tmp/lava of the host, emptied  *)
(* once.                                                                   *)
NexellFileSystem(body) ==
  When([called |-> FALSE], Do("rm -rf /tmp/lava", Nil, [called |-> TRUE], {}))
  \o Do("/tmp/lava", Nil, [copy |-> "old"], {}) \o body \o Do("left", Nil, [copy |-> "none"], {})

(* power_on boots nothing: it pushes /tmp/lava to the device, file by file,*)
(* whatever adb returns; a bare except installs adb.                       *)
NexellPowerOn ==
  Do("mkdir", Open, Nil, {}) \o Do("listdir", [called |-> TRUE], Nil, {"OSError"})
  \o TryExcept(Do("adb devices", Nil, Nil, {"OSError"}), Everything, Nil)
  \o Do("adb push", Nil, [dir |-> "new"], {"quiet"}) \o Do("chmod", Open, Nil, {})
=============================================================================
