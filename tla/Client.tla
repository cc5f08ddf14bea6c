------------------------------- MODULE Client -------------------------------
(***************************************************************************)
(* client/base.py and the actions that use it. A target is a record of its *)
(* methods: on (power_on), off (power_off), fs (file_system, a context      *)
(* manager), and what deploys it. The handler of a VM group only can fail. *)
(***************************************************************************)
EXTENDS MasterImage

(* self.proc = self.target_device.power_on()                               *)
PowerOn(on) == on \o Do("proc", Nil, [client |-> TRUE], {})

(* An image, or a hwpack and a rootfs.                                     *)
DeployLinaro(deploy) == Do("hwpack, rootfs or image", Nil, Nil, {"CriticalError"}) \o deploy

---------------------------------------------------------------------------
(* The test image.                                                         *)

SetupProxy == Maybe(Expect("test", "http_proxy"))
ShowSystem == WaitForPrompt("test") \o WaitForPrompt("test")
              \o WaitForPrompt("test") \o WaitForPrompt("test")
StartVms ==
  Maybe(Run("test", "authorized_keys", Nil)
        \o TryExcept(TargetIp("test"), {"NetworkError", "ADBConnectError"}, Raise("OSError"))
        \o Run("test", "export", Nil) \o Do("lava_vm_start", Nil, Nil, {"CriticalError"}))

(* A boot or a first prompt that fails is tried again; what fails after    *)
(* the first prompt leaves the loop.                                       *)
BootLinaroImage(on) ==
  LET Attempt ==
        WaitForVms \o TryExcept(PowerOn(on), BootErrors, Raise("again"))
        \o TryExcept(WaitForPrompt("test"), {"TIMEOUT"}, Raise("again"))
        \o SetupProxy \o ShowSystem \o StartVms
  IN  Retry(Attempt, {"again"}, Nil, Raise("CriticalError"))

InTestShell ==
  Unless([client |-> TRUE], Raise("OperationFailed")) \o Do("sendline", Open, Nil, {})
  \o TryExcept(Expect("test", "prompt"), {"TIMEOUT"}, Raise("OperationFailed"))

TesterSession(on, body) ==
  TryExcept(InTestShell, {"OperationFailed"}, BootLinaroImage(on)) \o body

(* runner() boots, whatever runs.                                          *)
Runner(on, body) == BootLinaroImage(on) \o body

---------------------------------------------------------------------------
(* Android.                                                                *)

(* The connection that is left of another job is dropped first; after a    *)
(* connect that is not answered, or a device that does not show up, the    *)
(* connection stays. Bare excepts: whatever goes wrong with the address is *)
(* a failed operation, with that disconnect nothing, the end of the        *)
(* process included.                                                       *)
AdbDisconnect == Do("adb disconnect", Nil, [adb |-> FALSE], {})
DefaultNicIp ==
  TryExcept(Do("get_default_nic_ip", In("test"), Nil, {"NetworkError"}), Everything,
            Raise("OperationFailed"))
WaitUntilAttached == Do("adb devices", Nil, Nil, {"ADBConnectError"})
AdbConnect ==
  DefaultNicIp \o TryExcept(AdbDisconnect, Everything, Nil)
  \o Do("adb connect", Nil, [adb |-> TRUE], {"ADBConnectError"})
  \o WaitUntilAttached
AndroidConnect == Either(AdbConnect, RunFailok("test", "getprop ro.serialno", Nil))

(* For a health check a home screen that does not come is no error: the    *)
(* bare except takes whatever is raised, the end of the process included.  *)
WaitHomeScreen ==
  TryFinally(TryExcept(Expect("test", "logcat"), {"TIMEOUT"}, Raise("CriticalError")),
             Do("ctrl-c", Open, Nil, {}) \o Run("test", "", Nil))
DisableSuspend ==
  Maybe(TryExcept(WaitHomeScreen, Everything, Either(Nil, Reraise)))
  \o Run("test", "disablesuspend.sh", Nil)

EnableNetwork == Run("test", "netcfg", Nil) \o Run("test", "netcfg up", Nil)
                 \o Run("test", "netcfg dhcp", Nil) \o Run("test", "ifconfig", Nil)
EnableAdb == Run("test", "setprop", Nil) \o Run("test", "stop adbd", Nil)
  \o Run("test", "start adbd", Nil) \o TryFinally(AndroidConnect, AdbDisconnect)

BootAndroidImage(on, check) ==
  LET Attempt ==
        TryExcept(PowerOn(on), BootErrors, Raise("again"))
        \o TryExcept(WaitForPrompt("test"), {"TIMEOUT"}, Raise("again"))
        \o Maybe(TryExcept(Run("test", "disable adb", Nil), BootErrors, Raise("again")))
        \o Maybe(TryExcept(DisableSuspend, BootErrors \cup Critical, Raise("again")))
        \o Maybe(TryExcept(EnableNetwork, BootErrors, Raise("again")))
        \o Maybe(TryExcept(EnableAdb, BootErrors, Raise("again")))
  IN  Retry(Attempt, {"again"}, Nil, Raise("CriticalError"))
      \o IF check THEN TryFinally(AndroidConnect, AdbDisconnect) ELSE Nil

AndroidTesterSession(on, body) ==
  TryExcept(InTestShell, {"OperationFailed"}, BootAndroidImage(on, FALSE))
  \o AndroidConnect \o TryFinally(body, AdbDisconnect)

---------------------------------------------------------------------------
(* The actions.                                                            *)

(* A bare except for Linux; for Android an adb connection that fails is    *)
(* left to the job.                                                        *)
CmdBootLinaro(on) == TryExcept(BootLinaroImage(on), Everything, Raise("CriticalError"))
CmdBootAndroid(on) ==
  TryExcept(BootAndroidImage(on, TRUE), Exceptions \ {"ADBConnectError"},
            Raise("CriticalError"))

(* LavaTestJob.run boots Android once more then; what fails there ends the *)
(* job.                                                                    *)
BootAndroid(on) ==
  TryExcept(CmdBootAndroid(on), {"ADBConnectError"},
    TryExcept(Do("ctrl-c", Open, Nil, {}) \o BootAndroidImage(on, TRUE), Exceptions,
              Raise("CriticalError")))

(* cmd_lava_test_shell: copy the test definitions to the target, boot it,  *)
(* follow the runner (TestShell), fetch the results. A timeout of the      *)
(* runner leaves the results on the target.                                *)
ConfigureTarget(fs) ==
  Within(fs, Do("_mk_runner_dirs", Nil, Nil, {"OSError"}) \o Fetch("test definitions", Nil) \o Edit)
KeepRunning(reset) ==
  Do("lava-test-runner", Open, Nil, {})
  \o TryExcept(Expect("test", "exiting"), {"TIMEOUT"}, reset \o Raise("TIMEOUT"))
BundleResults(fs) ==
  Do("filesystem_access_failure", Nil, [access |-> FALSE], {})
  \o TryExcept(Within(fs, Do("access", [copy |-> "old"], [access |-> TRUE], {"OSError"}) \o Edit),
               Exceptions, When([access |-> TRUE], Reraise))
RunOnHost == Do("run_on_host", Nil, Nil, {"OSError"})
CmdLavaTestShell(on, fs, reset) ==
  ConfigureTarget(fs) \o Either(Runner(on, KeepRunning(reset)), RunOnHost) \o BundleResults(fs)

(* submit_results with bundles on the device.                              *)
RetrieveResults(off, fs) == off \o Within(fs, Read \o MkTargz)

(* context.finish: the target is switched off, then a VM reports.          *)
Finish(off) == off \o Maybe(Do("lava_vm_stop", Nil, Nil, {"CriticalError"}))
=============================================================================
