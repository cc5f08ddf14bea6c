----------------------------- MODULE TargetBase -----------------------------
(***************************************************************************)
(* device/target.py: what all targets share, with the helpers of utils.py, *)
(* client/lmc_utils.py and client/base.py that it calls. The world is a    *)
(* record d:                                                               *)
(*   runs    off | boot | master | test: what the board executes, as its   *)
(*           prompt tells                                                  *)
(*   proc    none | open | closed: the session that the target holds       *)
(*   client  the session that the client holds is the target's             *)
(*   img     none | raw | ready: the image file on the host                *)
(*   medium  old | torn | raw | new: what the board boots from             *)
(*   live    the board was booted from what medium holds now               *)
(*   data    deployment_data is set (of the targets that ask)              *)
(*   copy    none | empty | old | new: the directory that a caller of      *)
(*           file_system changes; dir old | new | lost: the one on the     *)
(*           target ("old" while it lacks the change)                      *)
(*   boot, root, served, mounted: an image partition is mounted on the     *)
(*           host, a web server runs on the board, /mnt of the board is    *)
(*           in use                                                        *)
(***************************************************************************)
EXTENDS Script

Critical == {"CriticalError", "NetworkError", "ADBConnectError"}
Exceptions == Critical \cup {"TIMEOUT", "OperationFailed", "RuntimeError",
  "CalledProcessError", "OSError", "Exception"}
Everything == Exceptions \cup {"SystemExit"}
BootErrors == {"OperationFailed", "TIMEOUT"}

---------------------------------------------------------------------------
(* The session.                                                            *)

Open == [proc |-> "open"]
Booting == [runs |-> "boot", served |-> FALSE, mounted |-> FALSE]
Off == [runs |-> "off", served |-> FALSE, mounted |-> FALSE]
Booted(img) == [runs |-> img, live |-> img = "test"]
Holding(medium) == [medium |-> medium, live |-> FALSE]
In(img) == [proc |-> "open", runs |-> img]

(* CommandRunner.run: a status that is not 0 is an error, unless failok.   *)
Run(img, op, set) == Do(op, In(img), set, {"TIMEOUT", "RuntimeError"})
RunFailok(img, op, set) == Do(op, In(img), set, {"TIMEOUT"})
Expect(img, op) == Do(op, In(img), Nil, {"TIMEOUT"})

(* A prompt is awaited seven times, with a newline in between.             *)
WaitForPrompt(img) == Retry(Expect(img, "prompt"), {"TIMEOUT"}, Nil, Raise("TIMEOUT"))

(* context.run_command ignores the status; check_call and                  *)
(* run_command_with_retries do not.                                        *)
Command(op, set) == Do(op, Nil, set, {"quiet"})
CheckCall(op, set) == Do(op, Nil, set, {"CalledProcessError"})
CommandWithRetries(op, set) ==
  Retry(CheckCall(op, set), {"CalledProcessError"}, Nil, Raise("OperationFailed"))

(* The message "connected" and a silent line are good; a stuck port or a   *)
(* closed connection is reset and tried again; an end of file is not.      *)
Connect == Do("connection_command", Nil, [proc |-> "open"], {"refused", "CriticalError"})
ConnectToSerial ==
  Retry(Connect, {"refused"}, Maybe(Command("reset_port_command", Nil)), Raise("CriticalError"))

(* finalize_process kills the process group and closes the session.        *)
Finalize == When(Open, Do("killpg", Nil, [proc |-> "closed"], {}))
Close == When(Open, Do("close", Nil, [proc |-> "closed"], {}))

(* get_target_ip: the network must come up within 300 s and show an        *)
(* address.                                                                *)
TargetIp(img) == Expect(img, "ping") \o Do("ifconfig", In(img), Nil, {"NetworkError"})

---------------------------------------------------------------------------
(* Booting.                                                                *)

AutoLogin(img) ==
  Maybe(WaitForPrompt(img) \o Do("username", Open, Nil, {}))
  \o Maybe(WaitForPrompt(img) \o Do("password", Open, Nil, {}))

(* Only the silence of the board is an error.                              *)
SoftReboot == Do("soft_boot_cmd", Open, Booting, {"OperationFailed"})

(* The status of the command is ignored.                                   *)
HardReboot ==
  Either(Command("hard_reset_command", Booting),
         Do("hardreset", Open, Booting, {"quiet"}))

EnterBootloader == Expect("boot", "interrupt_boot_prompt")

(* The commands of the job go before those of a boot option, these before  *)
(* those of the image, and these before those of the configuration, which  *)
(* may lack them.                                                          *)
LoadBootCmds == Do("boot_cmds", Nil, Nil, {"Exception"})

(* Every line of boot_cmds is typed at a prompt; the last boots img.       *)
CustomizeBootloader(img) ==
  Expect("boot", "bootloader_prompt") \o Do("boot", In("boot"), Booted(img), {"TIMEOUT"})

ExtractRootfs == Do("extract_rootfs", Nil, Nil, {"CriticalError"})
SetupNfs == ExtractRootfs
ExtractModules == Do("extract_modules", Nil, Nil, {"CriticalError"})

(* A ramdisk is unpacked, given the modules and packed again.              *)
ExtractRamdisk == Do("extract_ramdisk", Nil, Nil, {"CriticalError"})
PackRamdisk == Do("create_ramdisk", Nil, Nil, {"CriticalError"})
CreateRamdisk == ExtractRamdisk \o ExtractModules \o PackRamdisk
AppendDtb == Do("append_dtb", Nil, Nil, {"CriticalError"})
CreateUimage == Do("create_uimage", Nil, Nil, {"CriticalError"})
MkTargz == Do("mk_targz", Nil, Nil, {"CriticalError"})
ExtractTar == Do("extract_tar", Nil, Nil, {"CriticalError"})

---------------------------------------------------------------------------
(* Images on the host.                                                     *)

(* download_image retries for 300 s, whatever the failure.                 *)
Fetch(op, set) == Do(op, Nil, set, {"RuntimeError"})

(* linaro-media-create runs under the lock of the host; its license        *)
(* dialogs are answered, a silent one is a TIMEOUT.                        *)
MediaCreate(set) == Do("linaro-media-create", Nil, set, {"TIMEOUT", "CriticalError"})
GenerateImage == Fetch("hwpack", Nil) \o Fetch("rootfs", Nil) \o MediaCreate([img |-> "raw"])
GenerateAndroidImage == Fetch("boot, data, system", Nil) \o MediaCreate([img |-> "raw"])

(* image_partition_mounted: mount waits for a loop device, umount is       *)
(* retried, and a partition that stays mounted is an error.                *)
Umount(m) == CheckCall("umount", Put(m, FALSE))
PartitionMounted(m, body) ==
  Do("mount -o loop", Nil, Put(m, TRUE), {"RuntimeError"})
  \o TryFinally(body,
       Retry(Umount(m), {"CalledProcessError"}, Nil, Raise("RuntimeError")))

(* A customize entry is refused unless its paths name boot: or rootfs:;    *)
(* what is missing in the image or on the host is an error.                *)
Reorganize == Do("reorganize_customize_files", Nil, Nil, {"CriticalError"})
CopyTo == Do("copy_to", Nil, Nil, {"CriticalError", "OSError"})
Remove == Do("remove", Nil, Nil, {"OSError"})
CopyFrom == Do("copy_from", Nil, Nil, {"CriticalError", "OSError"})
PreDownload == CopyTo \o Fetch("remote files", Nil)
InjectFiles == Reorganize \o PreDownload \o Remove \o CopyFrom

(* The prompt goes to the profile and the host name to /etc/hostname.      *)
PromptHostname == Do("profile", [root |-> TRUE], Nil, {"OSError"})
                  \o Do("hostname", [root |-> TRUE], [img |-> "ready"], {"OSError"})
CustomizeLinux ==
  Do("os-release", [root |-> TRUE], [data |-> TRUE], {"OSError"}) \o PromptHostname

CustomizeImage ==
  LET Inner == CustomizeLinux \o Maybe(InjectFiles)
  IN  Either(PartitionMounted("boot", PartitionMounted("root", Inner)),
             PartitionMounted("root", Inner))

(* The board receives the image, as it is.                                 *)
Write(do(_)) == IfElse([img |-> "ready"], do(Holding("new")), do(Holding("raw")))

---------------------------------------------------------------------------
(* file_system.                                                            *)

(* What the callers do with the directory.                                 *)
Edit == Do("edit", [copy |-> "old"], [copy |-> "new", dir |-> "old"], {"OSError"})
Read == Do("read", [copy |-> "old"], Nil, {"OSError"})

(* The change is on the target once its copy is there.                     *)
Apply(do(_)) == IfElse([copy |-> "new"], do([dir |-> "new", copy |-> "none"]),
  IfElse([copy |-> "empty"], do([copy |-> "none"]), do([dir |-> "new", copy |-> "none"])))

TargetExtract(img, set) ==
  RunFailok(img, "tar --help", Nil) \o Run(img, "wget | tar", set)

(* The directory is packed on the board, fetched by the host, and          *)
(* replaced whole in the end, whatever became of the body. The status of   *)
(* the tar that unpacks it on the host is ignored.                         *)
Pack(img) == Run(img, "mkdir", Nil) \o Run(img, "tar -c", Nil) \o Run(img, "cd /tmp", Nil)
Unpack == Do("ensure_directory", Nil, [copy |-> "empty"], {"OSError"})
          \o Command("tar -x", [copy |-> "old"])
Replace(img) ==
  Run(img, "rm -rf", [dir |-> "lost"]) \o Apply(LAMBDA s : TargetExtract(img, s))

CtrlC(img) == Do("ctrl-c", Open, [served |-> FALSE], {}) \o WaitForPrompt(img)
IpOrCritical(img) ==
  TryExcept(TargetIp(img), {"NetworkError", "ADBConnectError"},
            Do("error_detected", Nil, [error |-> TRUE], {}) \o Raise("CriticalError"))

PythonFileSystem(img, mounted, body) ==
  Do("error_detected", Nil, [error |-> FALSE], {})
  \o TryFinally(
       Pack(img) \o IpOrCritical(img)
       \o Do("SimpleHTTPServer", In(img), [served |-> TRUE], {"CriticalError"})
       \o Fetch("fs.tgz", Nil)
       \o TryFinally(Unpack \o body,
            MkTargz \o CtrlC(img) \o Replace(img)),
       Unless([error |-> TRUE], CtrlC(img))
       \o IF mounted THEN Run(img, "umount /mnt", [mounted |-> FALSE]) ELSE Nil)

StartHttpd(img) == Run(img, "busybox httpd", [served |-> TRUE]) \o Run(img, "echo $!", Nil)
StopHttpd(img) == Run(img, "kill httpd", [served |-> FALSE])

BusyboxFileSystem(img, mounted, body) ==
  Do("error_detected", Nil, [error |-> FALSE], {})
  \o TryFinally(
       Pack(img) \o IpOrCritical(img)
       \o StartHttpd(img)
       \o Fetch("fs.tgz", Nil)
       \o TryFinally(Unpack \o body,
            MkTargz \o Replace(img)),
       Unless([error |-> TRUE], StopHttpd(img))
       \o IF mounted THEN Run(img, "umount /mnt", [mounted |-> FALSE]) ELSE Nil)

(* A partition of an image file that the host mounts: the change is in the *)
(* image when the partition is unmounted.                                  *)
ImageFileSystem(body) ==
  PartitionMounted("root", Do("ensure_directory", Nil, [copy |-> "old"], {"OSError"}) \o body)
  \o Apply(LAMBDA s : Do("written back", Nil, s, {}))
=============================================================================
