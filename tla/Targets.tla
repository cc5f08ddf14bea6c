------------------------------- MODULE Targets -------------------------------
(***************************************************************************)
(* The target classes, each a function from the commands of a job to their *)
(* scripts: what get_target constructs, and the methods that LavaClient    *)
(* calls on it, inherited or its own.                                      *)
(***************************************************************************)
EXTENDS Client, Bootloader, FastbootTargets, SimulatedTargets, BoardTargets, TLC

With(r, s) == s @@ r

(* The commands that every target has, of its methods.                     *)
Common(init, on, off, fs, reset) ==
  [ init |-> init,
    boot |-> CmdBootLinaro(on),
    lava_test_shell |-> CmdLavaTestShell(on, fs, reset),
    finish |-> Finish(off),
    retrieve |-> RetrieveResults(off, fs) ]
Android(on, deploy) == [deploy_android |-> deploy, boot_android |-> BootAndroid(on)]

---------------------------------------------------------------------------
(* master.py, wg.py.                                                       *)

MasterFs == MasterFileSystem(Nil, Yield)
Master ==
  With(Common(ConnectToSerial, MasterPowerOn(Nil), MasterPowerOff, MasterFs, Nil),
  With(Android(MasterPowerOn(Nil), MasterDeployAndroid(Nil, Nil)),
  [ deploy |-> DeployLinaro(MasterDeployLinaro(Nil)),
    deploy_prebuilt |-> DeployLinaro(MasterDeployPrebuilt(Nil)),
    extract |-> MasterExtractTarball(Nil) ]))

WgFs == MasterFileSystem(LoadMasterFirmware, Yield)
Wg ==
  With(Common(ConnectToSerial, MasterPowerOn(LoadTestFirmware), MasterPowerOff, WgFs, Nil),
  With(Android(MasterPowerOn(LoadTestFirmware), MasterDeployAndroid(LoadMasterFirmware, ExtractFirmware)),
  [ deploy |-> DeployLinaro(MasterDeployLinaro(LoadMasterFirmware) \o ExtractFirmware),
    deploy_prebuilt |-> DeployLinaro(MasterDeployPrebuilt(LoadMasterFirmware) \o ExtractFirmware),
    extract |-> MasterExtractTarball(LoadMasterFirmware) ]))

---------------------------------------------------------------------------
(* bootloader.py, vexpress.py.                                             *)

Anew_ == ConnectToSerial \o BootloaderReset
UbootFs == BootloaderFileSystem(BootLinaroImage(BootloaderPowerOn(Nil)), Nil, Yield)
Uboot ==
  With(Common(Anew_, BootloaderPowerOn(Nil), MasterPowerOff, UbootFs, ResetBoot),
  With(Android(BootloaderPowerOn(Nil), BootloaderDeployAndroid(Nil, Nil)),
  [ deploy |-> DeployLinaro(BootloaderDeployLinaro(Nil, Nil)),
    deploy_prebuilt |-> DeployLinaro(BootloaderDeployPrebuilt(Nil, Nil)),
    deploy_kernel |-> BootloaderDeployKernel(MasterPowerOff, Anew_, {"ipxe"}),
    extract |-> BootloaderExtractTarball(Nil) ]))

VexpressOn == BootloaderPowerOn(LoadTestFirmware)
VexpressFs == BootloaderFileSystem(BootLinaroImage(VexpressOn), LoadMasterFirmware, Yield)
Vexpress ==
  With(Common(Anew_, VexpressOn, MasterPowerOff, VexpressFs, ResetBoot),
  With(Android(VexpressOn, BootloaderDeployAndroid(LoadMasterFirmware, ExtractFirmware)),
  [ deploy |-> DeployLinaro(BootloaderDeployLinaro(LoadMasterFirmware, ExtractFirmware)),
    deploy_prebuilt |-> DeployLinaro(BootloaderDeployPrebuilt(LoadMasterFirmware, ExtractFirmware)),
    deploy_kernel |-> VexpressDeployKernel(MasterPowerOff, Anew_),
    extract |-> BootloaderExtractTarball(LoadMasterFirmware) ]))

---------------------------------------------------------------------------
(* fastboot.py, nexell.py.                                                 *)

AdbBoot == BootAndroidImage(FastbootPowerOn(AdbDriver), FALSE)
AdbFs == FastbootFileSystem(AdbBoot, Yield)
FastbootAdb ==
  With(Common(Nil, FastbootPowerOn(AdbDriver), FastbootFinish, AdbFs, ResetBoot),
       Android(FastbootPowerOn(AdbDriver), FastbootDeployAndroid(AdbDriver)))

SerialOn(drv) == FastbootPowerOn(drv)
SerialBoot(drv) == IfElse([android |-> TRUE], BootAndroidImage(SerialOn(drv), FALSE),
                          BootLinaroImage(SerialOn(drv)))
FsOfSerial == FastbootFileSystem(SerialBoot(SerialDriver), Yield)
FastbootSerial ==
  With(Common(Nil, SerialOn(SerialDriver), FastbootFinish, FsOfSerial, ResetBoot),
  [ deploy_android |-> FastbootDeployAndroid(SerialDriver),
    deploy_kernel |-> FastbootDeployKernel(SerialDriver) ])
FsOfCapri == FastbootFileSystem(SerialBoot(CapriDriver), Yield)
Capri ==
  With(Common(Nil, SerialOn(CapriDriver), FastbootFinish, FsOfCapri, ResetBoot),
       Android(SerialOn(CapriDriver), FastbootDeployAndroid(CapriDriver)))

Nexell ==
  With(Common(Anew_, NexellPowerOn, MasterPowerOff, NexellFileSystem(Yield), ResetBoot),
  [ deploy |-> NexellDeploy, boot |-> NexellBoot, reset |-> NexellReset, ready |-> NexellReady ])

---------------------------------------------------------------------------
(* qemu.py, dynamic_vm.py, fastmodel.py, dummy.py.                         *)

Qemu ==
  With(Common(Nil, QemuPowerOn, QemuPowerOff, ImageFileSystem(Yield), Nil),
  [ deploy |-> DeployLinaro(QemuDeployLinaro), deploy_prebuilt |-> DeployLinaro(QemuDeployPrebuilt),
    deploy_kernel |-> QemuDeployKernel, extract |-> QemuExtract ])

DynamicVm ==
  With(Common(Nil, VmPowerOn, VmPowerOff, VmFileSystem(Yield), Nil),
  [ deploy_prebuilt |-> DeployLinaro(VmDeployPrebuilt), deploy_kernel |-> VmDeployKernel ])

ModelFs == ModelFileSystem(BootLinaroImage(ModelPowerOn), Yield)
Model ==
  With(Common(Nil, ModelPowerOn, ModelPowerOff, ModelFs, ResetBoot),
  With(Android(ModelPowerOn, ModelDeployAndroid),
  [ deploy |-> DeployLinaro(ModelDeployLinaro), deploy_prebuilt |-> DeployLinaro(ModelDeployPrebuilt),
    deploy_kernel |-> ModelDeployKernel ]))

Schroot ==
  With(Common(Nil, DummyPowerOn(SchrootConnect), DummyPowerOff(SchrootFinalize),
              SchrootFileSystem(Yield), Nil), [ deploy |-> DummyDeploy ])
Ssh ==
  With(Common(Nil, DummyPowerOn(SshConfig), DummyPowerOff(When([client |-> TRUE], Finalize)),
              SshFileSystem(Yield), Nil), [ deploy |-> DummyDeploy ])

---------------------------------------------------------------------------
(* ipmi_tftp.py, sdmux.py, jtag.py.                                        *)

Ipmi ==
  With(Common(IpmiInit, IpmiPowerOn, IpmiPowerOff, IpmiFileSystem(Yield), Nil),
  [ deploy |-> DeployLinaro(IpmiDeployLinaro), deploy_prebuilt |-> DeployLinaro(IpmiDeployPrebuilt) ])
Sdmux ==
  With(Common(ConnectToSerial, SdmuxPowerOn, SdmuxPowerOff, SdmuxFileSystem(Yield), Nil),
  With(Android(SdmuxPowerOn, SdmuxDeployAndroid),
  [ deploy |-> DeployLinaro(SdmuxDeployLinaro), deploy_prebuilt |-> DeployLinaro(SdmuxDeployPrebuilt),
    extract |-> SdmuxExtract ]))
JtagFs == JtagFileSystem(BootLinaroImage(JtagPowerOn), Yield)
Jtag(ramdisk) ==
  With(Common(Nil, JtagPowerOn, JtagFinish, JtagFs, Nil),
  [ deploy_kernel |-> JtagDeployKernel(ramdisk) ])
JtagNfs == Jtag(FALSE)

=============================================================================
