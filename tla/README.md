# Formal models of the LAVA dispatcher

The LAVA dispatcher runs one test job on one device: it deploys an image, boots
it, runs test scripts on it over a serial line, collects the results and sends
them to a dashboard. Members of a MultiNode group run one dispatcher process
each and meet at a server, the lava-coordinator, which lives in a repository of
its own. A second dispatcher, for jobs in YAML, runs trees of actions
(`pipeline/`). This directory holds TLA+ models of the parts of both in which
control is hard, TLC configurations that check them on small instances, and
TLAPS proofs of their central properties for every instance.

Paths are those of `src/lava_dispatcher/` unless they begin with `lava/`, which
is `src/lava/`.

## 1. Inventory

| Part | State | Operations | Talks to | What is hard | Modules |
|---|---|---|---|---|---|
| Job loop, `job.py` | action index, results, `job_status`, the exception under way | `run`, `term_handler`, `_aggregate_bundle` | every action, the client, NodeDispatcher, the dashboard | seven exception classes through nested `try`, `continue`, `raise` and `finally`; SIGTERM anywhere; a `finish()` that raises | `LavaJob` |
| Result submission, `actions/launch_control.py` | the bundle | `collect_bundles`, `submit_bundle`, `submit_pending`, `submit_group_list` | device, dashboard | order against the other members of the group | `LavaJob`, `MultiNode` |
| Poller, `lava/dispatcher/node.py` | time used, the reply | `poll` | coordinator, a TCP connection per attempt | refused connections, cut replies, timeout against a late answer | `Poller`, `BlockingCall` |
| NodeDispatcher, `lava/dispatcher/node.py` | the group | `run`, `run_tests`, `_aggregation`, `_select` | Poller, job loop, test shell | barriers, members that time out or die | `MultiNode`, `GroupBarrier` |
| VM groups, `client/base.py` | `vms_started` | `start_vms`, `wait_for_vms`, `vm_finished` | coordinator, the host's device | a host and its machines wait for each other, each may die | `VmGroup` |
| Tarball cache, `tarballcache.py`, `device/master.py` | cache directory, lock file, scratch directory | `get_tarballs` and its generator | dispatchers of the same host through the file system | crash between any two steps, hard links, use after unlock | `TarballCache` |
| Test shell, `actions/lava_test_shell.py`, `signals/`, scripts of `lava_test_shell/` | the serial line, the current test run and case | `_keep_running`, signal handlers, the `lava-*` scripts | device, NodeDispatcher, LMP boards | acknowledgements on one line shared with output, timeouts, crashes | `TestScript`, `TestShell` |
| Client, `client/base.py`; commands, `actions/*.py` | the session | `boot_linaro_image`, `boot_linaro_android_image`, `retrieve_results`, `finish` | targets | retries over a device in any state | `Client` |
| Targets, `device/*.py` | sessions, mounts, boot flags, what is written where | `deploy_*`, `power_on`, `power_off`, `file_system`, `extract_tarball` | hardware, the host's file systems | long scripts of commands in `with` and `finally`, flags that survive a failure, SIGTERM in a cleanup | `Script`, `TargetBase`, `MasterImage`, `Bootloader`, `FastbootTargets`, `SimulatedTargets`, `BoardTargets`, `Targets`, `TargetJob` |
| Pipeline, `pipeline/` | action tree, pipeline data, errors, mounts, files in `/tmp` | `run_actions`, the `run` of each action | QEMU, the host's file systems | errors recorded and gone on from, Ctrl-C through nested pipelines, what jobs leave behind | `Pipeline`, `KvmJob` |
| LMP boards, `actions/lmp/` | mode of the board, serial buffer | `get_response`, `check_mode`, `send_frame` | a board on a serial line | lost and late reports | none |
| Result parsing, `lava_test_shell.py` | test case results | `_get_test_results`, `_merge_results` | result files | merging what two sources say of one case | none |
| Configuration, bundle documents | static | parse, validate, convert | files | none for a model | none |

What makes each part correct:

* Job loop: one result per action, whatever is raised, but at most for the last
  one; `job_complete` tells the truth; the device is off at the end; SIGTERM stops
  the job unless something swallows it.
* Poller: a blocking call that returns the coordinator's own answer, or a nack
  when it said "wait" until the timeout, and that does return.
* NodeDispatcher: nobody starts before all are there, put_group comes after
  all aggregate calls and holds only bundles that were collected, nobody waits
  for ever.
* VM groups: the host is not reset under its machines; nobody waits for ever.
* Tarball cache: what looks complete is complete and of the right image; it is
  built once; waiting ends.
* Test shell: no script blocks while its dispatcher lives; lava-sync is a
  barrier; the bundle is true, and complete when the runner says that it exits.
* Targets and client: what a deployment that returns has written is what boots
  and what is tested; tests run where they were copied to; the host, the board,
  the card and the firmware are left as the next command needs them; SIGTERM
  ends the job; no legal order of commands fails by itself.
* Pipeline: Ctrl-C ends the job at any depth; what boots has this job's test
  scripts; tests of another job leave an error behind, unless a command failed
  that nobody looks at; QEMU does not survive.

## 2. Plan

Every line of the plan but the last is written: `LavaJob`, `Poller` over
`BlockingCall`, `MultiNode` over `GroupBarrier`, `TarballCache`, `TestShell` over
`TestScript`, the targets (`Script` to `TargetJob`), `Pipeline` under `KvmJob`,
`VmGroup`, and proofs about each of them. Left:

* `LmpBoard`: a board, its serial buffer and `get_response`, with lost, late and
  stale reports;
* `ResultParsing`: `_get_test_results` and `_merge_results` as operators against a
  reference definition;
* the actions of the YAML dispatcher that only MultiNode and LMP jobs add;
* a proof of `BoardClean`, the one safety property of `TargetJob` that is only
  model-checked (section 5).

How the modules build on each other:

    BlockingCall <- Poller                          (refinement)
    LavaJob <- MultiNode, GroupBarrier <- MultiNode (extension, refinement)
    TestScript <- MCTestShell -> TestShell, GroupBarrier <- TestShell
    Script <- TargetBase <- MasterImage, Bootloader, ... <- Targets <- MCTarget
    MCTarget -> TargetJob;  MCTargetJob -> MCTarget, TargetOutlines, TargetClauses
    Pipeline <- KvmJob
    VmGroup, TarballCache

The MC modules give the constants that a `.cfg` cannot express. A module with
theorems is named after what it proves about, with `Proofs`; the few about
`Poller` are in the module itself, those about `Pipeline` in `KvmJobProofs`.

## 3. What is modelled, and how it corresponds to the code

### LavaJob

One process per member of `Node`, because `MultiNode` needs several; the run
`job` has one. `pc[n]` is the place in `LavaTestJob.run`: `start` (before the
`try`), `loop`, `starting` (`job_num` is raised, the inner `try` not entered),
`running` (inside `action.run`), `reboot-ADBConnect` and `reboot-Timeout` (the
second boot inside an except clause), `record-pass`, `record-fail` and
`record-abort` (the inner `finally` clause, before `add_result`, and how it is
going to end), `caught` (the outer except clause, before `job_status` is set),
`finish`, `report`, `aggregate`, `pending`, `group`, `put` (the outer `finally`
clause) and `ended`. There is one place for each set of clauses, of actions
started and of results recorded that a signal may find. `step` is `job_num`,
`results` the statuses given to `add_result`, `status` `test_data.job_status`,
`exc` the exception that is leaving `run`, `bundle` what `collect_bundles`
returns. Four history variables say what the properties have to except:
`unhandled` (a `finish()` raised), `swallowed` (an action swallowed what a SIGTERM
raised in it), `lost` (a started action ended without its `add_result`) and
`unmarked` (a signal struck before `job_status` was set).

`Disposition` is the table of the inner except clauses (lines 383 to 458),
`Propagate` says what an exception does at each place, and every source of
exceptions goes through it: an action, a reboot, `RecordFails` (`unicode(str(err))`
of a message that is not ASCII, in the inner `finally`), the signal handler, a
failing `finish()`. That a cancelled action leaves as `AttributeError` is what the
code does: line 445 makes `err` a string and line 478 asks for its `message`.
`Terminate` and `TerminateFails` are the SIGTERM handler, enabled at every
place of the `try` statement, the two around an action included: a signal
between line 367 and the inner `try`, or in the inner `finally`, leaves a started
action without a result. `TerminateSwallowed` is the signal that a bare `except`
inside the action, or inside `collect_bundles`, takes for a failure of its own:
`actions/lava_test_shell.py` 935, 949 and 962, `signals/__init__.py` 79, 93, 110, 167
and 309, `actions/launch_control.py` 128, 150 and 178, `client/base.py` 238, 286, 298
and 710. The loop then goes on, on a device that is switched off. Commands are
abstracted to the four kinds the loop distinguishes. `GeneralError` and
`pexpect.TIMEOUT` share a clause and a name, and so do `CalledProcessError` and any
other `Exception`, whose clauses both raise. `powered` says that `power_off` was
not called since the device was last used: `power_off_cmd` is optional and its
status is ignored (`device/master.py` 115), so that a board whose configuration
has none runs on; `TargetJob` has those boards.

### Poller and BlockingCall

One call of `poll`. `TooLong` is its early return for a message over the limit,
which never reaches the coordinator; `Start` enters the loop, and each branch of
the loop is an action. What the network does is nondeterministic. `c` is the time
the code accounts for, which is not the time that passes: it grows by `poll_delay` per attempt. It is compared with the
timeout only and is capped above it. `Answerable` is the moment the rest of the
group makes an answer possible. `BlockingCall` is what callers may rely on, with
the three variables they can see; it allows a second delivery of one request.

### MultiNode and GroupBarrier

`MultiNode` extends `LavaJob` with the stage of `NodeDispatcher.run`, with
the coordinator (`registered`, `sums`) as the calls in this repository describe
it, and with the dashboard (`pendingAt`, `posted`). A call to the coordinator
is two actions, the delivery of the request and the return of the answer or the
nack; this is the granularity of `BlockingCall`. The coordinator and the
dashboard are not in this repository: what they answer is taken from the
docstrings and from the code that handles the answers (`node.py` 250 to 348,
`job.py` 547 to 565, `launch_control.py` 272 to 320).

### VmGroup

The dispatcher of a master image host and those of its machines, the messages
`lava_vm_start` and `lava_vm_stop` at the coordinator, and what runs on the
device. A command of the host is the boot it makes: of the test image, which
asks for the machines before each attempt and starts them after it, of the
master image, which asks once, and the fetching of results, where a nack ends
nothing because `_bundle_results` takes the results of the serial line instead.
`vmsStarted` is `vms_started`, which is set after the reply to the message it
stands for. A call may be delivered although its caller sees a nack; a machine
that times out in its wait for the start dies of a `KeyError`; `power_off` of a
machine raises when its `pkill` finds nothing, and then `vm_finished` is not
called. A SIGTERM may be swallowed by a handler of a signal of the test shell,
in which case the job of a machine goes on after it has sent its stop.
`auto_start_vms` is taken to be "true". `finish()` waits for nobody: it may
power the host off under its machines, and so may the boot that fetches
bundles after the job; `NoResetUnderVms` is about the commands, as the message it
quotes is (`base.py` 823).

### TarballCache

The processes of one host and the files they share. A tarball is an inode,
named by the job and the file name that created it; `scratch` and `cache` are
directories that map names to inodes, so that `os.link` is what it is and `tar
-czf` on an existing name rewrites the inode in place. Creation and completion
of a file are two actions. `Stop` ends a process at any point: the kernel
drops its lock, its files stay. The `distro` file holds the image it was written
for. The image file that `download_image` leaves in the cache directory, and
`os.unlink` of it, are not modelled: nobody looks at it.

### TestScript and TestShell

`TestScript` is the script of a device as the sequence of what the dispatcher
can tell apart: `run.sh` as `copy_test` writes it, `lava-test-case` and the
`lava-*` scripts called from it, `lava-test-runner` around them. `WellFormed` says
what every such sequence has: a `read` follows a signal, an `await` the call it
belongs to, and the exit comes last. `TestShell` runs one script and one
`_keep_running` loop per node. `dev` is the position of the device, `line` what it
printed and `expect` has not matched, `rx` what the dispatcher sent and the
device has not read. A plain `read` takes the next line whatever it says,
`await` (`wait_for_message`) drops everything up to the COMPLETE of its call;
both are what the shell code does, and a surplus acknowledgement makes the
difference visible. A nack makes the command fail: `AfterFailure` is `set -e`
outside a case and the result of the case inside. `loop` is `expect`, `call`
(inside a handler that waits for the Coordinator or a board) or how the loop
ended: a handler of a call may raise on a reply that it cannot read (`stopped`),
and `_handle_testrun` and `_handle_testcase`, which are outside of the `try`, end the
whole action with what they raise (`SignalRaises`, `raised`). `runs` is `_test_runs`, the backup bundle; `files` and `safe` are the
result directories and those of them on the disk; `told` is the Coordinator's,
as `node.py` 363 to 412 describes it. `Meeting` names the message for which the
barrier is stated: one that nodes only sync on. The scripts are programs of the
model, not of the repository: the MC module has plain and measured cases, all
calls, a call inside a measured case, two nodes that wait for each other and
two definitions. Not modelled: `lava-wait-all`, which differs in the nodes it
waits for only, results that match a pattern of the test definition, hook
scripts, `install.sh` and tests of the host role.

### Targets

The methods that drive a target are straight lines of commands under `try`,
`with` and `if`. `Script` has that structure as data: `Do` is one command that
takes place where its condition holds, has an effect, or fails with one of the
exceptions its code can raise; `TryFinally`, `TryExcept`, `IfElse`, `Either` and
`Retry` are the statements; `Yield` is the place of a context manager where the
body goes, and `Within` puts it there. A method is an operator that returns its
script, so that inheritance and calls are ordinary application, in the order
of the classes:

* `TargetBase`: `device/target.py`, `utils.py`, `downloader.py`, `context.py`
  (the retried command, the http server, mounts, customization);
* `MasterImage`: `device/master.py`, the firmware of `wg.py` and `vexpress.py`;
* `Bootloader`: `device/bootloader.py`, `vexpress.py`;
* `FastbootTargets`: `device/fastboot.py`, its drivers, `nexell.py`; a board that
  enters fastboot has rebooted, which ends its server and its mounts;
* `SimulatedTargets`: `qemu.py`, `dynamic_vm.py`, `fastmodel.py`, the schroot driver;
* `BoardTargets`: the ssh driver, `ipmi_tftp.py`, `sdmux.py`, `jtag.py`;
* `Client`: `client/base.py`, `lmc_utils.py`, and the commands of a job in
  `actions/boot_control.py`, `actions/deploy.py` and `actions/lava_test_shell.py`;
* `Targets`: for each of sixteen device types, the scripts of its deployments,
  inherited ones included, of booting, `lava_test_shell` and `extract`, and of what
  the job does before and after its commands.

`TargetJob` executes one target's scripts as `LavaTestJob` does: construct the
target, run commands in any order (`Legal`: a deployment first), finish, and
fetch bundles if there are any. `at`, `exc`, `caught` and `held` are the
interpreter's place, exception, the one an except clause has and those that
`finally` clauses hold back. The world is one record `d` with a field for each
fact a script depends on or a property names: what runs (`runs`), the session
(`proc`), what is written on the medium (`medium`), whether what was deployed
last is what was booted (`live`), the directory of the tests (`dir`), mounts,
servers, and the flags of the target object. `kept` is the history of those
flags: what boots is not what was deployed last, because the boot type, the
kernel or the ramdisk of before is still set, or because a board that was taken
to the master image still passes for booted. Left open by `Either`: branches on
the job's parameters and on what the device answers.

Faults: `Fail` is a step that raises, or one that fails unnoticed ("quiet");
`CannotWork` is a step whose condition does not hold. `Cancel` is SIGTERM at any
command, before or after its effect: Python runs the handler when `os.system` has
returned, so that the interrupted `mount` may have been done although the `try`
statement that unmounts is not entered (`Mounts`). The handler calls `power_off`:
`PowerOff` lists its effects by the state that it finds, the board that runs on
because `power_off_cmd` is missing or fails among them; a `power_off` that raises
is `LavaJob.TerminateFails`.

What the firmware of a wg and a vexpress adds: two files (`fw`, `fw2`: bl1 and fip,
or uefi and the bl1 of trusted firmware), each with its backup on the card. A
job begins without backups, so that the first boot of the master image makes
them. A `cp` that fails, or that is interrupted, leaves part of a file (`torn`).
A vexpress is one that requires trusted firmware.

`TargetJob` knows nothing of the sixteen kinds but that their methods are
structured (`ScriptAssumption`): what a step raises goes to the end of the
clause around it, and every cleanup that is entered is left. That is what the
proofs need of a table of scripts.

`TargetOutlines` states what a proof about one table needs: a proof outline, as
in Hoare logic, which gives for each step of each command the frames that a job
may be in when it gets there. A frame is exception, handled exception, held
outcomes, the place in the job, and of the world what a view looks at. A view
names the fields it sees, the failures that it covers (any number, or up to
one) and how far it follows a SIGTERM: as a step like any other (`followed`),
outside cleanups and mounts only (`body`), not at all (`ends`), or only what comes
after it (`starts`). `Closed` says that the outline contains where a job begins and that
no step, no failure and no signal of a view leads out of it, with the rest
between two commands going around in circles; so it is about jobs of any length.
`Shown` says what the frames have in common. `MCTargetJob` computes the outlines
as fixed points (`MCOutline`), which need not be trusted: TLC evaluates `Closed`
and `Shown` for each of the seven views and the kinds it covers as the assumption
`OutlineAssumption` of the run `target`.

`TargetClauses` is for properties that rest on flags which a target keeps from one
command to the next (`live`, `dir`, `booted`, `access`): frames that see them all
are too many to enumerate, but what a property needs of them is little. A literal
is a pair of an aspect and a value, a clause is a set of literals one of which is
so, and a promise is a clause at one place: "something is raised, or the board is
live" where the runner starts. `Moves` gives each step of a script as its cases:
where it goes, unless which literals, what it sets. `Wp` takes a clause backwards
over a move. `MCSure` does that from the promises and from what holds between two
commands (`BetweenCommands`, written by hand: for example, that a board of a boot
loader which is booted, or has a loader to start, has its boot data) back through
each command. That computation is not trusted either: `ClauseAssumption` has TLC check,
for each promise and kind, that the clauses of each step follow from those before
it over every move, that what holds between commands holds at the start of a job
and after each command, and that the promises follow; `LiteralAssumption`, that
the literals list every value a script writes. Neither mentions a bound on
commands or on failures.

Some behaviours of the code are named in the properties as what they exempt:

* `Overridden`: only two of the deployments forget the boot type, and they forget
  u_boot only (`bootloader.py` 277 to 283); `deploy_android` forgets neither that nor,
  on a fastboot board with a serial line, the kernel of before
  (`fastboot_drivers.py` 134); a fastmodel keeps its first kernel;
* `NeverAgain`: a fastmodel that has booted a ramdisk does not boot another;
* `Unchecked`: Nexell ignores the status of its commands;
* in `CancelEnds`: `lava_test_shell`, `boot_android` (the bare excepts at
  `client/base.py` 238, 286 and 298 turn the exit into a failed adb connection, which
  is tried again or tolerated) and the SD mux;
* in `MasterOnGoodFirmware`: the firmware of a vexpress is that of its backup,
  which need not be the one it came with (section 4);
* `Refused`: the commands that fail on a target where nothing fails; `MCRefused`
  lists them with the reasons.

`MCTarget` has the sixteen kinds and the worlds their jobs start from;
`MCTargetJob` adds the outlines and the clauses.

### Pipeline and KvmJob

`Pipeline` is `run_actions` with a stack of calls, for any tree of actions: an
action returns a connection or none, records an error, enters its internal
pipeline, raises or is cancelled. `KvmJob` fills in the actions of the one kind of
job that the parser and the strategies build, `KvmActions`, with the files in
`/tmp`, the loop mount, the working directory and QEMU; `img` says of each file
whether it is whole, and of which job its test scripts, its repository and its
tar definition are. Jobs follow each other on one machine. What the code does
and a reader would not expect is kept: `RetryAction.run` is overridden by all its
subclasses, so that a "download with retry" is one try; `_run_command` swallows
KeyboardInterrupt, only logs an OSError, and of a `CalledProcessError` keeps the
message, which is empty in Python 2 and which `_log` and `valid` skip: a command
that fails leaves no error, and `swallowed` remembers it; a mount that fails has no
output, which counts as success;
an action that raises JobError leaves the process in the directory it had
changed to, so that the umount is refused and `rm -rf` empties the image; a file
`/tmp/x` of any origin is taken for the download; `DeployImageAction` returns no
connection; the prompts of the test action have no group for the exit status.

## 4. Runs

| Run | Module, configuration | Bounds | What it shows |
|---|---|---|---|
| `job` | `MCLavaJob`, `LavaJob.cfg` | one node, four action lists of up to three actions, all six exception classes, two SIGTERMs (`MaxTerms`, a bound for each node) | the properties of the job loop. Three actions are enough for a reboot in the middle and at the end; two signals let the second one hit the `finally` clause the first one caused |
| `poller` | `Poller`, `Poller.cfg` | timeout 15, delay 2: the last attempts fall on both sides of the timeout | the properties of `poll` while the coordinator can be reached |
| `poller_unreachable` | `Poller`, `PollerUnreachable.cfg` | as above | violation: the timeout is not applied to attempts that fail |
| `multinode` | `MCMultiNode`, `MultiNode.cfg` | two nodes, an Android boot that may be repeated or kill the job, one SIGTERM to one of them | barrier and dashboard, and that every node ends. Two members are one that aggregates early and one that is zero; the safety part is proved for any number |
| `multinode_group` | `MCMultiNode`, `MultiNodeGroup.cfg` | two nodes | violation: put_group overtakes put_pending |
| `vmgroup` | `VmGroup`, `VmGroup.cfg` | two machines, three commands of the host, two attempts per boot, one SIGTERM per machine | resets and waiting in a VM group. Three commands let the host wait, fail to hear, and wait again; two machines let one be off and one not |
| `cache` | `MCTarballCache`, `TarballCache.cfg` | two dispatchers, two images, two jobs per dispatcher, one deployment per job | soundness of the cache across crashes, and that waiting for the lock ends; two jobs let a slot come back to what it left behind |
| `cache_twice` | `MCTarballCache`, `TarballCacheTwice.cfg` | two deployments in one job | violation: the second deployment of a job damages the cache |
| `testshell` | `MCTestShell`, `TestShell.cfg` | two nodes, scripts of up to 20 steps with every kind of step | scripts never block, the barrier, the truth and completeness of the bundle across crashes, drops, timeouts and nacks; nodes that wait for each other come to their end |
| `target` | `MCTargetJob`, `TargetJob.cfg` | sixteen kinds, four commands per job, one failing step; a failing step or a SIGTERM takes the place of a command | the properties of targets. Four commands are a deployment, a boot, and two that meet what those left; one failing step is enough to leave each of the states that a cleanup must repair. The run also evaluates the assumptions of the proofs: the scripts are structured, the outlines closed, the clauses kept, whatever the length of the job |
| `target_boot` | `MCTarget`, `TargetBoot.cfg` | a uboot board, four commands, no failing step | violation: a boot that returns leaves the master image running |
| `pipeline` | `KvmJob`, `KvmJob.cfg` | two jobs in a row, every command may fail or be interrupted at any time | the properties of the YAML dispatcher. The second job finds what the first left in `/tmp`, mounted or torn |

Deadlock checking is off in every run: jobs, polls, dispatcher slots, scripts
and groups end.

Each property is also checked against a changed definition (`mutants` in
`PROJECT.json`), a plausible slip in the code it models, which must violate it.

### What the violations say

1. `poller_unreachable`: `node.py` 150 promises the default timeout for each
   poll operation. Attempts that fail before a reply was parsed `continue`
   past the test.
2. `multinode_group`: `launch_control.py` 274 to 276 promises that a pending
   bundle is in the dashboard before sub_id zero calls `submit_group_list`. The
   coordinator lets sub_id zero go on when it has the checksums, which are sent
   before `put_pending`.
3. `cache_twice`: after the first deployment of a job the cache and the scratch
   directory name the same files. The next deployment in the job has `tar` write
   another image into them.
4. `target_boot`: `client/base.py` 523 calls `boot_linaro_image` "Reboot the system
   to the test image". After `deploy_kernel` and a boot, a command that works in
   the master image leaves `_booted` set; the next boot only sets the tester prompt
   (`bootloader.py` 338 to 341), in the shell of the master image, and returns. The
   tests then run there. This is what `kept` exempts from `TestsWhatWasDeployed`.

### Seen while modelling, without a run of its own

These are part of the models as the code has them.

* `pipeline/.../testdef.py` 157 raises when the repository could not be had, but
  asks `valid`, which the empty message of a failed command does not change: other
  tests than those asked for boot without an error. `NoSilentWrongTests` exempts
  it by `swallowed`.
* `device/vexpress.py` 155 to 157 promises that mounting and unmounting is managed
  by `_mcc_setup`. The mount is a line before its `try` (163), and the exit of the
  SIGTERM handler is raised when `mount` has returned: the card stays mounted. The
  same holds of the partitions of `lmc_utils.py` (117 to 135) and of the wg.
  `HostClean` exempts it by `mounting`.
* `device/vexpress.py` 244 takes firmware without a backup for the good one of the
  first time. After `deploy_kernel` and a boot, the job's firmware is on the card,
  and the boot of the master image that a `deploy_android` makes copies that.
* `actions/lava_test_shell.py` 708 and 715: `run.sh` reads to "wait for an ack from the
  dispatcher". The dispatcher acknowledges every signal; `lava-test-case` does not
  read the acknowledgement of its TESTCASE, and the next `read` takes that one, so
  that it returns before its own signal was handled. `NeverStuck` shows that the
  surplus never blocks a script, `SyncIsBarrier` that it opens no barrier.
* `job.py` 500 and 519 promise that all nodes call aggregate. When
  `context.finish()` or `get_device_version()` raises in the `finally` clause, the
  node does not, and sub_id zero waits until its timeout.
* `actions/launch_control.py` 192 passes `result_disk` by position to
  `collect_bundles`, where it is taken for the server.
* `actions/lava_test_shell.py` 879: the time left is truncated and may become -1,
  which pexpect reads as its default timeout.
* `load_from_repo` keeps one directory for all repositories: two repository
  definitions both copy the files of the last one.
* `device/bootloader.py` replaces the tags of its boot commands in place, so that a
  second kernel deployment of a job boots the paths of the first; `device/master.py`
  reads the boot commands of an image once.
* `device/fastmodel.py` 397: a second `power_on` of a ramdisk kernel returns the
  running session, where `client/base.py` 523 says it reboots.
* A `TIMEOUT` that the job loop tolerates in a deployment lets the next command
  boot an image that is old or torn.
* `device/sdmux.py`: a bare `except` in `power_on` turns SIGTERM's exit into
  `OperationFailed`, and the job goes on. So do those that `TerminateSwallowed`
  lists, in the test shell, its signal handlers and the adb connection.
* `job.py` 489: a second signal in the outer except clause itself leaves
  `job_status` at pass, whatever the first exception was.
* `device/sdmux.py` 235: an umount that fails twice leaves the card mounted when the
  mux is switched; two failing steps, where `CardIsHosts` is about one.
* `pipeline/action.py` 495 says that `_run_command` re-raises KeyboardInterrupt, and
  514 to 530 that `cleanup` is always called: neither holds. Errors recorded by
  actions never reach the exit status.

### Fairness

* `Poller.ReachableSpec`: weak fairness of the loop, which never blocks by
  itself (every socket call returns or raises), and strong fairness of a
  connection, a request and a full reply, which is what "the coordinator can be
  reached" means. `Poller.Spec` has only the first and is what the code
  guarantees by itself.
* `MultiNode.FairSpec`: weak fairness of each node's steps. Actions of a job
  return or raise because each has a timeout, and `ReturnsIfReachable` makes
  polls end; signals are not fair.
* `VmGroup.FairSpec`: the same for the host and for each machine, and weak
  fairness of the end of a machine's job, which has finitely many commands.
* `TarballCache.FairSpec`: weak fairness of a process that does not wait, strong
  fairness of `Lock`, because a waiter in `fcntl.lockf` is woken whenever the
  lock is released. A process is never bound to fail or to ask.
* `TestShell.FairSpec`: weak fairness of a device that is not blocked and of its
  dispatcher; a call returns because polls do. Crashes, drops and timeouts
  are not fair, so that `HealthyEnds` does not rest on them.
* `TargetJob` and `KvmJob` state safety only: their steps form no loops but those
  that a bound ends.

## 5. Proofs

| Module | Theorems | Argument |
|---|---|---|
| `LavaJobProofs` | `JobTypeCorrect`, `JobInvariant`, `ResultPerActionHolds`, `CompleteMeansAllRanHolds`, `DeviceOffAtEndHolds`, `TermStopsTheLoopHolds` | `JobInv` adds to the types what each place of `run` implies: how `results` and `step` differ, that a `pass` status outside the loop means that all actions ran, what `powered` may be after `finish`, and that `lost` and `unmarked` are set only where the loop is left. None of the properties is inductive alone, because none mentions the label at which the exception arrives |
| `Poller` | `PollerTypeCorrect`, `NackHidesNoAnswerHolds`, `PollIsBlockingCall` | the invariant says that a reply in hand was written after delivery and is an `ack` only when the coordinator was ready; each step is then a step or a stutter of `BlockingCall` |
| `MultiNodeProofs` | `MembersKeepPromises`, `GroupInvariant`, `GroupListAfterAllCallsHolds`, `OnlyCollectedBundlesHolds`, `GroupIsBarrier` | the job invariant holds for every member, a killed one included, so that `LavaJobProofs` is used and not repeated. `MemberInv` relates each member to the coordinator: its job runs only when all are registered, it has called aggregate exactly when its checksum is known, and what it hands in is the bundle it collected. The barrier is a step simulation on that |
| `VmGroupProofs` | `VmGroupInvariant`, `NoResetUnderVmsHolds` | a reset asks for the flag of the handler only, so the invariant says what the flag stands for: while it is not set, either no machine has begun, or all have sent their stop. The window between the start message and the flag is closed because an exception in it ends the job, for which one needs that only a boot of the test image starts machines |
| `TarballCacheProofs` | `CacheInvariant`, `TypeCorrect`, `CompleteIsSoundHolds`, `RightImageHolds`, `BuiltOnceHolds` | mutual exclusion on the lock, no two scratch directories naming the same unfinished file, and for each step of the construction what is already in place. Assumed: `Separate`, that a job deploys once (a health check does) and that no two URLs share a directory. `cache_twice` drops the first half; for the second, see the hazard at `tarballcache.py` 100, where "." and "-" in a URL give the same directory |
| `TestShellProofs` | `ShellInvariant`, `ShellTypeCorrect`, `NeverStuckHolds`, `SyncBarrier` | an account of the calls: the line, the dispatcher and the line back hold at most one open call of a device between them, and the device stands in the `await` of that very call. A failed command never resumes at a `read` or an `await`. Assumed: scripts are `WellFormed`, and nobody waits for `Meeting` but by lava-sync |
| `TestShellProofs` | `ReportInvariant`, `BackupIsTrueHolds`, `ExitMeansAllHolds` | the line holds the reports of a device in the order of its script, behind everything that was recorded and before the device: only then is the run that is last in `runs` the one that a TESTCASE on the line belongs to, and only then has nothing been skipped when EXIT is matched. Beside it, the file of a case comes before its report and is safe after a sync, and a case with a command is begun, ended and reported without another one in between, so that its ENDTC finds it in `case`. The properties mention neither the line nor the device. Assumed besides: `ReportAssumption`, that a word names one occurrence and a case lies within its run |
| `KvmJobProofs`, first part | `EngineInvariant`, `InterruptEndsAnyJob` | for every tree of actions: each call on the stack is that of the internal pipeline of the action its caller stands at, so that the exception climbs to the one level that has no parent |
| `KvmJobProofs` | `KvmInterruptEndsJob`, `KvmInvariant`, `KvmTypeCorrect`, `BootedIsOverlaidHolds`, `ShellEndsHolds`, `NoSilentWrongTestsHolds` | every step of a KVM job is a step of the loop, or leaves it alone. For the rest the invariant is about places of the tree (`Shape`, `Past`): past the overlay action, a whole image in `/tmp/x` has this job's overlay; while the job works on the uncompressed `x.img`, there is no `/tmp/x` to boot; from the boot on, the connection of the outermost call is the session. `BootedIsOverlaid` alone says nothing of the time between the overlay and the prompt, and the errors that the loop goes on from fall exactly there. `NoSilentWrongTests` rests on `FetchInv`: from each of the two fetches on, the image that is mounted has this job's repository, or tar definition, or an error is noted; that the errors of a job, and the note that a command failed unseen, are never taken back carries it to the boot |
| `TargetJobProofs` | `ControlInvariant`, `TargetTypeCorrect` | a command holds back one outcome for each finally clause that it is in, so that no `resume` finds nothing and a command that is over has let go of all. For every table of structured scripts |
| `TargetJobProofs` | `OutlineInvariant`, `DeployedIsWrittenHolds`, `MasterOnGoodFirmwareHolds`, `CancelEndsHolds`, `UnprovokedHolds`, `HostCleanHolds`, `CardIsHostsHolds` | the soundness of outlines: a job is at every step in a frame of every outline that is closed. The properties follow from what the frames of the tables have in common. None is inductive: between a failure and the return of a command the world depends on the place in a script of hundreds of steps, which is what an outline records. `HostCleanHolds`, `CardIsHostsHolds` and `MasterOnGoodFirmwareHolds` assume `MaxFaults <= 1`: a second failure in the cleanup does leave a mount, and one in the restoring of the firmware a torn file |
| `TargetJobProofs` | `ClauseInvariant`, `TestsWhatWasDeployedHolds`, `RunsWhatWasCopiedHolds`, `ChangesAppliedHolds` | the soundness of weakest preconditions: each action of `TargetJob` is, on the aspects, one of the `Moves` of the step it is at (`PerformTaken` and its like), a move makes a clause true whose `Wp` was (`WpSound`), so clauses that follow over all moves stay true from step to step, through the return of a command and the start of the next. `WorldInvariant` says that every aspect has one of its listed values, which is what makes a clause with all of them a truism. |

The theorems hold for every value of the constants that satisfies the named
assumptions of the modules: any number of nodes, machines, devices, dispatchers
or jobs, any action lists, any timeouts. TLC evaluates the assumptions in the
runs. In `TargetJob` the constants are the scripts themselves, and what is general is
the job: any number of commands in any legal order and, but for the three
theorems that say otherwise, any number of failing steps, where the run has
four commands and one failure. That the scripts of the sixteen kinds have closed
outlines, and clauses that are kept, is not proved by TLAPS but computed by TLC.

Only model-checked:

* `BoardClean` of `TargetJob`: its argument follows a server, a mount and an adb
  connection through the cleanups of every command that may come before, and its
  clauses number some two hundred thousand over the sixteen kinds, too many to
  compute in a run. `ClauseInvariant` would give it for jobs of any
  length; what is missing is a smaller set of clauses;
* liveness: `ReturnsIfReachable`, `EveryNodeEnds`, `GroupEnds`, `GetReturns` and
  `HealthyEnds`, since TLAPS does not reason about fairness.

## 6. Not modelled

* LMP boards (`actions/lmp/`): the report protocol on the serial line; in
  `TestShell` a call to a board returns or fails. The hazard at `board.py` 145
  has no property for that reason.
* Result parsing and bundle documents, configuration, parsing of job files,
  logging and the texts of messages: data without control.
* The dialogue with a bootloader and the prompts of images: one step each that
  may time out. Boot options are not passed on.
* The dummy target class around its drivers, of which schroot and ssh are
  modelled.
* `lava_test`, `lava_android_test` and `lava_command`, which send lines to a booted
  target and keep no state; in `pipeline/` what no job that the parser builds can
  reach (`RetryAction.run`, `AdjuvantAction`) and the command line.
* On targets: a vexpress without trusted firmware, which has one file instead of
  two, failures that outlast a job (a job starts from a board that is off, with
  its good firmware and without a backup), and commands of a target that no
  action of `actions/` calls.
* Two hazards without a property: two URLs that share a cache directory
  (`tarballcache.py` 100), because the proofs assume them apart and the runs have
  none; and results that a TIMEOUT loses (`actions/lava_test_shell.py` 921), because
  the code raises on purpose and no document promises otherwise.

`PROJECT.json` lists every part with its status, and the lines each definition
translates.
