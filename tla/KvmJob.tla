------------------------------- MODULE KvmJob -------------------------------
(* The actions of the YAML dispatcher's one kind of job: a KVM image that  *)
(* is downloaded, mounted, given its tests, unmounted and booted in QEMU.  *)
(* Jobs follow each other on one machine, which keeps the images in /tmp.  *)
EXTENDS Pipeline

CONSTANT MaxJobs    \* bound: jobs in a row

VARIABLES
  job, par, alive,  \* the number of the job, what it asks for, its process exists
  file, offset,     \* pipeline_data: the image of download_action, its offset is known
  mounted,          \* the image is mounted at the directory of loop_mount
  inImage,          \* the dispatcher's working directory is in that directory
  img,              \* what the images hold, and "dir" the directory without the mount
  shell, booted,    \* the process of QEMU; its prompt was seen
  swallowed         \* history: _run_command has swallowed a failure
files == <<file, offset, mounted, inImage, img>>
device == <<shell, booted>>
vars == <<engine, job, par, alive, files, device, swallowed>>

(* Job.pipeline as the parser and the strategies DeployImage and BootKVM   *)
(* build it for a deploy, a boot and a test of two definitions.            *)
KvmActions == [
  job     |-> <<"deploy", "boot", "test", "submit_results", "finalize">>,
  deploy  |-> <<"download", "checksum", "mount", "customise", "testdef", "overlay", "umount">>,
  mount   |-> <<"offset", "loop_check", "loop_mount">>,
  testdef |-> <<"repo", "tar-repo", "test-overlay">>,
  boot    |-> <<"expect-shell">>]
KvmPipe == DOMAIN KvmActions
KvmInner == [a \in KvmPipe \ {"job"} |-> a]
KvmAction == UNION { {KvmActions[p][i] : i \in DOMAIN KvmActions[p]} : p \in KvmPipe }

ASSUME KvmAssumption ==
  /\ Action = KvmAction /\ Pipe = KvmPipe /\ Outer = "job" /\ Actions = KvmActions
  /\ Inner = KvmInner /\ Conn = {"shell"} /\ MaxJobs \in Nat

(* /tmp/x, which is looked for before a download and given to QEMU, is the *)
(* URL's file name without its suffix: a download that needs no            *)
(* decompressor is written with it.  An image of state "whole" boots.      *)
File == {"x", "x.img", "dir"}
Wrong == MaxJobs + 1     \* a checkout of other tests than those of the job
Content == [state : {"absent", "torn", "whole", "erased"}, dir : BOOLEAN, conf : BOOLEAN,
            overlay : 0..MaxJobs, repo : 0..Wrong, tar : 0..Wrong]
Holding(s) == [state |-> s, dir |-> FALSE, conf |-> FALSE, overlay |-> 0, repo |-> 0, tar |-> 0]
Root == IF mounted THEN file ELSE "dir"     \* where the test directory is written

Init ==
  /\ Idle /\ job = 0 /\ par = [gz |-> TRUE, vcs |-> "git", revision |-> FALSE] /\ alive = FALSE
  /\ file = "x" /\ offset = FALSE /\ mounted = FALSE /\ inImage = FALSE /\ img = [f \in File |-> Holding("absent")]
  /\ shell = "none" /\ booted = FALSE /\ swallowed = FALSE

(* One lava-dispatch: validation, which puts /tmp/x in pipeline_data and   *)
(* in the command of QEMU, then Job.run.                                   *)
StartJob ==
  /\ ~alive /\ job < MaxJobs /\ job' = job + 1 /\ alive' = TRUE
  /\ par' \in [gz : BOOLEAN, vcs : {"git", "bzr"}, revision : BOOLEAN]
  /\ JobRun \/ JobInvalid
  /\ file' = "x" /\ offset' = FALSE /\ inImage' = FALSE /\ shell' = "none" /\ booted' = FALSE /\ swallowed' = FALSE
  /\ UNCHANGED <<mounted, img>>

(* Job.mkdtemp has registered an rm -rf of the mount directory at exit: a  *)
(* mounted image loses its files.                                          *)
Erase(f) == [img EXCEPT ![f] = Holding("erased"), !["dir"] = Holding("absent")]
ExitJob ==
  /\ alive /\ ret \in Over /\ alive' = FALSE
  /\ img' = IF mounted THEN Erase(file) ELSE [img EXCEPT !["dir"] = Holding("absent")]
  /\ mounted' = FALSE /\ booted' = FALSE
  /\ UNCHANGED <<engine, job, par, file, offset, inImage, shell, swallowed>>

-----------------------------------------------------------------------------
(* _run_command: the command succeeds, fails or is interrupted, and only   *)
(* the log shows which. The error of a status other than zero is the       *)
(* message of CalledProcessError, which is empty: _log and valid skip it.  *)
(* A program that cannot be executed is an OSError, which is logged; one   *)
(* that cannot be forked is an OSError without child_traceback, and ends   *)
(* the process.                                                            *)
Command == {"ok", "failed", "interrupted"}
Ran(commands) == swallowed' = (swallowed \/ ~(commands \subseteq {"ok"}))
Jobs == <<job, par, alive>>

Plain ==   \* actions that only log, or that inherit the empty run
  /\ \E a \in {"checksum", "customise", "submit_results", "test-overlay"} : Executing(a)
  /\ Returns(Top.conn) \/ Cancels
  /\ UNCHANGED <<Jobs, files, device, swallowed>>

(* DeployImageAction: super.run() returns None, and so does this.          *)
Deploy ==
  /\ \/ Executing("deploy") /\ Enters(NoConn)
     \/ Resumed("deploy") /\ Returns(NoConn)
  /\ UNCHANGED <<Jobs, files, device, swallowed>>

(* DownloaderAction overrides the run of RetryAction: there is one try,    *)
(* and none when /tmp/x is there.  What a failure leaves stays in /tmp.    *)
Target == IF par.gz THEN "x" ELSE "x.img"
Download ==
  /\ Executing("download") /\ UNCHANGED <<Jobs, mounted, inImage, device, swallowed>>
  /\ \/ /\ img["x"].state # "absent" /\ Returns(Top.conn)
        /\ UNCHANGED <<file, offset, img>>
     \/ /\ img["x"].state = "absent" /\ offset' = FALSE
        /\ \/ file' = Target /\ Returns(Top.conn)
              /\ \E s \in {"whole", "torn"} : img' = [img EXCEPT ![Target] = Holding(s)]
           \/ UNCHANGED file /\ (Raises \/ Cancels)
              /\ img' \in {img, [img EXCEPT ![Target] = Holding("torn")]}

Mount ==
  /\ \/ Executing("mount") /\ Enters(Top.conn)
     \/ Resumed("mount") /\ Returns(value)
  /\ UNCHANGED <<Jobs, files, device, swallowed>>

(* parted: without its output, or a line for the partition, a JobError     *)
Offset ==
  /\ Executing("offset") /\ UNCHANGED <<Jobs, file, mounted, inImage, img, device>>
  /\ \/ offset /\ Returns(Top.conn) /\ UNCHANGED <<offset, swallowed>>
     \/ ~offset /\ Raises /\ UNCHANGED <<offset, swallowed>>
     \/ /\ ~offset /\ img[file].state # "absent"
        /\ \/ offset' = TRUE /\ Ran({}) /\ Returns(Top.conn)
           \/ \E c \in Command : offset' = FALSE /\ Ran({c}) /\ Fails

(* losetup -a: more mounts than devices is an InfrastructureError          *)
LoopCheck ==
  /\ Executing("loop_check") /\ UNCHANGED <<Jobs, files, device>>
  /\ \/ \E c \in Command : Ran({c}) /\ (Returns(Top.conn) \/ (c = "ok" /\ Fails))
     \/ Raises /\ UNCHANGED swallowed

(* A mount that fails or is interrupted has no output, and no output means *)
(* success; one that succeeds with a warning is a JobError.                *)
LoopMount ==
  /\ Executing("loop_mount") /\ UNCHANGED <<Jobs, file, offset, inImage, img, device>>
  /\ \/ Raises /\ UNCHANGED <<mounted, swallowed>>
     \/ /\ offset
        /\ \E c \in Command :
             /\ Ran({c}) /\ mounted' \in (CASE c = "ok" -> {TRUE} [] c = "failed" -> {FALSE}
                                            [] OTHER -> BOOLEAN)
             /\ Returns(Top.conn) \/ (c = "ok" /\ Fails)

(* TestDefinitionAction: a test directory without lava-test-runner.conf    *)
(* ends the job (OSError), as does the lack of one afterwards (IOError).   *)
SetConf(there) == img' = [img EXCEPT ![Root].conf = there]
TestDefinitions ==
  /\ UNCHANGED <<Jobs, file, offset, mounted, inImage, device, swallowed>>
  /\ \/ /\ Executing("testdef")
        /\ \/ ~img[Root].dir /\ Enters(Top.conn) /\ UNCHANGED img
           \/ img[Root].conf /\ Enters(Top.conn) /\ SetConf(FALSE)
           \/ img[Root].dir /\ ~img[Root].conf /\ Raises /\ UNCHANGED img
     \/ /\ Resumed("testdef")
        /\ \/ img[Root].dir /\ Returns(value) /\ SetConf(TRUE)
           \/ ~img[Root].dir /\ Raises /\ UNCHANGED img

(* GitRepoAction: clone, and with a revision chdir and checkout; log, in   *)
(* the directory the dispatcher is in; then the YAML file.  The way back   *)
(* to the old directory is at the end only, and the test of valid there is *)
(* never false.  BzrRepoAction always dies of an AttributeError.           *)
Cloned(c) == IF c = "ok" THEN IF par.revision THEN Wrong ELSE job ELSE img[Root].repo
CheckedOut(c, k) ==
  IF Cloned(c) = 0 \/ ~par.revision THEN {Cloned(c)}
  ELSE IF k # "ok" THEN {Wrong}
  ELSE IF c = "ok" THEN {job} ELSE {job, Wrong}
GitRepo ==
  /\ Executing("repo") /\ par.vcs = "git"
  /\ UNCHANGED <<Jobs, file, offset, mounted, device>>
  /\ \E c, k \in Command : \E r \in CheckedOut(c, k) :
       /\ c = "ok" => img[Root].repo = 0
       /\ ~par.revision \/ Cloned(c) = 0 => k = "ok"
       /\ Ran({c, k})
       /\ img' = [img EXCEPT ![Root].repo = r, ![Root].dir = @ \/ r # 0]
       /\ \/ /\ par.revision => r # 0      \* else chdir raises OSError
             /\ \/ r # 0 /\ inImage' = FALSE /\ Returns(Top.conn)
                \/ Fails /\ inImage' = (par.revision /\ mounted)
          \/ Raises /\ UNCHANGED inImage   \* chdir, log, a key that is missing
          \/ Cancels /\ UNCHANGED inImage
BzrRepo == Executing("repo") /\ par.vcs = "bzr" /\ Raises /\ UNCHANGED <<Jobs, files, device, swallowed>>

(* TarRepoAction: OSError and TarError become a JobError, IOError and a    *)
(* repository that is not base64 end the job; the directory stays, with    *)
(* what was extracted.                                                     *)
Extracted(t) == [img EXCEPT ![Root].dir = TRUE, ![Root].tar = t]
TarRepo ==
  /\ Executing("tar-repo") /\ UNCHANGED <<Jobs, file, offset, mounted, inImage, device, swallowed>>
  /\ \/ Returns(Top.conn) /\ img' = Extracted(job)
     \/ (Fails \/ Raises \/ Cancels) /\ img' \in {img, Extracted(img[Root].tar), Extracted(Wrong)}

OverlayUnchecked ==  \* mutant: os.path.ismount is not asked
  /\ Executing("overlay") /\ UNCHANGED <<Jobs, file, offset, mounted, inImage, device, swallowed>>
  /\ \/ Returns(Top.conn) /\ img' = [img EXCEPT ![Root].overlay = job, ![Root].dir = TRUE]
     \/ (Raises \/ Cancels) /\ UNCHANGED img

(* OverlayAction: "Overlay requested but %s is not a mountpoint"           *)
Overlay ==
  /\ Executing("overlay") /\ UNCHANGED <<Jobs, file, offset, mounted, inImage, device, swallowed>>
  /\ \/ mounted /\ Returns(Top.conn)
        /\ img' = [img EXCEPT ![file].overlay = job, ![file].dir = TRUE]
     \/ (Raises \/ Cancels) /\ UNCHANGED img

(* umount, which a working directory inside makes fail, and rm -rf of the  *)
(* directory whether it is still mounted or not                            *)
Umount ==
  /\ Executing("umount") /\ UNCHANGED <<Jobs, file, offset, inImage, device>>
  /\ \E u, r \in Command :
       /\ u = "ok" => mounted /\ ~inImage
       /\ mounted' = (mounted /\ u # "ok")
       /\ Ran({u, r})
       /\ \/ /\ Returns(Top.conn)
             /\ mounted' => r # "ok"       \* a mount point cannot be removed
             /\ IF mounted' THEN img' \in {Erase(file)} \cup (IF r = "failed" THEN {} ELSE {img})
                            ELSE img' = [img EXCEPT !["dir"] = Holding("absent")]
          \/ Raises /\ UNCHANGED img

BootReturnsNothing ==  \* mutant: as in DeployImageAction.run
  /\ UNCHANGED <<Jobs, files, booted, swallowed>>
  /\ \/ Executing("boot") /\ shell' = "open" /\ Enters("shell")
     \/ Executing("boot") /\ (Raises \/ Cancels) /\ UNCHANGED shell
     \/ Resumed("boot") /\ Returns(NoConn) /\ UNCHANGED shell

(* BootQEMUImageAction: the connection goes to the inner pipeline and to   *)
(* the actions that follow.                                                *)
Boot ==
  /\ UNCHANGED <<Jobs, files, booted, swallowed>>
  /\ \/ Executing("boot") /\ shell' = "open" /\ Enters("shell")
     \/ Executing("boot") /\ (Raises \/ Cancels) /\ UNCHANGED shell
     \/ Resumed("boot") /\ Returns("shell") /\ UNCHANGED shell

(* TIMEOUT of the shell is a JobError, EOF a RuntimeError.                 *)
ExpectShell ==
  /\ Executing("expect-shell") /\ UNCHANGED <<Jobs, files, shell, swallowed>>
  /\ \/ img["x"].state = "whole" /\ booted' = TRUE /\ Returns(Top.conn)
     \/ (Fails \/ Raises \/ Cancels) /\ UNCHANGED booted

(* TestAction: with the default prompts, which have no group for the exit  *)
(* code, even a command that succeeds ends in an IndexError.               *)
Test ==
  /\ Executing("test") /\ UNCHANGED <<Jobs, files, device, swallowed>>
  /\ \/ booted /\ Returns(Top.conn)
     \/ Fails \/ Raises \/ Cancels

(* FinalizeAction: connection.finalise() kills the process group; when it  *)
(* is gone the handler of OSError uses a name that does not exist.         *)
Finalize ==
  /\ Executing("finalize") /\ UNCHANGED <<Jobs, files, booted, swallowed>>
  /\ \/ Returns(NoConn) /\ shell' = IF Top.conn = NoConn THEN shell ELSE "closed"
     \/ Top.conn # NoConn /\ (Raises \/ Cancels) /\ UNCHANGED shell

Loop ==
  /\ CallRun \/ Exhausted \/ Interrupted
  /\ UNCHANGED <<Jobs, files, device, swallowed>>

Next ==
  \/ StartJob \/ ExitJob \/ Loop
  \/ Plain \/ Deploy \/ Download \/ Mount \/ Offset \/ LoopCheck \/ LoopMount
  \/ TestDefinitions \/ GitRepo \/ BzrRepo \/ TarRepo \/ Overlay \/ Umount
  \/ Boot \/ ExpectShell \/ Test \/ Finalize
Spec == Init /\ [][Next]_vars

-----------------------------------------------------------------------------
TypeOK ==
  /\ EngineTypeOK /\ Nested /\ job \in 0..MaxJobs /\ alive \in BOOLEAN
  /\ par \in [gz : BOOLEAN, vcs : {"git", "bzr"}, revision : BOOLEAN]
  /\ file \in File \ {"dir"} /\ img \in [File -> Content]
  /\ {offset, mounted, inImage, booted, swallowed} \subseteq BOOLEAN
  /\ shell \in {"none", "open", "closed"}

(* A device whose prompt was seen has the test scripts of this job in its  *)
(* image, although a mount that fails counts as one that succeeds, a loop  *)
(* check that fails is ignored and the image may be left by another job.   *)
BootedIsOverlaid == booted => img["x"].overlay = job

(* ... and if the tests in that image are not those the job asks for, some *)
(* action has an error to show for it: a tarball, a download, a mount or a *)
(* test directory that fails is recorded and never lost on the way to the  *)
(* boot. Only a failure that _run_command swallowed goes unseen.           *)
NoSilentWrongTests ==
  booted /\ <<img["x"].repo, img["x"].tar>> # <<job, job>> => errors # {} \/ swallowed

(* A job that comes to its end by itself leaves no QEMU running: the       *)
(* connection of the boot reaches finalize through whatever fails between. *)
ShellEnds == ret = "returned" => shell # "open"
=============================================================================
