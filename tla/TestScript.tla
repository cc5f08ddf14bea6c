----------------------------- MODULE TestScript -----------------------------
(***************************************************************************)
(* What a device executes for one lava_test_shell action: lava-test-runner *)
(* (src/lava_dispatcher/lava_test_shell) over the run.sh scripts that      *)
(* copy_test writes, with the lava-* scripts their steps call. A script is *)
(* the sequence of what the dispatcher can tell apart: the lines printed   *)
(* for it, the lines read from it and the files left for it.               *)
(***************************************************************************)
EXTENDS Naturals, Sequences

(* lava-test-case ID --result R: the result goes to a file, then on the    *)
(* line. Nothing is read.                                                  *)
TestCase(id) == << <<"file", id>>, <<"TESTCASE", id>> >>

(* lava-test-case ID --shell CMD: CMD runs between the two reads.          *)
TestCaseShell(id, cmd) ==
  << <<"STARTTC", id>>, <<"read", id>> >> \o cmd
  \o << <<"ENDTC", id>>, <<"read", id>> >> \o TestCase(id)

(* lava-sync ID, lava-wait ID, lava-lmp-*: send, then read until the       *)
(* COMPLETE of this API, whatever comes before it. lava-send does not wait.*)
Sync(id) == << <<"SYNC", id>>, <<"await", id>> >>
Wait(id) == << <<"WAIT", id>>, <<"await", id>> >>
Lmp(id) == << <<"LMP", id>>, <<"await", id>> >>
Send(id) == << <<"SEND", id>> >>

(* run.sh of test definition d.                                            *)
RunSh(d, steps) ==
  << <<"STARTRUN", d>>, <<"read", d>> >> \o steps
  \o << <<"ENDRUN", d>>, <<"read", d>> >>

(* lava-test-runner: every definition in turn; the trap syncs the disk and *)
(* says that it is exiting.                                                *)
Runner(runs) == runs \o << <<"sync", "">>, <<"EXIT", "">> >>
=============================================================================
