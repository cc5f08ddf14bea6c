----------------------------- MODULE TestShell -----------------------------
(***************************************************************************)
(* lava_test_shell for the nodes of a group: the scripts on each device,   *)
(* the serial line, cmd_lava_test_shell with its SignalDirector, and the   *)
(* Coordinator behind lava_sync. Device and dispatcher run concurrently;   *)
(* acknowledgements and replies travel on the line the test output uses.   *)
(***************************************************************************)
EXTENDS Naturals, Sequences, SequencesExt

CONSTANTS
  Node,    (* devices with their dispatchers                               *)
  Script,  (* what lava-test-runner executes on each device (TestScript)   *)
  Meeting  (* a message of lava-sync that nobody awaits in another way     *)

Signals == {"STARTRUN", "ENDRUN", "STARTTC", "ENDTC", "TESTCASE"}
Calls == {"SYNC", "WAIT", "SEND", "LMP"}
Printed == Signals \cup Calls \cup {"EXIT"}
Silent == {"read", "await", "file", "sync"}

Answering == {"SYNC", "WAIT", "LMP"}

Args(op) == UNION {{Script[n][i][2] : i \in {j \in DOMAIN Script[n] : Script[n][j][1] = op}} : n \in Node}
Word == UNION {{Script[n][i][2] : i \in DOMAIN Script[n]} : n \in Node}

(* What TestScript makes: a read follows a signal, an await the call it    *)
(* belongs to, and lava-test-runner says at last that it exits.            *)
Follows(s, i, ops) == i > 1 /\ s[i - 1][1] \in ops
WellFormed(s) ==
  /\ s # <<>> /\ s[Len(s)][1] = "EXIT"
  /\ \A i \in DOMAIN s :
       /\ s[i][1] = "read" => Follows(s, i, Signals)
       /\ s[i][1] = "await" => Follows(s, i, Answering) /\ s[i - 1][2] = s[i][2]
       /\ s[i][1] \in Answering => i < Len(s) /\ s[i + 1][1] = "await"

ASSUME ScriptAssumption ==
  \A n \in Node :
    /\ Script[n] \in Seq((Printed \cup Silent) \X Word)
    /\ WellFormed(Script[n])

(* What a script reports. A word names one occurrence: no run and no case  *)
(* is reported twice. A case belongs to the run.sh that is being executed; *)
(* its file comes first and, when it has a command, its ENDTC. Commands do *)
(* not nest, and the runner syncs before it says that it exits.            *)
Without(s, first, last, ops) == \A k \in first..last : s[k][1] \notin ops
Reported(s) ==
  \A i \in DOMAIN s :
    /\ s[i][1] \in Signals => \A j \in DOMAIN s : s[j] = s[i] => j = i
    /\ s[i][1] \in {"STARTRUN", "TESTCASE"} =>
         \E k, l \in DOMAIN s :
           /\ k <= i /\ i < l
           /\ s[k][1] = "STARTRUN" /\ s[l] = <<"ENDRUN", s[k][2]>>
           /\ Without(s, k + 1, i, {"STARTRUN"})
    /\ s[i][1] = "TESTCASE" => i > 1 /\ s[i - 1] = <<"file", s[i][2]>>
    /\ s[i][1] = "ENDTC" =>
         \E k \in DOMAIN s :
           /\ k < i /\ s[k] = <<"STARTTC", s[i][2]>>
           /\ Without(s, k + 1, i - 1, {"STARTTC", "ENDTC", "STARTRUN", "sync"})
    /\ s[i][1] = "TESTCASE" /\ (\E k \in DOMAIN s : s[k] = <<"STARTTC", s[i][2]>>) =>
         i > 3 /\ s[i - 3] = <<"ENDTC", s[i][2]>> /\ s[i - 2][1] = "read"
    /\ s[i][1] = "EXIT" => i = Len(s) /\ i > 1 /\ s[i - 1][1] = "sync"

ASSUME ReportAssumption == \A n \in Node : Reported(Script[n])

ASSUME MeetingAssumption ==
  Meeting \in Args("SYNC") /\ Meeting \notin Args("WAIT") \cup Args("LMP")

VARIABLES
  dev,      (* the device: position in its script, 0 when it crashed       *)
  line,     (* device to dispatcher: lines not dealt with yet              *)
  rx,       (* dispatcher to device: lines not read yet                    *)
  files,    (* cases with a result directory on the device                 *)
  safe,     (* those of them that survive a crash                          *)
  loop,     (* the dispatcher: "expect", "call" or how the loop ended      *)
  request,  (* the call in progress                                        *)
  runs,     (* _test_runs, the backup bundle                               *)
  case,     (* _cur_case_id of the signal handler                          *)
  measured, (* cases for which end_testcase was called                     *)
  bundle,   (* the cases in the bundle that was dumped, once there is one *)
  told,     (* Coordinator: the nodes that sent each message               *)
  past      (* history: messages each device has waited for successfully   *)

device == <<dev, files, safe>>
wires == <<line, rx>>
director == <<case, measured>>
vars == <<device, wires, loop, request, runs, director, bundle, told, past>>

Ends == {"exited", "dropped", "stopped", "timedout", "raised"}
NoCase == "no case"

Init ==
  /\ dev = [n \in Node |-> 1]
  /\ line = [n \in Node |-> <<>>] /\ rx = [n \in Node |-> <<>>]
  /\ files = [n \in Node |-> {}] /\ safe = [n \in Node |-> {}]
  /\ loop = [n \in Node |-> "expect"]
  /\ request = [n \in Node |-> <<>>]
  /\ runs = [n \in Node |-> <<>>]
  /\ case = [n \in Node |-> NoCase] /\ measured = [n \in Node |-> {}]
  /\ bundle = [n \in Node |-> <<>>]
  /\ told = [m \in Args("SYNC") \cup Args("SEND") \cup Args("WAIT") |-> {}]
  /\ past = [n \in Node |-> {}]

----------------------------------------------------------------------------
(* The device.                                                             *)

Running(n) == dev[n] \in DOMAIN Script[n]
At(n, op) == Running(n) /\ Script[n][dev[n]][1] = op
Arg(n) == Script[n][dev[n]][2]

Advance(n) == dev' = [dev EXCEPT ![n] = @ + 1]

Say(n) ==
  /\ Running(n) /\ Script[n][dev[n]][1] \in Printed
  /\ line' = [line EXCEPT ![n] = Append(@, Script[n][dev[n]])]
  /\ Advance(n)
  /\ UNCHANGED <<rx, files, safe, loop, request, runs, director, bundle, told, past>>

(* read: the next line, whatever it says.                                  *)
Read(n) ==
  /\ At(n, "read") /\ rx[n] # <<>>
  /\ rx' = [rx EXCEPT ![n] = Tail(@)]
  /\ Advance(n)
  /\ UNCHANGED <<line, files, safe, loop, request, runs, director, bundle, told, past>>

(* Where a command that fails leaves the device: its case goes on with its *)
(* ENDTC; outside a case it ends this run.sh (set -e), and the next one or *)
(* the trap of lava-test-runner follows.                                   *)
Ahead(n, ops) ==
  CHOOSE j \in DOMAIN Script[n] :
    /\ j > dev[n] /\ Script[n][j][1] \in ops
    /\ \A k \in dev[n] + 1 .. j - 1 : Script[n][k][1] \notin ops

AfterFailure(n) ==
  LET j == Ahead(n, {"STARTTC", "ENDTC", "STARTRUN", "sync", "EXIT"})
  IN IF Script[n][j][1] = "ENDTC" THEN j ELSE Ahead(n, {"STARTRUN", "sync", "EXIT"})

(* wait_for_message: any other line is dropped; a nack or an unknown board  *)
(* is a failure.                                                           *)
Await(n) ==
  /\ At(n, "await") /\ rx[n] # <<>>
  /\ rx' = [rx EXCEPT ![n] = Tail(@)]
  /\ CASE Head(rx[n]) = "LAVA_ACK" -> UNCHANGED <<dev, past>>
       [] Head(rx[n]) = "COMPLETE" ->
            /\ Advance(n)
            /\ past' = [past EXCEPT ![n] = @ \cup {Arg(n)}]
       [] Head(rx[n]) = "COMPLETE nack" ->
            /\ dev' = [dev EXCEPT ![n] = AfterFailure(n)]
            /\ UNCHANGED past
  /\ UNCHANGED <<line, files, safe, loop, request, runs, director, bundle, told>>

SaveUnsynced(n) ==
  /\ \/ /\ At(n, "file")
        /\ files' = [files EXCEPT ![n] = @ \cup {Arg(n)}]
     \/ /\ At(n, "sync")
        /\ UNCHANGED files
  /\ Advance(n)
  /\ UNCHANGED <<safe, wires, loop, request, runs, director, bundle, told, past>>

Save(n) ==
  /\ \/ /\ At(n, "file")
        /\ files' = [files EXCEPT ![n] = @ \cup {Arg(n)}]
        /\ UNCHANGED safe
     \/ /\ At(n, "sync")
        /\ safe' = [safe EXCEPT ![n] = files[n]]
        /\ UNCHANGED files
  /\ Advance(n)
  /\ UNCHANGED <<wires, loop, request, runs, director, bundle, told, past>>

(* The device hangs, panics or loses power: what was not on disk may be    *)
(* gone, and what was sent to it is.                                       *)
Crash(n) ==
  /\ dev[n] # 0
  /\ dev' = [dev EXCEPT ![n] = 0]
  /\ \E kept \in SUBSET (files[n] \ safe[n]) :
       files' = [files EXCEPT ![n] = safe[n] \cup kept]
  /\ rx' = [rx EXCEPT ![n] = <<>>]
  /\ UNCHANGED <<line, safe, loop, request, runs, director, bundle, told, past>>

DeviceStep(n) == Say(n) \/ Read(n) \/ Await(n) \/ Save(n)

----------------------------------------------------------------------------
(* _keep_running of the dispatcher.                                        *)

(* sendline: a device that crashed does not see it.                        *)
Reply(n, text) == rx' = [rx EXCEPT ![n] = IF dev[n] = 0 THEN @ ELSE Append(@, text)]

Matches(n, ops) == /\ loop[n] = "expect" /\ line[n] # <<>>
                   /\ Head(line[n])[1] \in ops

(* _handle_testrun and _handle_testcase.                                   *)
TestRun(n, d) == runs' = [runs EXCEPT ![n] = Append(@, [run |-> d, results |-> <<>>])]

ResultInFirst(n, id) ==
  runs' = [runs EXCEPT ![n][1].results = Append(@, id)]

Result(n, id) ==
  runs' = [runs EXCEPT ![n][Len(runs[n])].results = Append(@, id)]

DirectSetsLate(n, name, arg) ==
  CASE name = "STARTTC" -> /\ case' \in {case, [case EXCEPT ![n] = arg]}
                           /\ UNCHANGED measured
    [] name = "ENDTC" -> /\ measured' = [measured EXCEPT ![n] = IF case[n] = arg THEN @ \cup {arg} ELSE @]
                         /\ UNCHANGED case
    [] OTHER -> UNCHANGED director

(* signal_director.signal for the cases: endtc ends what starttc began.    *)
(* Every run has a handler of its own. One that raises is logged, after    *)
(* the same assignments.                                                   *)
Direct(n, name, arg) ==
  CASE name = "STARTRUN" -> /\ case' = [case EXCEPT ![n] = NoCase]
                            /\ UNCHANGED measured
    [] name = "STARTTC" -> /\ case' = [case EXCEPT ![n] = arg]
                           /\ UNCHANGED measured
    [] name = "ENDTC" -> /\ measured' = [measured EXCEPT ![n] = IF case[n] = arg THEN @ \cup {arg} ELSE @]
                         /\ UNCHANGED case
    [] OTHER -> UNCHANGED director

SignalAckOnSuccess(n) ==
  /\ Matches(n, Signals)
  /\ LET name == Head(line[n])[1]
         arg == Head(line[n])[2]
     IN /\ CASE name = "STARTRUN" -> TestRun(n, arg)
             [] name = "TESTCASE" -> Result(n, arg)
             [] OTHER -> UNCHANGED runs
        /\ \/ Direct(n, name, arg) /\ Reply(n, "LAVA_ACK")
           \/ UNCHANGED <<director, rx>>
  /\ line' = [line EXCEPT ![n] = Tail(@)]
  /\ UNCHANGED <<device, loop, request, bundle, told, past>>

(* A signal: whatever its handler did, the acknowledgement is sent.        *)
Signal(n) ==
  /\ Matches(n, Signals)
  /\ LET name == Head(line[n])[1]
         arg == Head(line[n])[2]
     IN /\ CASE name = "STARTRUN" -> TestRun(n, arg)
             [] name = "TESTCASE" -> Result(n, arg)
             [] OTHER -> UNCHANGED runs
        /\ Direct(n, name, arg)
  /\ Reply(n, "LAVA_ACK")
  /\ line' = [line EXCEPT ![n] = Tail(@)]
  /\ UNCHANGED <<device, loop, request, bundle, told, past>>

(* <LAVA_MULTI_NODE> or <LAVA_LMP>: the handler blocks in the transport or *)
(* in the board. lava_sync and lava_send leave a message.                  *)
Call(n) ==
  /\ Matches(n, Calls)
  /\ loop' = [loop EXCEPT ![n] = "call"]
  /\ request' = [request EXCEPT ![n] = Head(line[n])]
  /\ line' = [line EXCEPT ![n] = Tail(@)]
  /\ told' = IF Head(line[n])[1] \in {"SYNC", "SEND"}
             THEN [told EXCEPT ![Head(line[n])[2]] = @ \cup {n}] ELSE told
  /\ UNCHANGED <<device, rx, runs, director, bundle, past>>

(* The loop goes on, or its condition is false, or expect raised.          *)
Continue(n) == loop' = [loop EXCEPT ![n] = "expect"]
End(n, how) == loop' = [loop EXCEPT ![n] = how]

ReturnNackIgnored(n) ==
  /\ loop[n] = "call"
  /\ request' = [request EXCEPT ![n] = <<>>]
  /\ Continue(n)
  /\ IF request[n][1] = "SEND" THEN UNCHANGED rx ELSE Reply(n, "COMPLETE")
  /\ UNCHANGED <<device, line, runs, director, bundle, told, past>>

(* What the Coordinator answers: lava_sync when every node has sent the    *)
(* message, lava_wait when one of them has.                                *)
Answered(op, m) == \/ op = "SYNC" /\ told[m] = Node
                   \/ op = "WAIT" /\ told[m] # {}

(* A nack, the timeout of the poll, is passed on to the device. After      *)
(* lava_send it raises FailedCall; a board answers, is not known or        *)
(* raises. What raises ends the loop, and the device is not told: so does  *)
(* a reply of the Coordinator that is garbled or missing.                  *)
Return(n) ==
  /\ loop[n] = "call"
  /\ request' = [request EXCEPT ![n] = <<>>]
  /\ \/ /\ request[n][1] \in {"SYNC", "WAIT"}
        /\ \/ /\ Continue(n)
              /\ \/ Answered(request[n][1], request[n][2]) /\ Reply(n, "COMPLETE")
                 \/ Reply(n, "COMPLETE nack")
           \/ End(n, "stopped") /\ UNCHANGED rx
     \/ /\ request[n][1] = "SEND"
        /\ Continue(n) \/ End(n, "stopped")
        /\ UNCHANGED rx
     \/ /\ request[n][1] = "LMP"
        /\ \/ Continue(n) /\ (Reply(n, "COMPLETE") \/ Reply(n, "COMPLETE nack"))
           \/ End(n, "stopped") /\ UNCHANGED rx
  /\ UNCHANGED <<device, line, runs, director, bundle, told, past>>

Exit(n) ==
  /\ Matches(n, {"EXIT"})
  /\ line' = [line EXCEPT ![n] = Tail(@)]
  /\ End(n, "exited")
  /\ UNCHANGED <<device, rx, request, runs, director, bundle, told, past>>

(* _handle_testrun and _handle_testcase are outside of the try: what they  *)
(* raise, for a run that is not known or a result without its fields,      *)
(* leaves the action at once, and nobody reads the line any more.          *)
SignalRaises(n) ==
  /\ Matches(n, {"STARTRUN", "TESTCASE"})
  /\ End(n, "raised")
  /\ UNCHANGED <<device, wires, request, runs, director, bundle, told, past>>

(* EOF, when nothing else matches; the connection is gone.                 *)
Dropped(n) ==
  /\ loop[n] = "expect" /\ line[n] = <<>>
  /\ End(n, "dropped")
  /\ UNCHANGED <<device, wires, request, runs, director, bundle, told, past>>

(* TIMEOUT leaves the action at once, without _bundle_results.             *)
Timeout(n) ==
  /\ loop[n] = "expect" /\ line[n] = <<>>
  /\ End(n, "timedout")
  /\ UNCHANGED <<device, wires, request, runs, director, bundle, told, past>>

----------------------------------------------------------------------------
(* _bundle_results.                                                        *)

Seen(n) == UNION {ToSet(r.results) : r \in ToSet(runs[n])}

(* The bundle is made of the files of the device, or, when its file system *)
(* cannot be reached, of the backup.                                       *)
Bundle(n) ==
  /\ loop[n] \in Ends \ {"timedout", "raised"} /\ bundle[n] = <<>>
  /\ \/ bundle' = [bundle EXCEPT ![n] = <<files[n]>>]
     \/ bundle' = [bundle EXCEPT ![n] = <<Seen(n)>>]
  /\ UNCHANGED <<device, wires, loop, request, runs, director, told, past>>

DispatcherStep(n) ==
  Signal(n) \/ Call(n) \/ Return(n) \/ Exit(n) \/ Bundle(n)

Next == \E n \in Node :
  \/ DeviceStep(n) \/ DispatcherStep(n) \/ Crash(n)
  \/ SignalRaises(n) \/ Dropped(n) \/ Timeout(n)

Spec == Init /\ [][Next]_vars

(* Scripts that are not blocked run on, and so does the dispatcher; every  *)
(* call returns (BlockingCall). Crashes, drops, errors and timeouts need    *)
(* not come.                                                               *)
FairSpec == Spec /\ \A n \in Node : WF_vars(DeviceStep(n)) /\ WF_vars(DispatcherStep(n))

----------------------------------------------------------------------------

TypeOK ==
  /\ \A n \in Node : dev[n] \in 0..Len(Script[n]) + 1
  /\ \A n \in Node : \A i \in DOMAIN line[n] : line[n][i][1] \in Printed
  /\ \A n \in Node : \A i \in DOMAIN rx[n] : rx[n][i] \in {"LAVA_ACK", "COMPLETE", "COMPLETE nack"}
  /\ loop \in [Node -> {"expect", "call"} \cup Ends]
  /\ \A n \in Node : (loop[n] = "call") <=> (request[n] # <<>>)
  /\ \A n \in Node : safe[n] \subseteq files[n]
  /\ DOMAIN runs = Node /\ DOMAIN bundle = Node
  /\ \A m \in DOMAIN told : told[m] \subseteq Node

(* No script blocks for good: while _keep_running goes on, a device that   *)
(* stands in a read has a line coming, although reads take the surplus     *)
(* acknowledgements of TESTCASE and lava-sync throws lines away.           *)
Pending(n, ops) == \E i \in DOMAIN line[n] : line[n][i][1] \in ops
NeverStuck ==
  \A n \in Node : loop[n] \in {"expect", "call"} =>
    /\ At(n, "read") => rx[n] # <<>> \/ Pending(n, Signals)
    /\ At(n, "await") =>
         \/ loop[n] = "call" \/ Pending(n, Calls)
         \/ \E i \in DOMAIN rx[n] : rx[n][i] # "LAVA_ACK"

(* lava-sync is a barrier for the devices, through serial lines, polls and *)
(* nacks: none gets past a message before all have asked for it.           *)
Barrier == INSTANCE GroupBarrier WITH
  Member <- Node, joined <- told[Meeting], started <- {n \in Node : Meeting \in past[n]}
SyncIsBarrier == Barrier!BarrierSpec

(* What the dispatcher parses from the serial line is true: each result is *)
(* listed under the run that produced it, and the runs and the results of  *)
(* a run are in the order in which the device reported them.               *)
Where(n, op, arg) == CHOOSE i \in DOMAIN Script[n] : Script[n][i] = <<op, arg>>
Places(n, r) ==
  << Where(n, "STARTRUN", r.run) >>
  \o [i \in DOMAIN r.results |-> Where(n, "TESTCASE", r.results[i])]
  \o << Where(n, "ENDRUN", r.run) >>
Ascending(s) == \A i, j \in DOMAIN s : i < j => s[i] < s[j]

BackupIsTrue ==
  \A n \in Node :
    /\ \A j \in DOMAIN runs[n] : Ascending(Places(n, runs[n][j]))
    /\ Ascending([j \in DOMAIN runs[n] |-> Where(n, "STARTRUN", runs[n][j].run)])

(* When the runner has said that it exits, the bundle has every result     *)
(* that was reported, be it made from the files of the device, even if it  *)
(* has crashed since, or from the serial line; and each case with a        *)
(* command was measured from STARTTC to ENDTC.                             *)
Timed(n) == {Script[n][i][2] : i \in {j \in DOMAIN Script[n] : Script[n][j][1] = "STARTTC"}}
ExitMeansAll ==
  \A n \in Node : loop[n] = "exited" =>
    /\ bundle[n] # <<>> => Seen(n) \subseteq bundle[n][1]
    /\ Seen(n) \cap Timed(n) \subseteq measured[n]

(* A device that does not crash and a line that is not dropped bring the   *)
(* action to its end without the timeout, whatever the other nodes do.     *)
HealthyEnds == \A n \in Node : <>(loop[n] \in Ends \/ dev[n] = 0)
=============================================================================
