------------------------------ MODULE LavaJob ------------------------------
(***************************************************************************)
(* One run of a legacy (JSON) job by the dispatcher, LavaTestJob.run in    *)
(* lava_dispatcher/job.py, for each node of a set of dispatcher processes: *)
(* the loop over the job's actions with its table of except clauses, the   *)
(* SIGTERM handler, and the finally clause that powers the device off,     *)
(* collects the results and hands them on.                                 *)
(***************************************************************************)
EXTENDS Naturals, Sequences

CONSTANTS
  Node,      (* dispatcher processes, one device each                      *)
  Programs,  (* the action lists a job may have, without submit_results    *)
  Faults,    (* the exceptions an action, a reboot or finish() may raise   *)
  MaxTerms   (* bound: SIGTERM signals each process may receive            *)

(* What the loop tells apart in a command name: boot_linaro_android_image, *)
(* lava_android_test*, lava_test_run (whose results stay on the device)    *)
(* and every other command.                                                *)
Kind == {"boot_android", "android_test", "lava_test", "other"}

(* The classes the except clauses tell apart. General is GeneralError and  *)
(* pexpect.TIMEOUT, Other is CalledProcessError and any other Exception.   *)
Exception == {"ADBConnect", "Timeout", "Critical", "General", "Interrupt", "Other"}

ASSUME JobAssumption ==
  /\ Programs \subseteq Seq(Kind)
  /\ Faults \subseteq Exception
  /\ MaxTerms \in [Node -> Nat]

VARIABLES
  job,       (* what each node was asked to do (constant)                  *)
  pc,        (* where run() stands                                         *)
  step,      (* job_num: how many actions were started                     *)
  results,   (* statuses of test_data, one per add_result of the loop      *)
  status,    (* test_data.job_status                                       *)
  exc,       (* the exception on its way out of run(), or "none"           *)
  powered,   (* the device may have been started since its last power_off()*)
  bundle,    (* what collect_bundles put together, or "none"               *)
  called,    (* transport was called with the aggregate request            *)
  terms,     (* SIGTERM signals received                                   *)
  unhandled, (* history: a finish() raised                                 *)
  swallowed, (* history: an action swallowed what a SIGTERM raised in it   *)
  lost,      (* history: a started action ended without its add_result     *)
  unmarked   (* history: a signal struck before job_status was set         *)

ghosts == <<unhandled, swallowed, lost, unmarked>>
jobVars == <<job, pc, step, results, status, exc, powered, bundle, called, terms, ghosts>>

(* actions: the commands before a trailing submit_results*; grouped: the   *)
(* job has a target_group; submits: it ended in submit_results*; zero: its *)
(* sub_id ends in ".0".                                                    *)
Job == {j \in [actions : Programs, grouped : BOOLEAN, submits : BOOLEAN, zero : BOOLEAN] :
          j.submits \/ j.actions # <<>>}

NoBundle == [results |-> <<>>, complete |-> "none"]

Ended(n) == pc[n] = "ended"

(* lava_test_run leaves results on the device (any_device_bundles).        *)
RanOnDevice(n) == \E i \in 1..step[n] : job[n].actions[i] = "lava_test"

JobInit ==
  /\ job \in [Node -> Job]
  /\ pc = [n \in Node |-> "start"]
  /\ step = [n \in Node |-> 0]
  /\ results = [n \in Node |-> <<>>]
  /\ status = [n \in Node |-> "pass"]
  /\ exc = [n \in Node |-> "none"]
  /\ powered = [n \in Node |-> FALSE]
  /\ bundle = [n \in Node |-> NoBundle]
  /\ called = [n \in Node |-> FALSE]
  /\ terms = [n \in Node |-> 0]
  /\ unhandled = [n \in Node |-> FALSE]
  /\ swallowed = [n \in Node |-> FALSE]
  /\ lost = [n \in Node |-> FALSE]
  /\ unmarked = [n \in Node |-> FALSE]

Goto(n, l) == pc' = [pc EXCEPT ![n] = l]

(* run() leaves by exception e: nothing after this point is executed.      *)
Die(n, e) == /\ Goto(n, "ended")
             /\ exc' = [exc EXCEPT ![n] = e]

AddResultOnSuccess(n, s) ==
  results' = [results EXCEPT ![n] = IF s = "pass" THEN Append(@, s) ELSE @]

AddResult(n, s) == results' = [results EXCEPT ![n] = Append(@, s)]

----------------------------------------------------------------------------
(* Before the try: validation, metadata, LMP boards, the signal handler.   *)

Start(n) ==
  /\ pc[n] = "start"
  /\ Goto(n, "loop")
  /\ UNCHANGED <<job, step, results, status, exc, powered, bundle, called, terms, ghosts>>

(* validate_job_data or lmp_init_boards raises, or SIGTERM arrives before  *)
(* the handler is installed: no finally clause covers this part.           *)
Reject(n) ==
  /\ pc[n] = "start"
  /\ Die(n, "Invalid")
  /\ UNCHANGED <<job, step, results, status, powered, bundle, called, terms, ghosts>>

----------------------------------------------------------------------------
(* The loop over the actions. Every place where a signal finds another     *)
(* clause around it, or another action or result counted, is a label.      *)

NextActionOffByOne(n) ==
  /\ pc[n] = "loop"
  /\ step[n] <= Len(job[n].actions)
  /\ step' = [step EXCEPT ![n] = @ + 1]
  /\ Goto(n, "starting")
  /\ UNCHANGED <<job, results, status, exc, powered, bundle, called, terms, ghosts>>

(* job_num is raised; the inner try is not entered yet.                    *)
NextAction(n) ==
  /\ pc[n] = "loop"
  /\ step[n] < Len(job[n].actions)
  /\ step' = [step EXCEPT ![n] = @ + 1]
  /\ Goto(n, "starting")
  /\ UNCHANGED <<job, results, status, exc, powered, bundle, called, terms, ghosts>>

CallRun(n) ==
  /\ pc[n] = "starting"
  /\ powered' = [powered EXCEPT ![n] = TRUE]
  /\ Goto(n, "running")
  /\ UNCHANGED <<job, step, results, status, exc, bundle, called, terms, ghosts>>

LeaveLoop(n) ==
  /\ pc[n] = "loop"
  /\ step[n] = Len(job[n].actions)
  /\ Goto(n, "finish")
  /\ UNCHANGED <<job, step, results, status, exc, powered, bundle, called, terms, ghosts>>

(* action.run returns: the else clause sets pass.                          *)
ActionReturns(n) ==
  /\ pc[n] = "running"
  /\ Goto(n, "record-pass")
  /\ UNCHANGED <<job, step, results, status, exc, powered, bundle, called, terms, ghosts>>

DispositionBareExcept(kind, last, e) ==
  IF e \in {"Critical", "Other"} THEN "abort" ELSE "next"

(* What the except clauses decide for an exception e out of action.run:    *)
(* reboot the Android image, go on with the next action, or leave the job. *)
(* ADBConnectError is a CriticalError whose clause comes first. A          *)
(* KeyboardInterrupt sets err to a string, whose missing .message makes    *)
(* the finally clause raise before add_result.                             *)
Disposition(kind, last, e) ==
  CASE e = "ADBConnect" -> IF kind = "boot_android" THEN "reboot" ELSE "next"
    [] e = "Timeout"    -> IF kind = "android_test" /\ ~last THEN "reboot" ELSE "next"
    [] e = "General"    -> "next"
    [] e = "Interrupt"  -> "cancel"
    [] OTHER            -> "abort"

(* The exception e leaves the outer try.                                   *)
Unwind(n, e) ==
  /\ exc' = [exc EXCEPT ![n] = e]
  /\ Goto(n, "caught")

CatchOnException(n) ==
  /\ pc[n] = "caught"
  /\ status' = [status EXCEPT ![n] = IF exc[n] = "SystemExit" THEN @ ELSE "fail"]
  /\ Goto(n, "finish")
  /\ UNCHANGED <<job, step, results, exc, powered, bundle, called, terms, ghosts>>

(* The outer except: job_status becomes fail, then the finally clause.     *)
Catch(n) ==
  /\ pc[n] = "caught"
  /\ status' = [status EXCEPT ![n] = "fail"]
  /\ Goto(n, "finish")
  /\ UNCHANGED <<job, step, results, exc, powered, bundle, called, terms, ghosts>>

InAction == {"running", "reboot-ADBConnect", "reboot-Timeout"}
Recording == {"record-pass", "record-fail", "record-abort"}
AfterLoop == {"finish", "report", "aggregate", "pending", "group", "put"}

(* Exception e reaches the statement run() is at.                          *)
Propagate(n, e) ==
  LET d == Disposition(job[n].actions[step[n]], step[n] = Len(job[n].actions), e)
  IN \/ /\ pc[n] = "running" /\ d = "next"
        /\ Goto(n, "record-fail")
        /\ UNCHANGED <<exc, lost, unmarked>>
     \/ /\ pc[n] = "running" /\ d = "reboot"
        /\ Goto(n, IF e = "Timeout" THEN "reboot-Timeout" ELSE "reboot-ADBConnect")
        /\ UNCHANGED <<exc, lost, unmarked>>
     \/ /\ pc[n] = "running" /\ d = "cancel"
        /\ Unwind(n, "AttributeError")
        /\ lost' = [lost EXCEPT ![n] = TRUE] /\ UNCHANGED unmarked
     \/ /\ pc[n] \in InAction /\ (pc[n] = "running" => d = "abort")
        /\ Goto(n, "record-abort") /\ exc' = [exc EXCEPT ![n] = e]
        /\ UNCHANGED <<lost, unmarked>>
     \/ /\ pc[n] \in {"starting"} \cup Recording
        /\ Unwind(n, e)
        /\ lost' = [lost EXCEPT ![n] = TRUE] /\ UNCHANGED unmarked
     \/ /\ pc[n] = "loop"
        /\ Unwind(n, e) /\ UNCHANGED <<lost, unmarked>>
     \/ /\ pc[n] = "caught"
        /\ Goto(n, "finish") /\ exc' = [exc EXCEPT ![n] = e]
        /\ unmarked' = [unmarked EXCEPT ![n] = TRUE] /\ UNCHANGED lost
     \/ /\ pc[n] \in AfterLoop
        /\ Die(n, e) /\ UNCHANGED <<lost, unmarked>>

ActionRaises(n, e) ==
  /\ pc[n] = "running"
  /\ Propagate(n, e)
  /\ UNCHANGED <<job, step, results, status, powered, bundle, called, terms, unhandled, swallowed>>

(* The second boot_linaro_android_image of an except clause returns: it    *)
(* turns a failed boot into a pass, and leaves a timed-out test a failure. *)
RebootReturns(n) ==
  /\ \/ pc[n] = "reboot-ADBConnect" /\ Goto(n, "record-pass")
     \/ pc[n] = "reboot-Timeout" /\ Goto(n, "record-fail")
  /\ UNCHANGED <<job, step, results, status, exc, powered, bundle, called, terms, ghosts>>

RebootRaises(n, e) ==
  /\ pc[n] \in {"reboot-ADBConnect", "reboot-Timeout"}
  /\ Propagate(n, e)
  /\ UNCHANGED <<job, step, results, status, powered, bundle, called, terms, unhandled, swallowed>>

(* The inner finally clause: add_result, and then either the next action   *)
(* or the exception that was on its way.                                   *)
Record(n) ==
  /\ pc[n] \in Recording
  /\ AddResult(n, IF pc[n] = "record-pass" THEN "pass" ELSE "fail")
  /\ IF pc[n] = "record-abort" THEN Unwind(n, exc[n]) ELSE Goto(n, "loop") /\ UNCHANGED exc
  /\ UNCHANGED <<job, step, status, powered, bundle, called, terms, ghosts>>

(* The message of the error is not ASCII (unicode(str(err)) decodes it), or*)
(* the log cannot be written: add_result is not reached.                   *)
RecordFails(n) ==
  /\ pc[n] \in {"record-fail", "record-abort"}
  /\ Propagate(n, "Other")
  /\ UNCHANGED <<job, step, results, status, powered, bundle, called, terms, unhandled, swallowed>>

----------------------------------------------------------------------------
(* SIGTERM: term_handler runs context.finish() and then sys.exit(1), in    *)
(* the middle of whatever run() is doing.                                  *)

Terminate(n) ==
  /\ terms[n] < MaxTerms[n]
  /\ terms' = [terms EXCEPT ![n] = @ + 1]
  /\ powered' = [powered EXCEPT ![n] = FALSE]
  /\ Propagate(n, "SystemExit")
  /\ UNCHANGED <<job, step, results, status, bundle, called, unhandled, swallowed>>

(* finish() raises inside the handler: sys.exit is never reached, and the  *)
(* exception surfaces in the interrupted statement as if it were its own.  *)
TerminateFails(n, e) ==
  /\ terms[n] < MaxTerms[n]
  /\ terms' = [terms EXCEPT ![n] = @ + 1]
  /\ unhandled' = [unhandled EXCEPT ![n] = TRUE]
  /\ Propagate(n, e)
  /\ UNCHANGED <<job, step, results, status, powered, bundle, called, swallowed>>

(* The signal strikes inside a try of the action, or of collect_bundles,   *)
(* whose bare except takes SystemExit for a failure of its own: the action *)
(* goes on, or fails of something else, on a device that was switched off. *)
TerminateSwallowed(n) ==
  /\ pc[n] \in InAction \cup {"report"}
  /\ terms[n] < MaxTerms[n]
  /\ terms' = [terms EXCEPT ![n] = @ + 1]
  /\ swallowed' = [swallowed EXCEPT ![n] = TRUE]
  /\ \/ UNCHANGED unhandled
     \/ unhandled' = [unhandled EXCEPT ![n] = TRUE]
  /\ UNCHANGED <<job, pc, step, results, status, exc, powered, bundle, called, lost, unmarked>>

----------------------------------------------------------------------------
(* The outer finally clause.                                               *)

FinishOnSuccess(n) ==
  /\ pc[n] = "finish"
  /\ powered' = [powered EXCEPT ![n] = @ /\ status[n] = "fail"]
  /\ Goto(n, "report")
  /\ UNCHANGED <<job, step, results, status, exc, bundle, called, terms, ghosts>>

Finish(n) ==
  /\ pc[n] = "finish"
  /\ powered' = [powered EXCEPT ![n] = FALSE]
  /\ Goto(n, "report")
  /\ UNCHANGED <<job, step, results, status, exc, bundle, called, terms, ghosts>>

(* finish() raises before or after the power-off, or get_device_version    *)
(* does: the rest of the finally clause is skipped.                        *)
FinishFails(n, e) ==
  /\ pc[n] = "finish"
  /\ unhandled' = [unhandled EXCEPT ![n] = TRUE]
  /\ \E on \in {powered[n], FALSE} : powered' = [powered EXCEPT ![n] = on]
  /\ Die(n, e)
  /\ UNCHANGED <<job, step, results, status, bundle, called, terms, swallowed, lost, unmarked>>

(* collect_bundles: the lava run with job_complete = job_status, and the   *)
(* results left on the device, for which the device is started again. A    *)
(* bundle that does not parse is dropped and aggregated as no bundle.      *)
Report(n) ==
  /\ pc[n] = "report"
  /\ IF job[n].submits
     THEN /\ \/ bundle' = [bundle EXCEPT ![n] =
                             [results |-> results[n], complete |-> status[n]]]
             \/ job[n].grouped /\ UNCHANGED bundle
          /\ powered' = [powered EXCEPT ![n] = RanOnDevice(n)]
     ELSE UNCHANGED <<bundle, powered>>
  /\ Goto(n, IF job[n].grouped THEN "aggregate"
             ELSE IF job[n].submits THEN "put" ELSE "ended")
  /\ UNCHANGED <<job, step, results, status, exc, called, terms, ghosts>>

(* combine_bundles, or a missing parameter, raises while collecting.       *)
ReportFails(n) ==
  /\ pc[n] = "report" /\ job[n].submits
  /\ powered' = [powered EXCEPT ![n] = RanOnDevice(n)]
  /\ Die(n, "Other")
  /\ UNCHANGED <<job, step, results, status, bundle, called, terms, ghosts>>

(* transport(aggregate) is called; a multinode job without submit_results  *)
(* calls it with no bundle.                                                *)
CallAggregate(n) ==
  /\ pc[n] = "aggregate" /\ ~called[n]
  /\ called' = [called EXCEPT ![n] = TRUE]
  /\ UNCHANGED <<job, pc, step, results, status, exc, powered, bundle, terms, ghosts>>

(* The reply: "ack", "nack", the list of the group's checksums, or what    *)
(* the transport cannot parse.                                             *)
Reply == {"ack", "nack", "list", "garbled"}

AggregateReturnsNackAsList(n, reply) ==
  /\ pc[n] = "aggregate" /\ called[n]
  /\ \/ reply \in {"nack", "list"} /\ job[n].zero /\ Goto(n, "group")
     \/ reply = "ack" /\ Goto(n, "pending")
  /\ UNCHANGED <<job, step, results, status, exc, powered, bundle, called, terms, ghosts>>

AggregateReturnsNoBundleCheck(n, reply) ==
  /\ pc[n] = "aggregate" /\ called[n]
  /\ Goto(n, CASE reply = "ack" -> "pending"
               [] reply = "list" /\ job[n].zero -> "group"
               [] OTHER -> "ended")
  /\ UNCHANGED <<job, step, results, status, exc, powered, bundle, called, terms, ghosts>>

AggregateReturns(n, reply) ==
  /\ pc[n] = "aggregate" /\ called[n]
  /\ \/ /\ reply = "garbled"
        /\ Die(n, "Other")
     \/ /\ reply # "garbled" /\ (bundle[n] = NoBundle \/ reply = "nack")
        /\ Goto(n, "ended") /\ UNCHANGED exc
     \/ /\ bundle[n] # NoBundle /\ reply = "ack"
        /\ Goto(n, "pending") /\ UNCHANGED exc
     \/ /\ bundle[n] # NoBundle /\ reply = "list" /\ job[n].zero
        /\ Goto(n, "group") /\ UNCHANGED exc
     \/ /\ bundle[n] # NoBundle /\ reply = "list" /\ ~job[n].zero
        /\ Die(n, "Other")
  /\ UNCHANGED <<job, step, results, status, powered, bundle, called, terms, ghosts>>

(* submit_pending, submit_group_list, submit_bundle: the dashboard takes   *)
(* the bundle, or answers a Fault, which leaves run() as OperationFailed.  *)
Put(n) ==
  /\ pc[n] \in {"pending", "group", "put"}
  /\ Goto(n, "ended")
  /\ UNCHANGED <<job, step, results, status, exc, powered, bundle, called, terms, ghosts>>

PutFails(n) ==
  /\ pc[n] \in {"pending", "group", "put"}
  /\ Die(n, "General")
  /\ UNCHANGED <<job, step, results, status, powered, bundle, called, terms, ghosts>>

----------------------------------------------------------------------------

RunStep(n) ==
  \/ Start(n) \/ Reject(n)
  \/ NextAction(n) \/ CallRun(n) \/ LeaveLoop(n) \/ ActionReturns(n) \/ RebootReturns(n)
  \/ Record(n) \/ RecordFails(n) \/ Catch(n)
  \/ \E e \in Faults : ActionRaises(n, e) \/ RebootRaises(n, e)
  \/ \E e \in Faults : FinishFails(n, e)
  \/ Finish(n) \/ Report(n) \/ ReportFails(n) \/ Put(n) \/ PutFails(n)

TermStep(n) ==
  \/ Terminate(n) \/ TerminateSwallowed(n)
  \/ \E e \in Faults : TerminateFails(n, e)

JobNext == \E n \in Node :
  \/ RunStep(n) \/ TermStep(n) \/ CallAggregate(n)
  \/ \E reply \in Reply : AggregateReturns(n, reply)

JobSpec == JobInit /\ [][JobNext]_jobVars

----------------------------------------------------------------------------

Label == {"start", "loop", "starting", "caught", "ended"}
         \cup InAction \cup Recording \cup AfterLoop

(* Types of the variables above.                                           *)
JobTypeOK ==
  /\ job \in [Node -> Job]
  /\ pc \in [Node -> Label]
  /\ step \in [Node -> Nat]
  /\ \A n \in Node : step[n] <= Len(job[n].actions)
  /\ results \in [Node -> Seq({"pass", "fail"})]
  /\ status \in [Node -> {"pass", "fail"}]
  /\ exc \in [Node -> Exception \cup {"none", "SystemExit", "AttributeError", "Invalid"}]
  /\ powered \in [Node -> BOOLEAN]
  /\ bundle \in [Node -> [results : Seq({"pass", "fail"}),
                          complete : {"none", "pass", "fail"}]]
  /\ called \in [Node -> BOOLEAN]
  /\ terms \in [Node -> Nat]
  /\ unhandled \in [Node -> BOOLEAN]
  /\ swallowed \in [Node -> BOOLEAN]
  /\ lost \in [Node -> BOOLEAN]
  /\ unmarked \in [Node -> BOOLEAN]

(* Whatever an action, a reboot or a signal raises, no action is recorded  *)
(* twice and at most the last one started has no result: it is being run,  *)
(* or its end was cut off between job_num and add_result, and then the     *)
(* loop over the actions is left for good.                                 *)
Unrecorded(n) ==
  IF pc[n] \in {"starting"} \cup InAction \cup Recording \/ lost[n] THEN 1 ELSE 0

ResultPerAction ==
  \A n \in Node :
    /\ Len(results[n]) + Unrecorded(n) = step[n]
    /\ lost[n] => pc[n] \in {"caught", "ended"} \cup AfterLoop

(* A bundle that says job_complete: pass comes from a job that started and *)
(* recorded every one of its actions, whatever was raised, rebooted or     *)
(* signalled on the way; the actions themselves may have failed. The one   *)
(* exception is a signal at the outer except itself, before it has set     *)
(* job_status.                                                             *)
CompleteMeansAllRan ==
  \A n \in Node : bundle[n].complete = "pass" /\ ~unmarked[n] =>
    /\ step[n] = Len(job[n].actions)
    /\ Len(bundle[n].results) = Len(job[n].actions)

(* When run() is over, the last that was done to the device is power_off():*)
(* whether the job passed, failed or was terminated, it may be left on only*)
(* where a finish() raised, or where the results were fetched from the     *)
(* device after the power-off.                                             *)
DeviceOffAtEnd ==
  \A n \in Node : Ended(n) /\ powered[n] =>
    unhandled[n] \/ (job[n].submits /\ RanOnDevice(n))

(* After a SIGTERM no other action is started, with two exceptions: the    *)
(* handler's own finish() raised, so that sys.exit is never reached and the*)
(* loop may take the exception for a failure of the action it interrupted, *)
(* or a bare except inside the interrupted action swallowed SystemExit.    *)
TermStopsTheLoop ==
  [][\A n \in Node : terms[n] > 0 /\ step'[n] # step[n] =>
       unhandled[n] \/ swallowed[n]]_jobVars

=============================================================================
