--------------------------- MODULE LavaJobProofs ---------------------------
(***************************************************************************)
(* Proofs about LavaJob, for every set of nodes, programs and faults.      *)
(***************************************************************************)
EXTENDS LavaJob, TLAPS

(* One disjunct per action of JobNext: the case split every proof uses.    *)
JobAction(n) ==
  \/ Start(n) \/ Reject(n) \/ NextAction(n) \/ CallRun(n) \/ LeaveLoop(n)
  \/ ActionReturns(n) \/ RebootReturns(n) \/ Record(n) \/ RecordFails(n) \/ Catch(n)
  \/ \E e \in Exception : ActionRaises(n, e) \/ RebootRaises(n, e) \/ FinishFails(n, e)
  \/ Finish(n) \/ Report(n) \/ ReportFails(n) \/ Put(n) \/ PutFails(n)
  \/ Terminate(n) \/ TerminateSwallowed(n) \/ \E e \in Exception : TerminateFails(n, e)
  \/ CallAggregate(n) \/ \E reply \in Reply : AggregateReturns(n, reply)

(* JobNext is a step of some node, of an exception of the language.        *)
LEMMA JobCases ==
  ASSUME JobNext
  PROVE  \E n \in Node :
           JobAction(n)
BY JobAssumption DEF JobNext, RunStep, TermStep, JobAction, JobAssumption

Raised == Exception \cup {"SystemExit"}

Class == Exception \cup {"none", "SystemExit", "AttributeError", "Invalid"}

(* An exception out of a statement of run() keeps every variable it may    *)
(* change in its type.                                                     *)
LEMMA PropagateType ==
  ASSUME JobTypeOK, NEW n \in Node, NEW e \in Raised, Propagate(n, e)
  PROVE  /\ pc' \in [Node -> Label]
         /\ exc' \in [Node -> Class]
         /\ lost' \in [Node -> BOOLEAN]
         /\ unmarked' \in [Node -> BOOLEAN]
<1>1. e \in Class /\ "AttributeError" \in Class
  BY DEF Raised, Class
<1>2. \A l \in Label : Goto(n, l) => pc' \in [Node -> Label]
  BY DEF JobTypeOK, Goto
<1>3. \A x \in Class : exc' = [exc EXCEPT ![n] = x] => exc' \in [Node -> Class]
  BY DEF JobTypeOK, Class
<1>4. \A x \in Class : Unwind(n, x) => pc' \in [Node -> Label] /\ exc' \in [Node -> Class]
  BY <1>2, <1>3 DEF Unwind, Label
<1>5. Die(n, e) => pc' \in [Node -> Label] /\ exc' \in [Node -> Class]
  BY <1>1, <1>2, <1>3 DEF Die, Label
<1>6. exc \in [Node -> Class] /\ lost \in [Node -> BOOLEAN] /\ unmarked \in [Node -> BOOLEAN]
  BY DEF JobTypeOK, Class
<1>7. {"record-fail", "record-abort", "reboot-Timeout", "reboot-ADBConnect", "finish"} \subseteq Label
  BY DEF Label, InAction, Recording, AfterLoop
<1>8. pc' \in [Node -> Label] /\ exc' \in [Node -> Class]
  BY <1>1, <1>2, <1>3, <1>4, <1>5, <1>6, <1>7 DEF Propagate
<1>9. lost' \in [Node -> BOOLEAN] /\ unmarked' \in [Node -> BOOLEAN]
  BY <1>6 DEF Propagate
<1> QED
  BY <1>8, <1>9

(* Every step keeps the types.                                             *)
LEMMA JobTypeStep == JobTypeOK /\ [JobNext]_jobVars => JobTypeOK'
<1> SUFFICES ASSUME JobTypeOK, [JobNext]_jobVars PROVE JobTypeOK'
  OBVIOUS
<1>1. CASE UNCHANGED jobVars
  BY <1>1 DEF JobTypeOK, jobVars, ghosts
<1>2. CASE JobNext
  <2> PICK n \in Node :
         JobAction(n)
    BY <1>2, JobCases
  <2>a. \A l \in Label : Goto(n, l) => pc' \in [Node -> Label]
    BY DEF JobTypeOK, Goto
  <2>b. \A e \in Exception \cup {"Invalid"} : Die(n, e) =>
          /\ pc' \in [Node -> Label]
          /\ exc' \in [Node -> Class]
    BY DEF JobTypeOK, Die, Goto, Label, Class
  <2>c. \A s \in {"pass", "fail"} :
          AddResult(n, s) => results' \in [Node -> Seq({"pass", "fail"})]
    BY DEF JobTypeOK, AddResult
  <2>1. CASE Start(n) \/ Reject(n) \/ LeaveLoop(n) \/ CallAggregate(n)
    BY <2>1, <2>a, <2>b DEF JobTypeOK, Start, Reject, LeaveLoop, CallAggregate, Label,
                           AfterLoop, Class, ghosts
  <2>2. CASE NextAction(n)
    <3>1. Len(job[n].actions) \in Nat
      BY JobAssumption DEF JobAssumption, JobTypeOK, Job
    <3>2. step' \in [Node -> Nat] /\ step'[n] = step[n] + 1
      BY <2>2 DEF NextAction, JobTypeOK
    <3>3. \A m \in Node : step'[m] <= Len(job'[m].actions)
      <4> TAKE m \in Node
      <4>1. CASE m = n
        BY <4>1, <2>2, <3>1, <3>2 DEF NextAction, JobTypeOK
      <4>2. CASE m # n
        BY <4>2, <2>2 DEF NextAction, JobTypeOK
      <4> QED
        BY <4>1, <4>2
    <3> QED
      BY <2>2, <2>a, <3>2, <3>3 DEF JobTypeOK, NextAction, Label, ghosts
  <2>3. CASE CallRun(n) \/ ActionReturns(n) \/ RebootReturns(n) \/ Catch(n)
    BY <2>3, <2>a DEF JobTypeOK, CallRun, ActionReturns, RebootReturns, Catch, Label,
                     InAction, Recording, AfterLoop, ghosts
  <2>r. CASE Record(n)
    <3>1. results' \in [Node -> Seq({"pass", "fail"})]
      BY <2>r, <2>c DEF Record
    <3>2. pc' \in [Node -> Label] /\ exc' \in [Node -> Class]
      BY <2>r, <2>a DEF Record, Unwind, JobTypeOK, Label, Class
    <3> QED
      BY <2>r, <3>1, <3>2 DEF Record, JobTypeOK, Class, ghosts
  <2>4. ASSUME NEW e \in Exception, ActionRaises(n, e) \/ RebootRaises(n, e) \/ RecordFails(n)
        PROVE  JobTypeOK'
    <3>1. \E x \in Raised : Propagate(n, x)
      BY <2>4 DEF ActionRaises, RebootRaises, RecordFails, Raised, Exception
    <3>2. UNCHANGED <<job, step, results, status, powered, bundle, called, terms, unhandled, swallowed>>
      BY <2>4 DEF ActionRaises, RebootRaises, RecordFails
    <3> QED
      BY <3>1, <3>2, PropagateType DEF JobTypeOK, Class
  <2>5. ASSUME NEW e \in Exception, FinishFails(n, e) PROVE JobTypeOK'
    <3>1. powered' \in [Node -> BOOLEAN]
      BY <2>5, Zenon DEF FinishFails, JobTypeOK
    <3> QED
      BY <2>5, <2>b, <3>1 DEF JobTypeOK, FinishFails, Class
  <2>6. CASE Finish(n) \/ Put(n) \/ PutFails(n)
    BY <2>6, <2>a, <2>b DEF JobTypeOK, Finish, Put, PutFails, Exception, Label, AfterLoop,
                           Class, ghosts
  <2>7. CASE Report(n) \/ ReportFails(n)
    <3>1. RanOnDevice(n) \in BOOLEAN
      BY DEF RanOnDevice
    <3>2. powered' \in [Node -> BOOLEAN]
      BY <2>7, <3>1 DEF Report, ReportFails, JobTypeOK
    <3>3. bundle' \in [Node -> [results : Seq({"pass", "fail"}),
                                complete : {"none", "pass", "fail"}]]
      <4> DEFINE B == [results : Seq({"pass", "fail"}), complete : {"none", "pass", "fail"}]
                 b == [results |-> results[n], complete |-> status[n]]
      <4>1. b \in B /\ bundle \in [Node -> B]
        BY DEF JobTypeOK
      <4>2. bundle' = bundle \/ bundle' = [bundle EXCEPT ![n] = b]
        BY <2>7 DEF Report, ReportFails
      <4> HIDE DEF B, b
      <4>3. bundle' \in [Node -> B]
        BY <4>1, <4>2
      <4> QED
        BY <4>3 DEF B
    <3>4. CASE Report(n)
      BY <3>4, <3>2, <3>3, <2>a DEF JobTypeOK, Report, Label, AfterLoop, ghosts
    <3>5. CASE ReportFails(n)
      BY <3>5, <3>2, <3>3, <2>b DEF JobTypeOK, ReportFails, Exception, Class, ghosts
    <3> QED
      BY <2>7, <3>4, <3>5
  <2>8. CASE Terminate(n)
    <3>1. "SystemExit" \in Raised /\ Propagate(n, "SystemExit")
      BY <2>8 DEF Terminate, Raised
    <3>2. terms' \in [Node -> Nat]
      BY <2>8 DEF Terminate, JobTypeOK
    <3> QED
      BY <2>8, <3>1, <3>2, PropagateType DEF Terminate, JobTypeOK, Class
  <2>t. CASE TerminateSwallowed(n)
    <3>1. terms' \in [Node -> Nat]
      BY <2>t DEF TerminateSwallowed, JobTypeOK
    <3>2. swallowed' \in [Node -> BOOLEAN] /\ unhandled' \in [Node -> BOOLEAN]
      BY <2>t DEF TerminateSwallowed, JobTypeOK
    <3> QED
      BY <2>t, <3>1, <3>2 DEF TerminateSwallowed, JobTypeOK
  <2>9. ASSUME NEW e \in Exception, TerminateFails(n, e) PROVE JobTypeOK'
    <3>1. e \in Raised /\ Propagate(n, e)
      BY <2>9 DEF TerminateFails, Raised
    <3>2. terms' \in [Node -> Nat]
      BY <2>9 DEF TerminateFails, JobTypeOK
    <3> QED
      BY <2>9, <3>1, <3>2, PropagateType DEF TerminateFails, JobTypeOK, Class
  <2>10. ASSUME NEW reply \in Reply, AggregateReturns(n, reply) PROVE JobTypeOK'
    BY <2>10, <2>a, <2>b DEF JobTypeOK, AggregateReturns, Exception, Label, AfterLoop, Class, ghosts
  <2>x. Exception # {}
    BY DEF Exception
  <2> QED
    BY <2>1, <2>2, <2>3, <2>r, <2>4, <2>5, <2>6, <2>7, <2>8, <2>t, <2>9, <2>10, <2>x DEF JobAction
<1> QED
  BY <1>1, <1>2

LEMMA JobTypeInit == JobInit => JobTypeOK
<1> SUFFICES ASSUME JobInit PROVE JobTypeOK
  OBVIOUS
<1>1. \A n \in Node : job[n].actions \in Seq(Kind)
  BY JobAssumption DEF JobInit, Job, JobAssumption
<1> QED
  BY <1>1, JobAssumption DEF JobInit, JobTypeOK, Label, NoBundle, JobAssumption

(* Type correctness of the job runner.                                     *)
THEOREM JobTypeCorrect == JobSpec => []JobTypeOK
BY JobTypeInit, JobTypeStep, PTL DEF JobSpec

----------------------------------------------------------------------------
(***************************************************************************)
(* The inductive invariant behind ResultPerAction, CompleteMeansAllRan and *)
(* DeviceOffAtEnd. While actions may still run no result was lost and no   *)
(* bundle exists; past the loop, a status of pass can only come from       *)
(* LeaveLoop or from a signal that kept the outer except from setting fail.*)
(***************************************************************************)
Pending == {"starting"} \cup InAction \cup Recording
InLoop == {"start", "loop"} \cup Pending

LoopInv(n) ==
  /\ Len(results[n]) + Unrecorded(n) = step[n]
  /\ lost[n] => pc[n] \notin InLoop
  /\ pc[n] \in AfterLoop /\ status[n] = "pass" /\ ~unmarked[n] =>
       step[n] = Len(job[n].actions) /\ ~lost[n]
  /\ pc[n] \in InLoop \cup {"caught"} => bundle[n] = NoBundle
  /\ bundle[n].complete = "pass" /\ ~unmarked[n] =>
       /\ step[n] = Len(job[n].actions)
       /\ Len(bundle[n].results) = Len(job[n].actions)

PowerInv(n) ==
  /\ pc[n] \in {"start", "report"} => ~powered[n]
  /\ pc[n] \in {"aggregate", "pending", "group", "put", "ended"} /\ powered[n] =>
       unhandled[n] \/ (job[n].submits /\ RanOnDevice(n))

JobInv == \A n \in Node : LoopInv(n) /\ PowerInv(n)

(* The part of the state that belongs to one node.                         *)
Same(m) ==
  /\ job'[m] = job[m] /\ pc'[m] = pc[m] /\ step'[m] = step[m]
  /\ results'[m] = results[m] /\ status'[m] = status[m]
  /\ powered'[m] = powered[m] /\ bundle'[m] = bundle[m]
  /\ unhandled'[m] = unhandled[m] /\ swallowed'[m] = swallowed[m]
  /\ lost'[m] = lost[m] /\ unmarked'[m] = unmarked[m]

(* A step of one node leaves the state of the others alone.                *)
LEMMA JobFrame ==
  ASSUME JobTypeOK, NEW n \in Node, JobAction(n), NEW m \in Node, m # n
  PROVE  Same(m)
<1> USE DEF JobTypeOK, Same, Goto, Die, ghosts
<1>0. \A e \in Raised : Propagate(n, e) =>
        pc'[m] = pc[m] /\ lost'[m] = lost[m] /\ unmarked'[m] = unmarked[m]
  BY DEF Propagate, Unwind
<1>1. CASE Start(n) \/ Reject(n) \/ LeaveLoop(n) \/ CallAggregate(n) \/ NextAction(n)
  BY <1>1 DEF Start, Reject, LeaveLoop, CallAggregate, NextAction
<1>2. CASE CallRun(n) \/ ActionReturns(n) \/ RebootReturns(n) \/ Record(n) \/ Catch(n)
  BY <1>2 DEF CallRun, ActionReturns, RebootReturns, Record, Catch, Unwind, AddResult
<1>3. ASSUME NEW e \in Exception, ActionRaises(n, e) \/ RebootRaises(n, e) PROVE Same(m)
  BY <1>0, <1>3 DEF ActionRaises, RebootRaises, Raised
<1>r. CASE RecordFails(n)
  BY <1>0, <1>r DEF RecordFails, Raised, Exception
<1>4. ASSUME NEW e \in Exception, FinishFails(n, e) PROVE Same(m)
  BY <1>4 DEF FinishFails
<1>5. CASE Finish(n) \/ Put(n) \/ PutFails(n)
  BY <1>5 DEF Finish, Put, PutFails
<1>6. CASE Report(n) \/ ReportFails(n)
  BY <1>6 DEF Report, ReportFails
<1>7. CASE Terminate(n)
  BY <1>0, <1>7 DEF Terminate, Raised
<1>t. CASE TerminateSwallowed(n)
  BY <1>t DEF TerminateSwallowed
<1>8. ASSUME NEW e \in Exception, TerminateFails(n, e) PROVE Same(m)
  BY <1>0, <1>8 DEF TerminateFails, Raised
<1>9. ASSUME NEW reply \in Reply, AggregateReturns(n, reply) PROVE Same(m)
  BY <1>9 DEF AggregateReturns
<1> QED
  BY <1>1, <1>2, <1>3, <1>r, <1>4, <1>5, <1>6, <1>7, <1>t, <1>8, <1>9 DEF JobAction

LEMMA TermsFrame ==
  ASSUME JobTypeOK, NEW n \in Node, JobAction(n), NEW m \in Node, m # n
  PROVE  terms'[m] = terms[m]
<1>1. CASE Terminate(n) \/ TerminateSwallowed(n) \/ \E e \in Exception : TerminateFails(n, e)
  BY <1>1 DEF JobTypeOK, Terminate, TerminateSwallowed, TerminateFails
<1>2. CASE ~(Terminate(n) \/ TerminateSwallowed(n) \/ \E e \in Exception : TerminateFails(n, e))
  BY <1>2 DEF JobAction, Start, Reject, NextAction, CallRun, LeaveLoop, ActionReturns, RebootReturns,
              Record, RecordFails, Catch, ActionRaises, RebootRaises, FinishFails, Finish, Report,
              ReportFails, Put, PutFails, CallAggregate, AggregateReturns
<1> QED
  BY <1>1, <1>2

(* What an exception does to the node it strikes.                          *)
LEMMA PropagateLoop ==
  ASSUME JobTypeOK, NEW n \in Node, NEW e \in Raised, Propagate(n, e), LoopInv(n),
         UNCHANGED <<job, step, results, status, bundle>>
  PROVE  LoopInv(n)'
<1>1. Len(results[n]) \in Nat /\ step[n] \in Nat
  BY DEF JobTypeOK
<1> USE DEF JobTypeOK, InLoop, Pending, InAction, Recording, AfterLoop, Unrecorded, Goto
<1>2. CASE /\ pc[n] \in InAction /\ UNCHANGED <<lost, unmarked>>
           /\ \E l \in InAction \cup Recording : Goto(n, l)
  BY <1>1, <1>2 DEF LoopInv
<1>3. CASE pc[n] \in Pending /\ Goto(n, "caught") /\ lost' = [lost EXCEPT ![n] = TRUE] /\ UNCHANGED unmarked
  BY <1>1, <1>3 DEF LoopInv, NoBundle
<1>4. CASE pc[n] = "loop" /\ Goto(n, "caught") /\ UNCHANGED <<lost, unmarked>>
  BY <1>1, <1>4 DEF LoopInv, NoBundle
<1>5. CASE /\ pc[n] = "caught" /\ Goto(n, "finish") /\ UNCHANGED lost
           /\ unmarked' = [unmarked EXCEPT ![n] = TRUE]
  BY <1>1, <1>5 DEF LoopInv
<1>6. CASE pc[n] \in AfterLoop /\ Die(n, e) /\ UNCHANGED <<lost, unmarked>>
  BY <1>1, <1>6 DEF LoopInv, Die
<1> QED
  BY <1>2, <1>3, <1>4, <1>5, <1>6 DEF Propagate, Unwind

(* ... and to its power: an interrupted step leaves the loop or the job.   *)
LEMMA PropagatePower ==
  ASSUME JobTypeOK, NEW n \in Node, NEW e \in Raised, Propagate(n, e)
  PROVE  /\ pc'[n] \in InAction \cup Recording \cup {"caught", "finish", "ended"}
         /\ pc'[n] = "ended" => pc[n] \in AfterLoop
BY DEF JobTypeOK, Propagate, Unwind, Die, Goto, InAction, Recording

(* A step of a node keeps that node's part of the invariant.               *)
LEMMA JobStepInv ==
  ASSUME JobTypeOK, NEW n \in Node, JobAction(n), LoopInv(n), PowerInv(n)
  PROVE  LoopInv(n)' /\ PowerInv(n)'
<1>a. /\ Len(results[n]) \in Nat /\ step[n] \in Nat /\ Len(job[n].actions) \in Nat
      /\ pc[n] \in Label /\ powered[n] \in BOOLEAN
  BY JobAssumption DEF JobTypeOK, Job, JobAssumption
<1>b. \A s \in {"pass", "fail"} : AddResult(n, s) => Len(results'[n]) = Len(results[n]) + 1
  BY DEF JobTypeOK, AddResult
<1>1. CASE Start(n) \/ Reject(n)
  BY <1>1, <1>a DEF JobTypeOK, Start, Reject, Goto, Die, LoopInv, PowerInv, InLoop, Pending,
                    InAction, Recording, AfterLoop, Unrecorded, NoBundle, ghosts
<1>2. CASE NextAction(n)
  <2>1. /\ pc[n] = "loop" /\ pc'[n] = "starting" /\ step'[n] = step[n] + 1
        /\ UNCHANGED <<job, results, status, powered, bundle, unhandled, lost, unmarked>>
    BY <1>2 DEF NextAction, Goto, JobTypeOK, ghosts
  <2>u. ~lost[n] /\ bundle[n] = NoBundle /\ Len(results[n]) + Unrecorded(n) = step[n]
    BY <2>1 DEF LoopInv, InLoop
  <2>v. Unrecorded(n) = 0
    BY <2>1, <2>u DEF Unrecorded, InAction, Recording
  <2>2. ~lost[n] /\ Len(results[n]) = step[n] /\ bundle[n] = NoBundle
    BY <2>u, <2>v, <1>a
  <2>3. ~lost'[n] /\ Len(results'[n]) + 1 = step'[n] /\ bundle'[n].complete = "none"
    BY <2>1, <2>2, <1>a DEF NoBundle
  <2>4. Unrecorded(n)' = 1 /\ pc'[n] \in InLoop /\ pc'[n] \notin AfterLoop
    BY <2>1 DEF Unrecorded, AfterLoop, InLoop, Pending
  <2>5. LoopInv(n)'
    BY <2>1, <2>2, <2>3, <2>4 DEF LoopInv
  <2> QED
    BY <2>1, <2>5 DEF PowerInv
<1>3. CASE LeaveLoop(n)
  BY <1>3, <1>a DEF JobTypeOK, LeaveLoop, Goto, LoopInv, PowerInv, InLoop, Pending,
                    InAction, Recording, AfterLoop, Unrecorded, NoBundle, ghosts
<1>4. CASE CallRun(n) \/ ActionReturns(n) \/ RebootReturns(n)
  <2>1. /\ pc[n] \in Pending /\ pc'[n] \in InAction \cup Recording
        /\ UNCHANGED <<job, step, results, status, bundle, unhandled, lost, unmarked>>
    BY <1>4 DEF CallRun, ActionReturns, RebootReturns, Goto, JobTypeOK, Pending, InAction,
                Recording, ghosts
  <2>2. LoopInv(n)'
    BY <2>1 DEF LoopInv, InLoop, Pending, InAction, Recording, AfterLoop, Unrecorded
  <2> QED
    BY <2>1, <2>2 DEF PowerInv, InAction, Recording
<1>r. CASE Record(n)
  <2>1. /\ pc[n] \in Recording /\ pc'[n] \in {"loop", "caught"}
        /\ Len(results'[n]) = Len(results[n]) + 1
        /\ UNCHANGED <<job, step, status, powered, bundle, unhandled, lost, unmarked>>
    BY <1>r, <1>b DEF Record, Unwind, Goto, JobTypeOK, ghosts
  <2>2. ~lost[n] /\ Len(results[n]) + 1 = step[n] /\ bundle[n] = NoBundle
    BY <2>1, <1>a DEF LoopInv, InLoop, Pending, Unrecorded
  <2>3. ~lost'[n] /\ Len(results'[n]) = step'[n] /\ bundle'[n].complete = "none"
    BY <2>1, <2>2, <1>a DEF NoBundle
  <2>4. Unrecorded(n)' = 0
    BY <2>1, <2>3 DEF Unrecorded, InAction, Recording
  <2>5. LoopInv(n)'
    BY <2>1, <2>2, <2>3, <2>4, <1>a DEF LoopInv, AfterLoop
  <2> QED
    BY <2>1, <2>5 DEF PowerInv
<1>c. CASE Catch(n)
  <2>1. /\ pc[n] = "caught" /\ pc'[n] = "finish" /\ status'[n] = "fail"
        /\ UNCHANGED <<job, step, results, powered, bundle, unhandled, lost, unmarked>>
    BY <1>c DEF Catch, Goto, JobTypeOK, ghosts
  <2>2. LoopInv(n)'
    BY <2>1 DEF LoopInv, InLoop, Pending, InAction, Recording, AfterLoop, Unrecorded
  <2> QED
    BY <2>1, <2>2 DEF PowerInv
<1>5. ASSUME NEW e \in Exception, ActionRaises(n, e) \/ RebootRaises(n, e) \/ RecordFails(n)
      PROVE  LoopInv(n)' /\ PowerInv(n)'
  <2>1. \E x \in Raised : Propagate(n, x)
    BY <1>5 DEF ActionRaises, RebootRaises, RecordFails, Raised, Exception
  <2>2. /\ UNCHANGED <<job, step, results, status, bundle>>
        /\ pc[n] \in Pending
    BY <1>5 DEF ActionRaises, RebootRaises, RecordFails, Pending, InAction, Recording
  <2>3. LoopInv(n)'
    BY <2>1, <2>2, PropagateLoop
  <2>4. PowerInv(n)'
    BY <2>1, <2>2, PropagatePower DEF PowerInv, Pending, InAction, Recording, AfterLoop
  <2> QED
    BY <2>3, <2>4
<1>6. ASSUME NEW e \in Exception, FinishFails(n, e)
      PROVE  LoopInv(n)' /\ PowerInv(n)'
  <2>1. pc[n] = "finish" /\ pc'[n] = "ended" /\ unhandled'[n]
    BY <1>6 DEF FinishFails, Die, Goto, JobTypeOK
  <2>2. UNCHANGED <<job, step, results, status, bundle, lost, unmarked>>
    BY <1>6 DEF FinishFails
  <2> QED
    BY <2>1, <2>2 DEF LoopInv, PowerInv, InLoop, Pending, InAction, Recording, AfterLoop, Unrecorded
<1>7. CASE Finish(n)
  <2>1. /\ pc[n] = "finish" /\ pc'[n] = "report" /\ ~powered'[n]
        /\ UNCHANGED <<job, step, results, status, bundle, unhandled, lost, unmarked>>
    BY <1>7 DEF Finish, Goto, JobTypeOK, ghosts
  <2>2. Unrecorded(n)' = Unrecorded(n)
    BY <2>1 DEF Unrecorded, InAction, Recording
  <2> QED
    BY <2>1, <2>2 DEF LoopInv, PowerInv, InLoop, Pending, InAction, Recording, AfterLoop
<1>8. CASE Put(n) \/ PutFails(n)
  <2>1. /\ pc[n] \in {"pending", "group", "put"} /\ pc'[n] = "ended"
        /\ UNCHANGED <<job, step, results, status, powered, bundle, unhandled, lost, unmarked>>
    BY <1>8 DEF Put, PutFails, Die, Goto, JobTypeOK, ghosts
  <2>2. Unrecorded(n)' = Unrecorded(n)
    BY <2>1 DEF Unrecorded, InAction, Recording
  <2>3. PowerInv(n)'
    BY <2>1 DEF PowerInv, RanOnDevice
  <2> QED
    BY <2>1, <2>2, <2>3 DEF LoopInv, InLoop, Pending, InAction, Recording, AfterLoop
<1>9. CASE Report(n) \/ ReportFails(n)
  <2>1. /\ pc[n] = "report" /\ pc'[n] \in {"aggregate", "put", "ended"}
        /\ UNCHANGED <<job, step, results, status, unhandled, lost, unmarked>>
    BY <1>9 DEF Report, ReportFails, Die, Goto, JobTypeOK, ghosts
  <2>2. bundle'[n] = bundle[n] \/ bundle'[n] = [results |-> results[n], complete |-> status[n]]
    BY <1>9 DEF Report, ReportFails, JobTypeOK
  <2>3. ~powered[n] /\ RanOnDevice(n)' = RanOnDevice(n)
    BY <2>1 DEF PowerInv, RanOnDevice
  <2>4. powered'[n] => job[n].submits /\ RanOnDevice(n)
    BY <1>9, <2>3 DEF Report, ReportFails, JobTypeOK
  <2>5. PowerInv(n)'
    BY <2>1, <2>3, <2>4 DEF PowerInv
  <2>6. Unrecorded(n)' = Unrecorded(n)
    BY <2>1 DEF Unrecorded, InAction, Recording
  <2>7. status[n] = "pass" /\ ~unmarked[n] =>
          step[n] = Len(job[n].actions) /\ Len(results[n]) = step[n]
    <3> SUFFICES ASSUME status[n] = "pass", ~unmarked[n]
                 PROVE  step[n] = Len(job[n].actions) /\ Len(results[n]) = step[n]
      OBVIOUS
    <3>1. step[n] = Len(job[n].actions) /\ ~lost[n]
      BY <2>1 DEF LoopInv, AfterLoop
    <3>2. Unrecorded(n) = 0
      BY <2>1, <3>1 DEF Unrecorded, InAction, Recording
    <3> QED
      BY <1>a, <3>1, <3>2 DEF LoopInv
  <2>8. bundle'[n].complete = "pass" /\ ~unmarked'[n] =>
          /\ step'[n] = Len(job'[n].actions)
          /\ Len(bundle'[n].results) = Len(job'[n].actions)
    <3>1. CASE bundle'[n] = bundle[n]
      BY <3>1, <2>1 DEF LoopInv
    <3>2. CASE bundle'[n] = [results |-> results[n], complete |-> status[n]]
      BY <3>2, <2>1, <2>7
    <3> QED
      BY <3>1, <3>2, <2>2
  <2>9. LoopInv(n)'
    BY <2>1, <2>6, <2>8 DEF LoopInv, InLoop, Pending, InAction, Recording, AfterLoop
  <2> QED
    BY <2>5, <2>9
<1>10. CASE Terminate(n)
  <2>1. /\ "SystemExit" \in Raised /\ Propagate(n, "SystemExit") /\ ~powered'[n]
        /\ UNCHANGED <<job, step, results, status, bundle>>
    BY <1>10 DEF Terminate, Raised, JobTypeOK
  <2> QED
    BY <2>1, PropagateLoop DEF PowerInv
<1>11. ASSUME NEW e \in Exception, TerminateFails(n, e)
       PROVE  LoopInv(n)' /\ PowerInv(n)'
  <2>1. /\ e \in Raised /\ Propagate(n, e) /\ unhandled'[n]
        /\ UNCHANGED <<job, step, results, status, bundle>>
    BY <1>11 DEF TerminateFails, Raised, JobTypeOK
  <2>2. PowerInv(n)'
    BY <2>1, PropagatePower DEF PowerInv, InAction, Recording
  <2> QED
    BY <2>1, <2>2, PropagateLoop
<1>t. CASE TerminateSwallowed(n)
  <2>1. /\ pc[n] \in InAction \cup {"report"} /\ (unhandled[n] => unhandled'[n])
        /\ UNCHANGED <<job, pc, step, results, status, powered, bundle, lost, unmarked>>
    BY <1>t DEF TerminateSwallowed, JobTypeOK
  <2>2. PowerInv(n)'
    BY <2>1 DEF PowerInv, InAction
  <2> QED
    BY <2>1, <2>2 DEF LoopInv, Unrecorded
<1>12. CASE CallAggregate(n)
  BY <1>12 DEF CallAggregate, LoopInv, PowerInv, Unrecorded, RanOnDevice, ghosts
<1>13. ASSUME NEW reply \in Reply, AggregateReturns(n, reply)
       PROVE  LoopInv(n)' /\ PowerInv(n)'
  <2>1. /\ pc[n] = "aggregate" /\ pc'[n] \in {"pending", "group", "ended"}
        /\ UNCHANGED <<job, step, results, status, powered, bundle, unhandled, lost, unmarked>>
    BY <1>13 DEF AggregateReturns, Goto, Die, JobTypeOK, ghosts
  <2> QED
    BY <2>1, <1>a DEF LoopInv, PowerInv, InLoop, Pending, InAction, Recording,
                          AfterLoop, Unrecorded, RanOnDevice
<1> QED
  <2>1. Exception # {}
    BY DEF Exception
  <2> QED
    BY <2>1, <1>1, <1>2, <1>3, <1>4, <1>r, <1>c, <1>5, <1>6, <1>7, <1>8, <1>9, <1>10, <1>11,
       <1>t, <1>12, <1>13 DEF JobAction

(* Every step of a job keeps JobInv.                                       *)
LEMMA JobInvStep == JobTypeOK /\ JobInv /\ [JobNext]_jobVars => JobInv'
<1> SUFFICES ASSUME JobTypeOK, JobInv, [JobNext]_jobVars, NEW m \in Node
             PROVE  LoopInv(m)' /\ PowerInv(m)'
  BY DEF JobInv
<1>0. LoopInv(m) /\ PowerInv(m)
  BY DEF JobInv
<1>1. CASE Same(m)
  BY <1>0, <1>1 DEF Same, LoopInv, PowerInv, Unrecorded, RanOnDevice
<1>2. CASE UNCHANGED jobVars
  BY <1>1, <1>2 DEF jobVars, ghosts, Same
<1>3. CASE JobNext
  <2> PICK n \in Node : JobAction(n)
    BY <1>3, JobCases
  <2>1. CASE m = n
    BY <2>1, <1>0, JobStepInv
  <2>2. CASE m # n
    BY <2>2, <1>1, JobFrame
  <2> QED
    BY <2>1, <2>2
<1> QED
  BY <1>2, <1>3

LEMMA JobInvInit == JobInit => JobInv
<1> SUFFICES ASSUME JobInit, NEW n \in Node PROVE LoopInv(n) /\ PowerInv(n)
  BY DEF JobInv
<1>1. /\ pc[n] = "start" /\ results[n] = <<>> /\ step[n] = 0 /\ ~lost[n]
      /\ ~powered[n] /\ bundle[n] = NoBundle
  BY DEF JobInit
<1> QED
  BY <1>1 DEF LoopInv, PowerInv, InLoop, Pending, InAction, Recording, AfterLoop, Unrecorded, NoBundle

(* JobInv is an invariant of every job.                                    *)
THEOREM JobInvariant == JobSpec => []JobInv
BY JobInvInit, JobInvStep, JobTypeCorrect, PTL DEF JobSpec

LEMMA RecordedOrLeft == JobTypeOK /\ JobInv => ResultPerAction
<1> SUFFICES ASSUME JobInv, NEW n \in Node, JobTypeOK
             PROVE  /\ Len(results[n]) + Unrecorded(n) = step[n]
                    /\ lost[n] => pc[n] \in {"caught", "ended"} \cup AfterLoop
  BY DEF ResultPerAction
<1> QED
  BY DEF JobInv, LoopInv, InLoop, Pending, JobTypeOK, Label

(* Every started action has one result, but for the last one started.      *)
THEOREM ResultPerActionHolds == JobSpec => []ResultPerAction
BY RecordedOrLeft, JobInvariant, JobTypeCorrect, PTL

(* A bundle that says job_complete: pass has a result for every action.    *)
THEOREM CompleteMeansAllRanHolds == JobSpec => []CompleteMeansAllRan
<1>1. JobInv => CompleteMeansAllRan
  BY DEF JobInv, LoopInv, CompleteMeansAllRan
<1> QED
  BY <1>1, JobInvariant, PTL

(* No way out of run() leaves the device on but the two that are named.    *)
THEOREM DeviceOffAtEndHolds == JobSpec => []DeviceOffAtEnd
<1>1. JobInv => DeviceOffAtEnd
  BY DEF JobInv, PowerInv, DeviceOffAtEnd, Ended
<1> QED
  BY <1>1, JobInvariant, PTL

----------------------------------------------------------------------------
(***************************************************************************)
(* After a SIGTERM whose SystemExit came out of the interrupted action, a  *)
(* job is on its way out of the loop: no except clause of it takes that.   *)
(***************************************************************************)
Continuing == InLoop \ {"record-abort"}

TermInv ==
  \A n \in Node : terms[n] > 0 /\ pc[n] \in Continuing => unhandled[n] \/ swallowed[n]

(* A step of a node that is neither a signal nor made by one brings no     *)
(* other place of the loop within reach.                                   *)
LEMMA StaysInLoop ==
  ASSUME JobTypeOK, NEW n \in Node,
         \/ Start(n) \/ Reject(n) \/ NextAction(n) \/ CallRun(n) \/ LeaveLoop(n)
         \/ ActionReturns(n) \/ RebootReturns(n) \/ Record(n) \/ RecordFails(n) \/ Catch(n)
         \/ \E e \in Exception : ActionRaises(n, e) \/ RebootRaises(n, e) \/ FinishFails(n, e)
         \/ Finish(n) \/ Report(n) \/ ReportFails(n) \/ Put(n) \/ PutFails(n)
         \/ CallAggregate(n) \/ \E reply \in Reply : AggregateReturns(n, reply)
  PROVE  /\ UNCHANGED <<terms, swallowed>> /\ \A m \in Node : unhandled[m] => unhandled'[m]
         /\ pc'[n] \in Continuing => pc[n] \in Continuing
<1> USE DEF JobTypeOK, Goto, Die, ghosts, Continuing, InLoop, Pending, InAction, Recording
<1>1. CASE Start(n) \/ Reject(n) \/ NextAction(n) \/ CallRun(n) \/ LeaveLoop(n)
  BY <1>1 DEF Start, Reject, NextAction, CallRun, LeaveLoop
<1>2. CASE ActionReturns(n) \/ RebootReturns(n) \/ Record(n) \/ Catch(n) \/ Finish(n)
  BY <1>2 DEF ActionReturns, RebootReturns, Record, Unwind, Catch, Finish
<1>3. CASE RecordFails(n)
  BY <1>3 DEF RecordFails, Propagate, Unwind, Disposition
<1>4. ASSUME NEW e \in Exception, ActionRaises(n, e) \/ RebootRaises(n, e)
      PROVE  /\ UNCHANGED <<terms, swallowed, unhandled>>
             /\ pc'[n] \in Continuing => pc[n] \in Continuing
  BY <1>4 DEF ActionRaises, RebootRaises
<1>5. ASSUME NEW e \in Exception, FinishFails(n, e)
      PROVE  /\ UNCHANGED <<terms, swallowed>> /\ \A m \in Node : unhandled[m] => unhandled'[m]
             /\ pc'[n] \notin Continuing
  BY <1>5 DEF FinishFails
<1>6. CASE Report(n) \/ ReportFails(n) \/ Put(n) \/ PutFails(n) \/ CallAggregate(n)
  BY <1>6 DEF Report, ReportFails, Put, PutFails, CallAggregate
<1>7. CASE \E reply \in Reply : AggregateReturns(n, reply)
  BY <1>7 DEF AggregateReturns
<1> QED
  BY <1>1, <1>2, <1>3, <1>4, <1>5, <1>6, <1>7

(* SystemExit out of the statement run() is at does not let the loop go on.*)
LEMMA ExitLeavesLoop ==
  ASSUME JobTypeOK, NEW n \in Node, Propagate(n, "SystemExit")
  PROVE  pc'[n] \notin Continuing
<1>1. \A kind, last : Disposition(kind, last, "SystemExit") = "abort"
  BY DEF Disposition
<1> QED
  BY <1>1 DEF Propagate, Unwind, Die, Goto, JobTypeOK, Continuing, InLoop, Pending, InAction, Recording

LEMMA TermPreserved == JobTypeOK /\ TermInv /\ [JobNext]_jobVars => TermInv'
<1> SUFFICES ASSUME JobTypeOK, TermInv, [JobNext]_jobVars, NEW m \in Node,
                    terms'[m] > 0, pc'[m] \in Continuing
             PROVE  unhandled'[m] \/ swallowed'[m]
  BY DEF TermInv
<1>1. CASE UNCHANGED jobVars
  BY <1>1 DEF jobVars, ghosts, TermInv
<1>2. CASE JobNext
  <2> PICK n \in Node : JobAction(n)
    BY <1>2, JobCases
  <2>1. CASE m # n
    <3>1. terms'[m] = terms[m] /\ Same(m)
      BY <2>1, JobFrame, TermsFrame
    <3> QED
      BY <3>1 DEF Same, TermInv
  <2>2. CASE m = n /\ Terminate(n)
    BY <2>2, ExitLeavesLoop DEF Terminate
  <2>3. CASE m = n /\ TerminateSwallowed(n)
    BY <2>3 DEF TerminateSwallowed, JobTypeOK
  <2>4. ASSUME m = n, NEW e \in Exception, TerminateFails(n, e) PROVE unhandled'[m]
    BY <2>4 DEF TerminateFails, JobTypeOK
  <2>5. CASE m = n /\ ~Terminate(n) /\ ~TerminateSwallowed(n) /\ ~\E e \in Exception : TerminateFails(n, e)
    <3>1. /\ UNCHANGED <<terms, swallowed>> /\ (unhandled[m] => unhandled'[m])
          /\ pc[m] \in Continuing
      BY <2>5, StaysInLoop DEF JobAction
    <3> QED
      BY <3>1 DEF TermInv
  <2> QED
    BY <2>1, <2>2, <2>3, <2>4, <2>5
<1> QED
  BY <1>1, <1>2

(* A SIGTERM stops the loop, but for the two exceptions that are named.    *)
THEOREM TermStopsTheLoopHolds == JobSpec => TermStopsTheLoop
<1>1. JobInit => TermInv
  BY DEF JobInit, TermInv
<1>2. JobTypeOK /\ TermInv /\ [JobNext]_jobVars =>
        [\A n \in Node : terms[n] > 0 /\ step'[n] # step[n] =>
           unhandled[n] \/ swallowed[n]]_jobVars
  <2> SUFFICES ASSUME JobTypeOK, TermInv, JobNext, NEW m \in Node,
                      terms[m] > 0, step'[m] # step[m]
               PROVE  unhandled[m] \/ swallowed[m]
    BY DEF jobVars
  <2> PICK n \in Node : JobAction(n)
    BY JobCases
  <2>1. m = n
    BY JobFrame DEF Same
  <2>2. NextAction(n)
    BY <2>1 DEF JobAction, Start, Reject, CallRun, LeaveLoop, ActionReturns, RebootReturns, Record,
         RecordFails, Catch, ActionRaises, RebootRaises, FinishFails, Finish, Report, ReportFails,
         Put, PutFails, Terminate, TerminateSwallowed, TerminateFails, CallAggregate,
         AggregateReturns
  <2> QED
    BY <2>1, <2>2 DEF NextAction, TermInv, InLoop, Continuing
<1> QED
  BY <1>1, <1>2, TermPreserved, JobTypeCorrect, PTL DEF JobSpec, TermStopsTheLoop

=============================================================================
