-------------------------- MODULE MultiNodeProofs --------------------------
(***************************************************************************)
(* Proofs about MultiNode, for a group of any size with any job per node:  *)
(* what a single job promises holds in a group too, the group is a barrier,*)
(* and put_group follows the last call to aggregate.                       *)
(***************************************************************************)
EXTENDS MultiNode, LavaJobProofs

(* A step outside the jobs: the signal that kills a process before its job *)
(* is counted.                                                             *)
JobsRest == /\ UNCHANGED <<job, pc, step, results, status, exc, powered, bundle, called, ghosts>>
            /\ terms' \in [Node -> Nat]

(* The steps of NodeDispatcher that are none of the job.                   *)
Dispatching(n) ==
  \/ Register(n) \/ GroupReady(n) \/ GroupTimeout(n) \/ Killed(n) \/ JobOver(n) \/ Clear(n)

LEMMA DispatchingRests ==
  ASSUME JobTypeOK, NEW n \in Node, Dispatching(n)
  PROVE  JobsRest
<1>1. terms \in [Node -> Nat]
  BY DEF JobTypeOK
<1>2. CASE Killed(n)
  <2> QED
    BY <1>1, <1>2 DEF Killed, JobsRest, ghosts
<1>3. CASE ~Killed(n)
  BY <1>1, <1>3 DEF Dispatching, Register, GroupReady, GroupTimeout, JobOver, Clear,
                    JobsRest, jobVars, ghosts
<1> QED
  BY <1>2, <1>3

LEMMA RestKeepsJobs ==
  ASSUME JobTypeOK, JobInv, JobsRest
  PROVE  JobTypeOK' /\ JobInv'
<1>1. JobTypeOK'
  BY DEF JobTypeOK, JobsRest, ghosts
<1>2. ASSUME NEW n \in Node PROVE (LoopInv(n) /\ PowerInv(n))'
  <2>1. LoopInv(n) /\ PowerInv(n)
    BY DEF JobInv
  <2> QED
    BY <2>1 DEF LoopInv, PowerInv, Unrecorded, RanOnDevice, JobsRest, ghosts
<1> QED
  BY <1>1, <1>2 DEF JobInv

(* The steps of the job and of its calls, as actions of LavaJob.           *)
Calling(n) == Aggregate(n) \/ AggregateAnswered(n) \/ AggregateTimeout(n) \/ Submit(n)

LEMMA WorkIsJob ==
  ASSUME NEW n \in Node, Work(n) \/ Signal(n) \/ Calling(n)
  PROVE  JobNext
<1>1. CASE Work(n)
  BY <1>1 DEF Work, JobNext, RunStep
<1>2. CASE Signal(n)
  BY <1>2 DEF Signal, JobNext
<1>3. CASE Calling(n)
  BY <1>3 DEF Calling, Aggregate, AggregateAnswered, AggregateTimeout, Submit, JobNext, RunStep,
              Reply
<1> QED
  BY <1>1, <1>2, <1>3

LEMMA NextCases ==
  ASSUME [Next]_vars
  PROVE  \/ \E n \in Node : Dispatching(n) \/ Work(n) \/ Signal(n) \/ Calling(n)
         \/ UNCHANGED vars
BY DEF Next, NodeStep, Dispatching, Calling

LEMMA JobsKept == JobTypeOK /\ JobInv /\ [Next]_vars => JobTypeOK' /\ JobInv'
<1> SUFFICES ASSUME JobTypeOK, JobInv, [Next]_vars PROVE JobTypeOK' /\ JobInv'
  OBVIOUS
<1>1. CASE UNCHANGED vars
  BY <1>1, JobTypeStep, JobInvStep DEF vars
<1>2. ASSUME NEW n \in Node, Dispatching(n) PROVE JobTypeOK' /\ JobInv'
  BY <1>2, DispatchingRests, RestKeepsJobs
<1>3. ASSUME NEW n \in Node, Work(n) \/ Signal(n) \/ Calling(n) PROVE JobTypeOK' /\ JobInv'
  BY <1>3, WorkIsJob, JobTypeStep, JobInvStep
<1> QED
  BY <1>1, <1>2, <1>3, NextCases

(* The invariant of a single job (LavaJobProofs) is one of each member.    *)
THEOREM MembersKeepJobInvariant == Spec => [](JobTypeOK /\ JobInv)
<1>1. Init => JobTypeOK /\ JobInv
  BY JobTypeInit, JobInvInit DEF Init
<1> QED
  BY <1>1, JobsKept, PTL DEF Spec

(* In a group, too, at most the last action has no result, job_complete is *)
(* true and the device is off at the end, with the exceptions that the     *)
(* properties name, however the other members fail.                        *)
THEOREM MembersKeepPromises ==
  Spec => [](ResultPerAction /\ CompleteMeansAllRan /\ DeviceOffAtEnd)
<1>1. JobTypeOK /\ JobInv => ResultPerAction
  BY RecordedOrLeft
<1>2. JobInv => CompleteMeansAllRan /\ DeviceOffAtEnd
  BY DEF JobInv, LoopInv, PowerInv, CompleteMeansAllRan, DeviceOffAtEnd, Ended
<1> QED
  BY <1>1, <1>2, MembersKeepJobInvariant, PTL

----------------------------------------------------------------------------
(***************************************************************************)
(* The invariant of the group. A node that has left "start", or is in its  *)
(* job, did so when all were registered, and nobody is ever removed. The   *)
(* Coordinator knows the checksum of exactly the nodes that called         *)
(* aggregate. A node is released to "pending" or "group" with a bundle,    *)
(* sub_id zero with everybody's, and is at its end once it has submitted;  *)
(* a bundle is not changed after the report.                               *)
(***************************************************************************)
MemberInv(n) ==
  /\ pc[n] # "start" \/ stage[n] = "job" => registered = Node
  /\ called[n] <=> n \in sums
  /\ pc[n] \in {"pending", "group"} => called[n] /\ bundle[n] # NoBundle
  /\ pc[n] = "pending" => ~job[n].zero
  /\ pc[n] = "group" => job[n].zero /\ sums = Node
  /\ n \in pendingAt \cup posted => pc[n] = "ended" /\ bundle[n] # NoBundle /\ n \in sums
  /\ n \in pendingAt => ~job[n].zero
  /\ n \in posted => job[n].zero \/ n \in pendingAt

GroupInv == /\ TypeOK
            /\ \A n \in Node : MemberInv(n)
            /\ grouped => sums = Node

(* What a step of the job that calls nobody does to its own node.          *)
Moves(n) ==
  /\ stage[n] = "job" /\ job'[n] = job[n] /\ called'[n] = called[n]
  /\ pc[n] # "ended" /\ pc'[n] \notin {"pending", "group", "start"}

LEMMA PropagateMoves ==
  ASSUME JobTypeOK, NEW n \in Node, NEW e \in Raised, Propagate(n, e)
  PROVE  pc[n] # "ended" /\ pc'[n] \notin {"pending", "group", "start"}
BY DEF JobTypeOK, Propagate, Unwind, Die, Goto, InAction, Recording, AfterLoop

LEMMA WorkMoves ==
  ASSUME JobTypeOK, NEW n \in Node, Work(n) \/ Signal(n)
  PROVE  Moves(n) /\ called' = called
<1> USE DEF Moves
<1>0. stage[n] = "job" /\ pc \in [Node -> Label] /\ Faults \subseteq Exception
  BY JobAssumption DEF Work, Signal, JobTypeOK, JobAssumption
<1>1. CASE Start(n) \/ Reject(n) \/ NextAction(n) \/ LeaveLoop(n)
  BY <1>0, <1>1 DEF Start, Reject, NextAction, LeaveLoop, Goto, Die
<1>2. CASE CallRun(n) \/ ActionReturns(n) \/ RebootReturns(n) \/ Finish(n) \/ PutFails(n)
  BY <1>0, <1>2 DEF CallRun, ActionReturns, RebootReturns, Finish, PutFails, Goto, Die
<1>r. CASE Record(n) \/ Catch(n)
  BY <1>0, <1>r DEF Record, Catch, Unwind, Goto, Recording
<1>t. CASE TerminateSwallowed(n)
  BY <1>0, <1>t DEF TerminateSwallowed, InAction
<1>f. CASE RecordFails(n)
  BY <1>0, <1>f, PropagateMoves DEF RecordFails, Raised, Exception
<1>3. ASSUME NEW e \in Exception, ActionRaises(n, e) \/ RebootRaises(n, e)
      PROVE  Moves(n) /\ called' = called
  BY <1>0, <1>3, PropagateMoves DEF ActionRaises, RebootRaises, Raised
<1>4. ASSUME NEW e \in Exception, FinishFails(n, e) PROVE Moves(n) /\ called' = called
  BY <1>0, <1>4 DEF FinishFails, Die, Goto
<1>5. CASE Report(n) \/ ReportFails(n)
  BY <1>0, <1>5 DEF Report, ReportFails, Die, Goto
<1>6. CASE Terminate(n)
  BY <1>0, <1>6, PropagateMoves DEF Terminate, Raised
<1>7. ASSUME NEW e \in Exception, TerminateFails(n, e) PROVE Moves(n) /\ called' = called
  BY <1>0, <1>7, PropagateMoves DEF TerminateFails, Raised
<1>8. CASE Work(n)
  BY <1>0, <1>1, <1>2, <1>r, <1>f, <1>3, <1>4, <1>5, <1>8 DEF Work
<1>9. CASE Signal(n)
  BY <1>0, <1>6, <1>t, <1>7, <1>9 DEF Signal, TermStep
<1> QED
  BY <1>8, <1>9

(* What a call to the Coordinator or the dashboard does to the others.     *)
LEMMA CallFrame ==
  ASSUME JobTypeOK, NEW n \in Node, Calling(n), NEW m \in Node, m # n
  PROVE  Same(m) /\ called'[m] = called[m]
<1>1. CASE Aggregate(n)
  BY <1>1 DEF Aggregate, CallAggregate, Same, JobTypeOK, ghosts
<1>2. ASSUME NEW reply \in Reply, AggregateReturns(n, reply)
      PROVE  Same(m) /\ called'[m] = called[m]
  BY <1>2 DEF AggregateReturns, Die, Goto, Same, JobTypeOK, ghosts
<1>3. CASE AggregateAnswered(n) \/ AggregateTimeout(n)
  BY <1>2, <1>3 DEF AggregateAnswered, AggregateTimeout, Reply
<1>4. CASE Submit(n)
  BY <1>4 DEF Submit, Put, Goto, Same, JobTypeOK, ghosts
<1> QED
  BY <1>1, <1>3, <1>4 DEF Calling

(* A node that does not move keeps its part: the others only add to what   *)
(* the Coordinator and the dashboard know.                                 *)
Grows ==
  /\ registered \subseteq registered' /\ sums \subseteq sums'
  /\ registered' \subseteq Node /\ sums' \subseteq Node

LEMMA OthersKept ==
  ASSUME Grows, NEW m \in Node, MemberInv(m), Same(m), called'[m] = called[m],
         stage'[m] = stage[m], m \in sums' <=> m \in sums,
         m \in pendingAt' <=> m \in pendingAt,
         m \in posted' => m \in posted \/ m \in pendingAt
  PROVE  MemberInv(m)'
<1>1. /\ registered = Node => registered' = Node
      /\ sums = Node => sums' = Node
  BY DEF Grows
<1> QED
  BY <1>1 DEF MemberInv, Same

(* Steps outside the job.                                                  *)
LEMMA DispatchingKeeps ==
  ASSUME GroupInv, NEW n \in Node, Dispatching(n), NEW m \in Node
  PROVE  MemberInv(m)'
<1>1. /\ Same(m) /\ called'[m] = called[m] /\ UNCHANGED <<sums, boardVars>>
  BY DispatchingRests DEF GroupInv, TypeOK, JobsRest, Same, ghosts, Dispatching, Register,
     GroupReady, GroupTimeout, Killed, JobOver, Clear, coordVars
<1>2. Grows
  BY <1>1 DEF Grows, GroupInv, TypeOK, Dispatching, Register, GroupReady, GroupTimeout, Killed,
              JobOver, Clear, coordVars
<1>3. MemberInv(m) /\ stage \in [Node -> {"init", "registering", "job", "clear", "closed", "dead"}]
  BY DEF GroupInv, TypeOK
<1>4. CASE stage'[m] = stage[m]
  BY <1>1, <1>2, <1>3, <1>4, OthersKept DEF boardVars
<1>5. CASE stage'[m] # stage[m]
  <2>1. stage'[m] = "job" => registered' = Node
    BY <1>3, <1>5 DEF Dispatching, Register, GroupReady, GroupTimeout, Killed, JobOver, Clear,
                      Enter, coordVars
  <2>2. registered = Node => registered' = Node
    BY <1>2 DEF Grows
  <2> QED
    BY <1>1, <1>3, <2>1, <2>2 DEF MemberInv, Same, boardVars
<1> QED
  BY <1>4, <1>5

(* Steps of the job that call nobody.                                      *)
LEMMA WorkKeeps ==
  ASSUME GroupInv, NEW n \in Node, Work(n) \/ Signal(n), NEW m \in Node
  PROVE  MemberInv(m)'
<1>1. /\ Moves(n) /\ called' = called /\ UNCHANGED <<stage, registered, sums, pendingAt, posted>>
      /\ JobTypeOK /\ MemberInv(m) /\ MemberInv(n)
  BY WorkMoves DEF GroupInv, TypeOK, Work, Signal, coordVars, boardVars
<1>2. CASE m = n
  BY <1>1, <1>2 DEF Moves, MemberInv
<1>3. CASE m # n
  <2>1. JobAction(n)
    BY JobAssumption DEF JobAssumption, Work, Signal, TermStep, JobAction
  <2>2. Same(m)
    BY <1>1, <1>3, <2>1, JobFrame
  <2>3. Grows
    BY <1>1 DEF Grows, GroupInv, TypeOK
  <2> QED
    BY <1>1, <2>2, <2>3, OthersKept
<1> QED
  BY <1>2, <1>3

(* Calls, and what they let a node do.                                     *)
LEMMA CallKeeps ==
  ASSUME GroupInv, NEW n \in Node, Calling(n), NEW m \in Node
  PROVE  MemberInv(m)'
<1>1. /\ JobTypeOK /\ MemberInv(m) /\ MemberInv(n) /\ stage' = stage /\ registered' = registered
      /\ registered \subseteq Node /\ sums \subseteq Node /\ stage[n] = "job"
  BY DEF GroupInv, TypeOK, Calling, Aggregate, AggregateAnswered, AggregateTimeout, Submit,
         coordVars
<1>2. /\ sums' = sums \/ (Aggregate(n) /\ sums' = sums \cup {n})
      /\ pendingAt' = pendingAt \/ (Submit(n) /\ pendingAt' = pendingAt \cup {n})
      /\ posted' = posted \/ (Submit(n) /\ posted' = pendingAt \cup {n})
  BY DEF Calling, Aggregate, AggregateAnswered, AggregateTimeout, Submit, coordVars, boardVars
<1>3. CASE m # n
  <2>1. Same(m) /\ called'[m] = called[m]
    BY <1>1, <1>3, CallFrame
  <2>2. Grows
    BY <1>1, <1>2 DEF Grows
  <2>3. /\ m \in sums' <=> m \in sums
        /\ m \in pendingAt' <=> m \in pendingAt
        /\ m \in posted' => m \in posted \/ m \in pendingAt
    BY <1>2, <1>3
  <2> QED
    BY <1>1, <2>1, <2>2, <2>3, OthersKept
<1>4. CASE m = n
  <2> USE <1>4
  <2>1. CASE Aggregate(n)
    <3>1. /\ pc' = pc /\ bundle' = bundle /\ job' = job /\ pc[n] = "aggregate"
          /\ called'[n] = TRUE /\ sums' = sums \cup {n} /\ UNCHANGED <<pendingAt, posted>>
      BY <1>1, <2>1 DEF Aggregate, CallAggregate, JobTypeOK, boardVars
    <3> QED
      BY <1>1, <3>1 DEF MemberInv
  <2>2. ASSUME NEW reply \in Reply, AggregateReturns(n, reply),
               UNCHANGED <<stage, coordVars, boardVars>>,
               reply = "ack" => ~job[n].zero,
               reply = "list" => sums = Node
        PROVE  MemberInv(n)'
    <3>1. /\ bundle' = bundle /\ job' = job /\ called' = called /\ pc[n] = "aggregate" /\ called[n]
          /\ UNCHANGED <<pendingAt, posted, sums, registered>>
      BY <2>2 DEF AggregateReturns, boardVars, coordVars
    <3>2. \/ pc'[n] = "ended"
          \/ pc'[n] = "pending" /\ bundle[n] # NoBundle /\ reply = "ack"
          \/ pc'[n] = "group" /\ bundle[n] # NoBundle /\ reply = "list" /\ job[n].zero
      BY <1>1, <2>2 DEF AggregateReturns, Goto, Die, JobTypeOK
    <3> QED
      BY <1>1, <2>2, <3>1, <3>2 DEF MemberInv
  <2>3. CASE AggregateAnswered(n) \/ AggregateTimeout(n)
    BY <2>2, <2>3 DEF AggregateAnswered, AggregateTimeout, Reply
  <2>4. CASE Submit(n)
    <3>1. /\ pc'[n] = "ended" /\ bundle' = bundle /\ job' = job /\ called' = called
          /\ UNCHANGED <<stage, registered, sums>>
      BY <1>1, <2>4 DEF Submit, Put, Goto, JobTypeOK, coordVars
    <3>2. \/ pc[n] = "pending" /\ pendingAt' = pendingAt \cup {n} /\ posted' = posted
          \/ pc[n] = "group" /\ posted' = pendingAt \cup {n} /\ pendingAt' = pendingAt
      BY <2>4 DEF Submit
    <3> QED
      BY <1>1, <3>1, <3>2 DEF MemberInv
  <2> QED
    BY <2>1, <2>3, <2>4 DEF Calling
<1> QED
  BY <1>3, <1>4

(* put_group is called by a node in "group" only.                          *)
LEMMA GroupedKept ==
  ASSUME GroupInv, [Next]_vars
  PROVE  grouped' => sums' = Node
<1>1. sums \subseteq sums' /\ sums' \subseteq Node
  BY DEF GroupInv, TypeOK, Next, NodeStep, Register, GroupReady, GroupTimeout, Work, Signal, Killed,
     Aggregate, AggregateAnswered, AggregateTimeout, Submit, JobOver, Clear, coordVars, vars
<1>2. grouped' = grouped \/ \E n \in Node : pc[n] = "group" /\ sums' = sums
  BY DEF Next, NodeStep, Register, GroupReady, GroupTimeout, Work, Signal, Killed,
     Aggregate, AggregateAnswered, AggregateTimeout, Submit, JobOver, Clear, coordVars, boardVars, vars
<1> QED
  BY <1>1, <1>2 DEF GroupInv, MemberInv

LEMMA AddedTypesKept ==
  ASSUME GroupInv, JobTypeOK', [Next]_vars
  PROVE  TypeOK'
<1>1. /\ registered' \subseteq Node /\ sums' \subseteq Node
      /\ pendingAt' \subseteq Node /\ posted' \subseteq Node /\ grouped' \in BOOLEAN
  BY DEF GroupInv, TypeOK, Next, NodeStep, Register, GroupReady, GroupTimeout, Work, Signal, Killed,
     Aggregate, AggregateAnswered, AggregateTimeout, Submit, JobOver, Clear, coordVars, boardVars, vars
<1>2. stage' \in [Node -> {"init", "registering", "job", "clear", "closed", "dead"}]
  BY DEF GroupInv, TypeOK, Next, NodeStep, Register, GroupReady, GroupTimeout, Work, Signal, Killed,
     Aggregate, AggregateAnswered, AggregateTimeout, Submit, JobOver, Clear, Enter, vars
<1> QED
  BY <1>1, <1>2 DEF TypeOK

(* GroupInv is an invariant of every group.                                *)
THEOREM GroupInvariant == Spec => []GroupInv
<1>1. Init => GroupInv
  <2> SUFFICES ASSUME Init PROVE GroupInv
    OBVIOUS
  <2>1. TypeOK
    BY JobTypeInit DEF Init, TypeOK
  <2>2. \A n \in Node : MemberInv(n)
    BY DEF Init, JobInit, MemberInv
  <2> QED
    BY <2>1, <2>2 DEF GroupInv, Init
<1>2. GroupInv /\ JobTypeOK' /\ [Next]_vars => GroupInv'
  <2> SUFFICES ASSUME GroupInv, JobTypeOK', [Next]_vars PROVE GroupInv'
    OBVIOUS
  <2>1. ASSUME NEW m \in Node PROVE MemberInv(m)'
    <3>1. CASE UNCHANGED vars
      BY <3>1 DEF vars, jobVars, coordVars, boardVars, GroupInv, MemberInv
    <3>2. ASSUME NEW n \in Node, Dispatching(n) \/ Work(n) \/ Signal(n) \/ Calling(n)
          PROVE  MemberInv(m)'
      BY <3>2, DispatchingKeeps, WorkKeeps, CallKeeps
    <3> QED
      BY <3>1, <3>2, NextCases
  <2> QED
    BY <2>1, GroupedKept, AddedTypesKept DEF GroupInv
<1> QED
  BY <1>1, <1>2, MembersKeepJobInvariant, PTL DEF Spec

(* Types, of the job and of the group.                                     *)
THEOREM MultiNodeTypeCorrect == Spec => []TypeOK
BY GroupInvariant, PTL DEF GroupInv

(* put_group comes after the aggregate call of every member.               *)
THEOREM GroupListAfterAllCallsHolds == Spec => []GroupListAfterAllCalls
BY GroupInvariant, PTL DEF GroupInv, GroupListAfterAllCalls

(* The dashboard has only bundles that were collected and acked, once.     *)
THEOREM OnlyCollectedBundlesHolds == Spec => []OnlyCollectedBundles
<1>1. GroupInv => OnlyCollectedBundles
  BY DEF GroupInv, TypeOK, MemberInv, OnlyCollectedBundles
<1> QED
  BY <1>1, GroupInvariant, PTL

(* The group is a barrier: a step that starts a job does so with all       *)
(* members registered, and every other step is a registration or no step   *)
(* of the barrier.                                                         *)
THEOREM GroupIsBarrier == Spec => IsBarrier
<1>1. Init => Barrier!BarrierInit
  BY DEF Init, JobInit, Barrier!BarrierInit
<1>2. GroupInv /\ [Next]_vars =>
        [\E m \in Node : Barrier!Join(m) \/ Barrier!StartJob(m)]_(Barrier!barrierVars)
  <2> DEFINE started == {m \in Node : pc[m] # "start"}
  <2> SUFFICES ASSUME GroupInv, [Next]_vars
               PROVE  \/ \E m \in Node : Barrier!Join(m) \/ Barrier!StartJob(m)
                      \/ registered' = registered /\ started' = started
    BY DEF Barrier!barrierVars
  <2>0. JobTypeOK
    BY DEF GroupInv, TypeOK
  <2>1. CASE UNCHANGED vars
    BY <2>1 DEF vars, jobVars, coordVars
  <2>2. ASSUME NEW n \in Node, Dispatching(n)
        PROVE  \/ Barrier!Join(n)
               \/ registered' = registered /\ started' = started
    <3>1. pc' = pc
      BY <2>0, <2>2, DispatchingRests DEF JobsRest
    <3>2. registered' = registered \/ registered' = registered \cup {n}
      BY <2>2 DEF Dispatching, Register, GroupReady, GroupTimeout, Killed, JobOver, Clear, coordVars
    <3> QED
      BY <3>1, <3>2 DEF Barrier!Join
  <2>3. ASSUME NEW n \in Node, Work(n) \/ Signal(n) \/ Calling(n)
        PROVE  \/ Barrier!StartJob(n)
               \/ registered' = registered /\ started' = started
    <3>1. registered' = registered /\ registered = Node
      BY <2>3 DEF GroupInv, MemberInv, Work, Signal, Calling, Aggregate, AggregateAnswered,
                  AggregateTimeout, Submit, coordVars
    <3>2. \A m \in Node : m # n => pc'[m] = pc[m]
      <4>1. JobAction(n) \/ Calling(n)
        BY <2>3, JobAssumption DEF JobAssumption, Work, Signal, TermStep, JobAction
      <4> QED
        BY <2>0, <4>1, JobFrame, CallFrame DEF Same
    <3>3. pc'[n] # "start"
      <4>1. CASE Work(n) \/ Signal(n)
        BY <2>0, <4>1, WorkMoves DEF Moves
      <4>2. CASE Calling(n)
        BY <2>0, <4>2 DEF Calling, Aggregate, AggregateAnswered, AggregateTimeout, Submit,
                          CallAggregate, AggregateReturns, Put, Goto, Die, JobTypeOK, Reply
      <4> QED
        BY <2>3, <4>1, <4>2
    <3>4. started' = started \cup {n}
      BY <3>2, <3>3
    <3> QED
      BY <3>1, <3>4 DEF Barrier!StartJob
  <2> QED
    BY <2>1, <2>2, <2>3, NextCases
<1> QED
  BY <1>1, <1>2, GroupInvariant, PTL DEF Spec, IsBarrier, Barrier!BarrierSpec
=============================================================================
