----------------------------- MODULE MultiNode -----------------------------
(***************************************************************************)
(* A MultiNode group: one NodeDispatcher per node (lava/dispatcher/node.py)*)
(* around the job of LavaJob, the lava-coordinator they poll, which is not *)
(* part of this repository, and the pending bundles of the dashboard.      *)
(* Each call to the Coordinator is a BlockingCall, which Poller implements:*)
(* one action delivers the request, another one takes the answer or the    *)
(* nack of the timeout.                                                    *)
(***************************************************************************)
EXTENDS LavaJob

VARIABLES
  stage,       (* where NodeDispatcher.run stands                          *)
  registered,  (* Coordinator: nodes whose group_data request was seen     *)
  sums,        (* Coordinator: nodes whose aggregate request was seen      *)
  pendingAt,   (* dashboard: nodes whose bundle was put_pending            *)
  posted,      (* dashboard: nodes of the group bundle put_group made      *)
  grouped      (* dashboard: put_group was called                          *)

coordVars == <<registered, sums>>
boardVars == <<pendingAt, posted, grouped>>
vars == <<jobVars, stage, coordVars, boardVars>>

(* Every job of a group has the target_group; one has the sub_id ".0".     *)
GroupJobs ==
  {j \in [Node -> Job] :
     /\ \A n \in Node : j[n].grouped
     /\ \E z \in Node : \A n \in Node : j[n].zero <=> n = z}

Init ==
  /\ JobInit
  /\ job \in GroupJobs
  /\ stage = [n \in Node |-> "init"]
  /\ registered = {} /\ sums = {}
  /\ pendingAt = {} /\ posted = {} /\ grouped = FALSE

Enter(n, s) == stage' = [stage EXCEPT ![n] = s]

----------------------------------------------------------------------------
(* NodeDispatcher.run before the job.                                      *)

(* The group_data request reaches the Coordinator, which registers the     *)
(* node and says "wait" until the group is complete.                       *)
Register(n) ==
  /\ stage[n] = "init"
  /\ registered' = registered \cup {n}
  /\ Enter(n, "registering")
  /\ UNCHANGED <<jobVars, sums, boardVars>>

GroupReady(n) ==
  /\ stage[n] = "registering"
  /\ registered = Node
  /\ Enter(n, "job")
  /\ UNCHANGED <<jobVars, coordVars, boardVars>>

RunTestsAnyway(n) ==
  /\ stage[n] = "registering"
  /\ Enter(n, "job")
  /\ UNCHANGED <<jobVars, coordVars, boardVars>>

(* The poll times out: run_tests sees the nack and returns at once, run    *)
(* goes on to clear_group.                                                 *)
GroupTimeout(n) ==
  /\ stage[n] = "registering"
  /\ Enter(n, "clear")
  /\ UNCHANGED <<jobVars, coordVars, boardVars>>

(* The process dies outside the job: nothing handles a signal there.       *)
Killed(n) ==
  /\ stage[n] \in {"init", "registering"}
  /\ terms[n] < MaxTerms[n]
  /\ terms' = [terms EXCEPT ![n] = @ + 1]
  /\ Enter(n, "dead")
  /\ UNCHANGED <<job, pc, step, results, status, exc, powered, bundle, called, ghosts,
                 coordVars, boardVars>>

----------------------------------------------------------------------------
(* The job, its aggregate call and what it does with the reply.            *)

(* Steps of LavaJob that involve neither Coordinator nor dashboard.        *)
Work(n) ==
  /\ stage[n] = "job"
  /\ \/ Start(n) \/ Reject(n)
     \/ NextAction(n) \/ CallRun(n) \/ LeaveLoop(n) \/ ActionReturns(n) \/ RebootReturns(n)
     \/ Record(n) \/ RecordFails(n) \/ Catch(n)
     \/ \E e \in Faults : ActionRaises(n, e) \/ RebootRaises(n, e) \/ FinishFails(n, e)
     \/ Finish(n) \/ Report(n) \/ ReportFails(n) \/ PutFails(n)
  /\ UNCHANGED <<stage, coordVars, boardVars>>

Signal(n) ==
  /\ stage[n] = "job"
  /\ TermStep(n)
  /\ UNCHANGED <<stage, coordVars, boardVars>>

Aggregate(n) ==
  /\ stage[n] = "job"
  /\ CallAggregate(n)
  /\ sums' = sums \cup {n}
  /\ UNCHANGED <<stage, registered, boardVars>>

(* The Coordinator acks the checksum of an ordinary node at once; sub_id   *)
(* zero waits for the last call to aggregate and is sent the list.         *)
AggregateAnswered(n) ==
  /\ stage[n] = "job"
  /\ IF job[n].zero THEN sums = Node /\ AggregateReturns(n, "list")
                    ELSE AggregateReturns(n, "ack")
  /\ UNCHANGED <<stage, coordVars, boardVars>>

AggregateZeroWaits(n) ==
  /\ stage[n] = "job" /\ ~job[n].zero
  /\ \E reply \in {"nack", "garbled"} : AggregateReturns(n, reply)
  /\ UNCHANGED <<stage, coordVars, boardVars>>

AggregateTimeout(n) ==
  /\ stage[n] = "job"
  /\ \E reply \in {"nack", "garbled"} : AggregateReturns(n, reply)
  /\ UNCHANGED <<stage, coordVars, boardVars>>

(* submit_pending, or submit_group_list: put_group makes the group bundle  *)
(* of this node's bundle and of those that are pending by then.            *)
Submit(n) ==
  /\ stage[n] = "job"
  /\ \/ /\ pc[n] = "pending"
        /\ pendingAt' = pendingAt \cup {n}
        /\ UNCHANGED <<posted, grouped>>
     \/ /\ pc[n] = "group"
        /\ posted' = pendingAt \cup {n}
        /\ grouped' = TRUE
        /\ UNCHANGED pendingAt
  /\ Put(n)
  /\ UNCHANGED <<stage, coordVars>>

----------------------------------------------------------------------------
(* NodeDispatcher.run after the job.                                       *)

(* run_tests returns, or its exception ends the process: no clear_group.   *)
JobOver(n) ==
  /\ stage[n] = "job" /\ Ended(n)
  /\ Enter(n, IF exc[n] = "none" THEN "clear" ELSE "dead")
  /\ UNCHANGED <<jobVars, coordVars, boardVars>>

(* The clear_group poll returns, by an answer or by its timeout.           *)
Clear(n) ==
  /\ stage[n] = "clear"
  /\ Enter(n, "closed")
  /\ UNCHANGED <<jobVars, coordVars, boardVars>>

NodeStep(n) ==
  \/ Register(n) \/ GroupReady(n) \/ GroupTimeout(n)
  \/ Work(n) \/ Aggregate(n) \/ AggregateAnswered(n) \/ AggregateTimeout(n)
  \/ Submit(n) \/ JobOver(n) \/ Clear(n)

Next == \E n \in Node : NodeStep(n) \/ Signal(n) \/ Killed(n)

Spec == Init /\ [][Next]_vars

(* Every process runs, actions return or raise, and a poll of a Coordinator*)
(* that answers at all ends (ReturnsIfReachable of Poller).                *)
FairSpec == Spec /\ \A n \in Node : WF_vars(NodeStep(n))

----------------------------------------------------------------------------

Over(n) == stage[n] \in {"closed", "dead"}

(* Types, for the variables this module adds.                              *)
TypeOK ==
  /\ JobTypeOK
  /\ stage \in [Node -> {"init", "registering", "job", "clear", "closed", "dead"}]
  /\ registered \subseteq Node /\ sums \subseteq Node
  /\ pendingAt \subseteq Node /\ posted \subseteq Node /\ grouped \in BOOLEAN

(* The group is a barrier: a node starts its job only after every member   *)
(* has registered, although members time out, give up and die around it.   *)
Barrier == INSTANCE GroupBarrier WITH
  Member <- Node, joined <- registered,
  started <- {n \in Node : pc[n] # "start"}
IsBarrier == Barrier!BarrierSpec

(* submit_group_list is called only when "all jobs in the group have       *)
(* registered bundle checksums with the coordinator", so never after a     *)
(* node was rejected, died before its report or gave up on the group.      *)
GroupListAfterAllCalls == grouped => sums = Node

(* A bundle goes to the dashboard once: what is pending was acked, what is *)
(* posted is pending or is the bundle of sub_id zero, and a node whose     *)
(* process died before it had a bundle contributes none.                   *)
OnlyCollectedBundles ==
  \A n \in pendingAt \cup posted :
    /\ bundle[n] # NoBundle /\ n \in sums
    /\ job[n].zero <=> n \notin pendingAt

(* However the other members fail, no node waits for them for ever.        *)
EveryNodeEnds == \A n \in Node : <>Over(n)

(* "The bundle is cached in the dashboard until the coordinator allows     *)
(* sub_id zero to call submit_group_list" (launch_control.py:275): when    *)
(* put_group is called, the bundle of every node that was acked for it is  *)
(* part of the group.                                                      *)
GroupListHoldsEveryBundle ==
  grouped => \A n \in Node : pc[n] = "pending" => n \in posted
=============================================================================
