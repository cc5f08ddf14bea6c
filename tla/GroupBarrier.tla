---------------------------- MODULE GroupBarrier ----------------------------
(***************************************************************************)
(* What a MultiNode group promises its members: nobody starts a test job   *)
(* before every member has reported to the Coordinator.                    *)
(***************************************************************************)
CONSTANT Member
VARIABLES joined, started

barrierVars == <<joined, started>>

BarrierInit == joined = {} /\ started = {}

Join(m) == /\ joined' = joined \cup {m}
           /\ UNCHANGED started

StartJob(m) == /\ joined = Member
               /\ started' = started \cup {m}
               /\ UNCHANGED joined

BarrierSpec ==
  BarrierInit /\ [][\E m \in Member : Join(m) \/ StartJob(m)]_barrierVars
=============================================================================
