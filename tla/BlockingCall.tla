---------------------------- MODULE BlockingCall ----------------------------
(***************************************************************************)
(* What a caller of NodeDispatcher is promised by one call to the          *)
(* Coordinator: the request is delivered at least once before an answer    *)
(* comes back, the Coordinator's own answer is given only once it is       *)
(* available, and a "nack" stands for a Coordinator that said "wait" until *)
(* the timeout. A broken reply is an error of the call, and so is a        *)
(* request that is too long to be sent.                                    *)
(***************************************************************************)
VARIABLES
  ready,    (* the Coordinator can answer the request                      *)
  handled,  (* the Coordinator has seen the request                        *)
  result    (* "none" until the call returns                               *)

callVars == <<ready, handled, result>>

Results == {"ack", "nack", "error"}

CallInit == /\ ready \in BOOLEAN
            /\ handled = FALSE
            /\ result = "none"

BecomeReady == /\ ~ready /\ ready' = TRUE
               /\ UNCHANGED <<handled, result>>

Deliver == /\ result = "none"
           /\ handled' = TRUE
           /\ UNCHANGED <<ready, result>>

Return(r) == /\ result = "none"
             /\ r = "ack" => ready /\ handled
             /\ r = "nack" => handled
             /\ result' = r
             /\ UNCHANGED <<ready, handled>>

CallNext == BecomeReady \/ Deliver \/ \E r \in Results : Return(r)

CallSpec == CallInit /\ [][CallNext]_callVars
=============================================================================
