------------------------------- MODULE Poller -------------------------------
(***************************************************************************)
(* Poller.poll of lava/dispatcher/node.py: one request sent over and over  *)
(* to the Coordinator, on a new connection each time, until it answers     *)
(* something else than "wait" or the time allowed is used up. The sockets  *)
(* and the Coordinator fail in every way the code has a branch for.        *)
(***************************************************************************)
EXTENDS Naturals, TLAPS

CONSTANTS
  Timeout,    (* the job's timeout, in seconds                             *)
  PollDelay   (* poll_delay, in seconds                                    *)

ASSUME PollerAssumption == Timeout \in Nat /\ PollDelay \in Nat \ {0}

VARIABLES
  pc,       (* where the loop of poll stands                               *)
  c,        (* the seconds accounted for, one poll_delay per attempt       *)
  reply,    (* what the Coordinator wrote on the current connection        *)
  ready,    (* the Coordinator can answer the request                      *)
  handled,  (* the Coordinator has seen the request                        *)
  result    (* what poll returned, "none" while it runs                    *)

vars == <<pc, c, reply, ready, handled, result>>

(* Bound: c is compared with the timeout only, and saturates above it.     *)
Capped(n) == IF n > Timeout THEN Timeout + 1 ELSE n

Init ==
  /\ pc = "start" /\ c = Capped(PollDelay)
  /\ reply = "none"
  /\ ready \in BOOLEAN
  /\ handled = FALSE /\ result = "none"

AgainRestarted ==
  /\ pc' = "connect" /\ c' = Capped(PollDelay)
  /\ reply' = "none"
  /\ UNCHANGED <<ready, handled, result>>

(* The next iteration: another connection, another poll_delay counted.     *)
Again ==
  /\ pc' = "connect"
  /\ c' = Capped(c + PollDelay)
  /\ reply' = "none"
  /\ UNCHANGED <<ready, handled, result>>

Finish(r) ==
  /\ pc' = "done"
  /\ result' = r
  /\ UNCHANGED <<c, reply, ready, handled>>

(* A message of more than 0xFFFE bytes is not sent. poll returns None, of  *)
(* which its callers make an error: it is not JSON.                        *)
Start ==
  /\ pc = "start" /\ pc' = "connect"
  /\ UNCHANGED <<c, reply, ready, handled, result>>

TooLong == pc = "start" /\ Finish("error")

(* The connection is accepted, or refused: sleep(delay) and continue.      *)
Connect ==
  /\ pc = "connect" /\ pc' = "send"
  /\ UNCHANGED <<c, reply, ready, handled, result>>

ConnectFails == pc = "connect" /\ Again

(* Length and message are sent; the Coordinator handles the request and    *)
(* writes its reply.                                                       *)
Send ==
  /\ pc = "send" /\ pc' = "recv"
  /\ handled' = TRUE
  /\ reply' = IF ready THEN "ack" ELSE "wait"
  /\ UNCHANGED <<c, ready, result>>

SendFailureIgnored ==
  /\ pc = "send" /\ pc' = "recv"
  /\ reply' = "wait"
  /\ UNCHANGED <<c, ready, handled, result>>

(* Zero bytes sent, or a socket error: continue, the request is not seen.  *)
SendFails == pc = "send" /\ Again

(* shutdown is outside the try, and a short header is no hexadecimal.      *)
RecvRaises == pc = "recv" /\ Finish("error")

(* No header, or a socket error while receiving: continue, whatever the    *)
(* Coordinator did with the request.                                       *)
RecvFails == pc = "recv" /\ Again

RecvFull ==
  /\ pc = "recv" /\ pc' = "parse"
  /\ UNCHANGED <<c, reply, ready, handled, result>>

(* Nothing after the header: sleep and take it for a "wait".               *)
RecvEmpty ==
  /\ pc = "recv" /\ pc' = "parse"
  /\ reply' = "wait"
  /\ UNCHANGED <<c, ready, handled, result>>

(* recv_count grows by a whole block per recv, so that a reply that comes  *)
(* in pieces is cut short and is not JSON.                                 *)
RecvShort ==
  /\ pc = "recv" /\ pc' = "parse"
  /\ reply' = "cut"
  /\ UNCHANGED <<c, ready, handled, result>>

ParseTimeoutFirst ==
  /\ pc = "parse"
  /\ IF c > Timeout THEN Finish("nack")
     ELSE IF reply = "wait" THEN Again
     ELSE Finish(IF reply = "cut" THEN "error" ELSE reply)

(* The end of an iteration: an answer leaves the loop, a "wait" sleeps and *)
(* goes on unless the time is used up.                                     *)
Parse ==
  /\ pc = "parse"
  /\ CASE reply = "cut" -> Finish("error")
       [] reply = "ack" -> Finish("ack")
       [] reply = "wait" -> IF c > Timeout THEN Finish("nack") ELSE Again

(* The rest of the group makes the answer available at some time, or never.*)
Answerable ==
  /\ ~ready /\ ready' = TRUE
  /\ UNCHANGED <<pc, c, reply, handled, result>>

Good == Start \/ Connect \/ Send \/ RecvFull \/ RecvEmpty \/ Parse
Bad == TooLong \/ ConnectFails \/ SendFails \/ RecvFails \/ RecvRaises \/ RecvShort
Next == Good \/ Bad \/ Answerable

(* poll never stops running by itself.                                     *)
Spec == Init /\ [][Next]_vars /\ WF_vars(Good \/ Bad)

(* ... and the Coordinator stays within reach: a connection that is tried  *)
(* again and again is accepted, a request sent, a reply received at last.  *)
ReachableSpec ==
  /\ Spec
  /\ SF_vars(Connect) /\ SF_vars(Send) /\ SF_vars(RecvFull)

----------------------------------------------------------------------------

(* Types; a reply in hand means that the Coordinator has seen the request. *)
TypeOK ==
  /\ pc \in {"start", "connect", "send", "recv", "parse", "done"}
  /\ c \in 0..Timeout + 1
  /\ reply \in {"none", "ack", "wait", "cut"}
  /\ ready \in BOOLEAN /\ handled \in BOOLEAN
  /\ result \in {"none", "ack", "nack", "error"}
  /\ pc \in {"recv", "parse"} \/ result \in {"ack", "nack"} => handled

(* poll is a blocking call: whatever fails on the way, it returns an       *)
(* answer only when there is one and after the request was delivered.      *)
Call == INSTANCE BlockingCall
IsBlockingCall == Call!CallSpec

(* A nack made up by the timeout never replaces an answer that this very   *)
(* poll has received: the caller would treat a message, a barrier or a     *)
(* bundle list it was sent as lost.                                        *)
NackHidesNoAnswer == result = "nack" => reply = "wait"

(* As long as the Coordinator can be reached, poll returns: by the timeout *)
(* if the group never makes the answer available.                          *)
ReturnsIfReachable == <>(result # "none")

(* "apply the default timeout to each poll operation" (node.py:150): poll  *)
(* returns, whatever the connection does.                                  *)
TimeoutIsApplied == <>(result # "none")

---------------------------------------------------------------------------
(* Proofs, for every timeout and poll delay.                               *)

(* While there is no result the loop is not done, and a nack was a "wait". *)
PollInv ==
  /\ TypeOK
  /\ result = "none" <=> pc # "done"
  /\ result = "ack" => ready
  /\ reply = "ack" => ready
  /\ pc \in {"recv", "parse"} => reply # "none"
  /\ NackHidesNoAnswer

LEMMA CappedType == \A n \in Nat : Capped(n) \in 0..Timeout + 1
BY PollerAssumption DEF PollerAssumption, Capped

(* PollInv is inductive.                                                   *)
LEMMA PollInvariant == Spec => []PollInv
<1> USE DEF PollInv, TypeOK, NackHidesNoAnswer
<1>1. Init => PollInv
  BY CappedType, PollerAssumption DEF Init, PollerAssumption
<1>2. PollInv /\ [Next]_vars => PollInv'
  <2> SUFFICES ASSUME PollInv, [Next]_vars PROVE PollInv'
    OBVIOUS
  <2>0. Capped(c + PollDelay) \in 0..Timeout + 1
    BY CappedType, PollerAssumption DEF PollerAssumption
  <2>1. CASE Start \/ Connect \/ Send \/ RecvFull \/ RecvEmpty \/ RecvShort
    BY <2>1 DEF Start, Connect, Send, RecvFull, RecvEmpty, RecvShort
  <2>2. CASE ConnectFails \/ SendFails \/ RecvFails
    BY <2>0, <2>2 DEF ConnectFails, SendFails, RecvFails, Again
  <2>3. CASE TooLong \/ RecvRaises
    BY <2>3 DEF TooLong, RecvRaises, Finish
  <2>4. CASE Parse
    BY <2>0, <2>4 DEF Parse, Finish, Again
  <2>5. CASE Answerable
    BY <2>5 DEF Answerable
  <2>6. CASE UNCHANGED vars
    BY <2>6 DEF vars
  <2> QED
    BY <2>1, <2>2, <2>3, <2>4, <2>5, <2>6 DEF Next, Good, Bad
<1> QED
  BY <1>1, <1>2, PTL DEF Spec

(* The loop's variables keep their types; c grows to the timeout at most.  *)
THEOREM PollerTypeCorrect == Spec => []TypeOK
BY PollInvariant, PTL DEF PollInv

(* A nack made up by poll never replaces an answer poll had in its hands.  *)
THEOREM NackHidesNoAnswerHolds == Spec => []NackHidesNoAnswer
BY PollInvariant, PTL DEF PollInv

(* poll implements the blocking call its callers rely on: every iteration, *)
(* whatever fails in it, is a delivery, a return or no step of the call.   *)
THEOREM PollIsBlockingCall == Spec => IsBlockingCall
<1>1. Init => Call!CallInit
  BY DEF Init, Call!CallInit
<1>2. PollInv /\ PollInv' /\ [Next]_vars => [Call!CallNext]_(Call!callVars)
  <2> SUFFICES ASSUME PollInv, [Next]_vars
               PROVE  Call!CallNext \/ UNCHANGED <<ready, handled, result>>
    BY DEF Call!callVars
  <2> USE DEF PollInv, TypeOK, Call!CallNext, Call!Return, Call!Deliver, Call!BecomeReady, Call!Results
  <2>1. CASE Start \/ Connect \/ RecvFull \/ RecvEmpty \/ RecvShort
    BY <2>1 DEF Start, Connect, RecvFull, RecvEmpty, RecvShort
  <2>2. CASE Send
    BY <2>2 DEF Send
  <2>3. CASE ConnectFails \/ SendFails \/ RecvFails
    BY <2>3 DEF ConnectFails, SendFails, RecvFails, Again
  <2>4. CASE TooLong \/ RecvRaises
    BY <2>4 DEF TooLong, RecvRaises, Finish
  <2>5. CASE Parse
    BY <2>5 DEF Parse, Finish, Again
  <2>6. CASE Answerable
    BY <2>6 DEF Answerable
  <2>7. CASE UNCHANGED vars
    BY <2>7 DEF vars
  <2> QED
    BY <2>1, <2>2, <2>3, <2>4, <2>5, <2>6, <2>7 DEF Next, Good, Bad
<1> QED
  BY <1>1, <1>2, PollInvariant, PTL DEF Spec, IsBlockingCall, Call!CallSpec
=============================================================================
