-------------------------- MODULE TestShellProofs --------------------------
(***************************************************************************)
(* Proofs about TestShell, for any group and any well-formed scripts. No   *)
(* script blocks while its dispatcher follows it, and lava-sync is a       *)
(* barrier: both rest on the account of the calls (ShellInv). The backup   *)
(* bundle is true and an exit means that nothing is missing: both rest on  *)
(* the account of the reports (ReportInv).                                 *)
(***************************************************************************)
EXTENDS TestShell, SequenceTheorems, WellFoundedInduction, TLAPS

----------------------------------------------------------------------------
(* What a sequence has, and what it has at most once.                      *)

Has(s, T) == \E i \in DOMAIN s : s[i] \in T
Once(s, T) == \A i, j \in DOMAIN s : s[i] \in T /\ s[j] \in T => i = j

LEMMA HasNothing == \A T : ~Has(<<>>, T) /\ Once(<<>>, T)
BY DEF Has, Once

LEMMA AppendHas ==
  ASSUME NEW S, NEW s \in Seq(S), NEW e \in S, NEW T
  PROVE  /\ Append(s, e) \in Seq(S) /\ Append(s, e) # <<>>
         /\ Has(Append(s, e), T) <=> Has(s, T) \/ e \in T
         /\ Once(s, T) /\ (e \in T => ~Has(s, T)) => Once(Append(s, e), T)
<1>1. /\ Append(s, e) \in Seq(S) /\ Append(s, e) # <<>>
      /\ DOMAIN s = 1..Len(s) /\ Len(s) \in Nat
      /\ DOMAIN Append(s, e) = 1..(Len(s) + 1)
      /\ \A i \in 1..Len(s) : Append(s, e)[i] = s[i]
      /\ Append(s, e)[Len(s) + 1] = e
  OBVIOUS
<1>2. Has(Append(s, e), T) => Has(s, T) \/ e \in T
  BY <1>1 DEF Has
<1>3. Has(s, T) => Has(Append(s, e), T)
  BY <1>1 DEF Has
<1>4. e \in T => Has(Append(s, e), T)
  BY <1>1 DEF Has
<1>5. Once(s, T) /\ (e \in T => ~Has(s, T)) => Once(Append(s, e), T)
  BY <1>1 DEF Has, Once
<1> QED
  BY <1>1, <1>2, <1>3, <1>4, <1>5

LEMMA TailHas ==
  ASSUME NEW S, NEW s \in Seq(S), s # <<>>, NEW T
  PROVE  /\ Tail(s) \in Seq(S) /\ Head(s) \in S
         /\ Has(s, T) <=> Head(s) \in T \/ Has(Tail(s), T)
         /\ Once(s, T) => Once(Tail(s), T) /\ (Head(s) \in T => ~Has(Tail(s), T))
<1>1. /\ Tail(s) \in Seq(S) /\ Head(s) \in S /\ Head(s) = s[1]
      /\ DOMAIN s = 1..Len(s) /\ Len(s) \in Nat /\ Len(s) >= 1
      /\ DOMAIN Tail(s) = 1..(Len(s) - 1)
      /\ \A i \in 1..(Len(s) - 1) : Tail(s)[i] = s[i + 1]
  OBVIOUS
<1>2. Has(s, T) => Head(s) \in T \/ Has(Tail(s), T)
  <2> SUFFICES ASSUME NEW i \in DOMAIN s, s[i] \in T, i # 1 PROVE Has(Tail(s), T)
    BY <1>1 DEF Has
  <2>1. i - 1 \in DOMAIN Tail(s) /\ Tail(s)[i - 1] = s[i]
    BY <1>1
  <2> QED
    BY <2>1 DEF Has
<1>3. Head(s) \in T => Has(s, T)
  BY <1>1 DEF Has
<1>4. ASSUME NEW i \in DOMAIN Tail(s) PROVE i + 1 \in DOMAIN s /\ i + 1 # 1 /\ s[i + 1] = Tail(s)[i]
  BY <1>1
<1>5. Has(Tail(s), T) => Has(s, T)
  BY <1>4 DEF Has
<1>6. Once(s, T) => Once(Tail(s), T)
  BY <1>1, <1>4 DEF Once
<1>7. Once(s, T) /\ Head(s) \in T => ~Has(Tail(s), T)
  BY <1>1, <1>4 DEF Once, Has
<1> QED
  BY <1>1, <1>2, <1>3, <1>5, <1>6, <1>7

----------------------------------------------------------------------------
(* Positions of a script.                                                  *)

Steps == (Printed \cup Silent) \X Word

LEMMA ScriptSteps ==
  ASSUME NEW n \in Node
  PROVE  /\ DOMAIN Script[n] = 1..Len(Script[n]) /\ Len(Script[n]) \in Nat \ {0}
         /\ \A i \in DOMAIN Script[n] : Script[n][i] \in Steps
         /\ WellFormed(Script[n])
<1>1. Script[n] \in Seq(Steps) /\ WellFormed(Script[n])
  BY ScriptAssumption DEF Steps
<1>2. Script[n] # <<>>
  BY <1>1 DEF WellFormed
<1> QED
  BY <1>1, <1>2

(* Only a read follows nothing but a signal, and only an await a call.     *)
Quiet(n, p) == p \in DOMAIN Script[n] => Script[n][p][1] \notin {"read", "await"}

LEMMA NextPosition ==
  ASSUME NEW n \in Node, NEW p \in DOMAIN Script[n]
  PROVE  /\ p + 1 \in DOMAIN Script[n] /\ Script[n][p + 1][1] = "read" => Script[n][p][1] \in Signals
         /\ p + 1 \in DOMAIN Script[n] /\ Script[n][p + 1][1] = "await" => Script[n][p][1] \in Answering
         /\ Script[n][p][1] \in Answering => p + 1 \in DOMAIN Script[n] /\ Script[n][p + 1][1] = "await"
         /\ Script[n][p][1] \in Silent => Quiet(n, p + 1)
<1>1. /\ DOMAIN Script[n] = 1..Len(Script[n]) /\ Len(Script[n]) \in Nat /\ WellFormed(Script[n])
      /\ p \in Nat /\ (p + 1) - 1 = p /\ p + 1 > 1
  BY ScriptSteps
<1>2. ASSUME p + 1 \in DOMAIN Script[n], Script[n][p + 1][1] = "read"
      PROVE  Script[n][p][1] \in Signals
  BY <1>1, <1>2 DEF WellFormed, Follows
<1>3. ASSUME p + 1 \in DOMAIN Script[n], Script[n][p + 1][1] = "await"
      PROVE  Script[n][p][1] \in Answering
  BY <1>1, <1>3 DEF WellFormed, Follows
<1>4. ASSUME Script[n][p][1] \in Answering
      PROVE  p + 1 \in DOMAIN Script[n] /\ Script[n][p + 1][1] = "await"
  BY <1>1, <1>4 DEF WellFormed
<1>5. ASSUME Script[n][p][1] \in Silent PROVE Quiet(n, p + 1)
  BY <1>2, <1>3, <1>5 DEF Quiet, Silent, Signals, Answering
<1> QED
  BY <1>2, <1>3, <1>4, <1>5

LEMMA LeastNatural ==
  ASSUME NEW J, J \subseteq Nat, J # {}
  PROVE  \E j \in J : \A k \in J : j <= k
<1> DEFINE Less == OpToRel(<, Nat)
<1>1. PICK j \in J : \A k \in J : <<k, j>> \notin Less
  BY WFMin, NatLessThanWellFounded, Zenon
<1>2. \A k \in J : k < j => <<k, j>> \in Less
  BY DEF OpToRel
<1> HIDE DEF Less
<1>3. \A k \in J : ~(k < j)
  BY <1>1, <1>2
<1> QED
  BY <1>3

LEMMA AheadExists ==
  ASSUME NEW n \in Node, dev[n] \in Nat, NEW ops,
         \E j \in DOMAIN Script[n] : j > dev[n] /\ Script[n][j][1] \in ops
  PROVE  /\ Ahead(n, ops) \in DOMAIN Script[n] /\ Ahead(n, ops) > dev[n]
         /\ Script[n][Ahead(n, ops)][1] \in ops
         /\ \A k \in dev[n] + 1 .. Ahead(n, ops) - 1 : Script[n][k][1] \notin ops
<1> DEFINE J == {j \in DOMAIN Script[n] : j > dev[n] /\ Script[n][j][1] \in ops}
<1>1. DOMAIN Script[n] = 1..Len(Script[n]) /\ Len(Script[n]) \in Nat
  BY ScriptSteps
<1>2. J \subseteq Nat /\ J # {}
  BY <1>1
<1>3. PICK j \in J : \A k \in J : j <= k
  BY <1>2, LeastNatural
<1>4. \A k \in dev[n] + 1 .. j - 1 : Script[n][k][1] \notin ops
  <2> SUFFICES ASSUME NEW k \in dev[n] + 1 .. j - 1, Script[n][k][1] \in ops PROVE FALSE
    OBVIOUS
  <2>1. k \in Nat /\ k > dev[n] /\ k < j /\ j \in 1..Len(Script[n])
    BY <1>1
  <2>2. k \in J
    BY <1>1, <2>1
  <2> QED
    BY <1>3, <2>1, <2>2
<1>5. /\ j \in DOMAIN Script[n] /\ j > dev[n] /\ Script[n][j][1] \in ops
  OBVIOUS
<1> HIDE DEF J
<1> QED
  BY <1>4, <1>5 DEF Ahead

(* A command that fails leaves the device where it neither reads nor waits.*)
LEMMA AfterFailureQuiet ==
  ASSUME NEW n \in Node, dev[n] \in DOMAIN Script[n], Script[n][dev[n]][1] = "await"
  PROVE  /\ AfterFailure(n) \in DOMAIN Script[n] /\ Quiet(n, AfterFailure(n))
<1> DEFINE last == Len(Script[n])
<1>1. /\ DOMAIN Script[n] = 1..last /\ last \in Nat \ {0} /\ WellFormed(Script[n])
  BY ScriptSteps
<1>2. last \in DOMAIN Script[n] /\ Script[n][last][1] = "EXIT" /\ last > dev[n] /\ dev[n] \in Nat
  BY <1>1 DEF WellFormed
<1> HIDE DEF last
<1>3. /\ Ahead(n, {"STARTTC", "ENDTC", "STARTRUN", "sync", "EXIT"}) \in DOMAIN Script[n]
      /\ Script[n][Ahead(n, {"STARTTC", "ENDTC", "STARTRUN", "sync", "EXIT"})][1]
           \in {"STARTTC", "ENDTC", "STARTRUN", "sync", "EXIT"}
  BY <1>2, AheadExists
<1>4. /\ Ahead(n, {"STARTRUN", "sync", "EXIT"}) \in DOMAIN Script[n]
      /\ Script[n][Ahead(n, {"STARTRUN", "sync", "EXIT"})][1] \in {"STARTRUN", "sync", "EXIT"}
  BY <1>2, AheadExists
<1> QED
  BY <1>3, <1>4 DEF AfterFailure, Quiet

----------------------------------------------------------------------------
(* The invariant.                                                          *)

Asking == Answering \X Word
Signalling == Signals \X Word
Replies == {"COMPLETE", "COMPLETE nack"}
Text == {"LAVA_ACK"} \cup Replies

Asked(n) == loop[n] = "call" /\ request[n] \in Asking
Own(n) == Script[n][dev[n] - 1]

TypeInv ==
  /\ dev \in [Node -> Nat]
  /\ \A n \in Node : dev[n] \in 0..Len(Script[n]) + 1
  /\ line \in [Node -> Seq(Printed \X Word)]
  /\ rx \in [Node -> Seq(Text)]
  /\ loop \in [Node -> {"expect", "call"} \cup Ends]
  /\ request \in [Node -> (Calls \X Word) \cup {<<>>}]
  /\ \A n \in Node : (loop[n] = "call") <=> (request[n] # <<>>)
  /\ DOMAIN files = Node /\ DOMAIN safe = Node
  /\ \A n \in Node : safe[n] \subseteq files[n]
  /\ DOMAIN runs = Node /\ DOMAIN bundle = Node /\ DOMAIN past = Node
  /\ Meeting \in DOMAIN told
  /\ \A m \in DOMAIN told : told[m] \subseteq Node

(* At most one call of a device is open, in its line, at its dispatcher or *)
(* in the reply, and only while the device awaits it.                      *)
OneCall(n) ==
  /\ Once(line[n], Asking) /\ Once(rx[n], Replies)
  /\ Has(line[n], Asking) => ~Asked(n) /\ ~Has(rx[n], Replies)
  /\ Asked(n) => ~Has(rx[n], Replies)
  /\ dev[n] = 0 => rx[n] = <<>>
  /\ dev[n] # 0 /\ ~At(n, "await") =>
       ~Has(line[n], Asking) /\ ~Asked(n) /\ ~Has(rx[n], Replies)

(* It is the call of that await, and its reply is no nack only when the    *)
(* others have met.                                                        *)
ItsCall(n) ==
  /\ At(n, "await") => /\ ~Has(line[n], Asking \ {Own(n)})
                       /\ Asked(n) => request[n] = Own(n)
  /\ At(n, "await") /\ Own(n) = <<"SYNC", Meeting>> /\ Has(rx[n], {"COMPLETE"}) =>
       told[Meeting] = Node
  /\ Meeting \in past[n] => told[Meeting] = Node

(* While the loop runs, what the device stands at has something coming.    *)
Coming(n) ==
  loop[n] \in {"expect", "call"} =>
    /\ At(n, "read") => rx[n] # <<>> \/ Has(line[n], Signalling)
    /\ At(n, "await") => Has(line[n], Asking) \/ Asked(n) \/ Has(rx[n], Replies)

CallInv(n) == OneCall(n) /\ ItsCall(n) /\ Coming(n)

ShellInv == TypeInv /\ \A n \in Node : CallInv(n)

LEMMA HasMore ==
  ASSUME NEW s, NEW T, NEW U, T \subseteq U, Has(s, T)
  PROVE  Has(s, U)
BY DEF Has

LEMMA PairIn ==
  ASSUME NEW e \in Steps \cup (Printed \X Word), NEW ops
  PROVE  e[1] \in ops <=> e \in ops \X Word
BY DEF Steps

LEMMA Distinct ==
  /\ Signals \cap Calls = {} /\ Answering \subseteq Calls /\ Answering \cap Signals = {}
  /\ Printed \cap Silent = {} /\ Asking \cap Signalling = {}
  /\ Asking \subseteq Printed \X Word /\ Signalling \subseteq Printed \X Word
  /\ "EXIT" \notin Signals \cup Calls
BY DEF Signals, Calls, Answering, Printed, Silent, Asking, Signalling

----------------------------------------------------------------------------
(* Types.                                                                  *)

LEMMA TypeInit == Init => TypeInv
<1> SUFFICES ASSUME Init PROVE TypeInv
  OBVIOUS
<1>1. Meeting \in DOMAIN told /\ \A m \in DOMAIN told : told[m] \subseteq Node
  BY MeetingAssumption DEF Init
<1>2. \A n \in Node : Len(Script[n]) \in Nat \ {0}
  BY ScriptSteps
<1> QED
  BY <1>1, <1>2 DEF Init, TypeInv, Ends

(* What the device does.                                                   *)
LEMMA DeviceTypes ==
  ASSUME TypeInv, NEW n \in Node, DeviceStep(n) \/ Crash(n)
  PROVE  TypeInv'
<1>0. /\ Len(Script[n]) \in Nat /\ DOMAIN Script[n] = 1..Len(Script[n])
      /\ dev[n] \in Nat /\ rx[n] \in Seq(Text) /\ line[n] \in Seq(Printed \X Word)
  BY ScriptSteps DEF TypeInv
<1>1. ASSUME NEW d \in 0..Len(Script[n]) + 1, dev' = [dev EXCEPT ![n] = d]
      PROVE  dev' \in [Node -> Nat] /\ \A m \in Node : dev'[m] \in 0..Len(Script[m]) + 1
  BY <1>1, <1>0 DEF TypeInv
<1>2. ASSUME Advance(n), Running(n)
      PROVE  dev' \in [Node -> Nat] /\ \A m \in Node : dev'[m] \in 0..Len(Script[m]) + 1
  <2>1. dev[n] + 1 \in 0..Len(Script[n]) + 1
    BY <1>0, <1>2 DEF Running
  <2> QED
    BY <1>1, <1>2, <2>1 DEF Advance
<1>3. rx[n] # <<>> => [rx EXCEPT ![n] = Tail(@)] \in [Node -> Seq(Text)]
  <2>1. rx[n] # <<>> => Tail(rx[n]) \in Seq(Text)
    BY <1>0, TailHas
  <2> QED
    BY <2>1 DEF TypeInv
<1>4. CASE Say(n)
  <2>1. Script[n][dev[n]] \in Printed \X Word
    BY <1>4, ScriptSteps, PairIn DEF Say, Running
  <2>2. Append(line[n], Script[n][dev[n]]) \in Seq(Printed \X Word)
    BY <1>0, <2>1, AppendHas
  <2>3. line' \in [Node -> Seq(Printed \X Word)]
    BY <1>4, <2>2 DEF Say, TypeInv
  <2> QED
    BY <1>4, <1>2, <2>3 DEF Say, TypeInv, director
<1>5. CASE Read(n)
  BY <1>5, <1>2, <1>3 DEF Read, At, TypeInv, director
<1>6. CASE Await(n)
  <2>1. dev' \in [Node -> Nat] /\ \A m \in Node : dev'[m] \in 0..Len(Script[m]) + 1
    <3>1. CASE Head(rx[n]) = "LAVA_ACK"
      BY <1>6, <3>1 DEF Await, TypeInv
    <3>2. CASE Head(rx[n]) = "COMPLETE"
      BY <1>2, <1>6, <3>2 DEF Await, At
    <3>3. CASE Head(rx[n]) = "COMPLETE nack"
      <4>1. AfterFailure(n) \in DOMAIN Script[n]
        BY <1>6, AfterFailureQuiet DEF Await, At, Running
      <4>3. AfterFailure(n) \in 0..Len(Script[n]) + 1
        BY <1>0, <4>1
      <4>2. dev' = [dev EXCEPT ![n] = AfterFailure(n)]
        BY <1>6, <3>3 DEF Await
      <4> QED
        BY <1>1, <4>2, <4>3
    <3>4. Head(rx[n]) \in Text
      BY <1>0, <1>6, TailHas DEF Await
    <3> QED
      BY <3>1, <3>2, <3>3, <3>4 DEF Text, Replies
  <2>2. DOMAIN past' = Node
    <3>1. Head(rx[n]) \in {"LAVA_ACK", "COMPLETE", "COMPLETE nack"}
      BY <1>0, <1>6, TailHas DEF Await, Text, Replies
    <3>2. past' = past \/ past' = [past EXCEPT ![n] = @ \cup {Arg(n)}]
      BY <1>6, <3>1 DEF Await
    <3> QED
      BY <3>2 DEF TypeInv
  <2> QED
    BY <1>6, <1>3, <2>1, <2>2 DEF Await, TypeInv, director
<1>7. CASE Save(n)
  <2>1. /\ DOMAIN files' = Node /\ DOMAIN safe' = Node
        /\ \A m \in Node : safe'[m] \subseteq files'[m]
    BY <1>7 DEF Save, TypeInv
  <2> QED
    BY <1>7, <1>2, <2>1 DEF Save, At, TypeInv, wires, director
<1>8. CASE Crash(n)
  <2>1. /\ DOMAIN files' = Node /\ DOMAIN safe' = Node
        /\ \A m \in Node : safe'[m] \subseteq files'[m]
    BY <1>8 DEF Crash, TypeInv
  <2>2. rx' \in [Node -> Seq(Text)]
    BY <1>8 DEF Crash, TypeInv
  <2>3. 0 \in 0..Len(Script[n]) + 1
    BY <1>0
  <2> QED
    BY <1>8, <1>1, <2>1, <2>2, <2>3 DEF Crash, TypeInv, director
<1> QED
  BY <1>4, <1>5, <1>6, <1>7, <1>8 DEF DeviceStep

(* What the dispatcher does.                                               *)
LEMMA DispatcherTypes ==
  ASSUME TypeInv, NEW n \in Node, DispatcherStep(n) \/ Dropped(n) \/ Timeout(n) \/ SignalRaises(n)
  PROVE  TypeInv'
<1>0. rx[n] \in Seq(Text) /\ line[n] \in Seq(Printed \X Word)
  BY DEF TypeInv
<1>1. ASSUME NEW text \in Text, Reply(n, text) PROVE rx' \in [Node -> Seq(Text)]
  <2>1. Append(rx[n], text) \in Seq(Text)
    BY <1>0, AppendHas
  <2> QED
    BY <1>1, <2>1 DEF Reply, TypeInv
<1>2. ASSUME NEW ops, Matches(n, ops), line' = [line EXCEPT ![n] = Tail(@)]
      PROVE  /\ line' \in [Node -> Seq(Printed \X Word)]
             /\ Head(line[n]) \in Printed \X Word /\ Head(line[n])[1] \in ops
  <2>1. Tail(line[n]) \in Seq(Printed \X Word) /\ Head(line[n]) \in Printed \X Word
    BY <1>0, <1>2, TailHas DEF Matches
  <2> QED
    BY <1>2, <2>1 DEF TypeInv, Matches
<1>3. CASE Signal(n)
  <2>1. DOMAIN runs' = Node
    BY <1>3 DEF Signal, TestRun, Result, TypeInv
  <2>2. rx' \in [Node -> Seq(Text)]
    BY <1>1, <1>3 DEF Signal, Text
  <2>3. line' \in [Node -> Seq(Printed \X Word)]
    BY <1>2, <1>3 DEF Signal
  <2> QED
    BY <1>3, <2>1, <2>2, <2>3 DEF Signal, TypeInv, device
<1>4. CASE Call(n)
  <2>1. /\ line' \in [Node -> Seq(Printed \X Word)]
        /\ Head(line[n]) \in Calls \X Word
    BY <1>2, <1>4, PairIn DEF Call
  <2>2. DOMAIN told' = DOMAIN told /\ \A m \in DOMAIN told : told'[m] \subseteq Node
    BY <1>4 DEF Call, TypeInv
  <2>3. request' \in [Node -> (Calls \X Word) \cup {<<>>}] /\ request'[n] # <<>>
    BY <1>4, <2>1 DEF Call, TypeInv
  <2>4. loop' \in [Node -> {"expect", "call"} \cup Ends] /\ loop'[n] = "call"
    BY <1>4 DEF Call, TypeInv
  <2>5. \A m \in Node : (loop'[m] = "call") <=> (request'[m] # <<>>)
    BY <1>4, <2>3, <2>4 DEF Call, TypeInv
  <2> QED
    BY <1>4, <2>1, <2>2, <2>3, <2>4, <2>5 DEF Call, TypeInv, device, director
<1>5. CASE Return(n)
  <2>1. rx' \in [Node -> Seq(Text)]
    BY <1>1, <1>5 DEF Return, Text, Replies, TypeInv
  <2>2. /\ loop' \in [Node -> {"expect", "call"} \cup Ends] /\ loop'[n] # "call"
        /\ \A m \in Node : m # n => loop'[m] = loop[m]
    BY <1>5 DEF Return, Continue, End, TypeInv, Ends
  <2>3. /\ request' \in [Node -> (Calls \X Word) \cup {<<>>}] /\ request'[n] = <<>>
        /\ \A m \in Node : m # n => request'[m] = request[m]
    BY <1>5 DEF Return, TypeInv
  <2> QED
    BY <1>5, <2>1, <2>2, <2>3 DEF Return, TypeInv, device, director
<1>6. ASSUME NEW how \in Ends, End(n, how), loop[n] = "expect", request' = request
      PROVE  /\ loop' \in [Node -> {"expect", "call"} \cup Ends]
             /\ \A m \in Node : (loop'[m] = "call") <=> (request'[m] # <<>>)
  BY <1>6 DEF End, TypeInv, Ends
<1>7. CASE Exit(n)
  <2>1. line' \in [Node -> Seq(Printed \X Word)]
    BY <1>2, <1>7 DEF Exit
  <2> QED
    BY <1>6, <1>7, <2>1 DEF Exit, Matches, Ends, TypeInv, device, director
<1>8. CASE Dropped(n) \/ Timeout(n) \/ SignalRaises(n)
  BY <1>6, <1>8 DEF Dropped, Timeout, SignalRaises, Matches, End, Ends, TypeInv, device, wires, director
<1>9. CASE Bundle(n)
  BY <1>9 DEF Bundle, TypeInv, device, wires, director
<1> QED
  BY <1>3, <1>4, <1>5, <1>7, <1>8, <1>9 DEF DispatcherStep

----------------------------------------------------------------------------
(* The calls.                                                              *)

Alike(m) ==
  /\ dev'[m] = dev[m] /\ line'[m] = line[m] /\ rx'[m] = rx[m] /\ loop'[m] = loop[m]
  /\ request'[m] = request[m] /\ past'[m] = past[m]

(* A node that does not move keeps its part; nobody untells a message.     *)
LEMMA AlikeKeeps ==
  ASSUME NEW m \in Node, CallInv(m), Alike(m), told[Meeting] = Node => told'[Meeting] = Node
  PROVE  CallInv(m)'
BY DEF CallInv, OneCall, ItsCall, Coming, Asked, Own, At, Running, Alike

(* A step of one node.                                                     *)
NodeMoves(n) == DeviceStep(n) \/ DispatcherStep(n) \/ Crash(n) \/ Dropped(n) \/ Timeout(n) \/ SignalRaises(n)

LEMMA ToldStays ==
  ASSUME TypeInv, NEW n \in Node, NodeMoves(n)
  PROVE  told[Meeting] = Node => told'[Meeting] = Node
<1>1. CASE Call(n)
  <2>1. told' = told \/ told' = [told EXCEPT ![Head(line[n])[2]] = @ \cup {n}]
    BY <1>1 DEF Call
  <2>2. told'[Meeting] \in {told[Meeting], told[Meeting] \cup {n}}
    BY <2>1 DEF TypeInv
  <2> QED
    BY <2>2
<1>2. CASE ~Call(n)
  BY <1>2 DEF NodeMoves, DeviceStep, DispatcherStep, Say, Read, Await, Save, Crash, Signal, Return,
              Exit, Bundle, Dropped, Timeout, SignalRaises
<1> QED
  BY <1>1, <1>2

LEMMA OthersAlike ==
  ASSUME TypeInv, NEW n \in Node, NodeMoves(n), NEW m \in Node, m # n
  PROVE  Alike(m)
<1>1. CASE Say(n) \/ Read(n) \/ Save(n) \/ Crash(n)
  BY <1>1 DEF Say, Read, Save, Crash, Advance, TypeInv, Alike, wires
<1>2. CASE Await(n)
  <2>1. /\ line' = line /\ loop' = loop /\ request' = request
        /\ rx'[m] = rx[m]
    BY <1>2 DEF Await, TypeInv
  <2>2. Head(rx[n]) \in {"LAVA_ACK", "COMPLETE", "COMPLETE nack"}
    <3>1. rx[n] \in Seq(Text) /\ rx[n] # <<>>
      BY <1>2 DEF Await, TypeInv
    <3> QED
      BY <3>1, TailHas DEF Text, Replies
  <2>3. /\ dev' \in {dev, [dev EXCEPT ![n] = @ + 1], [dev EXCEPT ![n] = AfterFailure(n)]}
        /\ past' \in {past, [past EXCEPT ![n] = @ \cup {Arg(n)}]}
    BY <1>2, <2>2 DEF Await, Advance
  <2>4. dev'[m] = dev[m]
    BY <2>3 DEF TypeInv
  <2>5. past'[m] = past[m]
    BY <2>3 DEF TypeInv
  <2> QED
    BY <2>1, <2>4, <2>5 DEF Alike
<1>3. CASE Signal(n) \/ Call(n) \/ Exit(n)
  BY <1>3 DEF Signal, Call, Exit, Reply, End, TypeInv, Alike, device
<1>4. CASE Return(n)
  BY <1>4 DEF Return, Reply, Continue, End, TypeInv, Alike, device
<1>5. CASE Bundle(n) \/ Dropped(n) \/ Timeout(n) \/ SignalRaises(n)
  BY <1>5 DEF Bundle, Dropped, Timeout, SignalRaises, End, TypeInv, Alike, device, wires
<1> QED
  BY <1>1, <1>2, <1>3, <1>4, <1>5 DEF NodeMoves, DeviceStep, DispatcherStep

(* What a device stands at, by the operation.                              *)
LEMMA Standing ==
  ASSUME TypeInv, NEW n \in Node, Running(n)
  PROVE  /\ dev[n] # 0 /\ dev[n] \in DOMAIN Script[n] /\ dev[n] \in Nat
         /\ Script[n][dev[n]] \in Steps
         /\ \A op : At(n, op) <=> Script[n][dev[n]][1] = op
  BY ScriptSteps DEF TypeInv, Running, At

LEMMA SayKeeps ==
  ASSUME TypeInv, NEW n \in Node, CallInv(n), Say(n)
  PROVE  CallInv(n)'
<1> DEFINE e == Script[n][dev[n]]
<1>1. /\ Running(n) /\ dev[n] \in DOMAIN Script[n] /\ dev[n] # 0 /\ dev[n] \in Nat
      /\ e \in Steps /\ e[1] \in Printed
      /\ ~At(n, "await")
  BY Standing DEF Say, At, Running, Printed, Signals, Calls
<1>2. /\ dev'[n] = dev[n] + 1 /\ line'[n] = Append(line[n], e)
      /\ rx' = rx /\ loop' = loop /\ request' = request /\ past' = past /\ told' = told
      /\ line[n] \in Seq(Printed \X Word) /\ e \in Printed \X Word
  BY <1>1, PairIn DEF Say, Advance, TypeInv
<1>3. ~Has(line[n], Asking) /\ ~Asked(n) /\ ~Has(rx[n], Replies)
  BY <1>1 DEF CallInv, OneCall
<1>4. /\ dev'[n] # 0 /\ dev'[n] - 1 = dev[n]
      /\ At(n, "await")' => e \in Asking
      /\ At(n, "read")' => e \in Signalling
      /\ e \in Asking => At(n, "await")'
  BY <1>1, <1>2, NextPosition, PairIn DEF At, Running, Asking, Signalling
<1>5. Own(n)' = e
  BY <1>4 DEF Own
<1>6. /\ Asked(n)' <=> Asked(n)
  BY <1>2 DEF Asked
<1> HIDE DEF e
<1>7. /\ Has(line'[n], Asking) <=> e \in Asking
      /\ Once(line'[n], Asking)
      /\ e \in Signalling => Has(line'[n], Signalling)
  <2>1. ASSUME NEW T
        PROVE  /\ Has(line'[n], T) <=> Has(line[n], T) \/ e \in T
               /\ Once(line[n], T) /\ (e \in T => ~Has(line[n], T)) => Once(line'[n], T)
    <3>1. /\ Has(Append(line[n], e), T) <=> Has(line[n], T) \/ e \in T
          /\ Once(line[n], T) /\ (e \in T => ~Has(line[n], T)) => Once(Append(line[n], e), T)
      BY <1>2, AppendHas, Zenon
    <3> QED
      BY <1>2, <3>1
  <2>2. Once(line[n], Asking)
    BY DEF CallInv, OneCall
  <2> QED
    BY <1>3, <2>1, <2>2
<1>8. ~Has(line'[n], Asking \ {e})
  <2>1. ~Has(line[n], Asking \ {e})
    BY <1>3, HasMore
  <2> QED
    BY <1>2, <2>1, AppendHas
<1>9. ~Has(rx[n], {"COMPLETE"})
  BY <1>3, HasMore DEF Replies
<1>10. OneCall(n)'
  BY <1>2, <1>3, <1>4, <1>6, <1>7 DEF CallInv, OneCall
<1>11. ItsCall(n)'
  BY <1>2, <1>3, <1>5, <1>6, <1>8, <1>9 DEF CallInv, ItsCall
<1>12. Coming(n)'
  BY <1>2, <1>4, <1>7 DEF Coming
<1> QED
  BY <1>10, <1>11, <1>12 DEF CallInv

(* Past a read or an await the device stands at neither.                   *)
LEMMA QuietKeeps ==
  ASSUME TypeInv, NEW n \in Node, CallInv(n), NEW p \in Nat, dev'[n] = p, Quiet(n, p),
         Once(rx[n], Replies)', ~Has(rx[n], Replies)', p = 0 => rx'[n] = <<>>,
         ~Has(line[n], Asking), ~Asked(n),
         UNCHANGED <<line, loop, request, told>>,
         Meeting \in past'[n] => told[Meeting] = Node
  PROVE  CallInv(n)'
<1>1. ~At(n, "read")' /\ ~At(n, "await")'
  BY DEF At, Running, Quiet
<1>2. ~Has(line[n], Asking)' /\ ~Asked(n)'
  BY DEF Asked
<1>3. OneCall(n)'
  BY <1>2 DEF CallInv, OneCall
<1>4. ItsCall(n)'
  BY <1>1 DEF ItsCall
<1>5. Coming(n)'
  BY <1>1 DEF Coming
<1> QED
  BY <1>3, <1>4, <1>5 DEF CallInv

LEMMA ReadSaveKeeps ==
  ASSUME TypeInv, NEW n \in Node, CallInv(n), Read(n) \/ Save(n)
  PROVE  CallInv(n)'
<1>1. /\ Running(n) /\ Script[n][dev[n]][1] \in {"read", "file", "sync"}
      /\ dev[n] \in DOMAIN Script[n] /\ dev[n] # 0 /\ dev[n] \in Nat /\ ~At(n, "await")
  BY Standing DEF Read, Save, At
<1>2. dev'[n] = dev[n] + 1 /\ UNCHANGED <<line, loop, request, told, past>>
  BY DEF Read, Save, Advance, TypeInv, wires
<1>3. ~Has(line[n], Asking) /\ ~Asked(n) /\ ~Has(rx[n], Replies) /\ Once(rx[n], Replies)
  BY <1>1 DEF CallInv, OneCall
<1>4. Once(rx[n], Replies)' /\ ~Has(rx[n], Replies)'
  <2>1. CASE rx'[n] = rx[n]
    BY <1>3, <2>1
  <2>2. CASE rx[n] # <<>> /\ rx'[n] = Tail(rx[n])
    BY <1>3, <2>2, TailHas DEF TypeInv
  <2> QED
    BY <2>1, <2>2 DEF Read, Save, TypeInv, wires
<1>5. Quiet(n, dev[n] + 1) /\ dev[n] + 1 \in Nat /\ dev[n] + 1 # 0
  BY <1>1, NextPosition DEF Silent
<1> QED
  BY <1>2, <1>3, <1>4, <1>5, QuietKeeps DEF CallInv, ItsCall

LEMMA CrashKeeps ==
  ASSUME TypeInv, NEW n \in Node, CallInv(n), Crash(n)
  PROVE  CallInv(n)'
<1>1. dev'[n] = 0 /\ rx'[n] = <<>> /\ UNCHANGED <<line, loop, request, told, past>>
  BY DEF Crash, TypeInv
<1>2. ~At(n, "read")' /\ ~At(n, "await")'
  BY <1>1, ScriptSteps DEF At, Running
<1>3. Once(rx[n], Replies)' /\ ~Has(rx[n], Replies)'
  BY <1>1, HasNothing
<1>4. OneCall(n)'
  BY <1>1, <1>3 DEF CallInv, OneCall, Asked
<1>5. ItsCall(n)'
  BY <1>1, <1>2 DEF CallInv, ItsCall
<1>6. Coming(n)'
  BY <1>2 DEF Coming
<1> QED
  BY <1>4, <1>5, <1>6 DEF CallInv

(* The sequence that expect, or the device, has taken the first line from. *)
LEMMA Taken ==
  ASSUME NEW S, NEW s \in Seq(S), s # <<>>, NEW t, t = Tail(s)
  PROVE  /\ Head(s) \in S
         /\ \A T : Has(s, T) <=> Head(s) \in T \/ Has(t, T)
         /\ \A T : Once(s, T) => Once(t, T) /\ (Head(s) \in T => ~Has(t, T))
<1>1. Head(s) \in S
  BY TailHas
<1>2. ASSUME NEW T
      PROVE  /\ Has(s, T) <=> Head(s) \in T \/ Has(Tail(s), T)
             /\ Once(s, T) => Once(Tail(s), T) /\ (Head(s) \in T => ~Has(Tail(s), T))
  BY TailHas, Zenon
<1> QED
  BY <1>1, <1>2

(* ... and the one that a line was sent to.                                *)
LEMMA Sent ==
  ASSUME NEW S, NEW s \in Seq(S), NEW e \in S, NEW t, t = Append(s, e)
  PROVE  /\ t # <<>>
         /\ \A T : Has(t, T) <=> Has(s, T) \/ e \in T
         /\ \A T : Once(s, T) /\ (e \in T => ~Has(s, T)) => Once(t, T)
<1>1. t # <<>>
  BY AppendHas
<1>2. ASSUME NEW T
      PROVE  /\ Has(Append(s, e), T) <=> Has(s, T) \/ e \in T
             /\ Once(s, T) /\ (e \in T => ~Has(s, T)) => Once(Append(s, e), T)
  BY AppendHas, Zenon
<1> QED
  BY <1>1, <1>2

(* A COMPLETE in the await of a SYNC of the meeting means that all met; in *)
(* the await of another call it is about another message.                  *)
LEMMA AwaitKeeps ==
  ASSUME TypeInv, NEW n \in Node, CallInv(n), Await(n)
  PROVE  CallInv(n)'
<1>1. /\ Running(n) /\ At(n, "await") /\ Script[n][dev[n]][1] = "await"
      /\ dev[n] \in DOMAIN Script[n] /\ dev[n] # 0 /\ dev[n] \in Nat
  BY Standing DEF Await, At
<1>2. /\ rx[n] \in Seq(Text) /\ rx[n] # <<>> /\ rx'[n] = Tail(rx[n])
      /\ UNCHANGED <<line, loop, request, told>>
  BY DEF Await, TypeInv
<1>3. /\ Head(rx[n]) \in Text
      /\ \A T : Has(rx[n], T) <=> Head(rx[n]) \in T \/ Has(rx'[n], T)
      /\ \A T : Once(rx[n], T) => Once(rx'[n], T) /\ (Head(rx[n]) \in T => ~Has(rx'[n], T))
  BY <1>2, Taken
<1>4. Once(rx[n], Replies)
  BY DEF CallInv, OneCall
<1>5. CASE Head(rx[n]) = "LAVA_ACK"
  <2>1. dev'[n] = dev[n] /\ past'[n] = past[n]
    BY <1>5 DEF Await
  <2>2. /\ Once(rx'[n], Replies)
        /\ Has(rx'[n], Replies) <=> Has(rx[n], Replies)
        /\ Has(rx'[n], {"COMPLETE"}) <=> Has(rx[n], {"COMPLETE"})
    BY <1>3, <1>4, <1>5 DEF Replies
  <2>3. At(n, "await")' /\ ~At(n, "read")' /\ Own(n)' = Own(n)
    BY <1>1, <2>1 DEF At, Running, Own
  <2>4. OneCall(n)'
    BY <1>1, <1>2, <1>4, <2>1, <2>2, <2>3 DEF CallInv, OneCall, Asked
  <2>5. ItsCall(n)'
    BY <1>1, <1>2, <2>1, <2>2, <2>3 DEF CallInv, ItsCall, Asked
  <2>6. Coming(n)'
    BY <1>1, <1>2, <2>2, <2>3 DEF CallInv, Coming, Asked
  <2> QED
    BY <2>4, <2>5, <2>6 DEF CallInv
<1>6. CASE Head(rx[n]) \in Replies
  <2>1. Has(rx[n], Replies) /\ ~Has(rx'[n], Replies) /\ Once(rx'[n], Replies)
    BY <1>3, <1>4, <1>6
  <2>2. ~Has(line[n], Asking) /\ ~Asked(n)
    BY <2>1 DEF CallInv, OneCall
  <2>3. CASE Head(rx[n]) = "COMPLETE"
    <3>1. dev'[n] = dev[n] + 1 /\ past'[n] = past[n] \cup {Script[n][dev[n]][2]}
      BY <2>3 DEF Await, Advance, TypeInv, Arg
    <3>2. Quiet(n, dev[n] + 1) /\ dev[n] + 1 \in Nat /\ dev[n] + 1 # 0
      BY <1>1, NextPosition DEF Silent
    <3>3. Script[n][dev[n]][2] = Meeting => told[Meeting] = Node
      <4> SUFFICES ASSUME Script[n][dev[n]][2] = Meeting PROVE told[Meeting] = Node
        OBVIOUS
      <4>1. /\ Own(n)[1] \in Answering /\ Own(n)[2] = Meeting
            /\ dev[n] - 1 \in DOMAIN Script[n]
        BY <1>1, ScriptSteps DEF WellFormed, Follows, Own
      <4>2. Own(n)[1] \notin {"WAIT", "LMP"}
        BY <4>1, MeetingAssumption DEF Args, Own
      <4>3. Own(n) \in Steps
        BY <4>1, ScriptSteps DEF Own
      <4>4. Own(n) = <<"SYNC", Meeting>>
        BY <4>1, <4>2, <4>3 DEF Answering, Steps
      <4>5. Has(rx[n], {"COMPLETE"})
        BY <1>3, <2>3
      <4> QED
        BY <1>1, <4>4, <4>5 DEF CallInv, ItsCall
    <3>4. Meeting \in past'[n] => told[Meeting] = Node
      BY <3>1, <3>3 DEF CallInv, ItsCall
    <3> QED
      BY <1>2, <2>1, <2>2, <3>1, <3>2, <3>4, QuietKeeps
  <2>4. CASE Head(rx[n]) = "COMPLETE nack"
    <3>1. AfterFailure(n) \in DOMAIN Script[n] /\ Quiet(n, AfterFailure(n))
      BY <1>1, AfterFailureQuiet
    <3>2. dev'[n] = AfterFailure(n) /\ past'[n] = past[n]
      BY <2>4 DEF Await, TypeInv
    <3>3. AfterFailure(n) \in Nat /\ AfterFailure(n) # 0
      <4>1. DOMAIN Script[n] = 1..Len(Script[n]) /\ Len(Script[n]) \in Nat
        BY ScriptSteps
      <4> QED
        BY <3>1, <4>1
    <3>4. Meeting \in past'[n] => told[Meeting] = Node
      BY <3>2 DEF CallInv, ItsCall
    <3> QED
      BY <1>2, <2>1, <2>2, <3>1, <3>2, <3>3, <3>4, QuietKeeps
  <2> QED
    BY <1>6, <2>3, <2>4 DEF Replies
<1> QED
  BY <1>3, <1>5, <1>6 DEF Text

----------------------------------------------------------------------------
(* The dispatcher.                                                         *)

(* What it sends is appended, unless the device has crashed.               *)
LEMMA Replied ==
  ASSUME TypeInv, NEW n \in Node, NEW text \in Text, Reply(n, text)
  PROVE  /\ dev[n] = 0 => rx'[n] = rx[n]
         /\ dev[n] # 0 => /\ rx'[n] # <<>>
                          /\ \A T : Has(rx'[n], T) <=> Has(rx[n], T) \/ text \in T
                          /\ \A T : Once(rx[n], T) /\ (text \in T => ~Has(rx[n], T)) => Once(rx'[n], T)
<1>1. rx[n] \in Seq(Text) /\ rx'[n] = IF dev[n] = 0 THEN rx[n] ELSE Append(rx[n], text)
  BY DEF Reply, TypeInv
<1> QED
  BY <1>1, Sent

(* A line that is no call is taken off; an acknowledgement may be sent.    *)
LEMMA SignalKeeps ==
  ASSUME TypeInv, NEW n \in Node, CallInv(n), Signal(n)
  PROVE  CallInv(n)'
<1>1. /\ line[n] \in Seq(Printed \X Word) /\ line[n] # <<>> /\ line'[n] = Tail(line[n])
      /\ Head(line[n])[1] \in Signals /\ loop[n] = "expect"
      /\ UNCHANGED <<dev, loop, request, told, past>>
  BY DEF Signal, Matches, TypeInv, device
<1>2. /\ Head(line[n]) \in Printed \X Word
      /\ \A T : Has(line[n], T) <=> Head(line[n]) \in T \/ Has(line'[n], T)
      /\ \A T : Once(line[n], T) => Once(line'[n], T)
  BY <1>1, Taken
<1>3. Head(line[n]) \in Signalling /\ Head(line[n]) \notin Asking
  BY <1>1, <1>2, PairIn, Distinct DEF Signalling
<1>4. /\ Has(line'[n], Asking) <=> Has(line[n], Asking)
      /\ Has(line'[n], Asking \ {Own(n)}) <=> Has(line[n], Asking \ {Own(n)})
  BY <1>2, <1>3
<1>5. /\ dev[n] = 0 => rx'[n] = rx[n]
      /\ dev[n] # 0 => /\ rx'[n] # <<>>
                       /\ \A T : Has(rx'[n], T) <=> Has(rx[n], T) \/ "LAVA_ACK" \in T
                       /\ \A T : Once(rx[n], T) /\ ("LAVA_ACK" \in T => ~Has(rx[n], T)) => Once(rx'[n], T)
  BY Replied DEF Signal, Text
<1>6. /\ Has(rx'[n], Replies) <=> Has(rx[n], Replies)
      /\ Has(rx'[n], {"COMPLETE"}) <=> Has(rx[n], {"COMPLETE"})
      /\ Once(rx[n], Replies) => Once(rx'[n], Replies)
  BY <1>5 DEF Replies
<1>7. /\ \A op : At(n, op)' <=> At(n, op)
      /\ Own(n)' = Own(n)
      /\ Asked(n)' <=> Asked(n)
      /\ \A op : At(n, op) => dev[n] # 0
  BY <1>1, Standing DEF At, Running, Own, Asked
<1>8. OneCall(n)'
  BY <1>1, <1>2, <1>4, <1>5, <1>6, <1>7 DEF CallInv, OneCall
<1>9. ItsCall(n)'
  BY <1>1, <1>4, <1>6, <1>7 DEF CallInv, ItsCall
<1>10. Coming(n)'
  BY <1>1, <1>4, <1>5, <1>6, <1>7 DEF CallInv, Coming
<1> QED
  BY <1>8, <1>9, <1>10 DEF CallInv

(* The call moves from the line to the dispatcher.                         *)
LEMMA CallKeeps ==
  ASSUME TypeInv, NEW n \in Node, CallInv(n), Call(n)
  PROVE  CallInv(n)'
<1>1. /\ line[n] \in Seq(Printed \X Word) /\ line[n] # <<>> /\ line'[n] = Tail(line[n])
      /\ Head(line[n])[1] \in Calls /\ loop[n] = "expect"
      /\ loop'[n] = "call" /\ request'[n] = Head(line[n])
      /\ UNCHANGED <<dev, rx, past>>
  BY DEF Call, Matches, TypeInv, device
<1>2. /\ Head(line[n]) \in Printed \X Word
      /\ \A T : Has(line[n], T) <=> Head(line[n]) \in T \/ Has(line'[n], T)
      /\ \A T : Once(line[n], T) => Once(line'[n], T) /\ (Head(line[n]) \in T => ~Has(line'[n], T))
  BY <1>1, Taken
<1>3. Head(line[n]) \notin Signalling
  BY <1>1, <1>2, PairIn, Distinct DEF Signalling
<1>4. told[Meeting] = Node => told'[Meeting] = Node
  BY ToldStays DEF NodeMoves, DispatcherStep
<1>5. /\ \A op : At(n, op)' <=> At(n, op)
      /\ Own(n)' = Own(n)
      /\ Asked(n)' <=> Head(line[n]) \in Asking
      /\ ~Asked(n)
      /\ \A op : At(n, op) => dev[n] # 0
  BY <1>1, Standing DEF At, Running, Own, Asked
<1>6. Once(line'[n], Asking)
  BY <1>2 DEF CallInv, OneCall
<1>7. Has(line'[n], Asking) => Has(line[n], Asking) /\ Head(line[n]) \notin Asking
  BY <1>2 DEF CallInv, OneCall
<1>8. OneCall(n)'
  <2>1. Head(line[n]) \in Asking => Has(line[n], Asking)
    BY <1>2
  <2> QED
    BY <1>1, <1>5, <1>6, <1>7, <2>1 DEF CallInv, OneCall
<1>9. ItsCall(n)'
  <2>1. At(n, "await") => ~Has(line'[n], Asking \ {Own(n)}) /\ Head(line[n]) \notin Asking \ {Own(n)}
    BY <1>2 DEF CallInv, ItsCall
  <2>2. At(n, "await") /\ Head(line[n]) \in Asking => request'[n] = Own(n)
    BY <1>1, <2>1
  <2> QED
    BY <1>1, <1>4, <1>5, <2>1, <2>2 DEF CallInv, ItsCall
<1>10. Coming(n)'
  <2>1. Has(line[n], Signalling) => Has(line'[n], Signalling)
    BY <1>2, <1>3
  <2>2. Has(line[n], Asking) => Has(line'[n], Asking) \/ Head(line[n]) \in Asking
    BY <1>2
  <2> QED
    BY <1>1, <1>5, <2>1, <2>2 DEF CallInv, Coming
<1> QED
  BY <1>8, <1>9, <1>10 DEF CallInv

(* ... and from there to the reply.                                        *)
LEMMA ReturnKeeps ==
  ASSUME TypeInv, NEW n \in Node, CallInv(n), Return(n)
  PROVE  CallInv(n)'
<1>1. /\ loop[n] = "call" /\ loop'[n] \in {"expect"} \cup Ends /\ request'[n] = <<>>
      /\ request[n] \in Calls \X Word
      /\ UNCHANGED <<dev, line, told, past>>
  BY DEF Return, Continue, End, Ends, TypeInv, device
<1>2. /\ \A op : At(n, op)' <=> At(n, op)
      /\ Own(n)' = Own(n)
      /\ ~Asked(n)'
      /\ \A op : At(n, op) => dev[n] # 0
  BY <1>1, Standing DEF At, Running, Own, Asked, Ends
<1>3. Asked(n) <=> request[n][1] \in Answering
  BY <1>1 DEF Asked, Asking
<1>4. CASE rx'[n] = rx[n] /\ (loop'[n] = "expect" => ~Asked(n) \/ dev[n] = 0)
  <2>1. OneCall(n)'
    BY <1>1, <1>2, <1>4 DEF CallInv, OneCall
  <2>2. ItsCall(n)'
    BY <1>1, <1>2, <1>4 DEF CallInv, ItsCall
  <2>3. Coming(n)'
    BY <1>1, <1>2, <1>4 DEF CallInv, Coming, Ends
  <2> QED
    BY <2>1, <2>2, <2>3 DEF CallInv
<1>5. ASSUME NEW text \in Replies, Reply(n, text), dev[n] # 0, Asked(n),
             text = "COMPLETE" /\ request[n] = <<"SYNC", Meeting>> => told[Meeting] = Node
      PROVE  CallInv(n)'
  <2>1. /\ rx'[n] # <<>>
        /\ \A T : Has(rx'[n], T) <=> Has(rx[n], T) \/ text \in T
        /\ \A T : Once(rx[n], T) /\ (text \in T => ~Has(rx[n], T)) => Once(rx'[n], T)
    BY <1>5, Replied DEF Text
  <2>2. /\ At(n, "await") /\ ~Has(line[n], Asking) /\ ~Has(rx[n], Replies)
        /\ request[n] = Own(n)
    BY <1>5 DEF CallInv, OneCall, ItsCall
  <2>3. Once(rx'[n], Replies) /\ Has(rx'[n], Replies)
    BY <1>5, <2>1, <2>2 DEF CallInv, OneCall
  <2>4. Has(rx'[n], {"COMPLETE"}) => text = "COMPLETE"
    <3>1. ~Has(rx[n], {"COMPLETE"})
      BY <2>2, HasMore DEF Replies
    <3> QED
      BY <2>1, <3>1
  <2>5. OneCall(n)'
    BY <1>1, <1>2, <1>5, <2>2, <2>3 DEF CallInv, OneCall
  <2>6. ItsCall(n)'
    BY <1>1, <1>2, <1>5, <2>2, <2>4 DEF CallInv, ItsCall
  <2>7. Coming(n)'
    BY <1>2, <2>1, <2>3 DEF Coming
  <2> QED
    BY <2>5, <2>6, <2>7 DEF CallInv
<1>6. ASSUME NEW text \in Replies, Reply(n, text), Asked(n),
             text = "COMPLETE" /\ request[n] = <<"SYNC", Meeting>> => told[Meeting] = Node
      PROVE  CallInv(n)'
  <2>1. dev[n] = 0 => rx'[n] = rx[n]
    BY <1>6, Replied DEF Text
  <2> QED
    BY <1>4, <1>5, <1>6, <2>1
<1>7. CASE request[n][1] \in {"SYNC", "WAIT"}
  <2>1. \/ Answered(request[n][1], request[n][2]) /\ Reply(n, "COMPLETE")
        \/ Reply(n, "COMPLETE nack")
        \/ loop'[n] = "stopped" /\ rx'[n] = rx[n]
    BY <1>7 DEF Return, End, TypeInv
  <2>2. Asked(n)
    BY <1>3, <1>7 DEF Answering
  <2>3. Answered(request[n][1], request[n][2]) /\ request[n] = <<"SYNC", Meeting>>
          => told[Meeting] = Node
    BY DEF Answered
  <2> QED
    BY <1>4, <1>6, <2>1, <2>2, <2>3 DEF Replies
<1>8. CASE request[n][1] = "SEND"
  <2>1. rx'[n] = rx[n] /\ ~Asked(n)
    BY <1>3, <1>8 DEF Return, Answering
  <2> QED
    BY <1>4, <2>1
<1>9. CASE request[n][1] = "LMP"
  <2>1. \/ Reply(n, "COMPLETE") \/ Reply(n, "COMPLETE nack")
        \/ loop'[n] = "stopped" /\ rx'[n] = rx[n]
    BY <1>9 DEF Return, End, TypeInv
  <2>2. Asked(n) /\ request[n] # <<"SYNC", Meeting>>
    BY <1>3, <1>9 DEF Answering
  <2> QED
    BY <1>4, <1>6, <2>1, <2>2 DEF Replies
<1> QED
  BY <1>1, <1>7, <1>8, <1>9 DEF Calls

(* What remains ends the loop, or comes after it.                          *)
LEMMA EndsKeep ==
  ASSUME TypeInv, NEW n \in Node, CallInv(n),
         Exit(n) \/ Dropped(n) \/ Timeout(n) \/ SignalRaises(n) \/ Bundle(n)
  PROVE  CallInv(n)'
<1>1. UNCHANGED <<dev, rx, request, told, past>>
  BY DEF Exit, Dropped, Timeout, SignalRaises, Bundle, device, wires
<1>2. /\ \A op : At(n, op)' <=> At(n, op)
      /\ Own(n)' = Own(n)
  BY <1>1 DEF At, Running, Own
<1>3. CASE Bundle(n)
  BY <1>1, <1>2, <1>3 DEF Bundle, wires, CallInv, OneCall, ItsCall, Coming, Asked
<1>4. CASE Exit(n) \/ Dropped(n) \/ Timeout(n) \/ SignalRaises(n)
  <2>1. loop[n] = "expect" /\ loop'[n] \in Ends
    BY <1>4 DEF Exit, Dropped, Timeout, SignalRaises, Matches, End, Ends, TypeInv
  <2>2. ~Asked(n)' /\ ~Asked(n)
    BY <2>1 DEF Asked, Ends
  <2>3. \/ line'[n] = line[n]
        \/ line[n] # <<>> /\ line[n] \in Seq(Printed \X Word) /\ line'[n] = Tail(line[n])
    BY <1>4 DEF Exit, Dropped, Timeout, SignalRaises, Matches, TypeInv, wires
  <2>4. /\ \A T : Has(line'[n], T) => Has(line[n], T)
        /\ \A T : Once(line[n], T) => Once(line'[n], T)
    BY <2>3, Taken
  <2>5. OneCall(n)'
    BY <1>1, <1>2, <2>2, <2>4 DEF CallInv, OneCall
  <2>6. ItsCall(n)'
    BY <1>1, <1>2, <2>2, <2>4 DEF CallInv, ItsCall
  <2>7. Coming(n)'
    BY <2>1 DEF Coming, Ends
  <2> QED
    BY <2>5, <2>6, <2>7 DEF CallInv
<1> QED
  BY <1>3, <1>4

----------------------------------------------------------------------------
(* The theorems.                                                           *)

LEMMA ShellInit == Init => ShellInv
<1> SUFFICES ASSUME Init, NEW n \in Node PROVE CallInv(n)
  BY TypeInit DEF ShellInv
<1>1. line[n] = <<>> /\ rx[n] = <<>> /\ request[n] = <<>> /\ past[n] = {} /\ dev[n] = 1
      /\ loop[n] = "expect"
  BY DEF Init
<1>2. ~At(n, "read") /\ ~At(n, "await") /\ ~Asked(n)
  <2>1. 1 \in DOMAIN Script[n] /\ WellFormed(Script[n]) /\ ~(1 > 1)
    BY ScriptSteps
  <2>2. Script[n][1][1] # "read" /\ Script[n][1][1] # "await"
    BY <2>1 DEF WellFormed, Follows
  <2> QED
    BY <1>1, <2>2 DEF At, Asked
<1> QED
  BY <1>1, <1>2, HasNothing DEF CallInv, OneCall, ItsCall, Coming

LEMMA ShellStep == ShellInv /\ [Next]_vars => ShellInv'
<1>1. ASSUME ShellInv, NEW n \in Node, NodeMoves(n) PROVE ShellInv'
  <2>1. TypeInv /\ \A m \in Node : CallInv(m)
    BY <1>1 DEF ShellInv
  <2>2. TypeInv'
    BY <1>1, <2>1, DeviceTypes, DispatcherTypes DEF NodeMoves
  <2>3. CallInv(n)'
    BY <1>1, <2>1, SayKeeps, ReadSaveKeeps, CrashKeeps, AwaitKeeps, SignalKeeps, CallKeeps,
       ReturnKeeps, EndsKeep DEF NodeMoves, DeviceStep, DispatcherStep
  <2>4. ASSUME NEW m \in Node, m # n PROVE CallInv(m)'
    BY <1>1, <2>1, <2>4, OthersAlike, ToldStays, AlikeKeeps
  <2>5. \A m \in Node : CallInv(m)'
    BY <2>3, <2>4
  <2> QED
    BY <2>2, <2>5 DEF ShellInv
<1>2. ASSUME ShellInv, UNCHANGED vars PROVE ShellInv'
  BY <1>2 DEF ShellInv, TypeInv, CallInv, OneCall, ItsCall, Coming, Asked, Own, At, Running,
              vars, device, wires, director
<1> QED
  BY <1>1, <1>2 DEF Next, NodeMoves

(* The account of the calls holds in every run, for every group and every  *)
(* script of run.sh and lava-test-runner: serial line, dispatcher and      *)
(* reply never hold two calls of one device between them.                  *)
THEOREM ShellInvariant == Spec => []ShellInv
<1> QED
  BY ShellInit, ShellStep, PTL DEF Spec

(* Positions, lines and replies are what TypeOK says, in every run.        *)
THEOREM ShellTypeCorrect == Spec => []TypeOK
<1>1. ShellInv => TypeOK
  <2> SUFFICES ASSUME TypeInv PROVE TypeOK
    BY DEF ShellInv
  <2>1. ASSUME NEW n \in Node, NEW i \in DOMAIN line[n] PROVE line[n][i][1] \in Printed
    <3>1. line[n] \in Seq(Printed \X Word)
      BY DEF TypeInv
    <3>2. line[n][i] \in Printed \X Word
      BY <3>1
    <3> QED
      BY <3>2
  <2>2. ASSUME NEW n \in Node, NEW i \in DOMAIN rx[n]
        PROVE  rx[n][i] \in {"LAVA_ACK", "COMPLETE", "COMPLETE nack"}
    <3>1. rx[n] \in Seq(Text)
      BY DEF TypeInv
    <3>2. rx[n][i] \in Text
      BY <3>1
    <3> QED
      BY <3>2 DEF Text, Replies
  <2> QED
    BY <2>1, <2>2 DEF TypeInv, TypeOK
<1> QED
  BY <1>1, ShellInvariant, PTL

(* A device that stands in a read or an await while its dispatcher follows *)
(* it has a line coming: no script of run.sh blocks for good.              *)
THEOREM NeverStuckHolds == Spec => []NeverStuck
<1>1. ShellInv => NeverStuck
  <2> SUFFICES ASSUME ShellInv, NEW n \in Node, loop[n] \in {"expect", "call"}
               PROVE  /\ At(n, "read") => rx[n] # <<>> \/ Pending(n, Signals)
                      /\ At(n, "await") =>
                           \/ loop[n] = "call" \/ Pending(n, Calls)
                           \/ \E i \in DOMAIN rx[n] : rx[n][i] # "LAVA_ACK"
    BY DEF NeverStuck
  <2>1. /\ At(n, "read") => rx[n] # <<>> \/ Has(line[n], Signalling)
        /\ At(n, "await") => Has(line[n], Asking) \/ Asked(n) \/ Has(rx[n], Replies)
    BY DEF ShellInv, CallInv, Coming
  <2>2. Has(line[n], Signalling) => Pending(n, Signals)
    BY DEF Has, Signalling, Pending
  <2>3. Has(line[n], Asking) => Pending(n, Calls)
    BY Distinct DEF Has, Asking, Pending
  <2>4. Has(rx[n], Replies) => \E i \in DOMAIN rx[n] : rx[n][i] # "LAVA_ACK"
    BY DEF Has, Replies
  <2> QED
    BY <2>1, <2>2, <2>3, <2>4 DEF Asked
<1> QED
  BY <1>1, ShellInvariant, PTL

(* lava-sync is a barrier, for any number of devices: a device passes a    *)
(* message when the others have asked for it, whatever acknowledgements,   *)
(* nacks and crashes are under way.                                        *)
THEOREM SyncBarrier == Spec => SyncIsBarrier
<1> DEFINE Passed == {m \in Node : Meeting \in past[m]}
<1>1. Init => Barrier!BarrierInit
  <2>1. Meeting \in Args("SYNC")
    BY MeetingAssumption
  <2> QED
    BY <2>1 DEF Init, Barrier!BarrierInit
<1>2. ShellInv /\ [Next]_vars =>
        [\E m \in Node : Barrier!Join(m) \/ Barrier!StartJob(m)]_(Barrier!barrierVars)
  <2> SUFFICES ASSUME ShellInv, [Next]_vars
               PROVE  \/ \E m \in Node : Barrier!Join(m) \/ Barrier!StartJob(m)
                      \/ told'[Meeting] = told[Meeting] /\ Passed' = Passed
    BY DEF Barrier!barrierVars
  <2>0. TypeInv
    BY DEF ShellInv
  <2>1. CASE UNCHANGED vars
    BY <2>1 DEF vars
  <2>2. ASSUME NEW n \in Node, Call(n)
        PROVE  \/ Barrier!Join(n)
               \/ told'[Meeting] = told[Meeting] /\ Passed' = Passed
    <3>1. told' = told \/ told' = [told EXCEPT ![Head(line[n])[2]] = @ \cup {n}]
      BY <2>2 DEF Call
    <3>2. told'[Meeting] \in {told[Meeting], told[Meeting] \cup {n}}
      BY <2>0, <3>1 DEF TypeInv
    <3>3. past' = past
      BY <2>2 DEF Call
    <3> QED
      BY <3>2, <3>3 DEF Barrier!Join
  <2>3. ASSUME NEW n \in Node, Await(n)
        PROVE  \/ Barrier!StartJob(n)
               \/ told'[Meeting] = told[Meeting] /\ Passed' = Passed
    <3>1. told' = told
      BY <2>3 DEF Await
    <3>2. CallInv(n)'
      BY <2>0, <2>3, AwaitKeeps DEF ShellInv
    <3>3. ASSUME NEW m \in Node, m # n PROVE past'[m] = past[m]
      BY <2>0, <2>3, <3>3, OthersAlike DEF NodeMoves, DeviceStep, Alike
    <3>4. past[n] \subseteq past'[n]
      <4>1. Head(rx[n]) \in {"LAVA_ACK", "COMPLETE", "COMPLETE nack"}
        <5>1. rx[n] \in Seq(Text) /\ rx[n] # <<>>
          BY <2>0, <2>3 DEF Await, TypeInv
        <5> QED
          BY <5>1, TailHas DEF Text, Replies
      <4>2. past' = past \/ past' = [past EXCEPT ![n] = @ \cup {Arg(n)}]
        BY <2>3, <4>1 DEF Await
      <4> QED
        BY <2>0, <4>2 DEF TypeInv
    <3>5. CASE Meeting \in past'[n]
      <4>1. told[Meeting] = Node
        BY <3>1, <3>2, <3>5 DEF CallInv, ItsCall
      <4>2. Passed' = Passed \cup {n}
        BY <3>3, <3>4, <3>5
      <4> QED
        BY <3>1, <4>1, <4>2 DEF Barrier!StartJob
    <3>6. CASE Meeting \notin past'[n]
      BY <3>1, <3>3, <3>4, <3>6
    <3> QED
      BY <3>5, <3>6
  <2>4. ASSUME NEW n \in Node, NodeMoves(n), ~Call(n), ~Await(n)
        PROVE  told' = told /\ past' = past
    BY <2>4 DEF NodeMoves, DeviceStep, DispatcherStep, Say, Read, Save, Crash, Signal, Return, Exit,
                Bundle, Dropped, Timeout, SignalRaises
  <2> QED
    BY <2>1, <2>2, <2>3, <2>4 DEF Next, NodeMoves
<1> QED
  BY <1>1, <1>2, ShellInvariant, PTL DEF Spec, SyncIsBarrier, Barrier!BarrierSpec

----------------------------------------------------------------------------
(* The reports: what is still to come from a device, what its dispatcher   *)
(* has recorded, and what is on the disk of the device.                    *)

SignalAt(n, i) == i \in DOMAIN Script[n] /\ Script[n][i][1] \in Signals
InLine(n, i) == SignalAt(n, i) /\ Has(line[n], {Script[n][i]})
Due(n, q) == InLine(n, q) \/ (dev[n] # 0 /\ q = dev[n])
Lines(n) == ToSet(Script[n])

ReportTypes ==
  /\ \A n \in Node : line[n] \in Seq(Lines(n))
  /\ \A n \in Node : runs[n] \in Seq([run : Word, results : Seq(Word)])
  /\ DOMAIN case = Node /\ DOMAIN measured = Node
  /\ \A n \in Node : \A r \in ToSet(runs[n]) : <<"STARTRUN", r.run>> \in Lines(n)
  /\ \A n \in Node : \A id \in Seen(n) : <<"TESTCASE", id>> \in Lines(n)

(* The line is in the order of the script, behind what was recorded and    *)
(* before the device, and no run is left out in between.                   *)
InOrder(n, s) ==
  \A a, b \in DOMAIN s : \A i, j \in DOMAIN Script[n] :
    a < b /\ s[a] = Script[n][i] /\ s[b] = Script[n][j] /\ SignalAt(n, i) /\ SignalAt(n, j) => i < j

RunAt(n, j) == Where(n, "STARTRUN", runs[n][j].run)
TrueRun(n, r) ==
  /\ Where(n, "STARTRUN", r.run) < Where(n, "ENDRUN", r.run)
  /\ \A i \in DOMAIN r.results :
       /\ Where(n, "STARTRUN", r.run) < Where(n, "TESTCASE", r.results[i])
       /\ Where(n, "TESTCASE", r.results[i]) < Where(n, "ENDRUN", r.run)
  /\ \A i, j \in DOMAIN r.results :
       i < j => Where(n, "TESTCASE", r.results[i]) < Where(n, "TESTCASE", r.results[j])

LineInv(n) ==
  /\ InOrder(n, line[n])
  /\ dev[n] # 0 => \A i \in DOMAIN Script[n] : InLine(n, i) => i < dev[n]
BeforeInv(n) ==
  \A q \in Nat : Due(n, q) =>
    /\ \A j \in DOMAIN runs[n] : RunAt(n, j) < q
    /\ \A id \in Seen(n) : Where(n, "TESTCASE", id) < q
Recorded(n, d) == \E j \in DOMAIN runs[n] : runs[n][j].run = d
NoRunLost(n) ==
  \A q \in Nat, k \in DOMAIN Script[n] :
    Due(n, q) /\ k < q /\ Script[n][k][1] = "STARTRUN" => InLine(n, k) \/ Recorded(n, Script[n][k][2])
TrueRuns(n) ==
  /\ \A j \in DOMAIN runs[n] : TrueRun(n, runs[n][j])
  /\ \A i, j \in DOMAIN runs[n] : i < j => RunAt(n, i) < RunAt(n, j)

RunInv(n) == LineInv(n) /\ BeforeInv(n) /\ NoRunLost(n) /\ TrueRuns(n)

(* What was said is in the files, and on the disk once the runner exits.   *)
Said(n, id) == id \in Seen(n) \/ Has(line[n], {<<"TESTCASE", id>>})
Exiting(n) == Has(line[n], {"EXIT"} \X Word) \/ loop[n] = "exited"
FileInv(n) ==
  /\ dev[n] # 0 => \A id : Said(n, id) => id \in files[n]
  /\ At(n, "TESTCASE") => Arg(n) \in files[n]
  /\ At(n, "EXIT") => \A id : Said(n, id) => id \in safe[n]
  /\ Exiting(n) => ~Running(n) /\ \A id : Said(n, id) => id \in safe[n]
  /\ bundle[n] # <<>> => loop[n] \in Ends
  /\ bundle[n] # <<>> /\ loop[n] = "exited" => Seen(n) \subseteq bundle[n][1]

(* A case with a command is reported after its ENDTC, and its ENDTC finds  *)
(* the case that its STARTTC set.                                          *)
Begun(n, k) ==
  InLine(n, k) \/ (case[n] = Script[n][k][2] /\ \A q \in DOMAIN Script[n] : InLine(n, q) => k < q)
Ended(n, id) ==
  id \in measured[n] \/ \E e \in DOMAIN Script[n] : Script[n][e] = <<"ENDTC", id>> /\ InLine(n, e)
CaseInv(n) ==
  /\ \A i \in DOMAIN Script[n] :
       Script[n][i][1] = "TESTCASE" /\ Script[n][i][2] \in Timed(n) =>
         (InLine(n, i) \/ (dev[n] + 2 >= i /\ dev[n] <= i /\ dev[n] # 0) => Ended(n, Script[n][i][2]))
  /\ \A k, e \in DOMAIN Script[n] :
       Script[n][k][1] = "STARTTC" /\ Script[n][e] = <<"ENDTC", Script[n][k][2]>> =>
         (InLine(n, e) \/ (k < dev[n] /\ dev[n] <= e) => Begun(n, k))
  /\ Seen(n) \cap Timed(n) \subseteq measured[n]

ReportInv == ReportTypes /\ \A n \in Node : RunInv(n) /\ FileInv(n) /\ CaseInv(n)

----------------------------------------------------------------------------
(* The script, once more: where a signal is, and what a failure skips.     *)

LEMMA WhereIs ==
  ASSUME NEW n \in Node, NEW i, SignalAt(n, i)
  PROVE  /\ \A j \in DOMAIN Script[n] : Script[n][j] = Script[n][i] => j = i
         /\ Where(n, Script[n][i][1], Script[n][i][2]) = i
         /\ Script[n][i] = <<Script[n][i][1], Script[n][i][2]>>
         /\ i \in Nat /\ i >= 1 /\ i <= Len(Script[n])
<1>1. /\ i \in DOMAIN Script[n] /\ Script[n][i][1] \in Signals
      /\ Script[n][i] \in Steps
      /\ i \in Nat /\ i >= 1 /\ i <= Len(Script[n])
  BY ScriptSteps DEF SignalAt
<1>2. \A j \in DOMAIN Script[n] : Script[n][j] = Script[n][i] => j = i
  BY <1>1, ReportAssumption DEF Reported
<1>3. Script[n][i] = <<Script[n][i][1], Script[n][i][2]>>
  BY <1>1 DEF Steps
<1>4. Where(n, Script[n][i][1], Script[n][i][2]) = i
  BY <1>1, <1>2, <1>3 DEF Where
<1> QED
  BY <1>1, <1>2, <1>3, <1>4

LEMMA WhereSignal ==
  ASSUME NEW n \in Node, NEW op \in Signals, NEW arg, <<op, arg>> \in Lines(n)
  PROVE  /\ SignalAt(n, Where(n, op, arg)) /\ Script[n][Where(n, op, arg)] = <<op, arg>>
         /\ Where(n, op, arg) \in Nat
<1>1. PICK i \in DOMAIN Script[n] : Script[n][i] = <<op, arg>>
  BY DEF Lines, ToSet
<1>2. SignalAt(n, i)
  BY <1>1 DEF SignalAt
<1> QED
  BY <1>1, <1>2, WhereIs

LEMMA FailureSkips ==
  ASSUME NEW n \in Node, dev[n] \in DOMAIN Script[n], Script[n][dev[n]][1] = "await"
  PROVE  /\ AfterFailure(n) \in DOMAIN Script[n] /\ AfterFailure(n) > dev[n]
         /\ Script[n][AfterFailure(n)][1] \in {"ENDTC", "STARTRUN", "sync"}
         /\ \A k \in dev[n] .. AfterFailure(n) - 1 : Script[n][k][1] \notin {"STARTRUN", "sync"}
         /\ Script[n][AfterFailure(n)][1] = "ENDTC" =>
              \A k \in dev[n] .. AfterFailure(n) - 1 : Script[n][k][1] # "STARTTC"
<1> DEFINE last == Len(Script[n])
<1> DEFINE near == Ahead(n, {"STARTTC", "ENDTC", "STARTRUN", "sync", "EXIT"})
<1> DEFINE far == Ahead(n, {"STARTRUN", "sync", "EXIT"})
<1>1. /\ DOMAIN Script[n] = 1..last /\ last \in Nat \ {0} /\ WellFormed(Script[n])
      /\ Reported(Script[n])
  BY ScriptSteps, ReportAssumption
<1>2. last \in DOMAIN Script[n] /\ Script[n][last][1] = "EXIT" /\ last > dev[n] /\ dev[n] \in Nat
  BY <1>1 DEF WellFormed
<1>3. /\ last - 1 \in DOMAIN Script[n] /\ Script[n][last - 1][1] = "sync" /\ last - 1 > dev[n]
      /\ \A i \in DOMAIN Script[n] : Script[n][i][1] = "EXIT" => i = last
  <2>1. last > 1 /\ Script[n][last - 1][1] = "sync"
    BY <1>1, <1>2 DEF Reported
  <2>2. \A i \in DOMAIN Script[n] : Script[n][i][1] = "EXIT" => i = last
    BY <1>1 DEF Reported
  <2> QED
    BY <1>1, <1>2, <2>1, <2>2
<1> HIDE DEF last
<1>4. /\ near \in DOMAIN Script[n] /\ near > dev[n]
      /\ Script[n][near][1] \in {"STARTTC", "ENDTC", "STARTRUN", "sync", "EXIT"}
      /\ \A k \in dev[n] + 1 .. near - 1 :
           Script[n][k][1] \notin {"STARTTC", "ENDTC", "STARTRUN", "sync", "EXIT"}
  BY <1>2, AheadExists
<1>5. /\ far \in DOMAIN Script[n] /\ far > dev[n]
      /\ Script[n][far][1] \in {"STARTRUN", "sync", "EXIT"}
      /\ \A k \in dev[n] + 1 .. far - 1 : Script[n][k][1] \notin {"STARTRUN", "sync", "EXIT"}
  BY <1>2, AheadExists
<1>6. AfterFailure(n) = IF Script[n][near][1] = "ENDTC" THEN near ELSE far
  BY DEF AfterFailure
<1> HIDE DEF near, far
<1>7. Script[n][far][1] # "EXIT"
  BY <1>1, <1>2, <1>3, <1>5
<1>8. CASE Script[n][near][1] = "ENDTC"
  BY <1>1, <1>2, <1>4, <1>6, <1>8
<1>9. CASE Script[n][near][1] # "ENDTC"
  BY <1>1, <1>2, <1>5, <1>6, <1>7, <1>9
<1> QED
  BY <1>8, <1>9

----------------------------------------------------------------------------
(* The line, when the device has said something ...                        *)

LEMMA HasOne == \A s, e : Has(s, {e}) <=> \E i \in DOMAIN s : s[i] = e
BY DEF Has

LEMMA LineSaid ==
  ASSUME NEW n \in Node, LineInv(n), line[n] \in Seq(Lines(n)),
         NEW p \in DOMAIN Script[n], dev[n] = p, line'[n] = Append(line[n], Script[n][p])
  PROVE  /\ line'[n] \in Seq(Lines(n)) /\ InOrder(n, line'[n])
         /\ \A T : Has(line'[n], T) <=> Has(line[n], T) \/ Script[n][p] \in T
         /\ \A i : InLine(n, i)' <=> InLine(n, i) \/ (i = p /\ SignalAt(n, p))
<1> DEFINE s == line[n]
           t == line'[n]
           e == Script[n][p]
<1>1. /\ s \in Seq(Lines(n)) /\ e \in Lines(n) /\ t = Append(s, e)
  BY DEF Lines, ToSet
<1>2. /\ t \in Seq(Lines(n)) /\ Len(s) \in Nat /\ DOMAIN s = 1..Len(s)
      /\ DOMAIN t = 1..(Len(s) + 1) /\ t[Len(s) + 1] = e
      /\ \A a \in 1..Len(s) : t[a] = s[a]
  BY <1>1
<1>3. \A T : Has(t, T) <=> Has(s, T) \/ e \in T
  <2>1. s \in Seq(Lines(n)) /\ e \in Lines(n)
    BY <1>1
  <2> HIDE DEF s, e
  <2>2. \A T : Has(Append(s, e), T) <=> Has(s, T) \/ e \in T
    BY <2>1, Sent
  <2> QED
    BY <1>1, <2>2
<1>4. InOrder(n, t)
  <2> SUFFICES ASSUME NEW a \in DOMAIN t, NEW b \in DOMAIN t, NEW i \in DOMAIN Script[n],
                      NEW j \in DOMAIN Script[n], a < b, t[a] = Script[n][i], t[b] = Script[n][j],
                      SignalAt(n, i), SignalAt(n, j)
               PROVE  i < j
    BY DEF InOrder
  <2>1. a \in DOMAIN s /\ s[a] = Script[n][i]
    BY <1>2
  <2>2. CASE b \in DOMAIN s
    BY <1>2, <2>1, <2>2 DEF LineInv, InOrder
  <2>3. CASE b \notin DOMAIN s
    <3>1. Script[n][j] = e
      BY <1>2, <2>3
    <3>2. p = j
      BY <3>1, WhereIs
    <3>3. InLine(n, i)
      BY <2>1, HasOne DEF InLine
    <3>4. dev[n] # 0
      BY ScriptSteps
    <3> QED
      BY <3>2, <3>3, <3>4 DEF LineInv
  <2> QED
    BY <2>2, <2>3
<1>5. ASSUME NEW i PROVE InLine(n, i)' <=> InLine(n, i) \/ (i = p /\ SignalAt(n, p))
  <2>1. SignalAt(n, i) => (Has(t, {Script[n][i]}) <=> Has(s, {Script[n][i]}) \/ e = Script[n][i])
    BY <1>3
  <2>2. SignalAt(n, i) /\ e = Script[n][i] => p = i
    BY WhereIs
  <2>3. InLine(n, i)' <=> SignalAt(n, i) /\ Has(t, {Script[n][i]})
    BY DEF InLine, SignalAt
  <2> QED
    BY <2>1, <2>2, <2>3 DEF InLine
<1> QED
  BY <1>2, <1>3, <1>4, <1>5

(* ... and when the dispatcher has taken its first line.                   *)
LEMMA LineTaken ==
  ASSUME NEW n \in Node, InOrder(n, line[n]), line[n] \in Seq(Lines(n)), line[n] # <<>>,
         line'[n] = Tail(line[n])
  PROVE  /\ line'[n] \in Seq(Lines(n)) /\ InOrder(n, line'[n])
         /\ \A T : Has(line[n], T) <=> Head(line[n]) \in T \/ Has(line'[n], T)
         /\ \A i : InLine(n, i)' => InLine(n, i)
         /\ \E h \in DOMAIN Script[n] :
              /\ Head(line[n]) = Script[n][h]
              /\ SignalAt(n, h) => InLine(n, h)
              /\ \A i : InLine(n, i) => InLine(n, i)' \/ (i = h /\ SignalAt(n, h))
              /\ SignalAt(n, h) => \A i : InLine(n, i)' => h < i
<1> DEFINE s == line[n]
           t == line'[n]
<1>1. /\ t = Tail(s) /\ t \in Seq(Lines(n)) /\ Len(s) \in Nat /\ Len(s) >= 1
      /\ DOMAIN s = 1..Len(s) /\ DOMAIN t = 1..(Len(s) - 1)
      /\ \A a \in 1..(Len(s) - 1) : t[a] = s[a + 1]
      /\ Head(s) = s[1] /\ Head(s) \in Lines(n)
  OBVIOUS
<1>2. \A T : Has(s, T) <=> Head(s) \in T \/ Has(t, T)
  BY Taken
<1>3. PICK h \in DOMAIN Script[n] : Head(s) = Script[n][h]
  BY <1>1 DEF Lines, ToSet
<1>4. InOrder(n, t)
  <2> SUFFICES ASSUME NEW a \in DOMAIN t, NEW b \in DOMAIN t, NEW i \in DOMAIN Script[n],
                      NEW j \in DOMAIN Script[n], a < b, t[a] = Script[n][i], t[b] = Script[n][j],
                      SignalAt(n, i), SignalAt(n, j)
               PROVE  i < j
    BY DEF InOrder
  <2>1. a + 1 \in DOMAIN s /\ b + 1 \in DOMAIN s /\ a + 1 < b + 1
        /\ s[a + 1] = Script[n][i] /\ s[b + 1] = Script[n][j]
    BY <1>1
  <2> QED
    BY <2>1 DEF InOrder
<1>5. ASSUME NEW i PROVE InLine(n, i)' <=> SignalAt(n, i) /\ Has(t, {Script[n][i]})
  BY DEF InLine, SignalAt
<1>6. \A i : InLine(n, i)' => InLine(n, i)
  BY <1>2, <1>5 DEF InLine
<1>7. ASSUME NEW i, InLine(n, i), ~InLine(n, i)' PROVE i = h /\ SignalAt(n, h)
  <2>1. SignalAt(n, i) /\ Head(s) = Script[n][i]
    BY <1>2, <1>5, <1>7 DEF InLine
  <2> QED
    BY <1>3, <2>1, WhereIs
<1>8. SignalAt(n, h) => InLine(n, h)
  BY <1>2, <1>3 DEF InLine
<1>9. ASSUME SignalAt(n, h), NEW i, InLine(n, i)' PROVE h < i
  <2>1. SignalAt(n, i) /\ Has(t, {Script[n][i]})
    BY <1>5, <1>9
  <2>2. PICK a \in DOMAIN t : t[a] = Script[n][i]
    BY <2>1, HasOne
  <2>3. a + 1 \in DOMAIN s /\ 1 \in DOMAIN s /\ 1 < a + 1 /\ s[a + 1] = Script[n][i] /\ s[1] = Script[n][h]
    BY <1>1, <1>3, <2>2
  <2> QED
    BY <1>9, <2>1, <2>3 DEF InOrder, SignalAt
<1> QED
  BY <1>1, <1>2, <1>3, <1>4, <1>6, <1>7, <1>8, <1>9

----------------------------------------------------------------------------
(* The order of the reports, as the device goes on.                        *)

LEMMA SameRuns ==
  ASSUME NEW n \in Node, runs'[n] = runs[n]
  PROVE  /\ Seen(n)' = Seen(n)
         /\ \A d : Recorded(n, d)' <=> Recorded(n, d)
         /\ TrueRuns(n) => TrueRuns(n)'
         /\ \A j : RunAt(n, j)' = RunAt(n, j)
BY DEF Seen, Recorded, TrueRuns, RunAt

LEMMA RecordPlaces ==
  ASSUME ReportTypes, NEW n \in Node
  PROVE  /\ \A j \in DOMAIN runs[n] :
              /\ RunAt(n, j) \in Nat /\ SignalAt(n, RunAt(n, j))
              /\ Script[n][RunAt(n, j)] = <<"STARTRUN", runs[n][j].run>>
         /\ \A id \in Seen(n) :
              /\ Where(n, "TESTCASE", id) \in Nat /\ SignalAt(n, Where(n, "TESTCASE", id))
              /\ Script[n][Where(n, "TESTCASE", id)] = <<"TESTCASE", id>>
<1>1. "STARTRUN" \in Signals /\ "TESTCASE" \in Signals
  BY DEF Signals
<1>2. ASSUME NEW j \in DOMAIN runs[n] PROVE <<"STARTRUN", runs[n][j].run>> \in Lines(n)
  BY DEF ReportTypes, ToSet
<1>3. ASSUME NEW id \in Seen(n) PROVE <<"TESTCASE", id>> \in Lines(n)
  BY DEF ReportTypes
<1> QED
  BY <1>1, <1>2, <1>3, WhereSignal DEF RunAt

LEMMA SameLine ==
  ASSUME NEW n \in Node, line'[n] = line[n]
  PROVE  \A i : InLine(n, i)' <=> InLine(n, i)
BY DEF InLine, SignalAt

(* It goes on without a word, past no STARTRUN, or is lost.                *)
LEMMA SilentRuns ==
  ASSUME TypeInv, ReportTypes, NEW n \in Node, RunInv(n),
         line'[n] = line[n], runs'[n] = runs[n], dev'[n] \in Nat,
         \/ dev'[n] = 0
         \/ /\ dev[n] # 0 /\ dev'[n] >= dev[n]
            /\ \A k \in DOMAIN Script[n] :
                 dev[n] <= k /\ k < dev'[n] => Script[n][k][1] # "STARTRUN"
  PROVE  RunInv(n)'
<1>0. dev[n] \in Nat /\ DOMAIN Script[n] \subseteq Nat
  BY ScriptSteps DEF TypeInv
<1>1. /\ Seen(n)' = Seen(n)
      /\ \A d : Recorded(n, d)' <=> Recorded(n, d)
      /\ TrueRuns(n)'
      /\ \A j : RunAt(n, j)' = RunAt(n, j)
  BY SameRuns DEF RunInv
<1>2. \A i : InLine(n, i)' <=> InLine(n, i)
  BY SameLine
<1>3. LineInv(n)'
  <2>1. InOrder(n, line[n])'
    BY DEF RunInv, LineInv, InOrder, SignalAt
  <2>2. ASSUME dev'[n] # 0, NEW i \in DOMAIN Script[n], InLine(n, i)' PROVE i < dev'[n]
    BY <1>0, <1>2, <2>2 DEF RunInv, LineInv
  <2> QED
    BY <2>1, <2>2 DEF LineInv
<1>4. ASSUME NEW q \in Nat, Due(n, q)'
      PROVE  \E p \in Nat : /\ Due(n, p) /\ p <= q
                            /\ \A k \in DOMAIN Script[n] :
                                 p <= k /\ k < q => Script[n][k][1] # "STARTRUN"
  <2>1. CASE InLine(n, q)'
    BY <1>0, <1>2, <2>1 DEF Due
  <2>2. CASE dev'[n] # 0 /\ q = dev'[n]
    BY <1>0, <2>2 DEF Due
  <2> QED
    BY <1>4, <2>1, <2>2 DEF Due
<1>5. BeforeInv(n)'
  <2> SUFFICES ASSUME NEW q \in Nat, Due(n, q)'
               PROVE  /\ \A j \in DOMAIN runs'[n] : RunAt(n, j)' < q
                      /\ \A id \in Seen(n)' : Where(n, "TESTCASE", id) < q
    BY DEF BeforeInv
  <2>1. PICK p \in Nat : Due(n, p) /\ p <= q
    BY <1>4
  <2>2. /\ \A j \in DOMAIN runs[n] : RunAt(n, j) < p
        /\ \A id \in Seen(n) : Where(n, "TESTCASE", id) < p
    BY <2>1 DEF RunInv, BeforeInv
  <2>3. \A x \in Nat : x < p => x < q
    BY <2>1
  <2>4. /\ \A j \in DOMAIN runs[n] : RunAt(n, j) < q
        /\ \A id \in Seen(n) : Where(n, "TESTCASE", id) < q
    BY <2>2, <2>3, RecordPlaces
  <2> QED
    BY <1>1, <2>4
<1>6. NoRunLost(n)'
  <2> SUFFICES ASSUME NEW q \in Nat, NEW k \in DOMAIN Script[n], Due(n, q)', k < q,
                      Script[n][k][1] = "STARTRUN"
               PROVE  InLine(n, k)' \/ Recorded(n, Script[n][k][2])'
    BY DEF NoRunLost
  <2>1. PICK p \in Nat : /\ Due(n, p) /\ p <= q
                         /\ \A l \in DOMAIN Script[n] :
                              p <= l /\ l < q => Script[n][l][1] # "STARTRUN"
    BY <1>4
  <2>2. k < p
    BY <1>0, <2>1
  <2> QED
    BY <1>1, <1>2, <2>1, <2>2 DEF RunInv, NoRunLost
<1> QED
  BY <1>1, <1>3, <1>5, <1>6 DEF RunInv

(* It says something.                                                      *)
LEMMA SaidRuns ==
  ASSUME TypeInv, ReportTypes, NEW n \in Node, RunInv(n), Say(n)
  PROVE  RunInv(n)'
<1> DEFINE p == dev[n]
<1>1. /\ p \in DOMAIN Script[n] /\ p \in Nat /\ p # 0 /\ DOMAIN Script[n] \subseteq Nat
      /\ dev'[n] = p + 1 /\ runs' = runs
      /\ line'[n] = Append(line[n], Script[n][p]) /\ line[n] \in Seq(Lines(n))
  BY ScriptSteps DEF Say, Running, Advance, TypeInv, ReportTypes
<1> HIDE DEF p
<1>2. /\ Seen(n)' = Seen(n)
      /\ \A d : Recorded(n, d)' <=> Recorded(n, d)
      /\ TrueRuns(n)'
      /\ \A j : RunAt(n, j)' = RunAt(n, j)
  BY <1>1, SameRuns DEF RunInv
<1>3. /\ InOrder(n, line'[n])
      /\ \A i : InLine(n, i)' <=> InLine(n, i) \/ (i = p /\ SignalAt(n, p))
  BY <1>1, LineSaid DEF p, RunInv
<1>4. /\ \A i \in DOMAIN Script[n] : InLine(n, i) => i < p
      /\ Due(n, p)
  BY <1>1 DEF p, RunInv, LineInv, Due
<1>5. LineInv(n)'
  <2>1. InOrder(n, line[n])'
    BY <1>3 DEF InOrder, SignalAt
  <2>2. ASSUME NEW i \in DOMAIN Script[n], InLine(n, i)' PROVE i < dev'[n]
    BY <1>1, <1>3, <1>4, <2>2
  <2> QED
    BY <2>1, <2>2 DEF LineInv
<1>6. \A q : Due(n, q)' => InLine(n, q) \/ q = p \/ q = p + 1
  BY <1>1, <1>3 DEF Due
<1>7. BeforeInv(n)'
  <2> SUFFICES ASSUME NEW q \in Nat, Due(n, q)'
               PROVE  /\ \A j \in DOMAIN runs'[n] : RunAt(n, j)' < q
                      /\ \A id \in Seen(n)' : Where(n, "TESTCASE", id) < q
    BY DEF BeforeInv
  <2>1. CASE InLine(n, q)
    BY <1>1, <1>2, <2>1 DEF RunInv, BeforeInv, Due
  <2>2. CASE q = p \/ q = p + 1
    <3>1. /\ \A j \in DOMAIN runs[n] : RunAt(n, j) < p
          /\ \A id \in Seen(n) : Where(n, "TESTCASE", id) < p
      BY <1>1, <1>4 DEF RunInv, BeforeInv
    <3>2. \A x \in Nat : x < p => x < q
      BY <1>1, <2>2
    <3>3. /\ \A j \in DOMAIN runs[n] : RunAt(n, j) < q
          /\ \A id \in Seen(n) : Where(n, "TESTCASE", id) < q
      BY <3>1, <3>2, RecordPlaces
    <3> QED
      BY <1>1, <1>2, <3>3
  <2> QED
    BY <1>6, <2>1, <2>2
<1>8. NoRunLost(n)'
  <2> SUFFICES ASSUME NEW q \in Nat, NEW k \in DOMAIN Script[n], Due(n, q)', k < q,
                      Script[n][k][1] = "STARTRUN"
               PROVE  InLine(n, k)' \/ Recorded(n, Script[n][k][2])'
    BY DEF NoRunLost
  <2>1. CASE InLine(n, q)
    BY <1>2, <1>3, <2>1 DEF RunInv, NoRunLost, Due
  <2>2. CASE k = p
    BY <1>3, <2>2 DEF SignalAt, Signals
  <2>3. CASE k < p
    BY <1>1, <1>2, <1>3, <1>4, <2>3 DEF RunInv, NoRunLost
  <2>4. \/ InLine(n, q) \/ k = p \/ k < p
    BY <1>1, <1>6
  <2> QED
    BY <2>1, <2>2, <2>3, <2>4
<1> QED
  BY <1>2, <1>5, <1>7, <1>8 DEF RunInv

(* Whatever the device does.                                               *)
LEMMA SilentMoves ==
  ASSUME TypeInv, NEW n \in Node, Read(n) \/ Await(n) \/ Save(n) \/ Crash(n)
  PROVE  /\ line' = line /\ dev'[n] \in Nat /\ dev[n] # 0
         /\ \/ dev'[n] = 0
            \/ dev'[n] = dev[n]
            \/ dev'[n] = dev[n] + 1 /\ dev[n] \in DOMAIN Script[n] /\ Script[n][dev[n]][1] \in Silent
            \/ /\ dev'[n] = AfterFailure(n)
               /\ dev[n] \in DOMAIN Script[n] /\ Script[n][dev[n]][1] = "await"
<1>1. CASE Read(n) \/ Save(n)
  <2>1. /\ line' = line /\ dev'[n] = dev[n] + 1
        /\ \E op \in {"read", "file", "sync"} : At(n, op)
    BY <1>1 DEF Read, Save, Advance, TypeInv, wires
  <2> QED
    BY <2>1, Standing DEF At, Silent
<1>2. CASE Await(n)
  <2>1. dev[n] \in DOMAIN Script[n] /\ Script[n][dev[n]][1] = "await" /\ dev[n] \in Nat /\ dev[n] # 0
    BY <1>2, Standing DEF Await, At
  <2>2. Head(rx[n]) \in {"LAVA_ACK", "COMPLETE", "COMPLETE nack"}
    <3>1. rx[n] \in Seq(Text) /\ rx[n] # <<>>
      BY <1>2 DEF Await, TypeInv
    <3> QED
      BY <3>1, TailHas DEF Text, Replies
  <2>3. dev' \in {dev, [dev EXCEPT ![n] = @ + 1], [dev EXCEPT ![n] = AfterFailure(n)]}
    BY <1>2, <2>2 DEF Await, Advance
  <2>4. dev'[n] \in {dev[n], dev[n] + 1, AfterFailure(n)}
    BY <2>3 DEF TypeInv
  <2>5. AfterFailure(n) \in Nat
    BY <2>1, FailureSkips, ScriptSteps
  <2>6. line' = line
    BY <1>2 DEF Await
  <2>7. dev[n] + 1 \in Nat /\ "await" \in Silent
    BY <2>1 DEF Silent
  <2> QED
    BY <2>1, <2>4, <2>5, <2>6, <2>7
<1>3. CASE Crash(n)
  BY <1>3 DEF Crash, TypeInv
<1> QED
  BY <1>1, <1>2, <1>3

LEMMA DeviceRuns ==
  ASSUME TypeInv, ReportTypes, NEW n \in Node, RunInv(n), DeviceStep(n) \/ Crash(n)
  PROVE  RunInv(n)'
<1>1. CASE Say(n)
  BY <1>1, SaidRuns
<1>2. CASE Read(n) \/ Await(n) \/ Save(n) \/ Crash(n)
  <2>1. runs' = runs
    BY <1>2 DEF Read, Await, Save, Crash
  <2>2. DOMAIN Script[n] \subseteq Nat /\ dev[n] \in Nat
    BY ScriptSteps DEF TypeInv
  <2>3. \/ dev'[n] = 0
        \/ /\ dev[n] # 0 /\ dev'[n] >= dev[n]
           /\ \A k \in DOMAIN Script[n] :
                dev[n] <= k /\ k < dev'[n] => Script[n][k][1] # "STARTRUN"
    <3>1. CASE dev'[n] = dev[n]
      BY <1>2, <2>2, <3>1, SilentMoves
    <3>2. CASE dev'[n] = dev[n] + 1 /\ dev[n] \in DOMAIN Script[n] /\ Script[n][dev[n]][1] \in Silent
      <4>1. Script[n][dev[n]][1] # "STARTRUN"
        BY <3>2 DEF Silent
      <4>2. \A k \in DOMAIN Script[n] : dev[n] <= k /\ k < dev'[n] => k = dev[n]
        BY <2>2, <3>2
      <4> QED
        BY <1>2, <2>2, <3>2, <4>1, <4>2, SilentMoves
    <3>3. CASE /\ dev'[n] = AfterFailure(n)
               /\ dev[n] \in DOMAIN Script[n] /\ Script[n][dev[n]][1] = "await"
      <4>1. AfterFailure(n) \in Nat /\ AfterFailure(n) > dev[n]
            /\ \A k \in dev[n] .. AfterFailure(n) - 1 : Script[n][k][1] # "STARTRUN"
        BY <2>2, <3>3, FailureSkips
      <4> QED
        BY <1>2, <2>2, <3>3, <4>1, SilentMoves
    <3> QED
      BY <1>2, <3>1, <3>2, <3>3, SilentMoves
  <2> QED
    BY <1>2, <2>1, <2>3, SilentMoves, SilentRuns
<1> QED
  BY <1>1, <1>2 DEF DeviceStep

----------------------------------------------------------------------------
(* The order of the reports, as the dispatcher takes them.                 *)

(* h is the place of the signal that was taken.                            *)
Takes(n, h) ==
  /\ SignalAt(n, h) /\ InLine(n, h) /\ Head(line[n]) = Script[n][h]
  /\ \A i : InLine(n, i)' => InLine(n, i) /\ h < i
  /\ \A i : InLine(n, i) => InLine(n, i)' \/ i = h

LEMMA SignalTakes ==
  ASSUME TypeInv, ReportTypes, NEW n \in Node, RunInv(n), Signal(n)
  PROVE  /\ dev' = dev /\ InOrder(n, line'[n]) /\ line'[n] \in Seq(Lines(n))
         /\ \E h \in DOMAIN Script[n] : Takes(n, h)
         /\ \A T : Has(line[n], T) <=> Head(line[n]) \in T \/ Has(line'[n], T)
<1>1. /\ line[n] # <<>> /\ line[n] \in Seq(Lines(n)) /\ line'[n] = Tail(line[n])
      /\ Head(line[n])[1] \in Signals /\ dev' = dev
  BY DEF Signal, Matches, TypeInv, ReportTypes, device
<1>2. InOrder(n, line[n])
  BY DEF RunInv, LineInv
<1>3. PICK h \in DOMAIN Script[n] :
              /\ Head(line[n]) = Script[n][h]
              /\ SignalAt(n, h) => InLine(n, h)
              /\ \A i : InLine(n, i) => InLine(n, i)' \/ (i = h /\ SignalAt(n, h))
              /\ SignalAt(n, h) => \A i : InLine(n, i)' => h < i
  BY <1>1, <1>2, LineTaken
<1>4. SignalAt(n, h)
  BY <1>1, <1>3 DEF SignalAt
<1>5. \A i : InLine(n, i)' => InLine(n, i)
  BY <1>1, <1>2, LineTaken
<1>6. Takes(n, h)
  BY <1>3, <1>4, <1>5 DEF Takes
<1>7. /\ InOrder(n, line'[n]) /\ line'[n] \in Seq(Lines(n))
      /\ \A T : Has(line[n], T) <=> Head(line[n]) \in T \/ Has(line'[n], T)
  BY <1>1, <1>2, LineTaken
<1> QED
  BY <1>1, <1>6, <1>7

(* A result belongs to the run that was recorded last.                     *)
LEMMA LastRun ==
  ASSUME ReportTypes, NEW n \in Node, RunInv(n), NEW h, Takes(n, h), Script[n][h][1] = "TESTCASE"
  PROVE  /\ Len(runs[n]) \in DOMAIN runs[n]
         /\ RunAt(n, Len(runs[n])) < h
         /\ h < Where(n, "ENDRUN", runs[n][Len(runs[n])].run)
<1>1. h \in DOMAIN Script[n] /\ h \in Nat /\ InLine(n, h) /\ Due(n, h) /\ DOMAIN Script[n] \subseteq Nat
  BY ScriptSteps DEF Takes, SignalAt, Due
<1>2. PICK k \in DOMAIN Script[n], l \in DOMAIN Script[n] :
        /\ k <= h /\ h < l
        /\ Script[n][k][1] = "STARTRUN" /\ Script[n][l] = <<"ENDRUN", Script[n][k][2]>>
        /\ Without(Script[n], k + 1, h, {"STARTRUN"})
  BY <1>1, ReportAssumption DEF Reported
<1>3. k < h
  BY <1>1, <1>2
<1>4. ~InLine(n, k)
  <2>1. InLine(n, k) => h < k \/ k = h
    BY DEF Takes
  <2> QED
    BY <1>1, <1>3, <2>1
<1>5. Recorded(n, Script[n][k][2])
  BY <1>1, <1>2, <1>3, <1>4 DEF RunInv, NoRunLost
<1>6. PICK j \in DOMAIN runs[n] : runs[n][j].run = Script[n][k][2]
  BY <1>5 DEF Recorded
<1>7. SignalAt(n, k) /\ SignalAt(n, l)
  BY <1>2 DEF SignalAt, Signals
<1>8. RunAt(n, j) = k
  BY <1>2, <1>6, <1>7, WhereIs DEF RunAt
<1> DEFINE last == Len(runs[n])
<1>9. last \in DOMAIN runs[n] /\ DOMAIN runs[n] = 1..last /\ last \in Nat
  <2>1. runs[n] \in Seq([run : Word, results : Seq(Word)])
    BY DEF ReportTypes
  <2> QED
    BY <1>6, <2>1
<1> HIDE DEF last
<1>10. j = last \/ j < last
  BY <1>9
<1>11. k <= RunAt(n, last)
  BY <1>1, <1>8, <1>9, <1>10, RecordPlaces DEF RunInv, TrueRuns
<1>12. RunAt(n, last) < h
  BY <1>1, <1>9 DEF RunInv, BeforeInv
<1>13. RunAt(n, last) \in DOMAIN Script[n] /\ Script[n][RunAt(n, last)] = <<"STARTRUN", runs[n][last].run>>
  BY <1>9, RecordPlaces DEF SignalAt
<1>14. RunAt(n, last) = k
  BY <1>1, <1>2, <1>11, <1>12, <1>13 DEF Without
<1>15. runs[n][last].run = Script[n][k][2]
  BY <1>13, <1>14
<1>16. Where(n, "ENDRUN", runs[n][last].run) = l
  BY <1>2, <1>7, <1>15, WhereIs
<1> QED
  BY <1>2, <1>9, <1>12, <1>16 DEF last

RunRecord == [run : Word, results : Seq(Word)]
InLast(rs, id) == [rs EXCEPT ![Len(rs)].results = Append(@, id)]

LEMMA SignalRecords ==
  ASSUME TypeInv, ReportTypes, NEW n \in Node, Signal(n), NEW h, Takes(n, h)
  PROVE  /\ Script[n][h] = <<Script[n][h][1], Script[n][h][2]>> /\ Script[n][h][2] \in Word
         /\ Script[n][h][1] = "STARTRUN" =>
              runs'[n] = Append(runs[n], [run |-> Script[n][h][2], results |-> <<>>])
         /\ Script[n][h][1] = "TESTCASE" =>
              runs'[n] = InLast(runs[n], Script[n][h][2])
         /\ Script[n][h][1] \notin {"STARTRUN", "TESTCASE"} => runs'[n] = runs[n]
         /\ runs[n] \in Seq(RunRecord)
<1>1. /\ Script[n][h] = <<Script[n][h][1], Script[n][h][2]>> /\ Script[n][h][2] \in Word
      /\ Head(line[n]) = Script[n][h]
  BY ScriptSteps DEF Takes, SignalAt, Steps
<1>2. /\ Script[n][h][1] = "STARTRUN" => TestRun(n, Script[n][h][2])
      /\ Script[n][h][1] = "TESTCASE" => Result(n, Script[n][h][2])
      /\ Script[n][h][1] \notin {"STARTRUN", "TESTCASE"} => runs' = runs
  BY <1>1 DEF Signal
<1>3. DOMAIN runs = Node /\ runs[n] \in Seq(RunRecord)
  BY DEF TypeInv, ReportTypes, RunRecord
<1> QED
  BY <1>1, <1>2, <1>3 DEF TestRun, Result, InLast

(* A run more.                                                             *)
LEMMA RunAppended ==
  ASSUME NEW n \in Node, runs[n] \in Seq(RunRecord), NEW d \in Word,
         runs'[n] = Append(runs[n], [run |-> d, results |-> <<>>])
  PROVE  /\ runs'[n] \in Seq(RunRecord)
         /\ DOMAIN runs'[n] = DOMAIN runs[n] \cup {Len(runs[n]) + 1}
         /\ DOMAIN runs[n] = 1..Len(runs[n]) /\ Len(runs[n]) \in Nat
         /\ \A j \in DOMAIN runs[n] : runs'[n][j] = runs[n][j]
         /\ runs'[n][Len(runs[n]) + 1] = [run |-> d, results |-> <<>>]
         /\ Seen(n)' = Seen(n)
<1> DEFINE r == [run |-> d, results |-> <<>>]
<1>1. r \in RunRecord /\ r.results = <<>>
  BY DEF RunRecord
<1>2. /\ runs'[n] \in Seq(RunRecord)
      /\ DOMAIN runs'[n] = 1..(Len(runs[n]) + 1)
      /\ DOMAIN runs[n] = 1..Len(runs[n]) /\ Len(runs[n]) \in Nat
      /\ \A j \in 1..Len(runs[n]) : runs'[n][j] = runs[n][j]
      /\ runs'[n][Len(runs[n]) + 1] = r
  <2> HIDE DEF r
  <2> QED
    BY <1>1 DEF r
<1>3. DOMAIN runs'[n] = DOMAIN runs[n] \cup {Len(runs[n]) + 1}
  BY <1>2
<1>4. ToSet(runs'[n]) = ToSet(runs[n]) \cup {r}
  BY <1>2, <1>3 DEF ToSet
<1>5. ToSet(r.results) = {}
  BY <1>1 DEF ToSet
<1>6. Seen(n)' = UNION {ToSet(x.results) : x \in ToSet(runs'[n])}
  BY DEF Seen
<1> HIDE DEF r
<1>7. UNION {ToSet(x.results) : x \in ToSet(runs[n]) \cup {r}} = UNION {ToSet(x.results) : x \in ToSet(runs[n])}
  BY <1>5
<1> QED
  BY <1>2, <1>3, <1>4, <1>6, <1>7 DEF Seen, r

LEMMA AllResults ==
  \A rs, x : x \in UNION {ToSet(r.results) : r \in ToSet(rs)} <=>
               \E j \in DOMAIN rs : x \in ToSet(rs[j].results)
BY DEF ToSet

LEMMA WithResult ==
  ASSUME NEW r \in RunRecord, NEW id \in Word, NEW t, t = [r EXCEPT !.results = Append(@, id)]
  PROVE  /\ r.results \in Seq(Word) /\ Append(r.results, id) \in Seq(Word)
         /\ t.results = Append(r.results, id) /\ t.run = r.run /\ t \in RunRecord
<1>1. r.results \in Seq(Word) /\ r.run \in Word
  BY DEF RunRecord
<1>2. Append(r.results, id) \in Seq(Word)
  BY <1>1
<1> QED
  BY <1>1, <1>2 DEF RunRecord

(* A result more in the last run.                                          *)
LEMMA ResultAppended ==
  ASSUME NEW n \in Node, runs[n] \in Seq(RunRecord), NEW last, last = Len(runs[n]),
         last \in DOMAIN runs[n], NEW id \in Word,
         runs'[n] = InLast(runs[n], id)
  PROVE  /\ runs'[n] \in Seq(RunRecord) /\ DOMAIN runs'[n] = DOMAIN runs[n]
         /\ \A j \in DOMAIN runs[n] :
              /\ runs[n][j] \in RunRecord /\ runs'[n][j].run = runs[n][j].run
              /\ j # last => runs'[n][j] = runs[n][j]
         /\ runs'[n][last].results = Append(runs[n][last].results, id)
         /\ Seen(n)' = Seen(n) \cup {id}
<1>1. /\ DOMAIN runs[n] = 1..last /\ last \in Nat
      /\ \A j \in DOMAIN runs[n] : runs[n][j] \in RunRecord
  OBVIOUS
<1>2. /\ DOMAIN runs'[n] = DOMAIN runs[n]
      /\ \A j \in DOMAIN runs[n] : j # last => runs'[n][j] = runs[n][j]
      /\ runs'[n][last] = [runs[n][last] EXCEPT !.results = Append(@, id)]
  BY DEF InLast
<1>3. /\ runs[n][last].results \in Seq(Word)
      /\ Append(runs[n][last].results, id) \in Seq(Word)
      /\ runs'[n][last].results = Append(runs[n][last].results, id)
      /\ runs'[n][last].run = runs[n][last].run
      /\ runs'[n][last] \in RunRecord
  <2> DEFINE r == runs[n][last]
             t == runs'[n][last]
  <2>1. r \in RunRecord /\ t = [r EXCEPT !.results = Append(@, id)]
    BY <1>1, <1>2
  <2> HIDE DEF r, t
  <2>2. /\ r.results \in Seq(Word) /\ Append(r.results, id) \in Seq(Word)
        /\ t.results = Append(r.results, id) /\ t.run = r.run /\ t \in RunRecord
    BY <2>1, WithResult, Zenon
  <2> QED
    BY <2>2 DEF r, t
<1>4. runs'[n] \in Seq(RunRecord)
  <2>1. \A j \in 1..last : runs'[n][j] \in RunRecord
    BY <1>1, <1>2, <1>3
  <2>2. runs'[n] \in [1..last -> RunRecord]
    BY <1>1, <2>1 DEF InLast
  <2> HIDE DEF RunRecord
  <2> QED
    BY <1>1, <2>2, SeqDef
<1>5. ToSet(Append(runs[n][last].results, id)) = ToSet(runs[n][last].results) \cup {id}
  <2> DEFINE s == runs[n][last].results
  <2>1. s \in Seq(Word) /\ Len(s) \in Nat /\ DOMAIN s = 1..Len(s)
        /\ DOMAIN Append(s, id) = 1..(Len(s) + 1)
        /\ \A a \in 1..Len(s) : Append(s, id)[a] = s[a]
        /\ Append(s, id)[Len(s) + 1] = id
    BY <1>3
  <2> HIDE DEF s
  <2>2. ToSet(Append(s, id)) = ToSet(s) \cup {id}
    <3>1. DOMAIN Append(s, id) = DOMAIN s \cup {Len(s) + 1}
      BY <2>1
    <3> QED
      BY <2>1, <3>1 DEF ToSet
  <2> QED
    BY <2>2 DEF s
<1>6. Seen(n)' = Seen(n) \cup {id}
  <2>1. \A x : x \in Seen(n) <=> \E j \in DOMAIN runs[n] : x \in ToSet(runs[n][j].results)
    BY AllResults DEF Seen
  <2>2. \A x : x \in Seen(n)' <=> \E j \in DOMAIN runs'[n] : x \in ToSet(runs'[n][j].results)
    BY AllResults DEF Seen
  <2> HIDE DEF RunRecord
  <2>3. ASSUME NEW x PROVE x \in Seen(n)' <=> x \in Seen(n) \/ x = id
    <3>1. ToSet(runs'[n][last].results) = ToSet(runs[n][last].results) \cup {id}
      BY <1>3, <1>5
    <3>2. \A j \in DOMAIN runs[n] : j # last => ToSet(runs'[n][j].results) = ToSet(runs[n][j].results)
      BY <1>2
    <3>3. DOMAIN runs'[n] = DOMAIN runs[n] /\ last \in DOMAIN runs[n]
      BY <1>2
    <3>4. (\E j \in DOMAIN runs'[n] : x \in ToSet(runs'[n][j].results))
            => x = id \/ \E j \in DOMAIN runs[n] : x \in ToSet(runs[n][j].results)
      BY <3>1, <3>2, <3>3
    <3>5. (x = id \/ \E j \in DOMAIN runs[n] : x \in ToSet(runs[n][j].results))
            => \E j \in DOMAIN runs'[n] : x \in ToSet(runs'[n][j].results)
      BY <3>1, <3>2, <3>3
    <3> QED
      BY <2>1, <2>2, <3>4, <3>5
  <2> QED
    BY <2>3
<1> QED
  BY <1>1, <1>2, <1>3, <1>4, <1>6

(* What is due afterwards was due before, behind the signal.               *)
LEMMA DueAfter ==
  ASSUME TypeInv, NEW n \in Node, LineInv(n), NEW h, Takes(n, h), dev' = dev
  PROVE  /\ h \in Nat /\ h \in DOMAIN Script[n] /\ Due(n, h)
         /\ \A q : Due(n, q)' => Due(n, q) /\ h < q
<1>1. h \in Nat /\ h \in DOMAIN Script[n] /\ Due(n, h)
  BY ScriptSteps DEF Takes, SignalAt, Due
<1>2. ASSUME NEW q, Due(n, q)' PROVE Due(n, q) /\ h < q
  BY <1>1, <1>2 DEF Due, Takes, LineInv
<1> QED
  BY <1>1, <1>2

LEMMA SignalOrder ==
  ASSUME TypeInv, ReportTypes, NEW n \in Node, RunInv(n), Signal(n), NEW h, Takes(n, h)
  PROVE  LineInv(n)'
<1>1. dev' = dev /\ InOrder(n, line'[n])
  BY SignalTakes
<1>2. InOrder(n, line[n])'
  BY <1>1 DEF InOrder, SignalAt
<1>3. ASSUME dev'[n] # 0, NEW i \in DOMAIN Script[n], InLine(n, i)' PROVE i < dev'[n]
  BY <1>1, <1>3 DEF Takes, RunInv, LineInv
<1> QED
  BY <1>2, <1>3 DEF LineInv

(* STARTRUN.                                                               *)
LEMMA StartsRun ==
  ASSUME TypeInv, ReportTypes, NEW n \in Node, RunInv(n), Signal(n), NEW h, Takes(n, h),
         Script[n][h][1] = "STARTRUN"
  PROVE  BeforeInv(n)' /\ NoRunLost(n)' /\ TrueRuns(n)'
<1> PICK d : d = Script[n][h][2]
  OBVIOUS
<1>0. /\ Script[n][h] = <<Script[n][h][1], Script[n][h][2]>> /\ Script[n][h][2] \in Word
      /\ Script[n][h][1] = "STARTRUN" =>
           runs'[n] = Append(runs[n], [run |-> Script[n][h][2], results |-> <<>>])
      /\ runs[n] \in Seq(RunRecord)
  BY SignalRecords, Zenon
<1>1. /\ Script[n][h] = <<"STARTRUN", d>> /\ d \in Word
      /\ runs'[n] = Append(runs[n], [run |-> d, results |-> <<>>])
      /\ runs[n] \in Seq(RunRecord)
  BY <1>0
<1> PICK new : new = Len(runs[n]) + 1
  OBVIOUS
<1>2. /\ h \in Nat /\ h \in DOMAIN Script[n] /\ Due(n, h) /\ DOMAIN Script[n] \subseteq Nat
      /\ \A q : Due(n, q)' => Due(n, q) /\ h < q
  BY SignalTakes, DueAfter, ScriptSteps DEF RunInv
<1>3. Where(n, "STARTRUN", d) = h
  BY <1>1, WhereIs DEF Takes
<1>4. Where(n, "ENDRUN", d) \in Nat /\ h < Where(n, "ENDRUN", d)
  <2>1. PICK k \in DOMAIN Script[n], l \in DOMAIN Script[n] :
          /\ k <= h /\ h < l
          /\ Script[n][k][1] = "STARTRUN" /\ Script[n][l] = <<"ENDRUN", Script[n][k][2]>>
          /\ Without(Script[n], k + 1, h, {"STARTRUN"})
    BY <1>1, <1>2, ReportAssumption DEF Reported
  <2>2. k = h
    BY <1>2, <2>1 DEF Without
  <2>3. SignalAt(n, l)
    BY <2>1 DEF SignalAt, Signals
  <2>4. Where(n, "ENDRUN", d) = l
    <3>1. Script[n][l][1] = "ENDRUN" /\ Script[n][l][2] = d
      BY <2>1, <2>2
    <3>2. Where(n, Script[n][l][1], Script[n][l][2]) = l
      BY <2>3, WhereIs
    <3> QED
      BY <3>1, <3>2
  <2> QED
    BY <1>2, <2>1, <2>4
<1>5. /\ DOMAIN runs'[n] = DOMAIN runs[n] \cup {new}
      /\ DOMAIN runs[n] = 1..Len(runs[n]) /\ Len(runs[n]) \in Nat
      /\ \A j \in DOMAIN runs[n] : runs'[n][j] = runs[n][j]
      /\ runs'[n][new] = [run |-> d, results |-> <<>>]
      /\ Seen(n)' = Seen(n)
  BY <1>1, RunAppended
<1>6. /\ \A j \in DOMAIN runs[n] : RunAt(n, j)' = RunAt(n, j) /\ RunAt(n, j) < h /\ RunAt(n, j) \in Nat
      /\ RunAt(n, new)' = h
  <2>1. \A j \in DOMAIN runs[n] : RunAt(n, j)' = RunAt(n, j) /\ RunAt(n, j) < h /\ RunAt(n, j) \in Nat
    BY <1>2, <1>5, RecordPlaces DEF RunInv, BeforeInv, RunAt
  <2>2. RunAt(n, new)' = h
    BY <1>3, <1>5 DEF RunAt
  <2> QED
    BY <2>1, <2>2
<1>7. BeforeInv(n)'
  <2> SUFFICES ASSUME NEW q \in Nat, Due(n, q)'
               PROVE  /\ \A j \in DOMAIN runs'[n] : RunAt(n, j)' < q
                      /\ \A id \in Seen(n)' : Where(n, "TESTCASE", id) < q
    BY DEF BeforeInv
  <2>1. Due(n, q) /\ h < q
    BY <1>2
  <2>2. \A id \in Seen(n) : Where(n, "TESTCASE", id) < q
    BY <2>1 DEF RunInv, BeforeInv
  <2>3. \A j \in DOMAIN runs[n] : RunAt(n, j)' < q
    BY <1>2, <1>6, <2>1
  <2> QED
    BY <1>5, <1>6, <2>1, <2>2, <2>3
<1>8. NoRunLost(n)'
  <2> SUFFICES ASSUME NEW q \in Nat, NEW k \in DOMAIN Script[n], Due(n, q)', k < q,
                      Script[n][k][1] = "STARTRUN"
               PROVE  InLine(n, k)' \/ Recorded(n, Script[n][k][2])'
    BY DEF NoRunLost
  <2>1. InLine(n, k) \/ Recorded(n, Script[n][k][2])
    BY <1>2 DEF RunInv, NoRunLost
  <2>2. CASE Recorded(n, Script[n][k][2])
    BY <1>5, <2>2 DEF Recorded
  <2>3. CASE InLine(n, k) /\ k # h
    BY <2>3 DEF Takes
  <2>4. CASE k = h
    BY <1>1, <1>5, <2>4 DEF Recorded
  <2> QED
    BY <2>1, <2>2, <2>3, <2>4
<1>9. TrueRuns(n)'
  <2>1. ASSUME NEW j \in DOMAIN runs'[n] PROVE TrueRun(n, runs'[n][j])
    <3>1. CASE j \in DOMAIN runs[n]
      BY <1>5, <3>1 DEF RunInv, TrueRuns
    <3>2. CASE j = new
      <4>1. runs'[n][j].run = d /\ DOMAIN runs'[n][j].results = {}
        BY <1>5, <3>2
      <4> QED
        BY <1>3, <1>4, <4>1 DEF TrueRun
    <3> QED
      BY <1>5, <3>1, <3>2
  <2>2. ASSUME NEW i \in DOMAIN runs'[n], NEW j \in DOMAIN runs'[n], i < j
        PROVE  RunAt(n, i)' < RunAt(n, j)'
    <3>1. i \in DOMAIN runs[n]
      BY <1>5, <2>2
    <3>2. CASE j \in DOMAIN runs[n]
      BY <1>6, <2>2, <3>1, <3>2 DEF RunInv, TrueRuns
    <3>3. CASE j = new
      BY <1>6, <3>1, <3>3
    <3> QED
      BY <1>5, <3>2, <3>3
  <2> QED
    BY <2>1, <2>2 DEF TrueRuns
<1> QED
  BY <1>7, <1>8, <1>9

(* TESTCASE.                                                               *)
LEMMA TakesResult ==
  ASSUME TypeInv, ReportTypes, NEW n \in Node, RunInv(n), Signal(n), NEW h, Takes(n, h),
         Script[n][h][1] = "TESTCASE"
  PROVE  /\ BeforeInv(n)' /\ NoRunLost(n)' /\ TrueRuns(n)'
         /\ runs'[n] \in Seq(RunRecord)
         /\ Seen(n)' = Seen(n) \cup {Script[n][h][2]}
         /\ \A r \in ToSet(runs'[n]) : \E q \in ToSet(runs[n]) : r.run = q.run
<1> PICK id : id = Script[n][h][2]
  OBVIOUS
<1> PICK last : last = Len(runs[n])
  OBVIOUS
<1>0. /\ Script[n][h] = <<Script[n][h][1], Script[n][h][2]>> /\ Script[n][h][2] \in Word
      /\ Script[n][h][1] = "TESTCASE" =>
           runs'[n] = InLast(runs[n], Script[n][h][2])
      /\ runs[n] \in Seq(RunRecord)
  BY SignalRecords, Zenon
<1>1. /\ Script[n][h] = <<"TESTCASE", id>> /\ id \in Word
      /\ runs'[n] = InLast(runs[n], id)
      /\ runs[n] \in Seq(RunRecord)
  BY <1>0
<1>2. /\ h \in Nat /\ h \in DOMAIN Script[n] /\ Due(n, h) /\ DOMAIN Script[n] \subseteq Nat
      /\ \A q : Due(n, q)' => Due(n, q) /\ h < q
  BY SignalTakes, DueAfter, ScriptSteps DEF RunInv
<1>3. Where(n, "TESTCASE", id) = h
  <2>1. Where(n, Script[n][h][1], Script[n][h][2]) = h
    BY WhereIs DEF Takes
  <2> QED
    BY <2>1
<1>4. last \in DOMAIN runs[n] /\ RunAt(n, last) < h /\ h < Where(n, "ENDRUN", runs[n][last].run)
  BY LastRun
<1>5. /\ runs'[n] \in Seq(RunRecord) /\ DOMAIN runs'[n] = DOMAIN runs[n]
      /\ \A j \in DOMAIN runs[n] :
           /\ runs[n][j] \in RunRecord /\ runs'[n][j].run = runs[n][j].run
           /\ j # last => runs'[n][j] = runs[n][j]
      /\ runs'[n][last].results = Append(runs[n][last].results, id)
      /\ Seen(n)' = Seen(n) \cup {id}
  <2>1. runs[n] \in Seq(RunRecord) /\ last \in DOMAIN runs[n] /\ id \in Word /\ runs'[n] = InLast(runs[n], id)
    BY <1>1, <1>4
  <2>2. runs'[n] \in Seq(RunRecord)
    BY <2>1, ResultAppended
  <2>3. Seen(n)' = Seen(n) \cup {id}
    BY <2>1, ResultAppended
  <2>4. runs'[n][last].results = Append(runs[n][last].results, id)
    BY <2>1, ResultAppended
  <2>5. DOMAIN runs'[n] = DOMAIN runs[n]
    BY <2>1, ResultAppended
  <2>6. \A j \in DOMAIN runs[n] :
           /\ runs[n][j] \in RunRecord /\ runs'[n][j].run = runs[n][j].run
           /\ j # last => runs'[n][j] = runs[n][j]
    BY <2>1, ResultAppended
  <2> QED
    BY <2>2, <2>3, <2>4, <2>5, <2>6
<1>6. \A j \in DOMAIN runs[n] : RunAt(n, j)' = RunAt(n, j) /\ RunAt(n, j) < h
  <2>1. \A j \in DOMAIN runs[n] : RunAt(n, j) < h
    BY <1>2 DEF RunInv, BeforeInv
  <2>2. \A j \in DOMAIN runs[n] : RunAt(n, j)' = RunAt(n, j)
    BY <1>5 DEF RunAt
  <2> QED
    BY <2>1, <2>2
<1>7. BeforeInv(n)'
  <2> SUFFICES ASSUME NEW q \in Nat, Due(n, q)'
               PROVE  /\ \A j \in DOMAIN runs'[n] : RunAt(n, j)' < q
                      /\ \A x \in Seen(n)' : Where(n, "TESTCASE", x) < q
    BY DEF BeforeInv
  <2>1. Due(n, q) /\ h < q
    BY <1>2
  <2>2. /\ \A x \in Seen(n) : Where(n, "TESTCASE", x) < q
        /\ \A j \in DOMAIN runs[n] : RunAt(n, j) < q
    BY <2>1 DEF RunInv, BeforeInv
  <2> QED
    BY <1>3, <1>5, <1>6, <2>1, <2>2
<1>8. NoRunLost(n)'
  <2> SUFFICES ASSUME NEW q \in Nat, NEW k \in DOMAIN Script[n], Due(n, q)', k < q,
                      Script[n][k][1] = "STARTRUN"
               PROVE  InLine(n, k)' \/ Recorded(n, Script[n][k][2])'
    BY DEF NoRunLost
  <2>1. InLine(n, k) \/ Recorded(n, Script[n][k][2])
    BY <1>2 DEF RunInv, NoRunLost
  <2>2. CASE Recorded(n, Script[n][k][2])
    BY <1>5, <2>2 DEF Recorded
  <2>3. CASE InLine(n, k)
    BY <1>1, <2>3 DEF Takes
  <2> QED
    BY <2>1, <2>2, <2>3
<1>9. TrueRuns(n)'
  <2> DEFINE s == runs[n][last].results
             d == runs[n][last].run
  <2>1. TrueRun(n, runs[n][last])
    BY <1>4 DEF RunInv, TrueRuns
  <2>2. \A i \in DOMAIN s : Where(n, "TESTCASE", s[i]) < h
    <3>1. \A i \in DOMAIN s : s[i] \in Seen(n)
      BY <1>4, AllResults DEF Seen, ToSet
    <3> QED
      BY <1>2, <3>1 DEF RunInv, BeforeInv
  <2>3. /\ s \in Seq(Word) /\ runs'[n][last].results = Append(s, id) /\ runs'[n][last].run = d
    BY <1>4, <1>5 DEF RunRecord
  <2>4. /\ Where(n, "STARTRUN", d) < h /\ h < Where(n, "ENDRUN", d)
        /\ Where(n, "STARTRUN", d) < Where(n, "ENDRUN", d)
        /\ \A i \in DOMAIN s : /\ Where(n, "STARTRUN", d) < Where(n, "TESTCASE", s[i])
                               /\ Where(n, "TESTCASE", s[i]) < Where(n, "ENDRUN", d)
        /\ \A i, j \in DOMAIN s :
             i < j => Where(n, "TESTCASE", s[i]) < Where(n, "TESTCASE", s[j])
    BY <1>4, <2>1 DEF RunAt, TrueRun
  <2> HIDE DEF s, d
  <2>5. /\ Len(s) \in Nat /\ DOMAIN s = 1..Len(s)
        /\ DOMAIN Append(s, id) = 1..(Len(s) + 1) /\ Append(s, id)[Len(s) + 1] = id
        /\ \A i \in 1..Len(s) : Append(s, id)[i] = s[i]
    BY <1>1, <2>3
  <2>6. TrueRun(n, runs'[n][last])
    <3>1. \A i \in 1..(Len(s) + 1) :
            /\ Where(n, "STARTRUN", d) < Where(n, "TESTCASE", Append(s, id)[i])
            /\ Where(n, "TESTCASE", Append(s, id)[i]) < Where(n, "ENDRUN", d)
      BY <1>3, <2>4, <2>5
    <3>2. \A i, j \in 1..(Len(s) + 1) :
            i < j => Where(n, "TESTCASE", Append(s, id)[i]) < Where(n, "TESTCASE", Append(s, id)[j])
      BY <1>3, <2>2, <2>4, <2>5
    <3> QED
      BY <2>3, <2>4, <2>5, <3>1, <3>2 DEF TrueRun
  <2>7. ASSUME NEW j \in DOMAIN runs'[n] PROVE TrueRun(n, runs'[n][j])
    BY <1>5, <2>6 DEF RunInv, TrueRuns
  <2>8. \A i, j \in DOMAIN runs'[n] : i < j => RunAt(n, i)' < RunAt(n, j)'
    BY <1>5, <1>6 DEF RunInv, TrueRuns
  <2> QED
    BY <2>7, <2>8 DEF TrueRuns
<1>10. \A r \in ToSet(runs'[n]) : \E q \in ToSet(runs[n]) : r.run = q.run
  BY <1>5 DEF ToSet
<1> QED
  BY <1>5, <1>7, <1>8, <1>9, <1>10

(* Any other line is taken off.                                            *)
LEMMA TakesOther ==
  ASSUME TypeInv, ReportTypes, NEW n \in Node, RunInv(n), dev' = dev, runs' = runs,
         InOrder(n, line'[n]), \A i : InLine(n, i)' <=> InLine(n, i)
  PROVE  RunInv(n)'
<1>1. /\ Seen(n)' = Seen(n)
      /\ \A d : Recorded(n, d)' <=> Recorded(n, d)
      /\ TrueRuns(n)'
      /\ \A j : RunAt(n, j)' = RunAt(n, j)
  BY SameRuns DEF RunInv
<1>2. \A q : Due(n, q)' => Due(n, q)
  BY DEF Due
<1>3. LineInv(n)'
  <2>1. InOrder(n, line[n])'
    BY DEF InOrder, SignalAt
  <2>2. ASSUME dev'[n] # 0, NEW i \in DOMAIN Script[n], InLine(n, i)' PROVE i < dev'[n]
    BY <2>2 DEF RunInv, LineInv
  <2> QED
    BY <2>1, <2>2 DEF LineInv
<1>4. BeforeInv(n)'
  BY <1>1, <1>2 DEF RunInv, BeforeInv
<1>5. NoRunLost(n)'
  <2> SUFFICES ASSUME NEW q \in Nat, NEW k \in DOMAIN Script[n], Due(n, q)', k < q,
                      Script[n][k][1] = "STARTRUN", ~InLine(n, k)'
               PROVE  Recorded(n, Script[n][k][2])'
    BY DEF NoRunLost
  <2>1. k \in Nat
    BY ScriptSteps
  <2>2. ~InLine(n, k)
    BY <2>1
  <2> QED
    BY <1>1, <1>2, <2>2 DEF RunInv, NoRunLost
<1> QED
  BY <1>1, <1>3, <1>4, <1>5 DEF RunInv

LEMMA SignalRuns ==
  ASSUME TypeInv, ReportTypes, NEW n \in Node, RunInv(n), Signal(n)
  PROVE  RunInv(n)'
<1>1. PICK h \in DOMAIN Script[n] : Takes(n, h)
  BY SignalTakes
<1>2. LineInv(n)'
  BY <1>1, SignalOrder
<1>3. CASE Script[n][h][1] = "STARTRUN"
  BY <1>1, <1>2, <1>3, StartsRun DEF RunInv
<1>4. CASE Script[n][h][1] = "TESTCASE"
  <2>1. BeforeInv(n)' /\ NoRunLost(n)' /\ TrueRuns(n)'
    BY <1>1, <1>4, TakesResult
  <2> QED
    BY <1>2, <2>1 DEF RunInv
<1>5. CASE Script[n][h][1] \notin {"STARTRUN", "TESTCASE"}
  <2>1. runs'[n] = runs[n]
    BY <1>1, <1>5, SignalRecords
  <2>2. /\ Seen(n)' = Seen(n)
        /\ \A d : Recorded(n, d)' <=> Recorded(n, d)
        /\ TrueRuns(n)'
        /\ \A j : RunAt(n, j)' = RunAt(n, j)
    BY <2>1, SameRuns DEF RunInv
  <2>3. \A q : Due(n, q)' => Due(n, q)
    BY <1>1, SignalTakes, DueAfter DEF RunInv
  <2>4. BeforeInv(n)'
    BY <2>1, <2>2, <2>3 DEF RunInv, BeforeInv
  <2>5. NoRunLost(n)'
    BY <1>1, <1>5, <2>2, <2>3 DEF RunInv, NoRunLost, Takes
  <2> QED
    BY <1>2, <2>2, <2>4, <2>5 DEF RunInv
<1> QED
  BY <1>3, <1>4, <1>5

(* A call or the last line.                                                *)
LEMMA OtherTakes ==
  ASSUME TypeInv, ReportTypes, NEW n \in Node, LineInv(n), Call(n) \/ Exit(n)
  PROVE  /\ InOrder(n, line'[n]) /\ line'[n] \in Seq(Lines(n))
         /\ \A i : InLine(n, i)' <=> InLine(n, i)
         /\ \A T : Has(line'[n], T) => Has(line[n], T)
         /\ Exit(n) => Has(line[n], {"EXIT"} \X Word)
         /\ UNCHANGED <<dev, files, safe, runs, case, measured, bundle>>
<1>1. /\ line[n] # <<>> /\ line[n] \in Seq(Lines(n)) /\ line'[n] = Tail(line[n])
      /\ Head(line[n])[1] \in Calls \cup {"EXIT"}
      /\ Exit(n) => Head(line[n])[1] = "EXIT"
      /\ UNCHANGED <<dev, files, safe, runs, case, measured, bundle>>
  BY DEF Call, Exit, Matches, TypeInv, ReportTypes, device, director
<1>2. InOrder(n, line[n])
  BY DEF LineInv
<1>3. /\ InOrder(n, line'[n]) /\ line'[n] \in Seq(Lines(n))
      /\ \A i : InLine(n, i)' => InLine(n, i)
      /\ \A T : Has(line[n], T) <=> Head(line[n]) \in T \/ Has(line'[n], T)
  BY <1>1, <1>2, LineTaken
<1>4. PICK h \in DOMAIN Script[n] :
              /\ Head(line[n]) = Script[n][h]
              /\ \A i : InLine(n, i) => InLine(n, i)' \/ (i = h /\ SignalAt(n, h))
  BY <1>1, <1>2, LineTaken
<1>5. ~SignalAt(n, h)
  BY <1>1, <1>4, Distinct DEF SignalAt
<1>6. Exit(n) => Head(line[n]) \in {"EXIT"} \X Word
  <2>1. Script[n][h] \in Steps
    BY ScriptSteps
  <2> QED
    BY <1>1, <1>4, <2>1, PairIn
<1> QED
  BY <1>1, <1>3, <1>4, <1>5, <1>6

LEMMA MovesRuns ==
  ASSUME TypeInv, ReportTypes, NEW n \in Node, RunInv(n), NodeMoves(n)
  PROVE  RunInv(n)'
<1>1. CASE DeviceStep(n) \/ Crash(n)
  BY <1>1, DeviceRuns
<1>2. CASE Signal(n)
  BY <1>2, SignalRuns
<1>3. CASE Call(n) \/ Exit(n)
  <2>1. LineInv(n)
    BY DEF RunInv
  <2> QED
    BY <1>3, <2>1, OtherTakes, TakesOther
<1>4. CASE Return(n) \/ Bundle(n) \/ Dropped(n) \/ Timeout(n) \/ SignalRaises(n)
  <2>1. UNCHANGED <<dev, line, runs>>
    BY <1>4 DEF Return, Bundle, Dropped, Timeout, SignalRaises, device, wires
  <2>2. InOrder(n, line'[n])
    BY <2>1 DEF RunInv, LineInv
  <2> QED
    BY <2>1, <2>2, SameLine, TakesOther
<1> QED
  BY <1>1, <1>2, <1>3, <1>4 DEF NodeMoves, DispatcherStep

----------------------------------------------------------------------------
(* The types of what is recorded.                                          *)

LEMMA TypesOfRuns ==
  ASSUME TypeInv, ReportTypes, NEW n \in Node, NodeMoves(n), RunInv(n)
  PROVE  /\ runs'[n] \in Seq(RunRecord)
         /\ \A r \in ToSet(runs'[n]) : <<"STARTRUN", r.run>> \in Lines(n)
         /\ \A id \in Seen(n)' : <<"TESTCASE", id>> \in Lines(n)
<1>1. /\ runs[n] \in Seq(RunRecord)
      /\ \A r \in ToSet(runs[n]) : <<"STARTRUN", r.run>> \in Lines(n)
      /\ \A id \in Seen(n) : <<"TESTCASE", id>> \in Lines(n)
  BY DEF ReportTypes, RunRecord
<1>2. CASE runs'[n] = runs[n]
  BY <1>1, <1>2, SameRuns
<1>3. CASE Signal(n)
  <2>1. PICK h \in DOMAIN Script[n] : Takes(n, h)
    BY <1>3, SignalTakes
  <2>2. Script[n][h] = <<Script[n][h][1], Script[n][h][2]>> /\ Script[n][h][2] \in Word
    BY <1>3, <2>1, SignalRecords, Zenon
  <2>3. Script[n][h] \in Lines(n)
    BY DEF Lines, ToSet
  <2>4. CASE Script[n][h][1] = "STARTRUN"
    <3>1. PICK d : d = Script[n][h][2]
      OBVIOUS
    <3>2. runs'[n] = Append(runs[n], [run |-> d, results |-> <<>>])
      BY <1>3, <2>1, <2>4, <3>1, SignalRecords
    <3>3. d \in Word /\ <<"STARTRUN", d>> \in Lines(n)
      BY <2>2, <2>3, <2>4, <3>1
    <3>4. /\ runs'[n] \in Seq(RunRecord)
          /\ DOMAIN runs'[n] = DOMAIN runs[n] \cup {Len(runs[n]) + 1}
          /\ \A j \in DOMAIN runs[n] : runs'[n][j] = runs[n][j]
          /\ runs'[n][Len(runs[n]) + 1] = [run |-> d, results |-> <<>>]
          /\ Seen(n)' = Seen(n)
      BY <1>1, <3>2, <3>3, RunAppended
    <3>5. \A r \in ToSet(runs'[n]) : r \in ToSet(runs[n]) \/ r.run = d
      BY <3>4 DEF ToSet
    <3> QED
      BY <1>1, <3>3, <3>4, <3>5
  <2>5. CASE Script[n][h][1] = "TESTCASE"
    <3>1. /\ runs'[n] \in Seq(RunRecord)
          /\ Seen(n)' = Seen(n) \cup {Script[n][h][2]}
          /\ \A r \in ToSet(runs'[n]) : \E q \in ToSet(runs[n]) : r.run = q.run
      BY <1>3, <2>1, <2>5, TakesResult
    <3>2. <<"TESTCASE", Script[n][h][2]>> \in Lines(n)
      BY <2>2, <2>3, <2>5
    <3> QED
      BY <1>1, <3>1, <3>2
  <2>6. CASE Script[n][h][1] \notin {"STARTRUN", "TESTCASE"}
    BY <1>2, <1>3, <2>1, <2>6, SignalRecords
  <2> QED
    BY <2>4, <2>5, <2>6
<1>4. CASE ~Signal(n)
  <2>1. runs' = runs
    BY <1>4 DEF NodeMoves, DeviceStep, DispatcherStep, Say, Read, Await, Save, Crash, Call, Return,
                Exit, Bundle, Dropped, Timeout, SignalRaises
  <2> QED
    BY <1>2, <2>1
<1> QED
  BY <1>3, <1>4

LEMMA TypesOfLine ==
  ASSUME TypeInv, ReportTypes, NEW n \in Node, NodeMoves(n), RunInv(n)
  PROVE  line'[n] \in Seq(Lines(n)) /\ DOMAIN case' = Node /\ DOMAIN measured' = Node
<1>0. LineInv(n) /\ line[n] \in Seq(Lines(n)) /\ DOMAIN case = Node /\ DOMAIN measured = Node
  BY DEF RunInv, ReportTypes
<1>1. CASE Say(n)
  <2>1. dev[n] \in DOMAIN Script[n] /\ line'[n] = Append(line[n], Script[n][dev[n]])
    BY <1>1 DEF Say, Running, TypeInv
  <2>2. case' = case /\ measured' = measured
    BY <1>1 DEF Say, director
  <2> QED
    BY <1>0, <2>1, <2>2, LineSaid
<1>2. CASE Read(n) \/ Await(n) \/ Save(n) \/ Crash(n)
  <2>1. line' = line /\ case' = case /\ measured' = measured
    BY <1>2 DEF Read, Await, Save, Crash, wires, director
  <2> QED
    BY <1>0, <2>1
<1>3. CASE Signal(n)
  <2>1. line'[n] \in Seq(Lines(n))
    BY <1>3, SignalTakes
  <2>2. Direct(n, Head(line[n])[1], Head(line[n])[2])
    BY <1>3 DEF Signal
  <2>3. \/ \E c : case' = [case EXCEPT ![n] = c] /\ measured' = measured
        \/ \E c : measured' = [measured EXCEPT ![n] = c] /\ case' = case
        \/ case' = case /\ measured' = measured
    BY <2>2 DEF Direct, director
  <2> QED
    BY <1>0, <2>1, <2>3
<1>4. CASE Call(n) \/ Exit(n)
  <2>1. line'[n] \in Seq(Lines(n)) /\ UNCHANGED <<case, measured>>
    BY <1>0, <1>4, OtherTakes
  <2> QED
    BY <1>0, <2>1
<1>5. CASE Return(n) \/ Bundle(n) \/ Dropped(n) \/ Timeout(n) \/ SignalRaises(n)
  BY <1>0, <1>5 DEF Return, Bundle, Dropped, Timeout, SignalRaises, wires, director
<1> QED
  BY <1>1, <1>2, <1>3, <1>4, <1>5 DEF NodeMoves, DeviceStep, DispatcherStep

----------------------------------------------------------------------------
(* What was said is in the files.                                          *)

LEMMA SaysMore ==
  ASSUME TypeInv, ReportTypes, NEW n \in Node, RunInv(n), FileInv(n), Say(n)
  PROVE  FileInv(n)'
<1>1. PICK p \in DOMAIN Script[n] : p = dev[n]
  BY DEF Say, Running
<1>2. /\ p \in Nat /\ p # 0 /\ DOMAIN Script[n] = 1..Len(Script[n]) /\ Len(Script[n]) \in Nat
      /\ Script[n][p] \in Steps /\ Script[n][p][1] \in Printed
      /\ Reported(Script[n])
  BY <1>1, ScriptSteps, ReportAssumption DEF Say
<1>3. /\ dev'[n] = p + 1
      /\ UNCHANGED <<files, safe, loop, runs, bundle>>
  BY <1>1 DEF Say, Advance, TypeInv
<1>4. \A T : Has(line'[n], T) <=> Has(line[n], T) \/ Script[n][p] \in T
  <2>1. LineInv(n) /\ line[n] \in Seq(Lines(n)) /\ line'[n] = Append(line[n], Script[n][p])
    BY <1>1 DEF RunInv, ReportTypes, Say, TypeInv
  <2> QED
    BY <1>1, <2>1, LineSaid
<1>5. Seen(n)' = Seen(n)
  BY <1>3, SameRuns
<1>6. \A id : Said(n, id)' <=> Said(n, id) \/ Script[n][p] = <<"TESTCASE", id>>
  BY <1>4, <1>5 DEF Said
<1>7. ASSUME NEW id, Said(n, id)' PROVE id \in files'[n]
  <2>1. CASE Said(n, id)
    BY <1>1, <1>2, <1>3, <2>1 DEF FileInv
  <2>2. CASE Script[n][p] = <<"TESTCASE", id>>
    <3>1. Script[n][p][1] = "TESTCASE" /\ Script[n][p][2] = id
      BY <2>2
    <3>2. At(n, "TESTCASE") /\ Arg(n) = id
      BY <1>1, <3>1 DEF At, Running, Arg
    <3> QED
      BY <1>3, <3>2 DEF FileInv
  <2> QED
    BY <1>6, <1>7, <2>1, <2>2
<1>8. ~At(n, "TESTCASE")'
  <2> SUFFICES ASSUME p + 1 \in DOMAIN Script[n], Script[n][p + 1][1] = "TESTCASE" PROVE FALSE
    BY <1>3 DEF At, Running
  <2>1. Script[n][p] = <<"file", Script[n][p + 1][2]>>
    <3>1. Script[n][(p + 1) - 1] = <<"file", Script[n][p + 1][2]>>
      BY <1>2 DEF Reported
    <3> QED
      BY <1>2, <3>1
  <2>2. Script[n][p][1] = "file"
    BY <2>1
  <2> QED
    BY <1>2, <2>2 DEF Printed, Signals, Calls
<1>9. ~At(n, "EXIT")'
  <2> SUFFICES ASSUME p + 1 \in DOMAIN Script[n], Script[n][p + 1][1] = "EXIT" PROVE FALSE
    BY <1>3 DEF At, Running
  <2>1. Script[n][(p + 1) - 1][1] = "sync"
    BY <1>2 DEF Reported
  <2>2. Script[n][p][1] = "sync"
    BY <1>2, <2>1
  <2> QED
    BY <1>2, <2>2 DEF Printed, Signals, Calls
<1>10. ~Exiting(n)
  BY <1>1 DEF FileInv, Running
<1>11. ASSUME Exiting(n)' PROVE ~Running(n)' /\ \A id : Said(n, id)' => id \in safe'[n]
  <2>1. Script[n][p] \in {"EXIT"} \X Word
    BY <1>3, <1>4, <1>10, <1>11 DEF Exiting
  <2>2. Script[n][p][1] = "EXIT"
    BY <2>1
  <2>3. p = Len(Script[n])
    BY <1>2, <2>2 DEF Reported
  <2>4. ~Running(n)'
    BY <1>2, <1>3, <2>3 DEF Running
  <2>5. At(n, "EXIT")
    BY <1>1, <2>2 DEF At, Running
  <2>6. \A id : Script[n][p] # <<"TESTCASE", id>>
    BY <2>2
  <2> QED
    BY <1>3, <1>6, <2>4, <2>5, <2>6 DEF FileInv
<1> QED
  BY <1>3, <1>5, <1>7, <1>8, <1>9, <1>11 DEF FileInv

(* It goes on silently.                                                    *)
LEMMA SilentFiles ==
  ASSUME TypeInv, ReportTypes, NEW n \in Node, FileInv(n), Read(n) \/ Await(n) \/ Save(n)
  PROVE  FileInv(n)'
<1>1. PICK p \in DOMAIN Script[n] : p = dev[n]
  BY DEF Read, Await, Save, At, Running
<1>2. /\ p \in Nat /\ p # 0 /\ DOMAIN Script[n] = 1..Len(Script[n]) /\ Len(Script[n]) \in Nat
      /\ Reported(Script[n])
  BY <1>1, ScriptSteps, ReportAssumption
<1>3. /\ line' = line /\ UNCHANGED <<loop, runs, bundle>>
  BY DEF Read, Await, Save, wires
<1>4. Seen(n)' = Seen(n) /\ \A id : Said(n, id)' <=> Said(n, id)
  BY <1>3, SameRuns DEF Said
<1>5. files[n] \subseteq files'[n] /\ safe[n] \subseteq files[n]
  <2>1. files' = files \/ files' = [files EXCEPT ![n] = @ \cup {Arg(n)}]
    BY DEF Read, Await, Save
  <2> QED
    BY <2>1 DEF TypeInv
<1>6. ~Exiting(n) /\ ~Exiting(n)'
  BY <1>1, <1>3 DEF FileInv, Running, Exiting
<1>7. Script[n][p][1] \notin {"TESTCASE", "EXIT"}
  BY <1>1 DEF Read, Await, Save, At
<1>8. ASSUME At(n, "TESTCASE")' PROVE Arg(n)' \in files'[n]
  <2>1. dev'[n] \in DOMAIN Script[n] /\ Script[n][dev'[n]][1] = "TESTCASE"
    BY <1>8 DEF At, Running
  <2>2. dev'[n] = p + 1
    BY <1>1, <1>2, <1>7, <2>1, SilentMoves, FailureSkips
  <2>3. Script[n][p] = <<"file", Script[n][p + 1][2]>>
    <3>1. Script[n][(p + 1) - 1] = <<"file", Script[n][p + 1][2]>>
      BY <1>2, <2>1, <2>2 DEF Reported
    <3> QED
      BY <1>2, <3>1
  <2>4. Script[n][p][1] = "file" /\ Script[n][p][2] = Script[n][p + 1][2]
    BY <2>3
  <2>5. files' = [files EXCEPT ![n] = @ \cup {Arg(n)}]
    BY <1>1, <2>4 DEF Read, Await, Save, At
  <2>6. Arg(n) \in files'[n]
    BY <2>5 DEF TypeInv
  <2> QED
    BY <1>1, <2>2, <2>4, <2>6 DEF Arg
<1>9. ASSUME At(n, "EXIT")' PROVE safe'[n] = files[n]
  <2>1. dev'[n] \in DOMAIN Script[n] /\ Script[n][dev'[n]][1] = "EXIT"
    BY <1>9 DEF At, Running
  <2>2. dev'[n] = p + 1
    BY <1>1, <1>2, <1>7, <2>1, SilentMoves, FailureSkips
  <2>3. Script[n][p][1] = "sync"
    <3>1. Script[n][(p + 1) - 1][1] = "sync"
      BY <1>2, <2>1, <2>2 DEF Reported
    <3> QED
      BY <1>2, <3>1
  <2>4. safe' = [safe EXCEPT ![n] = files[n]]
    BY <1>1, <2>3 DEF Read, Await, Save, At
  <2> QED
    BY <2>4 DEF TypeInv
<1>10. \A id : Said(n, id) => id \in files[n]
  BY <1>1, <1>2 DEF FileInv
<1> QED
  BY <1>3, <1>4, <1>5, <1>6, <1>8, <1>9, <1>10 DEF FileInv

(* A crash keeps what is on the disk.                                      *)
LEMMA CrashFiles ==
  ASSUME TypeInv, ReportTypes, NEW n \in Node, FileInv(n), Crash(n)
  PROVE  FileInv(n)'
<1>1. dev'[n] = 0 /\ UNCHANGED <<line, safe, loop, runs, bundle>>
  BY DEF Crash, TypeInv
<1>2. Seen(n)' = Seen(n) /\ \A id : Said(n, id)' <=> Said(n, id)
  BY <1>1, SameRuns DEF Said
<1>3. ~Running(n)' /\ \A op : ~At(n, op)'
  BY <1>1, ScriptSteps DEF Running, At
<1>4. Exiting(n)' <=> Exiting(n)
  BY <1>1 DEF Exiting
<1> QED
  BY <1>1, <1>2, <1>3, <1>4 DEF FileInv

(* The dispatcher takes lines, ends and makes its bundle.                  *)
LEMMA DispatcherFiles ==
  ASSUME TypeInv, ReportTypes, NEW n \in Node, FileInv(n),
         dev' = dev, files' = files, safe' = safe,
         \A id : Said(n, id)' => Said(n, id),
         Exiting(n)' => Exiting(n),
         bundle'[n] # <<>> => loop'[n] \in Ends,
         bundle'[n] # <<>> /\ loop'[n] = "exited" => Seen(n)' \subseteq bundle'[n][1]
  PROVE  FileInv(n)'
<1>1. /\ Running(n)' <=> Running(n)
      /\ Arg(n)' = Arg(n)
      /\ \A op : At(n, op)' <=> At(n, op)
  BY DEF Running, Arg, At
<1> QED
  BY <1>1 DEF FileInv

LEMMA MovesFiles ==
  ASSUME TypeInv, ReportTypes, NEW n \in Node, RunInv(n), FileInv(n), NodeMoves(n)
  PROVE  FileInv(n)'
<1>0. loop[n] \in {"expect", "call"} => bundle[n] = <<>>
  BY DEF FileInv, Ends
<1>1. CASE DeviceStep(n) \/ Crash(n)
  BY <1>1, SaysMore, SilentFiles, CrashFiles DEF DeviceStep
<1>2. CASE Signal(n)
  <2>1. PICK h \in DOMAIN Script[n] : Takes(n, h)
    BY <1>2, SignalTakes
  <2>2. /\ dev' = dev /\ files' = files /\ safe' = safe /\ loop' = loop /\ bundle' = bundle
        /\ loop[n] = "expect"
    BY <1>2 DEF Signal, Matches, device
  <2>3. \A T : Has(line[n], T) <=> Script[n][h] \in T \/ Has(line'[n], T)
    BY <1>2, <2>1, SignalTakes DEF Takes
  <2>4. \A id \in Seen(n)' : id \in Seen(n) \/ Script[n][h] = <<"TESTCASE", id>>
    <3>0. Script[n][h] = <<Script[n][h][1], Script[n][h][2]>> /\ Script[n][h][2] \in Word
      BY <1>2, <2>1, SignalRecords, Zenon
    <3>1. CASE Script[n][h][1] = "TESTCASE"
      <4>1. Seen(n)' = Seen(n) \cup {Script[n][h][2]}
        BY <1>2, <2>1, <3>1, TakesResult
      <4> QED
        BY <3>0, <3>1, <4>1
    <3>2. CASE Script[n][h][1] = "STARTRUN"
      <4>1. /\ runs[n] \in Seq(RunRecord)
            /\ runs'[n] = Append(runs[n], [run |-> Script[n][h][2], results |-> <<>>])
        BY <1>2, <2>1, <3>2, SignalRecords
      <4>2. Seen(n)' = Seen(n)
        BY <3>0, <4>1, RunAppended
      <4> QED
        BY <4>2
    <3>3. CASE Script[n][h][1] \notin {"STARTRUN", "TESTCASE"}
      BY <1>2, <2>1, <3>3, SignalRecords, SameRuns
    <3> QED
      BY <3>1, <3>2, <3>3
  <2>5. \A id : Said(n, id)' => Said(n, id)
    BY <2>3, <2>4 DEF Said
  <2>6. Exiting(n)' => Exiting(n)
    BY <2>2, <2>3 DEF Exiting
  <2> QED
    BY <1>0, <2>2, <2>5, <2>6, DispatcherFiles
<1>3. CASE Call(n) \/ Exit(n)
  <2>1. /\ \A T : Has(line'[n], T) => Has(line[n], T)
        /\ Exit(n) => Has(line[n], {"EXIT"} \X Word)
        /\ UNCHANGED <<dev, files, safe, runs, case, measured, bundle>>
    BY <1>3, OtherTakes DEF RunInv
  <2>2. loop[n] = "expect" /\ (Call(n) => loop'[n] = "call")
    BY <1>3 DEF Call, Exit, Matches, TypeInv
  <2>3. \A id : Said(n, id)' => Said(n, id)
    BY <2>1, SameRuns DEF Said
  <2>4. Exiting(n)' => Exiting(n)
    BY <1>3, <2>1, <2>2 DEF Exiting
  <2> QED
    BY <1>0, <2>1, <2>2, <2>3, <2>4, DispatcherFiles
<1>4. CASE Return(n) \/ Dropped(n) \/ Timeout(n) \/ SignalRaises(n)
  <2>1. UNCHANGED <<dev, files, safe, line, runs, bundle>>
    BY <1>4 DEF Return, Dropped, Timeout, SignalRaises, device, wires
  <2>2. loop[n] \in {"expect", "call"} /\ loop'[n] # "exited"
    BY <1>4 DEF Return, Dropped, Timeout, SignalRaises, Matches, Continue, End, TypeInv
  <2>3. \A id : Said(n, id)' => Said(n, id)
    BY <2>1, SameRuns DEF Said
  <2>4. Exiting(n)' => Exiting(n)
    BY <2>1, <2>2 DEF Exiting
  <2> QED
    BY <1>0, <2>1, <2>2, <2>3, <2>4, DispatcherFiles
<1>5. CASE Bundle(n)
  <2>1. UNCHANGED <<dev, files, safe, line, loop, runs>> /\ loop[n] \in Ends
    BY <1>5 DEF Bundle, device, wires
  <2>2. Seen(n)' = Seen(n) /\ \A id : Said(n, id)' => Said(n, id)
    BY <2>1, SameRuns DEF Said
  <2>3. Exiting(n)' => Exiting(n)
    BY <2>1 DEF Exiting
  <2>4. bundle'[n] = <<files[n]>> \/ bundle'[n] = <<Seen(n)>>
    BY <1>5 DEF Bundle, TypeInv
  <2>5. loop[n] = "exited" => Seen(n) \subseteq files[n]
    BY DEF FileInv, Exiting, Said, TypeInv
  <2>6. loop'[n] = "exited" => Seen(n)' \subseteq bundle'[n][1]
    BY <2>1, <2>2, <2>4, <2>5
  <2> QED
    BY <2>1, <2>2, <2>3, <2>6, DispatcherFiles
<1> QED
  BY <1>1, <1>2, <1>3, <1>4, <1>5 DEF NodeMoves, DispatcherStep

----------------------------------------------------------------------------
(* The cases with a command.                                               *)

(* Where lava-test-case says what.                                         *)
Reports(n, i) ==
  i \in DOMAIN Script[n] /\ Script[n][i][1] = "TESTCASE" /\ Script[n][i][2] \in Timed(n)
Pairs(n, k, e) ==
  /\ k \in DOMAIN Script[n] /\ e \in DOMAIN Script[n]
  /\ Script[n][k][1] = "STARTTC" /\ Script[n][e] = <<"ENDTC", Script[n][k][2]>>

LEMMA CaseScript ==
  ASSUME NEW n \in Node
  PROVE  /\ DOMAIN Script[n] \subseteq Nat \ {0}
         /\ \A i : Reports(n, i) =>
              /\ i > 3 /\ i - 3 \in DOMAIN Script[n] /\ Script[n][i - 3] = <<"ENDTC", Script[n][i][2]>>
              /\ i - 2 \in DOMAIN Script[n] /\ Script[n][i - 2][1] = "read"
              /\ i - 1 \in DOMAIN Script[n] /\ Script[n][i - 1][1] = "file"
         /\ \A k, e : Pairs(n, k, e) =>
              /\ k < e /\ SignalAt(n, k) /\ SignalAt(n, e)
              /\ \A x \in DOMAIN Script[n] :
                   k < x /\ x < e => Script[n][x][1] \notin {"STARTTC", "ENDTC", "STARTRUN", "sync"}
<1>1. /\ DOMAIN Script[n] = 1..Len(Script[n]) /\ Len(Script[n]) \in Nat
      /\ \A i \in DOMAIN Script[n] : Script[n][i] \in Steps
      /\ Reported(Script[n])
  BY ScriptSteps, ReportAssumption
<1>2. ASSUME NEW i, Reports(n, i)
      PROVE  /\ i > 3 /\ i - 3 \in DOMAIN Script[n] /\ Script[n][i - 3] = <<"ENDTC", Script[n][i][2]>>
             /\ i - 2 \in DOMAIN Script[n] /\ Script[n][i - 2][1] = "read"
             /\ i - 1 \in DOMAIN Script[n] /\ Script[n][i - 1][1] = "file"
  <2>1. PICK k \in DOMAIN Script[n] : Script[n][k][1] = "STARTTC" /\ Script[n][k][2] = Script[n][i][2]
    BY <1>2 DEF Reports, Timed
  <2>2. Script[n][k] = <<"STARTTC", Script[n][i][2]>>
    BY <1>1, <2>1 DEF Steps
  <2>3. i \in DOMAIN Script[n] /\ Script[n][i][1] = "TESTCASE"
    BY <1>2 DEF Reports
  <2>4. /\ i > 3 /\ Script[n][i - 3] = <<"ENDTC", Script[n][i][2]>> /\ Script[n][i - 2][1] = "read"
        /\ Script[n][i - 1] = <<"file", Script[n][i][2]>>
    BY <1>1, <2>2, <2>3 DEF Reported
  <2> QED
    BY <1>1, <2>3, <2>4
<1>3. ASSUME NEW k, NEW e, Pairs(n, k, e)
      PROVE  /\ k < e /\ SignalAt(n, k) /\ SignalAt(n, e)
             /\ \A x \in DOMAIN Script[n] :
                  k < x /\ x < e => Script[n][x][1] \notin {"STARTTC", "ENDTC", "STARTRUN", "sync"}
  <2>1. /\ k \in DOMAIN Script[n] /\ e \in DOMAIN Script[n]
        /\ Script[n][k][1] = "STARTTC" /\ Script[n][e][1] = "ENDTC"
        /\ Script[n][e][2] = Script[n][k][2] /\ Script[n][k] = <<"STARTTC", Script[n][k][2]>>
    BY <1>1, <1>3 DEF Pairs, Steps
  <2>2. SignalAt(n, k) /\ SignalAt(n, e)
    BY <2>1 DEF SignalAt, Signals
  <2>3. PICK l \in DOMAIN Script[n] :
          /\ l < e /\ Script[n][l] = <<"STARTTC", Script[n][e][2]>>
          /\ Without(Script[n], l + 1, e - 1, {"STARTTC", "ENDTC", "STARTRUN", "sync"})
    BY <1>1, <2>1 DEF Reported
  <2>4. l = k
    BY <2>1, <2>2, <2>3, WhereIs
  <2>5. \A x \in DOMAIN Script[n] : k < x /\ x < e => x \in k + 1 .. e - 1
    BY <1>1, <2>1
  <2> QED
    BY <2>2, <2>3, <2>4, <2>5 DEF Without
<1> QED
  BY <1>1, <1>2, <1>3

LEMMA CaseInvIs ==
  \A n : CaseInv(n) <=>
    /\ \A i : Reports(n, i) /\ (InLine(n, i) \/ (dev[n] + 2 >= i /\ dev[n] <= i /\ dev[n] # 0))
                => Ended(n, Script[n][i][2])
    /\ \A k, e : Pairs(n, k, e) /\ (InLine(n, e) \/ (k < dev[n] /\ dev[n] <= e)) => Begun(n, k)
    /\ Seen(n) \cap Timed(n) \subseteq measured[n]
BY DEF CaseInv, Reports, Pairs

LEMMA CaseInvNext ==
  \A n : CaseInv(n)' <=>
    /\ \A i : Reports(n, i) /\ (InLine(n, i)' \/ (dev'[n] + 2 >= i /\ dev'[n] <= i /\ dev'[n] # 0))
                => Ended(n, Script[n][i][2])'
    /\ \A k, e : Pairs(n, k, e) /\ (InLine(n, e)' \/ (k < dev'[n] /\ dev'[n] <= e)) => Begun(n, k)'
    /\ Seen(n)' \cap Timed(n) \subseteq measured'[n]
BY DEF CaseInv, Reports, Pairs, Timed

LEMMA SayCases ==
  ASSUME TypeInv, ReportTypes, NEW n \in Node, LineInv(n), CaseInv(n), Say(n)
  PROVE  CaseInv(n)'
<1>1. PICK p \in DOMAIN Script[n] : p = dev[n]
  BY DEF Say, Running
<1>2. dev'[n] = p + 1 /\ UNCHANGED <<case, measured, runs>>
  BY <1>1 DEF Say, Advance, TypeInv, director
<1>3. \A i : InLine(n, i)' <=> InLine(n, i) \/ (i = p /\ SignalAt(n, p))
  <2>1. line[n] \in Seq(Lines(n)) /\ line'[n] = Append(line[n], Script[n][p])
    BY <1>1 DEF ReportTypes, Say, TypeInv
  <2> QED
    BY <1>1, <2>1, LineSaid
<1>4. DOMAIN Script[n] \subseteq Nat \ {0} /\ p \in Nat \ {0}
  BY CaseScript
<1>5. \A i : InLine(n, i) => i \in DOMAIN Script[n] /\ i < p
  BY <1>1, <1>4 DEF LineInv, InLine, SignalAt
<1>6. \A id : Ended(n, id) => Ended(n, id)'
  BY <1>2, <1>3 DEF Ended
<1>7. ASSUME NEW i, Reports(n, i), InLine(n, i)' \/ (dev'[n] + 2 >= i /\ dev'[n] <= i)
      PROVE  Ended(n, Script[n][i][2])'
  <2>1. /\ i > 3 /\ i - 3 \in DOMAIN Script[n] /\ Script[n][i - 3] = <<"ENDTC", Script[n][i][2]>>
        /\ i \in Nat
    BY <1>4, <1>7, CaseScript DEF Reports
  <2>2. CASE InLine(n, i) \/ (p + 2 >= i /\ p <= i)
    BY <1>1, <1>4, <1>6, <1>7, <2>2, CaseInvIs
  <2>3. CASE p = i - 3
    <3>1. SignalAt(n, p)
      BY <2>1, <2>3 DEF SignalAt, Signals
    <3> QED
      BY <1>3, <2>1, <2>3, <3>1 DEF Ended
  <2> QED
    BY <1>2, <1>3, <1>4, <1>7, <2>1, <2>2, <2>3
<1>8. ASSUME NEW k, NEW e, Pairs(n, k, e), InLine(n, e)' \/ (k < dev'[n] /\ dev'[n] <= e)
      PROVE  Begun(n, k)'
  <2>1. k < e /\ SignalAt(n, k) /\ SignalAt(n, e) /\ k \in Nat /\ e \in Nat
    BY <1>4, <1>8, CaseScript DEF Pairs
  <2>2. CASE k = p
    BY <1>3, <2>1, <2>2 DEF Begun
  <2>3. CASE InLine(n, e) \/ (k < p /\ p <= e)
    <3>1. Begun(n, k)
      BY <1>1, <1>8, <2>3, CaseInvIs
    <3>2. k < p
      BY <1>4, <1>5, <2>1, <2>3
    <3> QED
      BY <1>2, <1>3, <3>1, <3>2 DEF Begun
  <2> QED
    BY <1>2, <1>3, <1>4, <1>8, <2>1, <2>2, <2>3
<1>9. Seen(n)' \cap Timed(n) \subseteq measured'[n]
  BY <1>2, SameRuns, CaseInvIs
<1> QED
  BY <1>7, <1>8, <1>9, CaseInvNext

LEMMA SilentCases ==
  ASSUME TypeInv, ReportTypes, NEW n \in Node, CaseInv(n),
         Read(n) \/ Await(n) \/ Save(n) \/ Crash(n)
  PROVE  CaseInv(n)'
<1>1. UNCHANGED <<case, measured, runs, line>>
  BY DEF Read, Await, Save, Crash, director, wires
<1>2. /\ \A i : InLine(n, i)' <=> InLine(n, i)
      /\ \A id : Ended(n, id) <=> Ended(n, id)'
      /\ \A k : Begun(n, k) <=> Begun(n, k)'
  <2>1. \A i : InLine(n, i)' <=> InLine(n, i)
    BY <1>1, SameLine
  <2> QED
    BY <1>1, <2>1 DEF Ended, Begun
<1>3. DOMAIN Script[n] \subseteq Nat \ {0} /\ dev[n] \in Nat /\ dev[n] # 0 /\ dev'[n] \in Nat
  BY CaseScript, SilentMoves DEF TypeInv
<1>4. Seen(n)' \cap Timed(n) \subseteq measured'[n]
  BY <1>1, SameRuns, CaseInvIs
<1>5. ASSUME \A i : Reports(n, i) /\ dev'[n] + 2 >= i /\ dev'[n] <= i /\ dev'[n] # 0
                      => dev[n] + 2 >= i /\ dev[n] <= i,
             \A k, e : Pairs(n, k, e) /\ k < dev'[n] /\ dev'[n] <= e => k < dev[n] /\ dev[n] <= e
      PROVE  CaseInv(n)'
  BY <1>2, <1>3, <1>4, <1>5, CaseInvIs, CaseInvNext
<1>6. CASE dev'[n] = dev[n] \/ dev'[n] = 0
  <2>1. \A k, e : Pairs(n, k, e) => k > 0
    BY <1>3 DEF Pairs
  <2>2. \A k, e : Pairs(n, k, e) /\ k < dev'[n] => dev'[n] = dev[n]
    BY <1>3, <1>6, <2>1 DEF Pairs
  <2> QED
    BY <1>5, <1>6, <2>2
<1>7. CASE dev'[n] = dev[n] + 1 /\ dev[n] \in DOMAIN Script[n] /\ Script[n][dev[n]][1] \in Silent
  <2>1. ASSUME NEW i, Reports(n, i), dev'[n] + 2 >= i, dev'[n] <= i
        PROVE  dev[n] + 2 >= i /\ dev[n] <= i
    <3>1. /\ i > 3 /\ i - 3 \in DOMAIN Script[n] /\ Script[n][i - 3] = <<"ENDTC", Script[n][i][2]>>
          /\ i \in Nat
      BY <1>3, <2>1, CaseScript DEF Reports
    <3>2. dev[n] # i - 3
      BY <1>7, <3>1 DEF Silent
    <3> QED
      BY <1>3, <1>7, <2>1, <3>1, <3>2
  <2>2. ASSUME NEW k, NEW e, Pairs(n, k, e), k < dev'[n], dev'[n] <= e
        PROVE  k < dev[n] /\ dev[n] <= e
    <3>1. k # dev[n] /\ k \in Nat /\ e \in Nat
      BY <1>3, <1>7, <2>2 DEF Silent, Pairs
    <3> QED
      BY <1>3, <1>7, <2>2, <3>1
  <2> QED
    BY <1>5, <2>1, <2>2
<1>8. CASE /\ dev'[n] = AfterFailure(n)
           /\ dev[n] \in DOMAIN Script[n] /\ Script[n][dev[n]][1] = "await"
  <2>1. PICK j \in DOMAIN Script[n] :
          /\ dev'[n] = j /\ j > dev[n]
          /\ Script[n][j][1] \in {"ENDTC", "STARTRUN", "sync"}
          /\ Script[n][j][1] = "ENDTC" =>
               \A k \in dev[n] .. j - 1 : Script[n][k][1] # "STARTTC"
    BY <1>8, FailureSkips
  <2>2. ASSUME NEW i, Reports(n, i), j + 2 >= i, j <= i PROVE FALSE
    <3>1. /\ Script[n][i - 2][1] = "read" /\ Script[n][i - 1][1] = "file"
          /\ Script[n][i][1] = "TESTCASE" /\ i \in Nat
      BY <1>3, <2>2, CaseScript DEF Reports
    <3>2. j = i \/ j = i - 1 \/ j = i - 2
      BY <1>3, <2>2, <3>1
    <3> QED
      BY <2>1, <3>1, <3>2
  <2>3. ASSUME NEW k, NEW e, Pairs(n, k, e), k < j, j <= e PROVE k < dev[n] /\ dev[n] <= e
    <3>1. k \in Nat /\ e \in Nat /\ k \in DOMAIN Script[n] /\ Script[n][k][1] = "STARTTC"
      BY <1>3, <2>3 DEF Pairs
    <3>2. j = e \/ j < e
      BY <1>3, <2>3, <3>1
    <3>3. Script[n][j][1] = "ENDTC"
      <4>1. CASE j = e
        BY <2>3, <4>1 DEF Pairs
      <4>2. CASE j < e
        BY <2>1, <2>3, <4>2, CaseScript
      <4> QED
        BY <3>2, <4>1, <4>2
    <3>4. k < dev[n]
      BY <1>3, <2>1, <2>3, <3>1, <3>3
    <3> QED
      BY <1>3, <2>1, <2>3, <3>1, <3>4
  <2> QED
    BY <1>5, <2>1, <2>2, <2>3
<1> QED
  BY <1>6, <1>7, <1>8, SilentMoves

(* What the signal handler sets.                                           *)
LEMMA Directs ==
  ASSUME TypeInv, ReportTypes, NEW n \in Node, Signal(n), NEW h, Takes(n, h)
  PROVE  /\ Script[n][h][1] = "STARTTC" => case'[n] = Script[n][h][2]
         /\ Script[n][h][1] \notin {"STARTTC", "STARTRUN"} => case'[n] = case[n]
         /\ Script[n][h][1] = "ENDTC" /\ case[n] = Script[n][h][2] => Script[n][h][2] \in measured'[n]
         /\ measured[n] \subseteq measured'[n]
<1>1. Direct(n, Script[n][h][1], Script[n][h][2])
  BY DEF Signal, Takes
<1>2. DOMAIN case = Node /\ DOMAIN measured = Node
  BY DEF ReportTypes
<1>3. CASE Script[n][h][1] = "STARTTC"
  BY <1>1, <1>2, <1>3 DEF Direct
<1>4. CASE Script[n][h][1] = "STARTRUN"
  BY <1>1, <1>2, <1>4 DEF Direct
<1>5. CASE Script[n][h][1] = "ENDTC"
  BY <1>1, <1>2, <1>5 DEF Direct
<1>6. CASE Script[n][h][1] \notin {"STARTTC", "STARTRUN", "ENDTC"}
  BY <1>1, <1>2, <1>6 DEF Direct, director
<1> QED
  BY <1>3, <1>4, <1>5, <1>6

LEMMA SignalCases ==
  ASSUME TypeInv, ReportTypes, NEW n \in Node, RunInv(n), CaseInv(n), Signal(n)
  PROVE  CaseInv(n)'
<1>1. PICK h \in DOMAIN Script[n] : Takes(n, h)
  BY SignalTakes
<1>2. /\ dev' = dev /\ dev[n] \in Nat /\ h \in Nat /\ DOMAIN Script[n] \subseteq Nat \ {0}
      /\ InLine(n, h) /\ (dev[n] # 0 => h < dev[n])
      /\ \A i : InLine(n, i)' => InLine(n, i) /\ h < i
      /\ \A i : InLine(n, i) => InLine(n, i)' \/ i = h
  BY <1>1, SignalTakes, CaseScript DEF Takes, RunInv, LineInv, TypeInv
<1>3. /\ Script[n][h][1] = "STARTTC" => case'[n] = Script[n][h][2]
      /\ Script[n][h][1] \notin {"STARTTC", "STARTRUN"} => case'[n] = case[n]
      /\ Script[n][h][1] = "ENDTC" /\ case[n] = Script[n][h][2] => Script[n][h][2] \in measured'[n]
      /\ measured[n] \subseteq measured'[n]
  BY <1>1, Directs
<1>4. \A k : InLine(n, k) => k = h \/ h < k
  BY <1>2
<1>5. ASSUME NEW i, Reports(n, i), Ended(n, Script[n][i][2]) PROVE Ended(n, Script[n][i][2])'
  <2>1. CASE Script[n][i][2] \in measured[n]
    BY <1>3, <2>1 DEF Ended
  <2>2. CASE Script[n][i][2] \notin measured[n]
    <3>1. PICK e \in DOMAIN Script[n] : Script[n][e] = <<"ENDTC", Script[n][i][2]>> /\ InLine(n, e)
      BY <1>5, <2>2 DEF Ended
    <3>2. CASE e # h
      BY <1>2, <3>1, <3>2 DEF Ended
    <3>3. CASE e = h
      <4>1. PICK k \in DOMAIN Script[n] : Script[n][k][1] = "STARTTC" /\ Script[n][k][2] = Script[n][i][2]
        BY <1>5 DEF Reports, Timed
      <4>2. Pairs(n, k, h)
        BY <3>1, <3>3, <4>1 DEF Pairs
      <4>3. k < h /\ k \in Nat
        BY <1>2, <4>2, CaseScript
      <4>4. Begun(n, k)
        BY <1>2, <4>2, CaseInvIs
      <4>5. ~InLine(n, k)
        BY <1>2, <1>4, <4>3
      <4>6. case[n] = Script[n][i][2]
        BY <4>1, <4>4, <4>5 DEF Begun
      <4>7. Script[n][h][1] = "ENDTC" /\ Script[n][h][2] = Script[n][i][2]
        BY <3>1, <3>3
      <4> QED
        BY <1>3, <4>6, <4>7 DEF Ended
    <3> QED
      BY <3>2, <3>3
  <2> QED
    BY <2>1, <2>2
<1>6. ASSUME NEW i, Reports(n, i),
             InLine(n, i)' \/ (dev'[n] + 2 >= i /\ dev'[n] <= i /\ dev'[n] # 0)
      PROVE  Ended(n, Script[n][i][2])'
  <2>1. Ended(n, Script[n][i][2])
    BY <1>2, <1>6, CaseInvIs
  <2> QED
    BY <1>5, <1>6, <2>1
<1>7. ASSUME NEW k, NEW e, Pairs(n, k, e), InLine(n, e)' \/ (k < dev'[n] /\ dev'[n] <= e)
      PROVE  Begun(n, k)'
  <2>1. /\ k < e /\ k \in Nat \ {0} /\ e \in Nat /\ Script[n][k][1] = "STARTTC" /\ SignalAt(n, k)
        /\ \A x \in DOMAIN Script[n] :
             k < x /\ x < e => Script[n][x][1] \notin {"STARTTC", "ENDTC", "STARTRUN", "sync"}
    BY <1>2, <1>7, CaseScript DEF Pairs
  <2>2. Begun(n, k)
    BY <1>2, <1>7, CaseInvIs
  <2>3. h < e
    BY <1>2, <1>7, <2>1
  <2>4. CASE k = h
    BY <1>2, <1>3, <2>1, <2>4 DEF Begun
  <2>5. CASE InLine(n, k) /\ k # h
    BY <1>2, <2>5 DEF Begun
  <2>6. CASE ~InLine(n, k)
    <3>1. case[n] = Script[n][k][2] /\ \A q \in DOMAIN Script[n] : InLine(n, q) => k < q
      BY <2>2, <2>6 DEF Begun
    <3>2. k < h
      BY <1>2, <3>1
    <3>3. case'[n] = case[n]
      BY <1>3, <2>1, <2>3, <3>2
    <3> QED
      BY <1>2, <3>1, <3>3 DEF Begun
  <2> QED
    BY <2>4, <2>5, <2>6
<1>8. ASSUME Reports(n, h) PROVE Script[n][h][2] \in measured[n]
  <2>1. Ended(n, Script[n][h][2])
    BY <1>2, <1>8, CaseInvIs
  <2>2. ASSUME NEW e \in DOMAIN Script[n], Script[n][e] = <<"ENDTC", Script[n][h][2]>>, InLine(n, e)
        PROVE  FALSE
    <3>1. h > 3 /\ h - 3 \in DOMAIN Script[n] /\ Script[n][h - 3] = Script[n][e] /\ e \in Nat
      BY <1>2, <1>8, <2>2, CaseScript
    <3>2. SignalAt(n, e)
      BY <2>2 DEF InLine
    <3>3. e = h - 3
      BY <3>1, <3>2, WhereIs
    <3> QED
      BY <1>2, <1>4, <2>2, <3>1, <3>3
  <2> QED
    BY <2>1, <2>2 DEF Ended
<1>9. Seen(n)' \cap Timed(n) \subseteq measured'[n]
  <2>1. CASE Script[n][h][1] = "TESTCASE"
    <3>1. Seen(n)' = Seen(n) \cup {Script[n][h][2]}
      BY <1>1, <2>1, TakesResult
    <3>2. Script[n][h][2] \in Timed(n) => Reports(n, h)
      BY <2>1 DEF Reports
    <3> QED
      BY <1>3, <1>8, <3>1, <3>2, CaseInvIs
  <2>2. CASE Script[n][h][1] = "STARTRUN"
    <3>0. Script[n][h][2] \in Word
      BY <1>1, SignalRecords, Zenon
    <3>1. /\ runs[n] \in Seq(RunRecord)
          /\ runs'[n] = Append(runs[n], [run |-> Script[n][h][2], results |-> <<>>])
      BY <1>1, <2>2, SignalRecords
    <3>2. Seen(n)' = Seen(n)
      BY <3>0, <3>1, RunAppended
    <3> QED
      BY <1>3, <3>2, CaseInvIs
  <2>3. CASE Script[n][h][1] \notin {"STARTRUN", "TESTCASE"}
    <3>1. Seen(n)' = Seen(n)
      BY <1>1, <2>3, SignalRecords, SameRuns
    <3> QED
      BY <1>3, <3>1, CaseInvIs
  <2> QED
    BY <2>1, <2>2, <2>3
<1> QED
  BY <1>6, <1>7, <1>9, CaseInvNext

(* Nothing else touches them.                                              *)
LEMMA SameCases ==
  ASSUME NEW n \in Node, CaseInv(n), \A i : InLine(n, i)' <=> InLine(n, i),
         dev'[n] = dev[n], runs'[n] = runs[n], case'[n] = case[n], measured'[n] = measured[n]
  PROVE  CaseInv(n)'
<1>1. /\ \A id : Ended(n, id) <=> Ended(n, id)'
      /\ \A k : Begun(n, k) <=> Begun(n, k)'
  BY DEF Ended, Begun
<1>2. Seen(n)' = Seen(n)
  BY SameRuns
<1> QED
  BY <1>1, <1>2, CaseInvIs, CaseInvNext

LEMMA MovesCases ==
  ASSUME TypeInv, ReportTypes, NEW n \in Node, RunInv(n), CaseInv(n), NodeMoves(n)
  PROVE  CaseInv(n)'
<1>0. LineInv(n)
  BY DEF RunInv
<1>1. CASE DeviceStep(n) \/ Crash(n)
  BY <1>0, <1>1, SayCases, SilentCases DEF DeviceStep
<1>2. CASE Signal(n)
  BY <1>2, SignalCases
<1>3. CASE Call(n) \/ Exit(n)
  BY <1>0, <1>3, OtherTakes, SameCases
<1>4. CASE Return(n) \/ Bundle(n) \/ Dropped(n) \/ Timeout(n) \/ SignalRaises(n)
  <2>1. UNCHANGED <<dev, line, runs, case, measured>>
    BY <1>4 DEF Return, Bundle, Dropped, Timeout, SignalRaises, device, wires, director
  <2> QED
    BY <2>1, SameLine, SameCases
<1> QED
  BY <1>1, <1>2, <1>3, <1>4 DEF NodeMoves, DispatcherStep

----------------------------------------------------------------------------
(* The theorems about the reports.                                         *)

SameReports(m) ==
  /\ files'[m] = files[m] /\ safe'[m] = safe[m] /\ runs'[m] = runs[m]
  /\ case'[m] = case[m] /\ measured'[m] = measured[m] /\ bundle'[m] = bundle[m]

LEMMA OthersReports ==
  ASSUME TypeInv, ReportTypes, NEW n \in Node, NodeMoves(n), NEW m \in Node, m # n
  PROVE  SameReports(m)
<1>0. /\ DOMAIN files = Node /\ DOMAIN safe = Node /\ DOMAIN runs = Node
      /\ DOMAIN case = Node /\ DOMAIN measured = Node /\ DOMAIN bundle = Node
  BY DEF TypeInv, ReportTypes
<1>1. CASE Say(n) \/ Read(n) \/ Await(n)
  BY <1>1 DEF Say, Read, Await, director, SameReports
<1>2. CASE Save(n) \/ Crash(n)
  <2>1. UNCHANGED <<runs, case, measured, bundle>>
    BY <1>2 DEF Save, Crash, director
  <2>2. files'[m] = files[m] /\ safe'[m] = safe[m]
    BY <1>0, <1>2 DEF Save, Crash
  <2> QED
    BY <2>1, <2>2 DEF SameReports
<1>3. CASE Signal(n)
  <2>1. UNCHANGED <<files, safe, bundle>>
    BY <1>3 DEF Signal, device
  <2>2. runs' = runs \/ \E r : runs' = [runs EXCEPT ![n] = r]
    BY <1>3 DEF Signal, TestRun, Result
  <2>3. runs'[m] = runs[m]
    BY <1>0, <2>2
  <2>4. Direct(n, Head(line[n])[1], Head(line[n])[2])
    BY <1>3 DEF Signal
  <2>5. \/ \E c : case' = [case EXCEPT ![n] = c] /\ measured' = measured
        \/ \E c : measured' = [measured EXCEPT ![n] = c] /\ case' = case
        \/ case' = case /\ measured' = measured
    BY <2>4 DEF Direct, director
  <2>6. case'[m] = case[m] /\ measured'[m] = measured[m]
    BY <1>0, <2>5
  <2> QED
    BY <2>1, <2>3, <2>6 DEF SameReports
<1>4. CASE Call(n) \/ Exit(n) \/ Return(n) \/ Dropped(n) \/ Timeout(n) \/ SignalRaises(n)
  BY <1>4 DEF Call, Exit, Return, Dropped, Timeout, SignalRaises, device, director, SameReports
<1>5. CASE Bundle(n)
  BY <1>0, <1>5 DEF Bundle, device, director, SameReports
<1> QED
  BY <1>1, <1>2, <1>3, <1>4, <1>5 DEF NodeMoves, DeviceStep, DispatcherStep

LEMMA SameKeepsReports ==
  ASSUME NEW m \in Node, Alike(m), SameReports(m), RunInv(m), FileInv(m), CaseInv(m)
  PROVE  RunInv(m)' /\ FileInv(m)' /\ CaseInv(m)'
<1>1. /\ \A i : InLine(m, i)' <=> InLine(m, i)
      /\ \A q : Due(m, q)' <=> Due(m, q)
  <2>1. \A i : InLine(m, i)' <=> InLine(m, i)
    BY SameLine DEF Alike
  <2> QED
    BY <2>1 DEF Alike, Due
<1>2. /\ Seen(m)' = Seen(m)
      /\ \A d : Recorded(m, d)' <=> Recorded(m, d)
      /\ TrueRuns(m)'
      /\ \A j : RunAt(m, j)' = RunAt(m, j)
  BY SameRuns DEF RunInv, SameReports
<1>3. LineInv(m)'
  <2>1. InOrder(m, line[m])'
    BY DEF InOrder, SignalAt, RunInv, LineInv, Alike
  <2> QED
    BY <1>1, <2>1 DEF RunInv, LineInv, Alike
<1>4. BeforeInv(m)' /\ NoRunLost(m)'
  BY <1>1, <1>2 DEF RunInv, BeforeInv, NoRunLost, SameReports
<1>5. FileInv(m)'
  <2>1. /\ \A id : Said(m, id)' <=> Said(m, id)
        /\ Exiting(m)' <=> Exiting(m)
        /\ Running(m)' <=> Running(m)
        /\ Arg(m)' = Arg(m)
        /\ \A op : At(m, op)' <=> At(m, op)
    BY <1>2 DEF Said, Exiting, Running, Arg, At, Alike
  <2> QED
    BY <1>2, <2>1 DEF FileInv, Alike, SameReports
<1>6. CaseInv(m)'
  BY <1>1, SameCases DEF Alike, SameReports
<1> QED
  BY <1>2, <1>3, <1>4, <1>5, <1>6 DEF RunInv

LEMMA ReportInit == Init => ReportInv
<1> SUFFICES ASSUME Init PROVE ReportInv
  OBVIOUS
<1>1. ASSUME NEW n \in Node
      PROVE  /\ line[n] = <<>> /\ runs[n] = <<>> /\ dev[n] = 1 /\ bundle[n] = <<>>
             /\ loop[n] = "expect" /\ files[n] = {} /\ safe[n] = {}
             /\ Seen(n) = {}
  <2>1. runs[n] = <<>>
    BY DEF Init
  <2>2. Seen(n) = {}
    BY <2>1 DEF Seen, ToSet
  <2> QED
    BY <2>2 DEF Init
<1>2. ReportTypes
  <2>1. DOMAIN case = Node /\ DOMAIN measured = Node
    BY DEF Init
  <2>2. \A n \in Node : \A r \in ToSet(runs[n]) : FALSE
    BY <1>1 DEF ToSet
  <2>3. \A S : <<>> \in Seq(S)
    OBVIOUS
  <2>4. \A n \in Node : line[n] \in Seq(Lines(n)) /\ runs[n] \in Seq(RunRecord)
    BY <1>1, <2>3
  <2> QED
    BY <1>1, <2>1, <2>2, <2>4 DEF ReportTypes, RunRecord
<1>3. ASSUME NEW n \in Node PROVE RunInv(n) /\ FileInv(n) /\ CaseInv(n)
  <2>1. /\ \A T : ~Has(line[n], T)
        /\ \A i : ~InLine(n, i)
        /\ \A q : Due(n, q) => q = 1
    BY <1>1, <1>3, HasNothing DEF InLine, Due
  <2>2. /\ DOMAIN Script[n] \subseteq Nat \ {0} /\ 1 \in DOMAIN Script[n] /\ Reported(Script[n])
    BY CaseScript, ScriptSteps, ReportAssumption
  <2>3. Script[n][1][1] \notin {"TESTCASE", "EXIT"}
    BY <2>2 DEF Reported
  <2>4. RunInv(n)
    <3>1. LineInv(n)
      BY <1>1, <2>1 DEF LineInv, InOrder
    <3>2. \A k \in DOMAIN Script[n] : ~(k < 1)
      BY <2>2
    <3>3. BeforeInv(n) /\ NoRunLost(n) /\ TrueRuns(n)
      BY <1>1, <2>1, <3>2 DEF BeforeInv, NoRunLost, TrueRuns
    <3> QED
      BY <3>1, <3>3 DEF RunInv
  <2>5. FileInv(n)
    <3>1. /\ ~At(n, "TESTCASE") /\ ~At(n, "EXIT") /\ ~Exiting(n)
          /\ \A id : ~Said(n, id)
      BY <1>1, <2>1, <2>3 DEF At, Exiting, Said
    <3> QED
      BY <1>1, <3>1 DEF FileInv
  <2>6. CaseInv(n)
    <3>1. \A i : Reports(n, i) => i > 3 /\ i \in Nat
      BY <2>2, CaseScript DEF Reports
    <3>2. \A k, e : Pairs(n, k, e) => k \in Nat \ {0}
      BY <2>2 DEF Pairs
    <3> QED
      BY <1>1, <2>1, <3>1, <3>2, CaseInvIs
  <2> QED
    BY <2>4, <2>5, <2>6
<1> QED
  BY <1>2, <1>3 DEF ReportInv

LEMMA ReportStep == TypeInv /\ ReportInv /\ [Next]_vars => ReportInv'
<1>1. ASSUME TypeInv, ReportInv, NEW n \in Node, NodeMoves(n) PROVE ReportInv'
  <2>1. ReportTypes /\ \A m \in Node : RunInv(m) /\ FileInv(m) /\ CaseInv(m)
    BY <1>1 DEF ReportInv
  <2>2. RunInv(n)' /\ FileInv(n)' /\ CaseInv(n)'
    BY <1>1, <2>1, MovesRuns, MovesFiles, MovesCases
  <2>3. ASSUME NEW m \in Node, m # n
        PROVE  Alike(m) /\ SameReports(m) /\ RunInv(m)' /\ FileInv(m)' /\ CaseInv(m)'
    BY <1>1, <2>1, <2>3, OthersAlike, OthersReports, SameKeepsReports
  <2>4. ReportTypes'
    <3>1. /\ line'[n] \in Seq(Lines(n)) /\ DOMAIN case' = Node /\ DOMAIN measured' = Node
          /\ runs'[n] \in Seq(RunRecord)
          /\ \A r \in ToSet(runs'[n]) : <<"STARTRUN", r.run>> \in Lines(n)
          /\ \A id \in Seen(n)' : <<"TESTCASE", id>> \in Lines(n)
      BY <1>1, <2>1, TypesOfLine, TypesOfRuns
    <3>2. ASSUME NEW m \in Node, m # n
          PROVE  line'[m] = line[m] /\ runs'[m] = runs[m] /\ Seen(m)' = Seen(m)
      BY <2>3, <3>2, SameRuns DEF Alike, SameReports
    <3>3. \A m \in Node : line'[m] \in Seq(Lines(m)) /\ runs'[m] \in Seq(RunRecord)
      BY <2>1, <3>1, <3>2 DEF ReportTypes, RunRecord
    <3>4. \A m \in Node : \A r \in ToSet(runs'[m]) : <<"STARTRUN", r.run>> \in Lines(m)
      BY <2>1, <3>1, <3>2 DEF ReportTypes
    <3>5. \A m \in Node : \A id \in Seen(m)' : <<"TESTCASE", id>> \in Lines(m)
      BY <2>1, <3>1, <3>2 DEF ReportTypes
    <3> QED
      BY <3>1, <3>3, <3>4, <3>5 DEF ReportTypes, RunRecord, Lines
  <2> QED
    BY <2>2, <2>3, <2>4 DEF ReportInv
<1>2. ASSUME ReportInv, UNCHANGED vars PROVE ReportInv'
  <2>1. ASSUME NEW m \in Node PROVE Alike(m) /\ SameReports(m)
    BY <1>2 DEF vars, device, wires, director, Alike, SameReports
  <2>2. \A m \in Node : RunInv(m)' /\ FileInv(m)' /\ CaseInv(m)'
    BY <1>2, <2>1, SameKeepsReports DEF ReportInv
  <2>3. ReportTypes'
    <3>1. line' = line /\ runs' = runs /\ case' = case /\ measured' = measured
      BY <1>2 DEF vars, director, wires
    <3> QED
      BY <1>2, <3>1 DEF ReportInv, ReportTypes, Seen, Lines
  <2> QED
    BY <2>2, <2>3 DEF ReportInv
<1> QED
  BY <1>1, <1>2 DEF Next, NodeMoves

(* The account of the reports holds in every run: the line is in the order *)
(* of the script behind what the dispatcher has recorded, no run is lost   *)
(* in between, what was said is in the files of the device and, once the   *)
(* runner has said that it exits, on its disk, and an ENDTC finds the case *)
(* that its STARTTC set.                                                   *)
THEOREM ReportInvariant == Spec => []ReportInv
<1>1. ShellInv => TypeInv
  BY DEF ShellInv
<1> QED
  BY <1>1, ReportInit, ReportStep, ShellInvariant, PTL DEF Spec

LEMMA Sandwich ==
  ASSUME NEW S, NEW a \in S, NEW c \in S, NEW m \in Seq(S), a < c,
         \A i \in DOMAIN m : a < m[i] /\ m[i] < c,
         \A i, j \in DOMAIN m : i < j => m[i] < m[j]
  PROVE  Ascending(<<a>> \o m \o <<c>>)
<1> DEFINE t == <<a>> \o m \o <<c>>
           w == Len(m)
<1>1. /\ w \in Nat /\ DOMAIN m = 1..w
      /\ DOMAIN t = 1..(w + 2) /\ t[1] = a /\ t[w + 2] = c
      /\ \A i \in 1..w : t[i + 1] = m[i]
  OBVIOUS
<1>2. ASSUME NEW i \in DOMAIN t, NEW j \in DOMAIN t, i < j PROVE t[i] < t[j]
  <2> HIDE DEF t, w
  <2>1. CASE i = 1 /\ j = w + 2
    BY <1>1, <2>1
  <2>2. CASE i = 1 /\ j # w + 2
    <3>1. j - 1 \in 1..w /\ t[(j - 1) + 1] = m[j - 1] /\ (j - 1) + 1 = j
      BY <1>1, <1>2, <2>2
    <3> QED
      BY <1>1, <2>2, <3>1
  <2>3. CASE i # 1 /\ j = w + 2
    <3>1. i - 1 \in 1..w /\ t[(i - 1) + 1] = m[i - 1] /\ (i - 1) + 1 = i
      BY <1>1, <1>2, <2>3
    <3> QED
      BY <1>1, <2>3, <3>1
  <2>4. CASE i # 1 /\ j # w + 2
    <3>1. i - 1 \in 1..w /\ t[(i - 1) + 1] = m[i - 1] /\ (i - 1) + 1 = i
      BY <1>1, <1>2, <2>4
    <3>2. j - 1 \in 1..w /\ t[(j - 1) + 1] = m[j - 1] /\ (j - 1) + 1 = j /\ i - 1 < j - 1
      BY <1>1, <1>2, <2>4
    <3> QED
      BY <1>1, <3>1, <3>2
  <2> QED
    BY <2>1, <2>2, <2>3, <2>4
<1> QED
  BY <1>2 DEF Ascending

(* The backup bundle of every dispatcher lists each result under the run   *)
(* that produced it, in the order in which the device reported, for any    *)
(* scripts and wherever devices crash and lines are dropped.               *)
THEOREM BackupIsTrueHolds == Spec => []BackupIsTrue
<1>1. ReportInv => BackupIsTrue
  <2> SUFFICES ASSUME ReportInv, NEW n \in Node
               PROVE  /\ \A j \in DOMAIN runs[n] : Ascending(Places(n, runs[n][j]))
                      /\ Ascending([j \in DOMAIN runs[n] |-> Where(n, "STARTRUN", runs[n][j].run)])
    BY DEF BackupIsTrue
  <2>1. TrueRuns(n) /\ ReportTypes
    BY DEF ReportInv, RunInv
  <2>2. Ascending([j \in DOMAIN runs[n] |-> Where(n, "STARTRUN", runs[n][j].run)])
    BY <2>1 DEF TrueRuns, Ascending, RunAt
  <2>3. ASSUME NEW j \in DOMAIN runs[n] PROVE Ascending(Places(n, runs[n][j]))
    <3> DEFINE r == runs[n][j]
               a == Where(n, "STARTRUN", r.run)
               c == Where(n, "ENDRUN", r.run)
               m == [i \in DOMAIN r.results |-> Where(n, "TESTCASE", r.results[i])]
               w == Len(r.results)
    <3>1. TrueRun(n, r)
      BY <2>1 DEF TrueRuns
    <3>2. r.results \in Seq(Word)
      <4>1. runs[n] \in Seq(RunRecord)
        BY <2>1 DEF ReportTypes, RunRecord
      <4>2. r \in RunRecord
        BY <4>1
      <4> QED
        BY <4>2 DEF RunRecord
    <3>3. w \in Nat /\ DOMAIN r.results = 1..w
      BY <3>2
    <3>4. /\ a < c
          /\ \A i \in 1..w : a < m[i] /\ m[i] < c
          /\ \A i, k \in 1..w : i < k => m[i] < m[k]
      BY <3>1, <3>3 DEF TrueRun
    <3>5. Places(n, r) = <<a>> \o m \o <<c>>
      BY DEF Places
    <3>6. DOMAIN m = 1..w
      BY <3>3
    <3> DEFINE S == {a, c} \cup {m[i] : i \in 1..w}
    <3>7. m \in [1..w -> S]
      BY <3>3
    <3> HIDE DEF m, a, c, w
    <3>8. m \in Seq(S) /\ a \in S /\ c \in S
      <4>1. a \in S /\ c \in S
        OBVIOUS
      <4> HIDE DEF S
      <4> QED
        BY <3>3, <3>7, <4>1, SeqDef
    <3> HIDE DEF S
    <3>9. Ascending(<<a>> \o m \o <<c>>)
      BY <3>4, <3>6, <3>8, Sandwich
    <3> QED
      BY <3>5, <3>9
  <2> QED
    BY <2>2, <2>3
<1> QED
  BY <1>1, ReportInvariant, PTL

(* When the runner has said that it exits, neither the files of the device *)
(* nor the backup bundle miss a result that was reported, and every case   *)
(* with a command was measured, for any scripts and wherever the device    *)
(* crashes afterwards.                                                     *)
THEOREM ExitMeansAllHolds == Spec => []ExitMeansAll
<1>1. ReportInv => ExitMeansAll
  BY DEF ReportInv, FileInv, CaseInv, ExitMeansAll
<1> QED
  BY <1>1, ReportInvariant, PTL
=============================================================================
