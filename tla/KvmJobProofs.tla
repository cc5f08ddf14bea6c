---------------------------- MODULE KvmJobProofs ----------------------------
(***************************************************************************)
(* Proofs about the engine of Pipeline, for every tree of actions; then    *)
(* about KvmJob, for any number of jobs in a row.                          *)
(***************************************************************************)
EXTENDS KvmJob, TLAPS

---------------------------------------------------------------------------
(* The engine.                                                             *)

EngineInv == EngineTypeOK /\ Nested /\ InterruptEndsJob

(* While a call stands in the loop its frame is the last of the stack.     *)
LEMMA TopFrame ==
  ASSUME EngineTypeOK, stack # <<>>
  PROVE  /\ Len(stack) \in Nat \ {0} /\ Len(stack) \in DOMAIN stack
         /\ Top \in Frame /\ Top.pipe \in Pipe /\ Top.at \in Nat \ {0}
         /\ Top.conn \in Conn \cup {NoConn}
<1>1. stack \in Seq(Frame)
  BY DEF EngineTypeOK
<1>2. Len(stack) \in Nat \ {0} /\ Len(stack) \in DOMAIN stack
  BY <1>1
<1>3. Top \in Frame
  BY <1>1, <1>2 DEF Top
<1> QED
  BY <1>2, <1>3 DEF Frame

(* The stack without its last call.                                        *)
LEMMA BeneathStack ==
  ASSUME EngineTypeOK, Len(stack) > 1
  PROVE  /\ Beneath \in Seq(Frame) /\ Len(Beneath) = Len(stack) - 1
         /\ \A i \in DOMAIN Beneath : Beneath[i] = stack[i]
         /\ DOMAIN Beneath = 1..Len(stack) - 1
BY DEF EngineTypeOK, Beneath

(* Places of a sequence of n calls.                                        *)
LEMMA Places ==
  ASSUME NEW n \in Nat \ {0}, NEW i \in 1..n
  PROVE  /\ i < n => i # n /\ i + 1 \in 1..n /\ i \in 1..n - 1
         /\ i # n => i < n
         /\ n \in 1..n /\ 1 \in 1..n
OBVIOUS

(* The last element of a sequence, replaced and followed by another.       *)
LEMMA LastReplaced ==
  ASSUME NEW S, NEW s \in Seq(S), s # <<>>, NEW f \in S
  PROVE  /\ Len(s) \in Nat \ {0} /\ DOMAIN s = 1..Len(s)
         /\ [s EXCEPT ![Len(s)] = f] \in Seq(S)
         /\ Len([s EXCEPT ![Len(s)] = f]) = Len(s)
         /\ DOMAIN [s EXCEPT ![Len(s)] = f] = 1..Len(s)
         /\ \A i \in 1..Len(s) :
              [s EXCEPT ![Len(s)] = f][i] = IF i = Len(s) THEN f ELSE s[i]
<1>1. Len(s) \in Nat \ {0} /\ DOMAIN s = 1..Len(s)
  OBVIOUS
<1>2. DOMAIN [s EXCEPT ![Len(s)] = f] = 1..Len(s)
  BY <1>1
<1>3. \A i \in 1..Len(s) : [s EXCEPT ![Len(s)] = f][i] = IF i = Len(s) THEN f ELSE s[i]
  BY <1>1
<1>4. \A i \in 1..Len(s) : s[i] \in S
  BY <1>1
<1>5. [s EXCEPT ![Len(s)] = f] \in Seq(S)
  BY <1>1, <1>2, <1>3, <1>4
<1>6. Len([s EXCEPT ![Len(s)] = f]) = Len(s)
  BY <1>1, <1>2, <1>5
<1> QED
  BY <1>1, <1>2, <1>3, <1>5, <1>6

(* Popping a call keeps the calls that are left nested.                    *)
LEMMA PopNested ==
  ASSUME EngineTypeOK, Nested, Len(stack) > 1, stack' = Beneath,
         stack[1].pipe = Outer
  PROVE  /\ stack' \in Seq(Frame) /\ stack' # <<>> /\ stack'[1].pipe = Outer
         /\ \A i \in DOMAIN stack' : i < Len(stack') =>
              /\ stack'[i].at \in DOMAIN Actions[stack'[i].pipe]
              /\ Actions[stack'[i].pipe][stack'[i].at] \in DOMAIN Inner
              /\ stack'[i + 1].pipe = Inner[Actions[stack'[i].pipe][stack'[i].at]]
         /\ stack'[Len(stack')].at \in DOMAIN Actions[stack'[Len(stack')].pipe]
<1> DEFINE n == Len(stack)
<1>1. n \in Nat /\ n > 1 /\ DOMAIN stack = 1..n
  BY DEF EngineTypeOK
<1>2. /\ stack' \in Seq(Frame) /\ Len(stack') = n - 1 /\ DOMAIN stack' = 1..n - 1
      /\ \A i \in 1..n - 1 : stack'[i] = stack[i]
  BY <1>1, BeneathStack
<1>3. \A i \in 1..n - 1 :
        /\ stack[i].at \in DOMAIN Actions[stack[i].pipe]
        /\ Actions[stack[i].pipe][stack[i].at] \in DOMAIN Inner
        /\ stack[i + 1].pipe = Inner[Actions[stack[i].pipe][stack[i].at]]
  BY <1>1 DEF Nested
<1>4. stack' # <<>> /\ stack'[1].pipe = Outer
  BY <1>1, <1>2
<1>5. \A i \in DOMAIN stack' : i < Len(stack') => i \in 1..n - 1 /\ i + 1 \in 1..n - 1
  BY <1>1, <1>2
<1>6. Len(stack') \in 1..n - 1
  BY <1>1, <1>2
<1> QED
  BY <1>2, <1>3, <1>4, <1>5, <1>6

(* Going on in the loop changes the place and the connection of the last   *)
(* call only.                                                              *)
LEMMA GoOnStack ==
  ASSUME EngineTypeOK, Nested, ret \in {"run", "inner"},
         NEW c \in Conn \cup {NoConn}, GoOn(c)
  PROVE  /\ stack' \in Seq(Frame) /\ stack' # <<>> /\ stack'[1].pipe = Outer
         /\ \A i \in DOMAIN stack' : i < Len(stack') =>
              /\ stack'[i].at \in DOMAIN Actions[stack'[i].pipe]
              /\ Actions[stack'[i].pipe][stack'[i].at] \in DOMAIN Inner
              /\ stack'[i + 1].pipe = Inner[Actions[stack'[i].pipe][stack'[i].at]]
<1> DEFINE n == Len(stack)
           f == [pipe |-> Top.pipe, at |-> Top.at + 1, conn |-> c]
<1>1. stack # <<>> /\ stack[1].pipe = Outer
  BY DEF Nested
<1>2. stack \in Seq(Frame)
  BY DEF EngineTypeOK
<1>3. Top \in Frame /\ Top.pipe \in Pipe /\ Top.at \in Nat \ {0}
  BY <1>1, TopFrame
<1>4. f \in Frame /\ f.pipe = Top.pipe
  BY <1>3 DEF Frame
<1>5. stack' = [stack EXCEPT ![n] = f]
  BY DEF GoOn
<1>6. Top = stack[n]
  BY DEF Top
<1>7. \A i \in DOMAIN stack : i < n =>
        /\ stack[i].at \in DOMAIN Actions[stack[i].pipe]
        /\ Actions[stack[i].pipe][stack[i].at] \in DOMAIN Inner
        /\ stack[i + 1].pipe = Inner[Actions[stack[i].pipe][stack[i].at]]
  BY DEF Nested
<1> HIDE DEF f
<1>8. /\ n \in Nat \ {0} /\ DOMAIN stack = 1..n
      /\ stack' \in Seq(Frame) /\ Len(stack') = n /\ DOMAIN stack' = 1..n
      /\ \A i \in 1..n : stack'[i] = IF i = n THEN f ELSE stack[i]
  BY <1>1, <1>2, <1>4, <1>5, LastReplaced
<1> HIDE DEF n
<1>9. \A i \in 1..n : stack'[i].pipe = stack[i].pipe
  BY <1>4, <1>6, <1>8
<1>10. stack' # <<>> /\ 1 \in 1..n
  BY <1>8
<1>11. ASSUME NEW i \in 1..n, i < n
       PROVE  /\ stack'[i].at \in DOMAIN Actions[stack'[i].pipe]
              /\ Actions[stack'[i].pipe][stack'[i].at] \in DOMAIN Inner
              /\ stack'[i + 1].pipe = Inner[Actions[stack'[i].pipe][stack'[i].at]]
  <2>1. i # n /\ i + 1 \in 1..n
    BY <1>8, <1>11, Places
  <2>2. stack'[i] = stack[i] /\ stack'[i + 1].pipe = stack[i + 1].pipe
    BY <1>8, <1>9, <2>1
  <2> QED
    BY <1>7, <1>8, <1>11, <2>2
<1> QED
  BY <1>1, <1>8, <1>9, <1>10, <1>11

(* Entering an internal pipeline adds its call.                            *)
LEMMA EntersStack ==
  ASSUME EngineTypeOK, Nested, NEW c \in Conn \cup {NoConn}, Enters(c)
  PROVE  /\ stack' \in Seq(Frame) /\ stack' # <<>> /\ stack'[1].pipe = Outer
         /\ \A i \in DOMAIN stack' : i < Len(stack') =>
              /\ stack'[i].at \in DOMAIN Actions[stack'[i].pipe]
              /\ Actions[stack'[i].pipe][stack'[i].at] \in DOMAIN Inner
              /\ stack'[i + 1].pipe = Inner[Actions[stack'[i].pipe][stack'[i].at]]
<1> DEFINE n == Len(stack)
           f == [pipe |-> Inner[Current], at |-> 1, conn |-> c]
<1>1. /\ stack # <<>> /\ stack[1].pipe = Outer /\ Current \in DOMAIN Inner
      /\ Top.at \in DOMAIN Actions[Top.pipe] /\ stack' = Append(stack, f)
  BY DEF Nested, Enters
<1>2. n \in Nat \ {0} /\ DOMAIN stack = 1..n /\ stack \in Seq(Frame)
  BY <1>1, TopFrame DEF EngineTypeOK
<1>3. f \in Frame /\ f.pipe = Inner[Current]
  BY <1>1, TreeAssumption DEF Frame
<1> HIDE DEF f
<1>4. /\ stack' \in Seq(Frame) /\ Len(stack') = n + 1 /\ DOMAIN stack' = 1..n + 1
      /\ stack'[n + 1] = f /\ \A i \in 1..n : stack'[i] = stack[i]
  BY <1>1, <1>2, <1>3
<1>5. ASSUME NEW i \in 1..n
      PROVE  /\ stack[i].at \in DOMAIN Actions[stack[i].pipe]
             /\ Actions[stack[i].pipe][stack[i].at] \in DOMAIN Inner
             /\ stack'[i + 1].pipe = Inner[Actions[stack[i].pipe][stack[i].at]]
  <2>1. CASE i = n
    BY <1>1, <1>3, <1>4, <2>1 DEF Top, Current
  <2>2. CASE i # n
    <3>1. i < n /\ i + 1 \in 1..n
      BY <1>2, <2>2, Places
    <3>2. /\ stack[i].at \in DOMAIN Actions[stack[i].pipe]
          /\ Actions[stack[i].pipe][stack[i].at] \in DOMAIN Inner
          /\ stack[i + 1].pipe = Inner[Actions[stack[i].pipe][stack[i].at]]
      BY <1>2, <3>1 DEF Nested
    <3>3. stack'[i + 1] = stack[i + 1]
      BY <1>4, <3>1
    <3> QED
      BY <3>2, <3>3
  <2> QED
    BY <2>1, <2>2
<1>6. \A i \in 1..n + 1 : i < n + 1 => i \in 1..n
  BY <1>2
<1>7. stack' # <<>> /\ stack'[1] = stack[1]
  BY <1>2, <1>4
<1> QED
  BY <1>1, <1>4, <1>5, <1>6, <1>7

-----------------------------------------------------------------------------
(* The invariant, case by case.                                            *)

LEMMA StartKeeps ==
  ASSUME EngineInv, JobRun \/ JobInvalid
  PROVE  EngineInv'
<1> USE DEF EngineInv
<1>1. CASE JobRun
  <2> DEFINE f == [pipe |-> Outer, at |-> 1, conn |-> NoConn]
  <2>1. stack' = <<f>> /\ f \in Frame /\ f.pipe = Outer
    BY <1>1, TreeAssumption DEF JobRun, Frame
  <2> HIDE DEF f
  <2>2. stack' \in Seq(Frame) /\ stack' # <<>> /\ Len(stack') = 1 /\ stack'[1].pipe = Outer
    BY <2>1
  <2>3. EngineTypeOK'
    BY <1>1, <2>2 DEF JobRun, EngineTypeOK, Over
  <2>4. DOMAIN stack' = 1..1
    BY <2>1
  <2>5. Nested'
    BY <1>1, <2>2, <2>4 DEF JobRun, Nested
  <2>6. InterruptEndsJob'
    BY <1>1 DEF JobRun, InterruptEndsJob
  <2> QED
    BY <2>3, <2>5, <2>6
<1>2. CASE JobInvalid
  <2>0. stack' = <<>> /\ stack' \in Seq(Frame) /\ DOMAIN stack' = {} /\ ret' = "raised"
    BY <1>2 DEF JobInvalid
  <2>1. EngineTypeOK'
    BY <1>2, <2>0 DEF JobInvalid, EngineTypeOK, Over
  <2>2. Nested'
    BY <2>0 DEF Nested
  <2>3. InterruptEndsJob'
    BY <1>2 DEF JobInvalid, InterruptEndsJob
  <2> QED
    BY <2>1, <2>2, <2>3
<1> QED
  BY <1>1, <1>2

LEMMA CallKeeps ==
  ASSUME EngineInv, CallRun
  PROVE  EngineInv'
<1>1. EngineTypeOK'
  BY DEF EngineInv, CallRun, EngineTypeOK
<1>2. Top' = Top
  BY DEF CallRun, Top
<1>3. Nested'
  BY <1>2 DEF EngineInv, CallRun, Nested
<1>4. InterruptEndsJob'
  BY DEF EngineInv, CallRun, InterruptEndsJob
<1> QED
  BY <1>1, <1>3, <1>4 DEF EngineInv

(* run_actions returns, to Job.run or to the action that called it.        *)
LEMMA ExhaustedKeeps ==
  ASSUME EngineInv, Exhausted
  PROVE  EngineInv'
<1>1. /\ EngineTypeOK /\ Nested /\ InterruptEndsJob
      /\ ret = "loop" /\ value' = Top.conn /\ errors' = errors /\ cancelled' = cancelled
  BY DEF EngineInv, Exhausted
<1>2. stack # <<>> /\ stack[1].pipe = Outer
  BY <1>1 DEF Nested
<1>3. Len(stack) \in Nat \ {0} /\ value' \in Conn \cup {NoConn}
  BY <1>1, <1>2, TopFrame
<1>4. InterruptEndsJob'
  BY <1>1 DEF InterruptEndsJob
<1>5. CASE Len(stack) = 1
  <2>1. ret' = "returned" /\ stack' = stack
    BY <1>5 DEF Exhausted
  <2>2. EngineTypeOK'
    BY <1>1, <1>3, <2>1 DEF EngineTypeOK, Over
  <2>3. Nested'
    BY <1>1, <2>1 DEF Nested
  <2> QED
    BY <1>4, <2>2, <2>3 DEF EngineInv
<1>6. CASE Len(stack) # 1
  <2>0. Len(stack) > 1
    <3> DEFINE n == Len(stack)
    <3>1. n \in Nat \ {0} /\ n # 1
      BY <1>3, <1>6
    <3> HIDE DEF n
    <3>2. n > 1
      BY <3>1
    <3> QED
      BY <3>2 DEF n
  <2>1. ret' = "inner" /\ stack' = Beneath
    BY <1>6 DEF Exhausted
  <2>2. /\ stack' \in Seq(Frame) /\ stack' # <<>> /\ stack'[1].pipe = Outer
        /\ \A i \in DOMAIN stack' : i < Len(stack') =>
             /\ stack'[i].at \in DOMAIN Actions[stack'[i].pipe]
             /\ Actions[stack'[i].pipe][stack'[i].at] \in DOMAIN Inner
             /\ stack'[i + 1].pipe = Inner[Actions[stack'[i].pipe][stack'[i].at]]
        /\ stack'[Len(stack')].at \in DOMAIN Actions[stack'[Len(stack')].pipe]
    BY <1>1, <1>2, <2>0, <2>1, PopNested
  <2>3. EngineTypeOK'
    BY <1>1, <1>3, <2>1, <2>2 DEF EngineTypeOK
  <2>4. Top'.at \in DOMAIN Actions[Top'.pipe]
    BY <2>2 DEF Top
  <2>5. Nested'
    BY <2>1, <2>2, <2>4 DEF Nested
  <2> QED
    BY <1>4, <2>3, <2>5 DEF EngineInv
<1> QED
  BY <1>5, <1>6

(* A KeyboardInterrupt goes through every loop.                            *)
LEMMA InterruptedKeeps ==
  ASSUME EngineInv, Interrupted
  PROVE  EngineInv'
<1>1. /\ EngineTypeOK /\ Nested /\ InterruptEndsJob /\ ret = "KeyboardInterrupt"
      /\ value' = value /\ errors' = errors /\ cancelled' = cancelled
  BY DEF EngineInv, Interrupted
<1>2. stack # <<>> /\ stack[1].pipe = Outer
  BY <1>1 DEF Nested
<1>3. CASE Len(stack) > 1
  <2>1. stack' = Beneath /\ ret' = ret
    BY <1>3 DEF Interrupted
  <2>2. /\ stack' \in Seq(Frame) /\ stack' # <<>> /\ stack'[1].pipe = Outer
        /\ \A i \in DOMAIN stack' : i < Len(stack') =>
             /\ stack'[i].at \in DOMAIN Actions[stack'[i].pipe]
             /\ Actions[stack'[i].pipe][stack'[i].at] \in DOMAIN Inner
             /\ stack'[i + 1].pipe = Inner[Actions[stack'[i].pipe][stack'[i].at]]
    BY <1>1, <1>2, <1>3, <2>1, PopNested
  <2>3. EngineTypeOK'
    BY <1>1, <2>1, <2>2 DEF EngineTypeOK
  <2>4. Nested'
    BY <1>1, <2>1, <2>2 DEF Nested
  <2>5. InterruptEndsJob'
    BY <1>1, <2>1 DEF InterruptEndsJob
  <2> QED
    BY <2>3, <2>4, <2>5 DEF EngineInv
<1>4. CASE ~(Len(stack) > 1)
  <2>1. ret' = "cancelled" /\ stack' = stack
    BY <1>4 DEF Interrupted
  <2>2. EngineTypeOK'
    BY <1>1, <2>1 DEF EngineTypeOK, Over
  <2>3. Nested'
    BY <1>1, <2>1 DEF Nested
  <2>4. InterruptEndsJob'
    BY <2>1 DEF InterruptEndsJob
  <2> QED
    BY <2>2, <2>3, <2>4 DEF EngineInv
<1> QED
  BY <1>3, <1>4

(* An action that returns or fails: the loop goes on with the next one.    *)
LEMMA GoOnKeeps ==
  ASSUME EngineInv, NEW c \in Conn \cup {NoConn}, GoOn(c),
         ret \in {"run", "inner"}, errors' \subseteq Action
  PROVE  EngineInv'
<1>1. EngineTypeOK /\ Nested /\ InterruptEndsJob
  BY DEF EngineInv
<1>2. ret' = "loop" /\ value' = value /\ cancelled' = cancelled
  BY DEF GoOn
<1>3. /\ stack' \in Seq(Frame) /\ stack' # <<>> /\ stack'[1].pipe = Outer
      /\ \A i \in DOMAIN stack' : i < Len(stack') =>
           /\ stack'[i].at \in DOMAIN Actions[stack'[i].pipe]
           /\ Actions[stack'[i].pipe][stack'[i].at] \in DOMAIN Inner
           /\ stack'[i + 1].pipe = Inner[Actions[stack'[i].pipe][stack'[i].at]]
  BY <1>1, GoOnStack
<1>4. EngineTypeOK'
  BY <1>1, <1>2, <1>3 DEF EngineTypeOK
<1>5. Nested'
  BY <1>2, <1>3 DEF Nested
<1>6. InterruptEndsJob'
  BY <1>1, <1>2 DEF InterruptEndsJob
<1> QED
  BY <1>4, <1>5, <1>6 DEF EngineInv

(* What an action may do keeps the invariant; the action the loop stands   *)
(* at is one of the job.                                                   *)
LEMMA AnyRunKeeps ==
  ASSUME EngineInv, AnyRun
  PROVE  EngineInv'
<1>1. EngineTypeOK /\ Nested /\ InterruptEndsJob
  BY DEF EngineInv
<1>2. ret \in {"run", "inner"}
  BY DEF AnyRun, Returns, Enters, Fails, Raises, Cancels
<1>3. stack # <<>> /\ stack[1].pipe = Outer /\ Top.at \in DOMAIN Actions[Top.pipe]
  BY <1>1, <1>2 DEF Nested
<1>4. Top.pipe \in Pipe /\ Top.conn \in Conn \cup {NoConn}
  BY <1>1, <1>3, TopFrame
<1>5. Actions[Top.pipe] \in Seq(Action)
  BY <1>4, TreeAssumption
<1>6. Current \in Action
  BY <1>3, <1>5 DEF Current
<1>7. errors \subseteq Action
  BY <1>1 DEF EngineTypeOK
<1>8. ASSUME NEW c \in Conn \cup {NoConn}, Returns(c)
      PROVE  EngineInv'
  <2> DEFINE k == IF c = NoConn THEN Top.conn ELSE c
  <2>1. k \in Conn \cup {NoConn}
    BY <1>4
  <2>2. GoOn(k) /\ errors' \subseteq Action
    BY <1>7, <1>8 DEF Returns
  <2> HIDE DEF k
  <2> QED
    BY <1>2, <2>1, <2>2, GoOnKeeps
<1>9. CASE Fails
  <2>1. GoOn(Top.conn) /\ errors' \subseteq Action
    BY <1>6, <1>7, <1>9 DEF Fails
  <2> QED
    BY <1>2, <1>4, <2>1, GoOnKeeps
<1>10. ASSUME NEW c \in Conn \cup {NoConn}, Enters(c)
       PROVE  EngineInv'
  <2>1. ret' = "loop" /\ value' = value /\ errors' = errors /\ cancelled' = cancelled
    BY <1>10 DEF Enters
  <2>2. /\ stack' \in Seq(Frame) /\ stack' # <<>> /\ stack'[1].pipe = Outer
        /\ \A i \in DOMAIN stack' : i < Len(stack') =>
             /\ stack'[i].at \in DOMAIN Actions[stack'[i].pipe]
             /\ Actions[stack'[i].pipe][stack'[i].at] \in DOMAIN Inner
             /\ stack'[i + 1].pipe = Inner[Actions[stack'[i].pipe][stack'[i].at]]
    BY <1>1, <1>10, EntersStack
  <2>3. EngineTypeOK'
    BY <1>1, <2>1, <2>2 DEF EngineTypeOK
  <2>4. Nested'
    BY <2>1, <2>2 DEF Nested
  <2>5. InterruptEndsJob'
    BY <1>1, <1>2, <2>1 DEF InterruptEndsJob
  <2> QED
    BY <2>3, <2>4, <2>5 DEF EngineInv
<1>11. CASE Raises \/ Cancels
  <2>1. /\ stack' = stack /\ value' = value /\ errors' = errors /\ Top' = Top
        /\ \/ ret' = "raised" /\ cancelled' = cancelled
           \/ ret' = "KeyboardInterrupt" /\ cancelled' = TRUE
    BY <1>11 DEF Raises, Cancels, Top
  <2>2. EngineTypeOK'
    BY <1>1, <2>1 DEF EngineTypeOK, Over
  <2>3. Nested'
    BY <1>1, <1>3, <2>1 DEF Nested
  <2>4. InterruptEndsJob'
    BY <1>1, <1>2, <2>1 DEF InterruptEndsJob
  <2> QED
    BY <2>2, <2>3, <2>4 DEF EngineInv
<1> QED
  BY <1>8, <1>9, <1>10, <1>11 DEF AnyRun

-----------------------------------------------------------------------------
LEMMA IdleIsGood ==
  ASSUME Idle
  PROVE  EngineInv
<1>1. stack = <<>> /\ stack \in Seq(Frame) /\ DOMAIN stack = {}
  BY DEF Idle
<1>2. EngineTypeOK /\ InterruptEndsJob
  BY <1>1 DEF Idle, EngineTypeOK, InterruptEndsJob
<1>3. Nested
  BY <1>1 DEF Idle, Nested
<1> QED
  BY <1>2, <1>3 DEF EngineInv

LEMMA EngineKeeps ==
  ASSUME EngineInv, [EngineNext]_engine
  PROVE  EngineInv'
<1>1. CASE JobRun \/ JobInvalid
  BY <1>1, StartKeeps
<1>2. CASE CallRun
  BY <1>2, CallKeeps
<1>3. CASE Exhausted
  BY <1>3, ExhaustedKeeps
<1>4. CASE Interrupted
  BY <1>4, InterruptedKeeps
<1>5. CASE AnyRun
  BY <1>5, AnyRunKeeps
<1>6. CASE UNCHANGED engine
  BY <1>6 DEF engine, EngineInv, EngineTypeOK, Nested, InterruptEndsJob, Top
<1> QED
  BY <1>1, <1>2, <1>3, <1>4, <1>5, <1>6 DEF EngineNext

(* Whatever tree of actions a job has and whatever they do, the loop keeps *)
(* its calls nested, and a KeyboardInterrupt ends the job (run_actions,    *)
(* action.py:178).                                                         *)
THEOREM EngineInvariant == EngineSpec => []EngineInv
<1>1. Idle => EngineInv
  BY IdleIsGood
<1>2. EngineInv /\ [EngineNext]_engine => EngineInv'
  BY EngineKeeps
<1> QED
  BY <1>1, <1>2, PTL DEF EngineSpec

(* Every call of run_actions is that of the internal pipeline of the       *)
(* action its caller stands at, for any tree.                              *)
THEOREM NestedHolds == EngineSpec => [](EngineTypeOK /\ Nested)
<1>1. EngineInv => EngineTypeOK /\ Nested
  BY DEF EngineInv
<1> QED
  BY <1>1, EngineInvariant, PTL

(* A KeyboardInterrupt ends the job from any depth of any tree.            *)
THEOREM InterruptEndsAnyJob == EngineSpec => []InterruptEndsJob
<1>1. EngineInv => InterruptEndsJob
  BY DEF EngineInv
<1> QED
  BY <1>1, EngineInvariant, PTL

---------------------------------------------------------------------------
(* The job.                                                                *)

Live == {"loop", "run", "inner"}

(* The tables of the job.                                                  *)
LEMMA Tables ==
  /\ Outer = "job" /\ Conn = {"shell"} /\ MaxJobs \in Nat
  /\ DOMAIN Actions["job"] = 1..5 /\ DOMAIN Actions["deploy"] = 1..7
  /\ DOMAIN Actions["mount"] = 1..3 /\ DOMAIN Actions["testdef"] = 1..3
  /\ DOMAIN Actions["boot"] = 1..1
  /\ DOMAIN Inner = {"deploy", "mount", "testdef", "boot"}
  /\ \A a \in DOMAIN Inner : Inner[a] = a
BY KvmAssumption DEF KvmActions, KvmPipe, KvmInner

LEMMA Entries ==
  /\ Actions["job"][1] = "deploy" /\ Actions["job"][2] = "boot" /\ Actions["job"][3] = "test"
  /\ Actions["job"][4] = "submit_results" /\ Actions["job"][5] = "finalize"
  /\ Actions["deploy"][1] = "download" /\ Actions["deploy"][2] = "checksum"
  /\ Actions["deploy"][3] = "mount" /\ Actions["deploy"][4] = "customise"
  /\ Actions["deploy"][5] = "testdef" /\ Actions["deploy"][6] = "overlay"
  /\ Actions["deploy"][7] = "umount"
  /\ Actions["mount"][1] = "offset" /\ Actions["mount"][2] = "loop_check"
  /\ Actions["mount"][3] = "loop_mount"
  /\ Actions["testdef"][1] = "repo" /\ Actions["testdef"][2] = "tar-repo"
  /\ Actions["testdef"][3] = "test-overlay"
  /\ Actions["boot"][1] = "expect-shell"
BY KvmAssumption DEF KvmActions

(* The calls of run_actions there can be: that of the job, of the          *)
(* deployment and of the boot, and the two within the deployment.          *)
Shape ==
  /\ Len(stack) \in 1..3 /\ stack[1].pipe = "job" /\ stack[1].at \in Nat \ {0}
  /\ Len(stack) >= 2 =>
       /\ stack[2].at \in Nat \ {0}
       /\ \/ stack[1].at = 1 /\ stack[2].pipe = "deploy"
          \/ stack[1].at = 2 /\ stack[2].pipe = "boot" /\ Len(stack) = 2
  /\ Len(stack) = 3 =>
       /\ stack[3].at \in Nat \ {0}
       /\ \/ stack[2].at = 3 /\ stack[3].pipe = "mount"
          \/ stack[2].at = 5 /\ stack[3].pipe = "testdef"

LEMMA ShapeOfStack ==
  ASSUME EngineTypeOK, Nested, ret \in Live
  PROVE  Shape
<1> DEFINE n == Len(stack)
<1>1. stack # <<>> /\ stack[1].pipe = "job"
  BY Tables DEF Nested, Live
<1>2. /\ n \in Nat \ {0} /\ DOMAIN stack = 1..n
      /\ \A i \in 1..n : stack[i].at \in Nat \ {0}
  <2>1. stack \in Seq(Frame)
    BY DEF EngineTypeOK
  <2>2. n \in Nat \ {0} /\ DOMAIN stack = 1..n
    BY <1>1, <2>1
  <2>3. \A i \in 1..n : stack[i] \in Frame
    BY <2>1, <2>2
  <2> QED
    BY <2>2, <2>3 DEF Frame
<1>3. \A i \in 1..n : i < n =>
        /\ stack[i].at \in DOMAIN Actions[stack[i].pipe]
        /\ Actions[stack[i].pipe][stack[i].at] \in DOMAIN Inner
        /\ stack[i + 1].pipe = Inner[Actions[stack[i].pipe][stack[i].at]]
  BY <1>2 DEF Nested
<1> HIDE DEF n
<1>4. ASSUME n >= 2
      PROVE  \/ stack[1].at = 1 /\ stack[2].pipe = "deploy"
             \/ stack[1].at = 2 /\ stack[2].pipe = "boot"
  <2>1. 1 \in 1..n /\ 1 < n
    BY <1>2, <1>4
  <2>2. /\ stack[1].at \in 1..5 /\ Actions["job"][stack[1].at] \in DOMAIN Inner
        /\ stack[1 + 1].pipe = Inner[Actions["job"][stack[1].at]]
    BY <1>1, <1>3, <2>1, Tables
  <2>3. stack[1].at \in {1, 2, 3, 4, 5} /\ 1 + 1 = 2
    BY <2>2
  <2> QED
    BY <2>2, <2>3, Tables, Entries
<1>5. ASSUME n >= 3
      PROVE  /\ stack[1].at = 1 /\ stack[2].pipe = "deploy"
             /\ \/ stack[2].at = 3 /\ stack[3].pipe = "mount"
                \/ stack[2].at = 5 /\ stack[3].pipe = "testdef"
  <2>1. 2 \in 1..n /\ 2 < n /\ n >= 2
    BY <1>2, <1>5
  <2>2. /\ stack[2].at \in DOMAIN Actions[stack[2].pipe]
        /\ Actions[stack[2].pipe][stack[2].at] \in DOMAIN Inner
        /\ stack[2 + 1].pipe = Inner[Actions[stack[2].pipe][stack[2].at]]
    BY <1>3, <2>1
  <2>3. stack[2].pipe # "boot"
    <3>1. ASSUME stack[2].pipe = "boot" PROVE FALSE
      <4>1. stack[2].at \in 1..1 /\ Actions["boot"][stack[2].at] \in DOMAIN Inner
        BY <2>2, <3>1, Tables
      <4>2. stack[2].at = 1
        BY <4>1
      <4> QED
        BY <4>1, <4>2, Tables, Entries
    <3> QED
      BY <3>1
  <2>4. stack[1].at = 1 /\ stack[2].pipe = "deploy"
    BY <1>4, <2>1, <2>3
  <2>5. stack[2].at \in 1..7
    BY <2>2, <2>4, Tables
  <2>6. stack[2].at \in {1, 2, 3, 4, 5, 6, 7} /\ 2 + 1 = 3
    BY <2>5
  <2> QED
    BY <2>2, <2>4, <2>6, Tables, Entries
<1>6. n <= 3
  <2>1. ASSUME n >= 4 PROVE FALSE
    <3>1. 3 \in 1..n /\ 3 < n /\ n >= 3
      BY <1>2, <2>1
    <3>2. /\ stack[3].at \in DOMAIN Actions[stack[3].pipe]
          /\ Actions[stack[3].pipe][stack[3].at] \in DOMAIN Inner
      BY <1>3, <3>1
    <3>3. stack[3].pipe \in {"mount", "testdef"}
      BY <1>5, <3>1
    <3>4. stack[3].at \in 1..3
      BY <3>2, <3>3, Tables
    <3>5. stack[3].at \in {1, 2, 3}
      BY <3>4
    <3> QED
      BY <3>2, <3>3, <3>5, Tables, Entries
  <2> QED
    BY <1>2, <2>1
<1>7. n \in 1..3 /\ (n >= 2 => 2 \in 1..n) /\ (n = 3 => 3 \in 1..n) /\ 1 \in 1..n
  BY <1>2, <1>6
<1>8. n >= 2 => n = 2 \/ n >= 3
  BY <1>7
<1>9. n = 3 => n >= 3
  OBVIOUS
<1> QED
  BY <1>1, <1>2, <1>4, <1>5, <1>7, <1>8, <1>9 DEF Shape, n

LEMMA ShapeOfStackNext ==
  (EngineTypeOK /\ Nested /\ ret \in Live)' => Shape'
<1>1. EngineTypeOK /\ Nested /\ ret \in Live => Shape
  BY ShapeOfStack
<1> QED
  BY <1>1, PTL

(* Which call an action of the deployment stands in.                       *)
LEMMA WhereActionsAre ==
  ASSUME Shape, Top.at \in DOMAIN Actions[Top.pipe]
  PROVE  /\ Current \in {"deploy", "boot", "test", "submit_results", "finalize"}
            => Len(stack) = 1
         /\ Current = "deploy" => stack[1].at = 1
         /\ Current = "boot" => stack[1].at = 2
         /\ Current = "test" => stack[1].at = 3
         /\ Current = "submit_results" => stack[1].at = 4
         /\ Current = "finalize" => stack[1].at = 5
         /\ Current \in {"download", "checksum", "mount", "customise", "testdef", "overlay", "umount"}
            => Len(stack) = 2 /\ stack[1].at = 1
         /\ Current \in {"download", "mount", "testdef"} => stack[2].at < 6
         /\ Current = "overlay" => stack[2].at = 6
         /\ Current = "umount" => stack[2].at = 7
         /\ Current \in {"offset", "loop_check", "loop_mount", "repo", "tar-repo", "test-overlay"}
            => Len(stack) = 3 /\ stack[1].at = 1
         /\ Current = "expect-shell" => Len(stack) = 2 /\ stack[1].at = 2
         /\ Len(stack) = 1 /\ stack[1].at = 1 => Current = "deploy"
         /\ Len(stack) = 2 /\ stack[1].at = 1 /\ stack[2].at = 6 => Current = "overlay"
         /\ Len(stack) = 1 => stack[1].at \in 1..5
<1>1. CASE Len(stack) = 1
  <2>1. Top = stack[1] /\ stack[1].at \in 1..5 /\ Current = Actions["job"][stack[1].at]
    BY <1>1, Tables DEF Shape, Top, Current
  <2>2. stack[1].at \in {1, 2, 3, 4, 5}
    BY <2>1
  <2> QED
    BY <1>1, <2>1, <2>2, Entries
<1>2. CASE Len(stack) = 2 /\ stack[1].at = 1
  <2>1. /\ Top = stack[2] /\ stack[2].pipe = "deploy" /\ stack[2].at \in 1..7
        /\ Current = Actions["deploy"][stack[2].at]
    BY <1>2, Tables DEF Shape, Top, Current
  <2>2. stack[2].at \in {1, 2, 3, 4, 5, 6, 7}
    BY <2>1
  <2> QED
    BY <1>2, <2>1, <2>2, Entries
<1>3. CASE Len(stack) = 2 /\ stack[1].at # 1
  <2>1. /\ Top = stack[2] /\ stack[2].pipe = "boot" /\ stack[2].at \in 1..1
        /\ Current = Actions["boot"][stack[2].at] /\ stack[1].at = 2
    BY <1>3, Tables DEF Shape, Top, Current
  <2>2. stack[2].at = 1
    BY <2>1
  <2>3. Current = "expect-shell"
    BY <2>1, <2>2, Entries
  <2> QED
    BY <1>3, <2>1, <2>3
<1>4. CASE Len(stack) = 3
  <2>1. /\ Top = stack[3] /\ stack[1].at = 1 /\ stack[3].pipe \in {"mount", "testdef"}
        /\ Current = Actions[stack[3].pipe][stack[3].at] /\ stack[3].at \in 1..3
    BY <1>4, Tables DEF Shape, Top, Current
  <2>2. stack[3].at \in {1, 2, 3}
    BY <2>1
  <2>3. Current \in {"offset", "loop_check", "loop_mount", "repo", "tar-repo", "test-overlay"}
    BY <2>1, <2>2, Entries
  <2> QED
    BY <1>4, <2>1, <2>3
<1>5. Len(stack) \in {1, 2, 3}
  BY DEF Shape
<1> QED
  BY <1>1, <1>2, <1>3, <1>4, <1>5

(* Where the steps of the loop lead.                                       *)
LEMMA GoOnPlace ==
  ASSUME EngineTypeOK, stack # <<>>, NEW c, GoOn(c), c \in Conn \cup {NoConn}
  PROVE  /\ Len(stack') = Len(stack) /\ ret' = "loop"
         /\ \A i \in 1..Len(stack) : i # Len(stack) => stack'[i] = stack[i]
         /\ stack'[Len(stack)] = [pipe |-> Top.pipe, at |-> Top.at + 1, conn |-> c]
<1> DEFINE f == [pipe |-> Top.pipe, at |-> Top.at + 1, conn |-> c]
<1>1. stack \in Seq(Frame)
  BY DEF EngineTypeOK
<1>2. f \in Frame
  BY TopFrame DEF Frame
<1>3. stack' = [stack EXCEPT ![Len(stack)] = f] /\ ret' = "loop"
  BY DEF GoOn
<1> HIDE DEF f
<1>4. /\ Len(stack') = Len(stack) /\ Len(stack) \in Nat \ {0}
      /\ \A i \in 1..Len(stack) : stack'[i] = IF i = Len(stack) THEN f ELSE stack[i]
  BY <1>1, <1>2, <1>3, LastReplaced
<1>5. Len(stack) \in 1..Len(stack)
  BY <1>4
<1> QED
  BY <1>3, <1>4, <1>5 DEF f

LEMMA EntersPlace ==
  ASSUME EngineTypeOK, NEW c, Enters(c), stack # <<>>
  PROVE  /\ Len(stack') = Len(stack) + 1 /\ ret' = "loop"
         /\ \A i \in 1..Len(stack) : stack'[i] = stack[i]
         /\ stack'[Len(stack) + 1] = [pipe |-> Inner[Current], at |-> 1, conn |-> c]
<1> DEFINE f == [pipe |-> Inner[Current], at |-> 1, conn |-> c]
<1>1. stack \in Seq(Frame) /\ stack' = Append(stack, f) /\ ret' = "loop"
  BY DEF EngineTypeOK, Enters
<1> HIDE DEF f
<1>2. /\ Len(stack') = Len(stack) + 1 /\ stack'[Len(stack) + 1] = f
      /\ \A i \in 1..Len(stack) : stack'[i] = stack[i]
  BY <1>1
<1> QED
  BY <1>1, <1>2 DEF f

LEMMA ExhaustedPlace ==
  ASSUME EngineTypeOK, stack # <<>>, Exhausted
  PROVE  \/ Len(stack) = 1 /\ stack' = stack /\ ret' = "returned"
         \/ /\ Len(stack) > 1 /\ Len(stack') = Len(stack) - 1 /\ ret' = "inner"
            /\ \A i \in 1..Len(stack) - 1 : stack'[i] = stack[i]
<1>1. Len(stack) \in Nat \ {0}
  BY TopFrame
<1>2. CASE Len(stack) = 1
  BY <1>2 DEF Exhausted
<1>3. CASE Len(stack) # 1
  <2>1. Len(stack) > 1
    <3> DEFINE n == Len(stack)
    <3>1. n \in Nat \ {0} /\ n # 1
      BY <1>1, <1>3
    <3> HIDE DEF n
    <3>2. n > 1
      BY <3>1
    <3> QED
      BY <3>2 DEF n
  <2>2. stack' = Beneath /\ ret' = "inner"
    BY <1>3 DEF Exhausted
  <2>3. /\ Len(Beneath) = Len(stack) - 1 /\ DOMAIN Beneath = 1..Len(stack) - 1
        /\ \A i \in DOMAIN Beneath : Beneath[i] = stack[i]
    BY <2>1, BeneathStack
  <2> QED
    BY <2>1, <2>2, <2>3
<1> QED
  BY <1>2, <1>3

-----------------------------------------------------------------------------
(* The overlay has been added to the image, or the deployment is over.     *)
Past ==
  \/ stack[1].at >= 2
  \/ Len(stack) >= 2 /\ stack[2].at >= 7
  \/ Len(stack) = 1 /\ ret = "inner"

(* What the run of an action does to the place of the job.                 *)
Moves ==
  \/ ret' \in {"raised", "KeyboardInterrupt"}
  \/ ret' = "loop" /\ stack'[1].at >= stack[1].at /\ (Past' => Past)

LEMMA GoOnMoves ==
  ASSUME EngineInv, ret \in {"run", "inner"}, NEW c \in Conn \cup {NoConn}, GoOn(c),
         Current # "overlay", ~Executing("deploy")
  PROVE  Moves
<1>1. EngineTypeOK /\ Nested /\ Shape /\ stack # <<>> /\ Top.at \in DOMAIN Actions[Top.pipe]
  BY ShapeOfStack DEF EngineInv, Live, Nested
<1>2. /\ Len(stack') = Len(stack) /\ ret' = "loop"
      /\ \A i \in 1..Len(stack) : i # Len(stack) => stack'[i] = stack[i]
      /\ stack'[Len(stack)] = [pipe |-> Top.pipe, at |-> Top.at + 1, conn |-> c]
  BY <1>1, GoOnPlace
<1>3. Len(stack) \in {1, 2, 3} /\ stack[1].at \in Nat \ {0}
  BY <1>1 DEF Shape
<1>4. CASE Len(stack) = 1
  <2>1. stack'[1].at = stack[1].at + 1
    BY <1>2, <1>4 DEF Top
  <2>2. stack[1].at = 1 => ret = "inner"
    BY <1>1, <1>4, WhereActionsAre DEF Executing
  <2>3. Past
    BY <1>3, <1>4, <2>2 DEF Past
  <2> QED
    BY <1>2, <1>3, <2>1, <2>3 DEF Moves
<1>5. CASE Len(stack) = 2
  <2>1. stack'[1] = stack[1] /\ stack'[2].at = stack[2].at + 1 /\ Len(stack') = 2
    BY <1>2, <1>5 DEF Top
  <2>2. CASE stack[1].at = 1
    <3>1. stack[2].at # 6 /\ stack[2].at \in Nat
      BY <1>1, <1>5, <2>2, WhereActionsAre DEF Shape
    <3>2. Past' => stack'[2].at >= 7
      BY <2>1, <2>2 DEF Past
    <3>3. stack[2].at + 1 >= 7 => stack[2].at >= 7
      BY <3>1
    <3>4. Past' => Past
      BY <1>5, <2>1, <3>2, <3>3 DEF Past
    <3> QED
      BY <1>2, <1>3, <2>1, <3>4 DEF Moves
  <2>3. CASE stack[1].at # 1
    BY <1>2, <1>3, <2>1, <2>3 DEF Moves, Past
  <2> QED
    BY <2>2, <2>3
<1>6. CASE Len(stack) = 3
  <2>1. stack'[1] = stack[1] /\ stack'[2] = stack[2] /\ Len(stack') = 3
    BY <1>2, <1>6
  <2> QED
    BY <1>2, <1>3, <1>6, <2>1 DEF Moves, Past
<1> QED
  BY <1>3, <1>4, <1>5, <1>6

LEMMA EntersMoves ==
  ASSUME EngineInv, NEW c \in Conn \cup {NoConn}, Enters(c)
  PROVE  Moves /\ Len(stack') = Len(stack) + 1 /\ stack'[1] = stack[1]
<1>1. EngineTypeOK /\ Nested /\ Shape /\ stack # <<>> /\ Top.at \in DOMAIN Actions[Top.pipe]
  BY ShapeOfStack DEF EngineInv, Live, Nested, Enters
<1>2. /\ Len(stack') = Len(stack) + 1 /\ ret' = "loop"
      /\ \A i \in 1..Len(stack) : stack'[i] = stack[i]
      /\ stack'[Len(stack) + 1] = [pipe |-> Inner[Current], at |-> 1, conn |-> c]
  BY <1>1, EntersPlace
<1>3. Len(stack) \in {1, 2, 3} /\ stack[1].at \in Nat \ {0}
  BY <1>1 DEF Shape
<1>4. stack'[1] = stack[1]
  BY <1>2, <1>3
<1>5. CASE Len(stack) = 1
  <2>1. Len(stack') = 2 /\ stack'[2].at = 1
    BY <1>2, <1>5
  <2> QED
    BY <1>2, <1>3, <1>4, <2>1 DEF Moves, Past
<1>6. CASE Len(stack) # 1
  <2>1. stack'[2] = stack[2] /\ Len(stack) >= 2 /\ Len(stack') # 1
    BY <1>2, <1>3, <1>6
  <2> QED
    BY <1>2, <1>3, <1>4, <2>1 DEF Moves, Past
<1> QED
  BY <1>5, <1>6

(* The action of the deployment enters its pipeline when it runs.          *)
LEMMA AnyRunMoves ==
  ASSUME EngineInv, AnyRun, Current # "overlay",
         Executing("deploy") => Enters(NoConn)
  PROVE  Moves
<1>1. \A c \in Conn \cup {NoConn} : Enters(c) => Moves
  BY EntersMoves
<1>2. CASE Executing("deploy")
  BY <1>1, <1>2
<1>3. CASE Raises \/ Cancels
  BY <1>3 DEF Raises, Cancels, Moves
<1>4. ASSUME ~Executing("deploy"),
             \/ \E c \in Conn \cup {NoConn} : Returns(c)
             \/ Fails
      PROVE  Moves
  <2>1. ret \in {"run", "inner"}
    BY <1>4 DEF Returns, Fails
  <2>2. stack # <<>> /\ EngineTypeOK
    BY <2>1 DEF EngineInv, Nested
  <2>3. Top.conn \in Conn \cup {NoConn}
    BY <2>2, TopFrame
  <2>4. \E c \in Conn \cup {NoConn} : GoOn(c)
    BY <1>4, <2>3 DEF Returns, Fails
  <2> QED
    BY <1>4, <2>1, <2>4, GoOnMoves
<1> QED
  BY <1>1, <1>2, <1>3, <1>4 DEF AnyRun

(* The loop itself.                                                        *)
LEMMA LoopMoves ==
  ASSUME EngineInv, CallRun \/ Exhausted \/ Interrupted, ret' \in Live
  PROVE  /\ ret \in Live /\ stack'[1] = stack[1] /\ (Past' => Past)
         /\ \/ Len(stack') = Len(stack) /\ ret' = "run"
            \/ Len(stack) > 1 /\ Len(stack') = Len(stack) - 1 /\ ret' = "inner"
<1>1. ret = "loop"
  BY DEF CallRun, Exhausted, Interrupted, Live
<1>2. EngineTypeOK /\ Nested /\ Shape /\ stack # <<>>
  BY <1>1, ShapeOfStack DEF EngineInv, Live, Nested
<1>3. Len(stack) \in {1, 2, 3} /\ stack[1].at \in Nat \ {0}
  BY <1>2 DEF Shape
<1>4. CASE CallRun
  BY <1>1, <1>4 DEF CallRun, Past, Live
<1>5. CASE Exhausted
  <2>1. /\ Len(stack) > 1 /\ Len(stack') = Len(stack) - 1 /\ ret' = "inner"
        /\ \A i \in 1..Len(stack) - 1 : stack'[i] = stack[i]
    BY <1>2, <1>5, ExhaustedPlace DEF Live
  <2>2. Len(stack) \in {2, 3} /\ stack'[1] = stack[1]
    BY <1>3, <2>1
  <2>3. CASE Len(stack) = 2
    <3>1. stack[2].at \notin DOMAIN Actions[stack[2].pipe]
      BY <1>5, <2>3 DEF Exhausted, Top
    <3>2. CASE stack[1].at = 1
      <4>1. stack[2].at \in Nat \ {0} /\ stack[2].at \notin 1..7
        BY <1>2, <2>3, <3>1, <3>2, Tables DEF Shape
      <4>2. stack[2].at >= 7
        BY <4>1
      <4> QED
        BY <1>1, <2>1, <2>2, <2>3, <4>2 DEF Past, Live
    <3>3. CASE stack[1].at # 1
      BY <1>1, <1>3, <2>1, <2>2, <3>3 DEF Past, Live
    <3> QED
      BY <3>2, <3>3
  <2>4. CASE Len(stack) = 3
    <3>1. stack'[2] = stack[2] /\ Len(stack') = 2
      BY <2>1, <2>4
    <3> QED
      BY <1>1, <2>1, <2>2, <2>4, <3>1 DEF Past, Live
  <2> QED
    BY <2>2, <2>3, <2>4
<1> QED
  BY <1>1, <1>4, <1>5 DEF Interrupted

-----------------------------------------------------------------------------
(* The actions of the job are runs of the engine's.                        *)
ActionRuns ==
  \/ Plain \/ Deploy \/ Download \/ Mount \/ Offset \/ LoopCheck \/ LoopMount
  \/ TestDefinitions \/ GitRepo \/ BzrRepo \/ TarRepo \/ Overlay \/ Umount
  \/ Boot \/ ExpectShell \/ Test \/ Finalize

LEMMA ConnectionsAre ==
  ASSUME EngineInv, ret \in {"run", "inner"}
  PROVE  {Top.conn, value, NoConn, "shell"} \subseteq Conn \cup {NoConn}
<1>1. EngineTypeOK /\ stack # <<>>
  BY DEF EngineInv, Nested
<1> QED
  BY <1>1, TopFrame, Tables DEF EngineTypeOK

LEMMA RunsAreRuns ==
  ASSUME EngineInv, ActionRuns
  PROVE  AnyRun /\ ret \in {"run", "inner"}
<1>1. ret \in {"run", "inner"}
  <2>1. CASE Plain
    BY <2>1 DEF Plain, Executing, Resumed
  <2>2. CASE Deploy
    BY <2>2 DEF Deploy, Executing, Resumed
  <2>3. CASE Download
    BY <2>3 DEF Download, Executing, Resumed
  <2>4. CASE Mount
    BY <2>4 DEF Mount, Executing, Resumed
  <2>5. CASE Offset
    BY <2>5 DEF Offset, Executing, Resumed
  <2>6. CASE LoopCheck
    BY <2>6 DEF LoopCheck, Executing, Resumed
  <2>7. CASE LoopMount
    BY <2>7 DEF LoopMount, Executing, Resumed
  <2>8. CASE TestDefinitions
    BY <2>8 DEF TestDefinitions, Executing, Resumed
  <2>9. CASE GitRepo
    BY <2>9 DEF GitRepo, Executing, Resumed
  <2>10. CASE BzrRepo
    BY <2>10 DEF BzrRepo, Executing, Resumed
  <2>11. CASE TarRepo
    BY <2>11 DEF TarRepo, Executing, Resumed
  <2>12. CASE Overlay
    BY <2>12 DEF Overlay, Executing, Resumed
  <2>13. CASE Umount
    BY <2>13 DEF Umount, Executing, Resumed
  <2>14. CASE Boot
    BY <2>14 DEF Boot, Executing, Resumed
  <2>15. CASE ExpectShell
    BY <2>15 DEF ExpectShell, Executing, Resumed
  <2>16. CASE Test
    BY <2>16 DEF Test, Executing, Resumed
  <2>17. CASE Finalize
    BY <2>17 DEF Finalize, Executing, Resumed
  <2> QED
    BY <2>1, <2>2, <2>3, <2>4, <2>5, <2>6, <2>7, <2>8, <2>9, <2>10, <2>11, <2>12, <2>13, <2>14, <2>15, <2>16, <2>17 DEF ActionRuns
<1>2. {Top.conn, value, NoConn, "shell"} \subseteq Conn \cup {NoConn}
  BY <1>1, ConnectionsAre
<1>3. \A c \in {Top.conn, value, NoConn, "shell"} :
        (Enters(c) => AnyRun) /\ (Returns(c) => AnyRun)
  BY <1>2 DEF AnyRun
<1>4. Fails \/ Raises \/ Cancels => AnyRun
  BY DEF AnyRun
<1>5. AnyRun
  <2>1. CASE Plain
    BY <1>3, <1>4, <2>1 DEF Plain
  <2>2. CASE Deploy
    BY <1>3, <1>4, <2>2 DEF Deploy
  <2>3. CASE Download
    BY <1>3, <1>4, <2>3 DEF Download
  <2>4. CASE Mount
    BY <1>3, <1>4, <2>4 DEF Mount
  <2>5. CASE Offset
    BY <1>3, <1>4, <2>5 DEF Offset
  <2>6. CASE LoopCheck
    BY <1>3, <1>4, <2>6 DEF LoopCheck
  <2>7. CASE LoopMount
    BY <1>3, <1>4, <2>7 DEF LoopMount
  <2>8. CASE TestDefinitions
    BY <1>3, <1>4, <2>8 DEF TestDefinitions
  <2>9. CASE GitRepo
    BY <1>3, <1>4, <2>9 DEF GitRepo
  <2>10. CASE BzrRepo
    BY <1>3, <1>4, <2>10 DEF BzrRepo
  <2>11. CASE TarRepo
    BY <1>3, <1>4, <2>11 DEF TarRepo
  <2>12. CASE Overlay
    BY <1>3, <1>4, <2>12 DEF Overlay
  <2>13. CASE Umount
    BY <1>3, <1>4, <2>13 DEF Umount
  <2>14. CASE Boot
    BY <1>3, <1>4, <2>14 DEF Boot
  <2>15. CASE ExpectShell
    BY <1>3, <1>4, <2>15 DEF ExpectShell
  <2>16. CASE Test
    BY <1>3, <1>4, <2>16 DEF Test
  <2>17. CASE Finalize
    BY <1>3, <1>4, <2>17 DEF Finalize
  <2> QED
    BY <2>1, <2>2, <2>3, <2>4, <2>5, <2>6, <2>7, <2>8, <2>9, <2>10, <2>11, <2>12, <2>13, <2>14, <2>15, <2>16, <2>17 DEF ActionRuns
<1> QED
  BY <1>1, <1>5

(* Every step of a job is one of the engine, or leaves it alone.           *)
LEMMA KvmStep ==
  ASSUME EngineInv, [Next]_vars
  PROVE  [EngineNext]_engine
<1>1. CASE StartJob
  BY <1>1 DEF StartJob, EngineNext
<1>2. CASE ExitJob
  BY <1>2 DEF ExitJob
<1>3. CASE Loop
  BY <1>3 DEF Loop, EngineNext
<1>4. CASE ActionRuns
  BY <1>4, RunsAreRuns DEF EngineNext
<1>5. CASE UNCHANGED vars
  BY <1>5 DEF vars
<1> QED
  BY <1>1, <1>2, <1>3, <1>4, <1>5 DEF Next, ActionRuns

(* A job implements the loop over its tree: what holds for any tree holds  *)
(* for it. A Ctrl-C ends it from any depth.                                *)
THEOREM KvmInterruptEndsJob == Spec => []InterruptEndsJob
<1>1. Init => EngineInv
  BY IdleIsGood DEF Init
<1>2. EngineInv /\ [Next]_vars => EngineInv'
  BY KvmStep, EngineKeeps
<1>3. EngineInv => InterruptEndsJob
  BY DEF EngineInv
<1> QED
  BY <1>1, <1>2, <1>3, PTL DEF Spec

-----------------------------------------------------------------------------
(* The types of what the actions use.                                      *)
KvmTypes ==
  /\ job \in 0..MaxJobs /\ alive \in BOOLEAN
  /\ par \in [gz : BOOLEAN, vcs : {"git", "bzr"}, revision : BOOLEAN]
  /\ file \in File \ {"dir"} /\ img \in [File -> Content]
  /\ {offset, mounted, inImage, booted, swallowed} \subseteq BOOLEAN
  /\ shell \in {"none", "open", "closed"}

LEMMA HoldingType ==
  ASSUME NEW s \in {"absent", "torn", "whole", "erased"}
  PROVE  Holding(s) \in Content /\ Holding(s).state = s
BY Tables DEF Holding, Content, Wrong

LEMMA EraseType ==
  ASSUME KvmTypes
  PROVE  Erase(file) \in [File -> Content] /\ [img EXCEPT !["dir"] = Holding("absent")] \in [File -> Content]
BY HoldingType DEF Erase, KvmTypes, File

(* An image with some of its fields changed.                               *)
LEMMA ContentType ==
  ASSUME NEW g \in Content
  PROVE  /\ \A b \in BOOLEAN : [g EXCEPT !.conf = b] \in Content
         /\ \A b \in BOOLEAN : [g EXCEPT !.dir = b] \in Content
         /\ \A r \in 0..Wrong : [g EXCEPT !.repo = r] \in Content
         /\ \A t \in 0..Wrong : [g EXCEPT !.tar = t] \in Content
         /\ \A j \in 0..MaxJobs : [g EXCEPT !.overlay = j] \in Content
BY DEF Content

LEMMA ImageType ==
  ASSUME KvmTypes, NEW f \in File
  PROVE  /\ \A b \in BOOLEAN : [img EXCEPT ![f].conf = b] \in [File -> Content]
         /\ \A r \in 0..Wrong, b \in BOOLEAN :
              [img EXCEPT ![f].repo = r, ![f].dir = b] \in [File -> Content]
         /\ \A t \in 0..Wrong : [img EXCEPT ![f].dir = TRUE, ![f].tar = t] \in [File -> Content]
         /\ [img EXCEPT ![f].overlay = job, ![f].dir = TRUE] \in [File -> Content]
<1>1. img \in [File -> Content] /\ img[f] \in Content /\ job \in 0..MaxJobs
  BY DEF KvmTypes
<1>2. \A g \in Content : [img EXCEPT ![f] = g] \in [File -> Content]
  BY <1>1
<1>3. ASSUME NEW b \in BOOLEAN PROVE [img EXCEPT ![f].conf = b] \in [File -> Content]
  BY <1>1, <1>2, ContentType
<1>4. ASSUME NEW r \in 0..Wrong, NEW b \in BOOLEAN
      PROVE  [img EXCEPT ![f].repo = r, ![f].dir = b] \in [File -> Content]
  BY <1>1, ContentType
<1>5. ASSUME NEW t \in 0..Wrong
      PROVE  [img EXCEPT ![f].dir = TRUE, ![f].tar = t] \in [File -> Content]
  BY <1>1, ContentType
<1>6. [img EXCEPT ![f].overlay = job, ![f].dir = TRUE] \in [File -> Content]
  BY <1>1, ContentType
<1> QED
  BY <1>3, <1>4, <1>5, <1>6

LEMMA CheckedOutType ==
  ASSUME KvmTypes, NEW c, NEW k, NEW r \in CheckedOut(c, k)
  PROVE  r \in 0..Wrong
<1>1. Root \in File /\ img[Root] \in Content
  BY DEF KvmTypes, Root, File
<1>2. img[Root].repo \in 0..Wrong
  BY <1>1 DEF Content
<1>3. Wrong \in Nat /\ Wrong \in 0..Wrong /\ job \in 0..Wrong
  BY Tables DEF KvmTypes, Wrong
<1>4. Cloned(c) \in 0..Wrong
  BY <1>2, <1>3 DEF Cloned
<1> QED
  BY <1>3, <1>4 DEF CheckedOut

LEMMA TypesKept ==
  ASSUME KvmTypes, [Next]_vars
  PROVE  KvmTypes'
<1>1. Root \in File /\ file \in File
  BY DEF KvmTypes, Root, File
<1>2. CASE StartJob
  <2>1. job' \in 0..MaxJobs
    BY <1>2, Tables DEF StartJob, KvmTypes
  <2>2. /\ par' \in [gz : BOOLEAN, vcs : {"git", "bzr"}, revision : BOOLEAN]
        /\ alive' = TRUE /\ file' = "x" /\ offset' = FALSE /\ inImage' = FALSE
        /\ shell' = "none" /\ booted' = FALSE /\ swallowed' = FALSE
        /\ mounted' = mounted /\ img' = img
    BY <1>2 DEF StartJob
  <2> QED
    BY <2>1, <2>2 DEF KvmTypes, File
<1>3. CASE ExitJob
  <2>1. img' \in [File -> Content]
    BY <1>3, EraseType DEF ExitJob
  <2> QED
    BY <1>3, <2>1 DEF ExitJob, KvmTypes
<1>4. CASE Loop \/ Plain \/ Deploy \/ Mount \/ BzrRepo \/ Test
  BY <1>4 DEF Loop, Plain, Deploy, Mount, BzrRepo, Test, KvmTypes, Jobs, files, device
<1>5. CASE Download
  <2>1. Target \in {"x", "x.img"} /\ Target \in File
    BY DEF Target, File
  <2>2. \A s \in {"whole", "torn"} : [img EXCEPT ![Target] = Holding(s)] \in [File -> Content]
    BY <2>1, HoldingType DEF KvmTypes
  <2>3. img' \in [File -> Content] /\ file' \in File \ {"dir"} /\ offset' \in BOOLEAN
    BY <1>5, <2>1, <2>2 DEF Download, KvmTypes, File
  <2> QED
    BY <1>5, <2>3 DEF Download, KvmTypes, Jobs, device
<1>6. CASE Offset
  BY <1>6 DEF Offset, Ran, KvmTypes, Jobs, device
<1>7. CASE LoopCheck
  BY <1>7 DEF LoopCheck, Ran, KvmTypes, Jobs, files, device
<1>8. CASE LoopMount
  BY <1>8 DEF LoopMount, Ran, KvmTypes, Jobs, device
<1>9. CASE TestDefinitions
  <2>1. UNCHANGED img \/ SetConf(TRUE) \/ SetConf(FALSE)
    BY <1>9 DEF TestDefinitions
  <2>2. \A b \in BOOLEAN : [img EXCEPT ![Root].conf = b] \in [File -> Content]
    BY <1>1, ImageType
  <2>3. img \in [File -> Content]
    BY DEF KvmTypes
  <2>4. img' \in [File -> Content]
    BY <2>1, <2>2, <2>3 DEF SetConf
  <2> QED
    BY <1>9, <2>4 DEF TestDefinitions, KvmTypes, Jobs, device
<1>10. CASE GitRepo
  <2>1. PICK c \in Command, k \in Command : \E r \in CheckedOut(c, k) :
          /\ Ran({c, k}) /\ img' = [img EXCEPT ![Root].repo = r, ![Root].dir = @ \/ r # 0]
          /\ inImage' = FALSE \/ inImage' = (par.revision /\ mounted) \/ inImage' = inImage
    BY <1>10 DEF GitRepo
  <2>2. PICK r \in CheckedOut(c, k) :
          /\ Ran({c, k}) /\ img' = [img EXCEPT ![Root].repo = r, ![Root].dir = @ \/ r # 0]
          /\ inImage' = FALSE \/ inImage' = (par.revision /\ mounted) \/ inImage' = inImage
    BY <2>1
  <2>3. r \in 0..Wrong
    BY <2>2, CheckedOutType
  <2>4. img' \in [File -> Content]
    BY <1>1, <2>2, <2>3, ImageType
  <2>5. inImage' \in BOOLEAN /\ swallowed' \in BOOLEAN
    BY <2>2 DEF KvmTypes, Ran
  <2> QED
    BY <1>10, <2>4, <2>5 DEF GitRepo, KvmTypes, Jobs, device
<1>11. CASE TarRepo
  <2>1. \E t \in {job, img[Root].tar, Wrong} : img' = Extracted(t) \/ img' = img
    BY <1>11 DEF TarRepo
  <2>2. {job, img[Root].tar, Wrong} \subseteq 0..Wrong
    <3>1. img[Root].tar \in 0..Wrong /\ job \in 0..MaxJobs /\ MaxJobs \in Nat
      BY <1>1, Tables DEF KvmTypes, Content
    <3> QED
      BY <3>1 DEF Wrong
  <2>3. \A t \in 0..Wrong : Extracted(t) \in [File -> Content]
    BY <1>1, ImageType DEF Extracted
  <2>4. img' \in [File -> Content]
    BY <2>1, <2>2, <2>3 DEF KvmTypes
  <2> QED
    BY <1>11, <2>4 DEF TarRepo, KvmTypes, Jobs, device
<1>12. CASE Overlay
  <2>1. img' \in [File -> Content]
    BY <1>1, <1>12, ImageType DEF Overlay, KvmTypes
  <2> QED
    BY <1>12, <2>1 DEF Overlay, KvmTypes, Jobs, device
<1>13. CASE Umount
  <2>1. img' \in {img, Erase(file), [img EXCEPT !["dir"] = Holding("absent")]}
    BY <1>13 DEF Umount
  <2>2. img' \in [File -> Content]
    BY <2>1, EraseType DEF KvmTypes
  <2>3. mounted' \in BOOLEAN /\ swallowed' \in BOOLEAN
    BY <1>13 DEF Umount, Ran, KvmTypes
  <2> QED
    BY <1>13, <2>2, <2>3 DEF Umount, KvmTypes, Jobs, device
<1>14. CASE Boot
  BY <1>14 DEF Boot, KvmTypes, Jobs, files
<1>15. CASE ExpectShell
  BY <1>15 DEF ExpectShell, KvmTypes, Jobs, files
<1>16. CASE Finalize
  BY <1>16 DEF Finalize, KvmTypes, Jobs, files
<1>17. CASE UNCHANGED vars
  BY <1>17 DEF vars, KvmTypes, files, device
<1> QED
  BY <1>2, <1>3, <1>4, <1>5, <1>6, <1>7, <1>8, <1>9, <1>10, <1>11, <1>12, <1>13, <1>14, <1>15,
     <1>16, <1>17 DEF Next

-----------------------------------------------------------------------------
(* What the images hold, and where the session of the boot is, at each     *)
(* place of the job.                                                       *)
Overlaid == img["x"].state = "whole" => img["x"].overlay = job
NoImageYet == file = "x.img" /\ ret \in Live => img["x"].state = "absent"
PastIsOverlaid == ret \in Live /\ Past => Overlaid
BootedIsPast == booted => img["x"].overlay = job /\ (ret \in Live => stack[1].at >= 2)
ShellIsCarried ==
  shell = "open" =>
    /\ ret # "returned"
    /\ ret \in Live =>
         /\ stack[1].at \in 2..5
         /\ stack[1].at = 2 => Len(stack) = 2 \/ ret = "inner"
         /\ stack[1].at > 2 => stack[1].conn = "shell"

(* What an action does not change in the image that boots.                 *)
SameImage == img'["x"].state = img["x"].state /\ img'["x"].overlay = img["x"].overlay /\ job' = job

LEMMA ImageKept ==
  ASSUME NoImageYet, PastIsOverlaid, Moves, SameImage, file' = file, ret \in Live
  PROVE  NoImageYet' /\ PastIsOverlaid'
BY DEF NoImageYet, PastIsOverlaid, Overlaid, Moves, SameImage, Live

LEMMA BootedKept ==
  ASSUME BootedIsPast, Moves, SameImage, booted' = booted, ret \in Live, EngineInv, EngineInv'
  PROVE  BootedIsPast'
<1>1. stack[1].at \in Nat
  BY ShapeOfStack DEF EngineInv, Shape
<1>2. CASE ret' \in {"raised", "KeyboardInterrupt"}
  BY <1>2 DEF BootedIsPast, SameImage, Live
<1>3. CASE ret' = "loop" /\ stack'[1].at >= stack[1].at
  <2>1. stack'[1].at \in Nat
    <3>1. EngineTypeOK' /\ Nested' /\ ret' \in Live
      BY <1>3 DEF EngineInv, Live
    <3>2. Shape'
      BY <3>1, ShapeOfStackNext
    <3> QED
      BY <3>2 DEF Shape
  <2>2. ASSUME booted PROVE stack'[1].at >= 2
    <3>1. stack[1].at >= 2
      BY <2>2 DEF BootedIsPast
    <3> QED
      BY <1>1, <1>3, <2>1, <3>1
  <2> QED
    BY <2>2 DEF BootedIsPast, SameImage
<1> QED
  BY <1>2, <1>3 DEF Moves

KvmInv ==
  /\ EngineInv /\ KvmTypes
  /\ NoImageYet /\ PastIsOverlaid /\ BootedIsPast /\ ShellIsCarried

(* The step of a run, once its effects are known.                          *)
LEMMA Assembled ==
  ASSUME KvmInv, [Next]_vars, NoImageYet', PastIsOverlaid', BootedIsPast', ShellIsCarried'
  PROVE  KvmInv'
<1>1. EngineInv'
  BY KvmStep, EngineKeeps DEF KvmInv
<1>2. KvmTypes'
  BY TypesKept DEF KvmInv
<1> QED
  BY <1>1, <1>2 DEF KvmInv

(* What an action of the job knows of its place.                           *)
LEMMA AtAction ==
  ASSUME EngineInv, ret \in {"run", "inner"}
  PROVE  /\ Shape /\ ret \in Live /\ stack # <<>> /\ EngineTypeOK
         /\ Top.at \in DOMAIN Actions[Top.pipe]
BY ShapeOfStack DEF EngineInv, Nested, Live

LEMMA DeployActionPlace ==
  ASSUME EngineInv, ret \in {"run", "inner"},
         Current \in {"deploy", "download", "checksum", "mount", "customise", "testdef", "overlay",
                      "umount", "offset", "loop_check", "loop_mount", "repo", "tar-repo",
                      "test-overlay"}
  PROVE  stack[1].at = 1
BY AtAction, WhereActionsAre

(* Before the boot there is no session and nothing has booted.             *)
LEMMA BeforeBoot ==
  ASSUME BootedIsPast, ShellIsCarried, ret \in Live, stack[1].at = 1,
         booted' = booted, shell' = shell
  PROVE  BootedIsPast' /\ ShellIsCarried'
BY DEF BootedIsPast, ShellIsCarried

(* The session stays in the connection of the job.                         *)
LEMMA ShellKept ==
  ASSUME EngineInv, ShellIsCarried, shell' = shell, ret \in {"run", "inner"},
         Current \notin {"boot", "finalize"}, GoOn(Top.conn) \/ Raises \/ Cancels
  PROVE  ShellIsCarried'
<1>1. CASE Raises \/ Cancels
  BY <1>1 DEF Raises, Cancels, ShellIsCarried, Live
<1>2. CASE GoOn(Top.conn) /\ shell = "open"
  <2>1. /\ Shape /\ ret \in Live /\ stack # <<>> /\ EngineTypeOK
        /\ Top.at \in DOMAIN Actions[Top.pipe]
    BY AtAction
  <2>2. Top.conn \in Conn \cup {NoConn}
    BY <2>1, TopFrame
  <2>3. /\ Len(stack') = Len(stack) /\ ret' = "loop"
        /\ \A i \in 1..Len(stack) : i # Len(stack) => stack'[i] = stack[i]
        /\ stack'[Len(stack)] = [pipe |-> Top.pipe, at |-> Top.at + 1, conn |-> Top.conn]
    BY <1>2, <2>1, <2>2, GoOnPlace
  <2>4. /\ stack[1].at \in {2, 3, 4, 5}
        /\ stack[1].at > 2 => stack[1].conn = "shell"
        /\ stack[1].at = 2 => Len(stack) = 2 \/ ret = "inner"
    BY <1>2, <2>1 DEF ShellIsCarried
  <2>5. Len(stack) \in {1, 2}
    BY <2>1, <2>4 DEF Shape
  <2>6. CASE Len(stack) = 2
    <3>1. stack'[1] = stack[1] /\ Len(stack') = 2 /\ stack[1].at = 2
      BY <2>1, <2>3, <2>4, <2>6 DEF Shape
    <3> QED
      BY <2>3, <3>1 DEF ShellIsCarried
  <2>7. CASE Len(stack) = 1
    <3>1. Top = stack[1] /\ stack'[1].at = stack[1].at + 1 /\ stack'[1].conn = stack[1].conn
      BY <2>3, <2>7 DEF Top
    <3>2. Current = Actions["job"][stack[1].at]
      BY <2>1, <3>1 DEF Shape, Current
    <3>3. stack[1].at \in {3, 4}
      BY <2>4, <3>2, Entries
    <3>4. stack'[1].at \in 2..5 /\ stack'[1].at # 2 /\ stack'[1].conn = "shell"
      BY <2>4, <3>1, <3>3
    <3> QED
      BY <2>3, <3>4 DEF ShellIsCarried
  <2> QED
    BY <2>5, <2>6, <2>7
<1>3. CASE shell # "open"
  BY <1>3 DEF ShellIsCarried
<1> QED
  BY <1>1, <1>2, <1>3

-----------------------------------------------------------------------------
(* The invariant, action by action.                                        *)

LEMMA StartJobStep ==
  ASSUME KvmInv, StartJob
  PROVE  NoImageYet' /\ PastIsOverlaid' /\ BootedIsPast' /\ ShellIsCarried'
<1>1. file' = "x" /\ booted' = FALSE /\ shell' = "none"
  BY DEF StartJob
<1>2. ~(ret' \in Live /\ Past')
  <2>1. CASE JobRun
    <3> DEFINE f == [pipe |-> Outer, at |-> 1, conn |-> NoConn]
    <3>1. stack' = <<f>> /\ ret' = "loop" /\ f.at = 1
      BY <2>1 DEF JobRun
    <3> HIDE DEF f
    <3>2. Len(stack') = 1 /\ stack'[1].at = 1
      BY <3>1
    <3> QED
      BY <3>1, <3>2 DEF Past
  <2>2. CASE JobInvalid
    BY <2>2 DEF JobInvalid, Live
  <2> QED
    BY <2>1, <2>2 DEF StartJob
<1> QED
  BY <1>1, <1>2 DEF NoImageYet, PastIsOverlaid, BootedIsPast, ShellIsCarried

LEMMA ExitJobStep ==
  ASSUME KvmInv, ExitJob
  PROVE  NoImageYet' /\ PastIsOverlaid' /\ BootedIsPast' /\ ShellIsCarried'
<1>1. /\ ret \notin Live /\ ret' = ret /\ booted' = FALSE /\ shell' = shell
  BY DEF ExitJob, engine, Over, Live
<1> QED
  BY <1>1 DEF KvmInv, NoImageYet, PastIsOverlaid, BootedIsPast, ShellIsCarried

LEMMA LoopStep ==
  ASSUME KvmInv, Loop
  PROVE  NoImageYet' /\ PastIsOverlaid' /\ BootedIsPast' /\ ShellIsCarried'
<1>1. EngineInv /\ NoImageYet /\ PastIsOverlaid /\ BootedIsPast /\ ShellIsCarried
  BY DEF KvmInv
<1>2. file' = file /\ img' = img /\ job' = job /\ booted' = booted /\ shell' = shell
  BY DEF Loop, Jobs, files, device
<1>3. CASE ret' \in Live
  <2>1. /\ ret \in Live /\ stack'[1] = stack[1] /\ (Past' => Past)
        /\ \/ Len(stack') = Len(stack) /\ ret' = "run"
           \/ Len(stack) > 1 /\ Len(stack') = Len(stack) - 1 /\ ret' = "inner"
    BY <1>1, <1>3, LoopMoves DEF Loop
  <2>2. NoImageYet' /\ PastIsOverlaid'
    BY <1>1, <1>2, <2>1 DEF NoImageYet, PastIsOverlaid, Overlaid
  <2>3. BootedIsPast'
    BY <1>1, <1>2, <2>1 DEF BootedIsPast
  <2>4. ret = "loop"
    BY <1>3 DEF Loop, CallRun, Exhausted, Interrupted, Live
  <2>5. ret' # "returned"
    BY <1>3 DEF Live
  <2>6. ASSUME shell = "open"
        PROVE  /\ stack'[1].at \in 2..5
               /\ stack'[1].at = 2 => Len(stack') = 2 \/ ret' = "inner"
               /\ stack'[1].at > 2 => stack'[1].conn = "shell"
    BY <1>1, <2>1, <2>4, <2>6 DEF ShellIsCarried
  <2>7. ShellIsCarried'
    BY <1>2, <2>5, <2>6 DEF ShellIsCarried
  <2> QED
    BY <2>2, <2>3, <2>7
<1>4. CASE ret' \notin Live
  <2>1. NoImageYet' /\ PastIsOverlaid' /\ BootedIsPast'
    BY <1>1, <1>2, <1>4 DEF NoImageYet, PastIsOverlaid, BootedIsPast
  <2>2. ASSUME shell = "open", ret' = "returned" PROVE FALSE
    <3>1. Exhausted /\ ret = "loop"
      BY <2>2 DEF Loop, CallRun, Exhausted, Interrupted
    <3>2. Shape /\ EngineTypeOK /\ stack # <<>>
      BY <1>1, <3>1, ShapeOfStack DEF EngineInv, Live, Nested
    <3>3. Len(stack) = 1
      BY <2>2, <3>1, <3>2, ExhaustedPlace
    <3>4. stack[1].at \notin 1..5
      BY <3>1, <3>2, <3>3, Tables DEF Exhausted, Top, Shape
    <3>5. stack[1].at \in 2..5
      BY <1>1, <2>2, <3>1 DEF ShellIsCarried, Live
    <3> QED
      BY <3>4, <3>5
  <2>3. ShellIsCarried'
    BY <1>2, <1>4, <2>2 DEF ShellIsCarried
  <2> QED
    BY <2>1, <2>3
<1> QED
  BY <1>3, <1>4

(* The actions that leave alone the image, its name and the device.        *)
LEMMA DeployStep ==
  ASSUME KvmInv, ActionRuns, Moves, SameImage, file' = file, booted' = booted, shell' = shell,
         stack[1].at = 1
  PROVE  NoImageYet' /\ PastIsOverlaid' /\ BootedIsPast' /\ ShellIsCarried'
<1>1. ret \in Live
  BY RunsAreRuns DEF KvmInv, Live
<1> QED
  BY <1>1, ImageKept, BeforeBoot DEF KvmInv

(* Where each action stands, from what it executes.                        *)
LEMMA ActionPlace ==
  ASSUME KvmInv, ActionRuns
  PROVE  /\ AnyRun /\ ret \in {"run", "inner"} /\ ret \in Live
         /\ Plain => Current \in {"checksum", "customise", "submit_results", "test-overlay"}
         /\ Deploy => Current = "deploy"
         /\ Download => Current = "download"
         /\ Mount => Current = "mount"
         /\ Offset => Current = "offset"
         /\ LoopCheck => Current = "loop_check"
         /\ LoopMount => Current = "loop_mount"
         /\ TestDefinitions => Current = "testdef"
         /\ GitRepo \/ BzrRepo => Current = "repo"
         /\ TarRepo => Current = "tar-repo"
         /\ Overlay => Current = "overlay"
         /\ Umount => Current = "umount"
         /\ Boot => Current = "boot"
         /\ ExpectShell => Current = "expect-shell"
         /\ Test => Current = "test"
         /\ Finalize => Current = "finalize"
<1>1. AnyRun /\ ret \in {"run", "inner"} /\ ret \in Live
  BY RunsAreRuns DEF KvmInv, Live
<1>2. \A a : Executing(a) \/ Resumed(a) => Current = a
  BY DEF Executing, Resumed
<1> QED
  BY <1>1, <1>2 DEF Plain, Deploy, Download, Mount, Offset, LoopCheck, LoopMount, TestDefinitions,
     GitRepo, BzrRepo, TarRepo, Overlay, Umount, Boot, ExpectShell, Test, Finalize

(* All but the overlay itself move the job on.                             *)
LEMMA ActionMoves ==
  ASSUME KvmInv, ActionRuns, ~Overlay
  PROVE  Moves
<1>1. AnyRun /\ EngineInv
  BY RunsAreRuns DEF KvmInv
<1>2. Current # "overlay"
  BY ActionPlace DEF ActionRuns
<1>3. ASSUME Executing("deploy") PROVE Enters(NoConn)
  <2>1. Current = "deploy" /\ ret = "run"
    BY <1>3 DEF Executing
  <2>2. Deploy
    BY <2>1, ActionPlace DEF ActionRuns
  <2> QED
    BY <2>1, <2>2 DEF Deploy, Resumed
<1> QED
  BY <1>1, <1>2, <1>3, AnyRunMoves

(* What goes on in a place of the image that does not tell whose it is.    *)
LEMMA SameImageOf ==
  ASSUME KvmTypes, job' = job
  PROVE  /\ img' = img => SameImage
         /\ \A b : SetConf(b) => SameImage
         /\ \A r, b : img' = [img EXCEPT ![Root].repo = r, ![Root].dir = b] => SameImage
         /\ \A t : img' = Extracted(t) => SameImage
<1>1. Root \in File /\ "x" \in File /\ img \in [File -> Content]
  BY DEF KvmTypes, Root, File
<1>2. img[Root] \in Content /\ img["x"] \in Content
  BY <1>1
<1>3. img' = img => SameImage
  BY DEF SameImage
<1>4. ASSUME NEW b, SetConf(b) PROVE SameImage
  BY <1>1, <1>2, <1>4 DEF SameImage, SetConf, Content
<1>5. ASSUME NEW r, NEW b, img' = [img EXCEPT ![Root].repo = r, ![Root].dir = b]
      PROVE  SameImage
  BY <1>1, <1>2, <1>5 DEF SameImage, Content
<1>6. ASSUME NEW t, img' = Extracted(t)
      PROVE  SameImage
  BY <1>1, <1>2, <1>6 DEF SameImage, Content, Extracted
<1> QED
  BY <1>3, <1>4, <1>5, <1>6

(* The actions of the deployment that tell nobody what the image holds.    *)
LEMMA QuietStep ==
  ASSUME KvmInv,
         Deploy \/ Mount \/ Offset \/ LoopCheck \/ LoopMount \/ TestDefinitions \/ GitRepo
         \/ BzrRepo \/ TarRepo
  PROVE  NoImageYet' /\ PastIsOverlaid' /\ BootedIsPast' /\ ShellIsCarried'
<1>1. ActionRuns /\ KvmTypes /\ EngineInv
  BY DEF ActionRuns, KvmInv
<1>2. /\ ret \in {"run", "inner"}
      /\ Current \in {"deploy", "mount", "offset", "loop_check", "loop_mount", "testdef", "repo", "tar-repo"}
  BY <1>1, ActionPlace
<1>3. stack[1].at = 1
  BY <1>1, <1>2, DeployActionPlace
<1>4. Moves
  <2>1. ~Overlay
    BY <1>1, <1>2, ActionPlace
  <2> QED
    BY <1>1, <2>1, ActionMoves
<1>5. file' = file /\ booted' = booted /\ shell' = shell /\ job' = job
  BY DEF Deploy, Mount, Offset, LoopCheck, LoopMount, TestDefinitions, GitRepo, BzrRepo, TarRepo,
     Jobs, files, device
<1>6. SameImage
  <2>1. CASE Deploy \/ Mount \/ Offset \/ LoopCheck \/ LoopMount \/ BzrRepo
    BY <1>1, <1>5, <2>1, SameImageOf DEF Deploy, Mount, Offset, LoopCheck, LoopMount, BzrRepo, files
  <2>2. CASE TestDefinitions
    <3>1. UNCHANGED img \/ SetConf(TRUE) \/ SetConf(FALSE)
      BY <2>2 DEF TestDefinitions
    <3> QED
      BY <1>1, <1>5, <3>1, SameImageOf
  <2>3. CASE GitRepo
    <3>1. PICK r : img' = [img EXCEPT ![Root].repo = r, ![Root].dir = @ \/ r # 0]
      BY <2>3 DEF GitRepo
    <3>2. img' = [img EXCEPT ![Root].repo = r, ![Root].dir = img[Root].dir \/ r # 0]
      BY <1>1, <3>1 DEF KvmTypes, Root, File
    <3> QED
      BY <1>1, <1>5, <3>2, SameImageOf
  <2>4. CASE TarRepo
    <3>1. img' = img \/ \E t : img' = Extracted(t)
      BY <2>4 DEF TarRepo
    <3> QED
      BY <1>1, <1>5, <3>1, SameImageOf
  <2> QED
    BY <2>1, <2>2, <2>3, <2>4
<1> QED
  BY <1>1, <1>3, <1>4, <1>5, <1>6, DeployStep

LEMMA DownloadStep ==
  ASSUME KvmInv, Download
  PROVE  NoImageYet' /\ PastIsOverlaid' /\ BootedIsPast' /\ ShellIsCarried'
<1>1. /\ ActionRuns /\ KvmTypes /\ EngineInv /\ NoImageYet /\ PastIsOverlaid
      /\ BootedIsPast /\ ShellIsCarried
  BY DEF ActionRuns, KvmInv
<1>2. ret = "run" /\ ret \in {"run", "inner"} /\ ret \in Live /\ Current = "download"
  BY DEF Download, Executing, Live
<1>3. stack[1].at = 1 /\ ~Past
  <2>1. Shape /\ Top.at \in DOMAIN Actions[Top.pipe]
    BY <1>1, <1>2, AtAction
  <2>2. Len(stack) = 2 /\ stack[1].at = 1 /\ stack[2].at < 6 /\ stack[2].at \in Nat
    BY <1>2, <2>1, WhereActionsAre DEF Shape
  <2> QED
    BY <1>2, <2>2 DEF Past
<1>4. Moves
  <2>1. ~Overlay
    BY <1>1, <1>2, ActionPlace
  <2> QED
    BY <1>1, <2>1, ActionMoves
<1>5. job' = job /\ booted' = booted /\ shell' = shell
  BY DEF Download, Jobs, device
<1>6. BootedIsPast' /\ ShellIsCarried'
  BY <1>1, <1>2, <1>3, <1>5, BeforeBoot
<1>7. PastIsOverlaid'
  BY <1>3, <1>4 DEF Moves, PastIsOverlaid, Live
<1>8. NoImageYet'
  <2>1. CASE Returns(Top.conn)
    <3>1. Target \in {"x", "x.img"} /\ Target \in File /\ img \in [File -> Content] /\ "x" \in File
      BY <1>1 DEF Target, File, KvmTypes
    <3>2. CASE file' = file /\ img' = img
      BY <1>1, <1>2, <3>2 DEF NoImageYet
    <3>3. CASE /\ img["x"].state = "absent" /\ file' = Target
               /\ \E s \in {"whole", "torn"} : img' = [img EXCEPT ![Target] = Holding(s)]
      <4>1. ASSUME file' = "x.img" PROVE img'["x"] = img["x"]
        BY <3>1, <3>3, <4>1
      <4> QED
        BY <3>3, <4>1 DEF NoImageYet
    <3>4. ret' = "loop"
      BY <2>1 DEF Returns, GoOn
    <3> QED
      BY <3>2, <3>3, <3>4 DEF Download, Raises, Cancels
  <2>2. CASE Raises \/ Cancels
    BY <2>2 DEF Raises, Cancels, NoImageYet, Live
  <2> QED
    BY <2>1, <2>2 DEF Download
<1> QED
  BY <1>6, <1>7, <1>8

LEMMA OverlayStep ==
  ASSUME KvmInv, Overlay
  PROVE  NoImageYet' /\ PastIsOverlaid' /\ BootedIsPast' /\ ShellIsCarried'
<1>1. /\ ActionRuns /\ KvmTypes /\ EngineInv /\ NoImageYet /\ BootedIsPast /\ ShellIsCarried
  BY DEF ActionRuns, KvmInv
<1>2. ret \in {"run", "inner"} /\ ret \in Live /\ Current = "overlay"
  BY DEF Overlay, Executing, Live
<1>3. stack[1].at = 1
  BY <1>1, <1>2, DeployActionPlace
<1>4. file' = file /\ job' = job /\ booted' = booted /\ shell' = shell
  BY DEF Overlay, Jobs, device
<1>5. BootedIsPast' /\ ShellIsCarried'
  BY <1>1, <1>2, <1>3, <1>4, BeforeBoot
<1>6. CASE Raises \/ Cancels
  <2>1. ret' \notin Live
    BY <1>6 DEF Raises, Cancels, Live
  <2> QED
    BY <1>5, <2>1 DEF NoImageYet, PastIsOverlaid
<1>7. CASE img' = [img EXCEPT ![file].overlay = job, ![file].dir = TRUE]
  <2>1. /\ file \in {"x", "x.img"} /\ file \in File /\ "x" \in File /\ img \in [File -> Content]
        /\ img["x"] \in Content
    BY <1>1 DEF KvmTypes, File
  <2>2. img'["x"].state = img["x"].state
    BY <1>7, <2>1 DEF Content
  <2>3. NoImageYet'
    BY <1>1, <1>2, <1>4, <2>2 DEF NoImageYet
  <2>4. CASE file = "x"
    <3>1. img'["x"].overlay = job
      BY <1>7, <2>1, <2>4 DEF Content
    <3> QED
      BY <1>4, <1>5, <2>3, <3>1 DEF PastIsOverlaid, Overlaid
  <2>5. CASE file = "x.img"
    <3>1. img'["x"].state = "absent"
      BY <1>1, <1>2, <2>2, <2>5 DEF NoImageYet
    <3> QED
      BY <1>5, <2>3, <3>1 DEF PastIsOverlaid, Overlaid
  <2> QED
    BY <2>1, <2>4, <2>5
<1> QED
  BY <1>6, <1>7 DEF Overlay

LEMMA UmountStep ==
  ASSUME KvmInv, Umount
  PROVE  NoImageYet' /\ PastIsOverlaid' /\ BootedIsPast' /\ ShellIsCarried'
<1>1. /\ ActionRuns /\ KvmTypes /\ EngineInv /\ NoImageYet /\ PastIsOverlaid
      /\ BootedIsPast /\ ShellIsCarried
  BY DEF ActionRuns, KvmInv
<1>2. ret \in {"run", "inner"} /\ ret \in Live /\ Current = "umount"
  BY DEF Umount, Executing, Live
<1>3. stack[1].at = 1
  BY <1>1, <1>2, DeployActionPlace
<1>4. file' = file /\ job' = job /\ booted' = booted /\ shell' = shell
  BY DEF Umount, Jobs, device
<1>5. BootedIsPast' /\ ShellIsCarried'
  BY <1>1, <1>2, <1>3, <1>4, BeforeBoot
<1>6. Moves
  <2>1. ~Overlay
    BY <1>1, <1>2, ActionPlace
  <2> QED
    BY <1>1, <2>1, ActionMoves
<1>7. /\ file \in {"x", "x.img"} /\ File = {"x", "x.img", "dir"} /\ img \in [File -> Content]
  BY <1>1 DEF KvmTypes, File
<1>8. \/ img' = img \/ img' = Erase(file) \/ img' = [img EXCEPT !["dir"] = Holding("absent")]
  BY DEF Umount
<1>9. img'["x"] = img["x"] \/ (file = "x" /\ img'["x"].state = "erased")
  BY <1>7, <1>8 DEF Erase, Holding
<1>10. NoImageYet'
  BY <1>1, <1>2, <1>4, <1>9 DEF NoImageYet
<1>11. PastIsOverlaid'
  <2>1. CASE img'["x"] = img["x"]
    BY <1>1, <1>2, <1>4, <1>6, <2>1 DEF PastIsOverlaid, Overlaid, Moves, Live
  <2>2. CASE img'["x"].state = "erased"
    BY <2>2 DEF PastIsOverlaid, Overlaid
  <2> QED
    BY <1>9, <2>1, <2>2
<1> QED
  BY <1>5, <1>10, <1>11

(* The actions after the deployment, and those that only log.              *)
LEMMA PlainOrTestStep ==
  ASSUME KvmInv, Plain \/ Test
  PROVE  NoImageYet' /\ PastIsOverlaid' /\ BootedIsPast' /\ ShellIsCarried'
<1>1. /\ ActionRuns /\ KvmTypes /\ EngineInv /\ NoImageYet /\ PastIsOverlaid
      /\ BootedIsPast /\ ShellIsCarried
  BY DEF ActionRuns, KvmInv
<1>2. /\ ret \in {"run", "inner"} /\ ret \in Live
      /\ Current \in {"checksum", "customise", "submit_results", "test-overlay", "test"}
  BY <1>1, ActionPlace
<1>3. Moves
  <2>1. ~Overlay
    BY <1>1, <1>2, ActionPlace
  <2> QED
    BY <1>1, <2>1, ActionMoves
<1>4. file' = file /\ job' = job /\ booted' = booted /\ shell' = shell /\ img' = img
  BY DEF Plain, Test, Jobs, files, device
<1>5. SameImage
  BY <1>4 DEF SameImage
<1>6. NoImageYet' /\ PastIsOverlaid'
  BY <1>1, <1>2, <1>3, <1>4, <1>5, ImageKept
<1>7. EngineInv'
  BY <1>1, KvmStep, EngineKeeps DEF Next, ActionRuns
<1>8. BootedIsPast'
  BY <1>1, <1>2, <1>3, <1>4, <1>5, <1>7, BootedKept
<1>9. GoOn(Top.conn) \/ Raises \/ Cancels
  BY DEF Plain, Test, Returns, Fails
<1>10. ShellIsCarried'
  BY <1>1, <1>2, <1>4, <1>9, ShellKept
<1> QED
  BY <1>6, <1>8, <1>10

LEMMA BootStep ==
  ASSUME KvmInv, Boot
  PROVE  NoImageYet' /\ PastIsOverlaid' /\ BootedIsPast' /\ ShellIsCarried'
<1>1. /\ ActionRuns /\ KvmTypes /\ EngineInv /\ NoImageYet /\ PastIsOverlaid
      /\ BootedIsPast /\ ShellIsCarried
  BY DEF ActionRuns, KvmInv
<1>2. ret \in {"run", "inner"} /\ ret \in Live /\ Current = "boot"
  BY <1>1, ActionPlace
<1>3. Moves
  <2>1. ~Overlay
    BY <1>1, <1>2, ActionPlace
  <2> QED
    BY <1>1, <2>1, ActionMoves
<1>4. file' = file /\ job' = job /\ booted' = booted /\ img' = img
  BY DEF Boot, Jobs, files
<1>5. SameImage
  BY <1>4 DEF SameImage
<1>6. NoImageYet' /\ PastIsOverlaid'
  BY <1>1, <1>2, <1>3, <1>4, <1>5, ImageKept
<1>7. EngineInv'
  BY <1>1, KvmStep, EngineKeeps DEF Next, ActionRuns
<1>8. BootedIsPast'
  BY <1>1, <1>2, <1>3, <1>4, <1>5, <1>7, BootedKept
<1>9. /\ Len(stack) = 1 /\ stack[1].at = 2 /\ stack # <<>> /\ EngineTypeOK /\ Top = stack[1]
  BY <1>1, <1>2, AtAction, WhereActionsAre DEF Top
<1>10. "shell" \in Conn \cup {NoConn} /\ "shell" # NoConn
  BY Tables, TreeAssumption
<1>11. ShellIsCarried'
  <2>1. CASE Enters("shell")
    <3>1. Len(stack') = Len(stack) + 1 /\ stack'[1] = stack[1]
      BY <1>1, <1>10, <2>1, EntersMoves
    <3>2. ret' = "loop"
      BY <2>1 DEF Enters
    <3> QED
      BY <1>9, <3>1, <3>2 DEF ShellIsCarried
  <2>2. CASE Raises \/ Cancels
    BY <2>2 DEF Raises, Cancels, ShellIsCarried, Live
  <2>3. CASE Returns("shell")
    <3>1. GoOn("shell")
      BY <1>10, <2>3 DEF Returns
    <3>2. stack'[1] = [pipe |-> Top.pipe, at |-> Top.at + 1, conn |-> "shell"] /\ ret' = "loop"
      BY <1>9, <1>10, <3>1, GoOnPlace
    <3>3. stack'[1].at = 3 /\ stack'[1].conn = "shell"
      BY <1>9, <3>2
    <3> QED
      BY <3>2, <3>3 DEF ShellIsCarried
  <2> QED
    BY <2>1, <2>2, <2>3 DEF Boot
<1> QED
  BY <1>6, <1>8, <1>11

LEMMA ExpectShellStep ==
  ASSUME KvmInv, ExpectShell
  PROVE  NoImageYet' /\ PastIsOverlaid' /\ BootedIsPast' /\ ShellIsCarried'
<1>1. /\ ActionRuns /\ KvmTypes /\ EngineInv /\ NoImageYet /\ PastIsOverlaid
      /\ BootedIsPast /\ ShellIsCarried
  BY DEF ActionRuns, KvmInv
<1>2. ret \in {"run", "inner"} /\ ret \in Live /\ Current = "expect-shell"
  BY <1>1, ActionPlace
<1>3. Moves
  <2>1. ~Overlay
    BY <1>1, <1>2, ActionPlace
  <2> QED
    BY <1>1, <2>1, ActionMoves
<1>4. file' = file /\ job' = job /\ shell' = shell /\ img' = img
  BY DEF ExpectShell, Jobs, files
<1>5. SameImage
  BY <1>4 DEF SameImage
<1>6. NoImageYet' /\ PastIsOverlaid'
  BY <1>1, <1>2, <1>3, <1>4, <1>5, ImageKept
<1>7. EngineInv'
  BY <1>1, KvmStep, EngineKeeps DEF Next, ActionRuns
<1>8. stack[1].at = 2 /\ Past
  BY <1>1, <1>2, AtAction, WhereActionsAre DEF Past
<1>9. BootedIsPast'
  <2>1. CASE booted' = booted
    BY <1>1, <1>2, <1>3, <1>5, <1>7, <2>1, BootedKept
  <2>2. CASE img["x"].state = "whole" /\ Returns(Top.conn)
    <3>1. img["x"].overlay = job
      BY <1>1, <1>2, <1>8, <2>2 DEF PastIsOverlaid, Overlaid
    <3>2. ret' = "loop"
      BY <2>2 DEF Returns, GoOn
    <3>3. stack'[1].at >= 2
      BY <1>3, <1>8, <3>2 DEF Moves
    <3> QED
      BY <1>4, <3>1, <3>3 DEF BootedIsPast
  <2> QED
    BY <2>1, <2>2 DEF ExpectShell
<1>10. GoOn(Top.conn) \/ Raises \/ Cancels
  BY DEF ExpectShell, Returns, Fails
<1>11. ShellIsCarried'
  BY <1>1, <1>2, <1>4, <1>10, ShellKept
<1> QED
  BY <1>6, <1>9, <1>11

LEMMA FinalizeStep ==
  ASSUME KvmInv, Finalize
  PROVE  NoImageYet' /\ PastIsOverlaid' /\ BootedIsPast' /\ ShellIsCarried'
<1>1. /\ ActionRuns /\ KvmTypes /\ EngineInv /\ NoImageYet /\ PastIsOverlaid
      /\ BootedIsPast /\ ShellIsCarried
  BY DEF ActionRuns, KvmInv
<1>2. ret \in {"run", "inner"} /\ ret \in Live /\ Current = "finalize"
  BY <1>1, ActionPlace
<1>3. Moves
  <2>1. ~Overlay
    BY <1>1, <1>2, ActionPlace
  <2> QED
    BY <1>1, <2>1, ActionMoves
<1>4. file' = file /\ job' = job /\ booted' = booted /\ img' = img
  BY DEF Finalize, Jobs, files
<1>5. SameImage
  BY <1>4 DEF SameImage
<1>6. NoImageYet' /\ PastIsOverlaid'
  BY <1>1, <1>2, <1>3, <1>4, <1>5, ImageKept
<1>7. EngineInv'
  BY <1>1, KvmStep, EngineKeeps DEF Next, ActionRuns
<1>8. BootedIsPast'
  BY <1>1, <1>2, <1>3, <1>4, <1>5, <1>7, BootedKept
<1>9. Len(stack) = 1 /\ stack[1].at = 5 /\ Top = stack[1]
  BY <1>1, <1>2, AtAction, WhereActionsAre DEF Top
<1>10. ShellIsCarried'
  <2>1. CASE Raises \/ Cancels
    BY <2>1 DEF Raises, Cancels, ShellIsCarried, Live
  <2>2. CASE shell' = IF Top.conn = NoConn THEN shell ELSE "closed"
    <3>1. shell = "open" => Top.conn = "shell"
      BY <1>1, <1>2, <1>9 DEF ShellIsCarried
    <3>2. "shell" # NoConn
      BY Tables, TreeAssumption
    <3> QED
      BY <2>2, <3>1, <3>2 DEF ShellIsCarried
  <2> QED
    BY <2>1, <2>2 DEF Finalize
<1> QED
  BY <1>6, <1>8, <1>10

LEMMA KvmInvKept ==
  ASSUME KvmInv, [Next]_vars
  PROVE  KvmInv'
<1>1. CASE StartJob
  BY <1>1, StartJobStep, Assembled
<1>2. CASE ExitJob
  BY <1>2, ExitJobStep, Assembled
<1>3. CASE Loop
  BY <1>3, LoopStep, Assembled
<1>4. CASE \/ Deploy \/ Mount \/ Offset \/ LoopCheck \/ LoopMount \/ TestDefinitions
           \/ GitRepo \/ BzrRepo \/ TarRepo
  BY <1>4, QuietStep, Assembled
<1>5. CASE Download
  BY <1>5, DownloadStep, Assembled
<1>6. CASE Overlay
  BY <1>6, OverlayStep, Assembled
<1>7. CASE Umount
  BY <1>7, UmountStep, Assembled
<1>8. CASE Plain \/ Test
  BY <1>8, PlainOrTestStep, Assembled
<1>9. CASE Boot
  BY <1>9, BootStep, Assembled
<1>10. CASE ExpectShell
  BY <1>10, ExpectShellStep, Assembled
<1>11. CASE Finalize
  BY <1>11, FinalizeStep, Assembled
<1>12. CASE UNCHANGED vars
  <2>1. /\ file' = file /\ img' = img /\ job' = job /\ booted' = booted /\ shell' = shell
        /\ stack' = stack /\ ret' = ret
    BY <1>12 DEF vars, engine, files, device
  <2>2. NoImageYet' /\ PastIsOverlaid' /\ BootedIsPast' /\ ShellIsCarried'
    BY <2>1 DEF KvmInv, NoImageYet, PastIsOverlaid, Past, Overlaid, BootedIsPast, ShellIsCarried
  <2> QED
    BY <2>2, Assembled
<1> QED
  BY <1>1, <1>2, <1>3, <1>4, <1>5, <1>6, <1>7, <1>8, <1>9, <1>10, <1>11, <1>12 DEF Next

LEMMA KvmInvInit ==
  ASSUME Init
  PROVE  KvmInv
<1>1. EngineInv /\ ret = "idle"
  BY IdleIsGood DEF Init, Idle
<1>2. img \in [File -> Content]
  BY HoldingType DEF Init
<1>3. KvmTypes
  <2>0. job = 0 /\ alive = FALSE /\ file = "x"
    BY DEF Init
  <2>1. job \in 0..MaxJobs
    <3>1. MaxJobs \in Nat
      BY Tables
    <3>2. 0 \in 0..MaxJobs
      BY <3>1
    <3> QED
      BY <2>0, <3>2
  <2>4. alive \in BOOLEAN /\ file \in File \ {"dir"}
    BY <2>0 DEF File
  <2>2. par \in [gz : BOOLEAN, vcs : {"git", "bzr"}, revision : BOOLEAN]
    BY DEF Init
  <2>3. /\ {offset, mounted, inImage, booted, swallowed} \subseteq BOOLEAN
        /\ shell \in {"none", "open", "closed"}
    BY DEF Init
  <2> QED
    BY <1>2, <2>1, <2>2, <2>3, <2>4 DEF KvmTypes
<1> QED
  BY <1>1, <1>3 DEF Init, KvmInv, NoImageYet, PastIsOverlaid, BootedIsPast, ShellIsCarried, Live

-----------------------------------------------------------------------------
(* The invariant of a KVM job: which image is overlaid at which place of   *)
(* the tree, and which connection carries the session of QEMU.             *)
THEOREM KvmInvariant == Spec => []KvmInv
<1>1. Init => KvmInv
  BY KvmInvInit
<1>2. KvmInv /\ [Next]_vars => KvmInv'
  BY KvmInvKept
<1> QED
  BY <1>1, <1>2, PTL DEF Spec

(* The types of the loop and of what its actions use.                      *)
THEOREM KvmTypeCorrect == Spec => []TypeOK
<1>1. KvmInv => TypeOK
  BY DEF KvmInv, EngineInv, KvmTypes, TypeOK
<1> QED
  BY <1>1, KvmInvariant, PTL

(* What boots holds the test scripts of this job, whatever failed and      *)
(* whatever the jobs before left in /tmp, however many there were.         *)
THEOREM BootedIsOverlaidHolds == Spec => []BootedIsOverlaid
<1>1. KvmInv => BootedIsOverlaid
  BY DEF KvmInv, BootedIsPast, BootedIsOverlaid
<1> QED
  BY <1>1, KvmInvariant, PTL

(* A job that comes to its end by itself has closed its QEMU.              *)
THEOREM ShellEndsHolds == Spec => []ShellEnds
<1>1. KvmInv => ShellEnds
  BY DEF KvmInv, ShellIsCarried, ShellEnds
<1> QED
  BY <1>1, KvmInvariant, PTL

-----------------------------------------------------------------------------
(* The tests in the image.  The first k definitions of the test have been  *)
(* fetched, and the overlay that ends the writing is still to come.        *)
Fetched(k) ==
  /\ Len(stack) >= 2 /\ stack[1].at = 1
  /\ \/ stack[2].at = 6
     \/ stack[2].at = 5 /\ (IF Len(stack) = 3 THEN stack[3].at > k ELSE ret = "inner")

(* What explains other tests in the image than those of the job: an action *)
(* has an error to show, or a failure was swallowed.                       *)
Noted == errors # {} \/ swallowed
TestsInImage == <<img["x"].repo, img["x"].tar>> = <<job, job>> \/ Noted

RepoIsFetched == ret \in Live /\ Fetched(1) /\ mounted => img[file].repo = job \/ Noted
TarIsFetched == ret \in Live /\ Fetched(2) /\ mounted => img[file].tar = job \/ Noted
PastIsFetched == ret \in Live /\ Past /\ img["x"].state = "whole" => TestsInImage
BootedIsFetched == booted => TestsInImage
FetchInv == RepoIsFetched /\ TarIsFetched /\ PastIsFetched /\ BootedIsFetched

(* Where the job stands then.                                              *)
LEMMA FetchedPlace ==
  ASSUME EngineInv, ret \in {"run", "inner"}, NEW k \in {1, 2}, Fetched(k)
  PROVE  /\ Current \in {"testdef", "tar-repo", "test-overlay", "overlay"}
         /\ Current = "testdef" => ret = "inner"
         /\ k = 2 => Current # "tar-repo"
<1>1. Shape /\ Top.at \in DOMAIN Actions[Top.pipe]
  BY AtAction
<1>2. CASE Len(stack) = 2
  <2>1. Top = stack[2] /\ stack[2].pipe = "deploy" /\ Current = Actions["deploy"][stack[2].at]
    BY <1>1, <1>2 DEF Shape, Fetched, Top, Current
  <2>2. stack[2].at = 6 \/ (stack[2].at = 5 /\ ret = "inner")
    BY <1>2 DEF Fetched
  <2> QED
    BY <2>1, <2>2, Entries
<1>3. CASE Len(stack) = 3
  <2>1. /\ Top = stack[3] /\ stack[2].at \in {3, 5} /\ stack[3].at \in Nat
    BY <1>1, <1>3 DEF Shape, Top
  <2>2. stack[2].at = 5 /\ stack[3].at > k
    BY <1>3, <2>1 DEF Fetched
  <2>3. stack[3].pipe = "testdef" /\ stack[3].at \in 1..3
    BY <1>1, <1>3, <2>1, <2>2, Tables DEF Shape
  <2>4. stack[3].at = 3 \/ (stack[3].at = 2 /\ k = 1)
    BY <2>2, <2>3
  <2>5. Current = Actions["testdef"][stack[3].at]
    BY <2>1, <2>3 DEF Current
  <2> QED
    BY <2>4, <2>5, Entries
<1>4. Len(stack) \in {2, 3}
  BY <1>1 DEF Shape, Fetched
<1> QED
  BY <1>2, <1>3, <1>4

(* Only the definition itself takes the job past it.                       *)
LEMMA GoOnFetches ==
  ASSUME EngineInv, ret \in {"run", "inner"}, NEW c \in Conn \cup {NoConn}, GoOn(c),
         ~Executing("testdef"), NEW k \in {1, 2}, Fetched(k)',
         k = 1 => Current # "repo", k = 2 => Current # "tar-repo"
  PROVE  Fetched(k)
<1>1. EngineTypeOK /\ Shape /\ stack # <<>> /\ Top.at \in DOMAIN Actions[Top.pipe]
  BY AtAction
<1>2. /\ Len(stack') = Len(stack) /\ ret' = "loop"
      /\ \A i \in 1..Len(stack) : i # Len(stack) => stack'[i] = stack[i]
      /\ stack'[Len(stack)] = [pipe |-> Top.pipe, at |-> Top.at + 1, conn |-> c]
  BY <1>1, GoOnPlace
<1>3. Len(stack) \in {2, 3}
  BY <1>1, <1>2 DEF Shape, Fetched
<1>4. stack'[1] = stack[1] /\ stack[1].at = 1
  BY <1>2, <1>3 DEF Fetched
<1>5. CASE Len(stack) = 2
  <2>1. stack'[2].at = stack[2].at + 1 /\ stack[2].at \in Nat /\ stack[2].pipe = "deploy"
    BY <1>1, <1>2, <1>4, <1>5 DEF Top, Shape
  <2>2. stack'[2].at = 6
    BY <1>2, <1>5 DEF Fetched
  <2>3. stack[2].at = 5
    BY <2>1, <2>2
  <2>4. Current = "testdef"
    BY <1>5, <2>1, <2>3, Entries DEF Top, Current
  <2>5. ret = "inner"
    BY <2>4 DEF Executing
  <2> QED
    BY <1>4, <1>5, <2>3, <2>5 DEF Fetched
<1>6. CASE Len(stack) = 3
  <2>1. /\ stack'[2] = stack[2] /\ stack'[3].at = stack[3].at + 1 /\ stack[3].at \in Nat
        /\ stack[2].at \in {3, 5}
    BY <1>1, <1>2, <1>6 DEF Top, Shape
  <2>2. stack[2].at = 5 /\ stack'[3].at > k
    BY <1>2, <1>6, <2>1 DEF Fetched
  <2>3. Current = Actions["testdef"][stack[3].at]
    BY <1>1, <1>6, <2>2 DEF Top, Current, Shape
  <2>4. stack[3].at # k
    BY <2>3, Entries
  <2>5. stack[3].at > k
    BY <2>1, <2>2, <2>4
  <2> QED
    BY <1>4, <1>6, <2>2, <2>5 DEF Fetched
<1> QED
  BY <1>3, <1>5, <1>6

LEMMA EntersFetches ==
  ASSUME EngineInv, EngineInv', NEW c \in Conn \cup {NoConn}, Enters(c), NEW k \in {1, 2}
  PROVE  ~Fetched(k)'
<1>1. EngineTypeOK /\ Shape /\ stack # <<>>
  BY AtAction DEF Enters
<1>2. /\ Len(stack') = Len(stack) + 1 /\ ret' = "loop"
      /\ stack'[Len(stack) + 1] = [pipe |-> Inner[Current], at |-> 1, conn |-> c]
  BY <1>1, EntersPlace
<1>3. Shape'
  BY <1>2, ShapeOfStackNext DEF EngineInv, Live
<1>4. Len(stack) \in {1, 2, 3}
  BY <1>1 DEF Shape
<1>5. CASE Len(stack) = 1
  BY <1>2, <1>5 DEF Fetched
<1>6. CASE Len(stack) = 2
  <2>1. Len(stack') = 3 /\ stack'[3].at = 1 /\ stack'[2].at # 6
    BY <1>2, <1>3, <1>6 DEF Shape
  <2> QED
    BY <2>1 DEF Fetched
<1>7. CASE Len(stack) = 3
  BY <1>2, <1>3, <1>7 DEF Shape
<1> QED
  BY <1>4, <1>5, <1>6, <1>7

LEMMA LoopFetches ==
  ASSUME EngineInv, CallRun \/ Exhausted \/ Interrupted, ret' \in Live,
         NEW k \in {1, 2}, Fetched(k)'
  PROVE  ret \in Live /\ Fetched(k)
<1>1. ret = "loop" /\ ret \in Live
  BY DEF CallRun, Exhausted, Interrupted, Live
<1>2. EngineTypeOK /\ Shape /\ stack # <<>>
  BY <1>1, ShapeOfStack DEF EngineInv, Live, Nested
<1>3. CASE CallRun
  BY <1>1, <1>3 DEF CallRun, Fetched
<1>4. CASE Exhausted
  <2>1. /\ Len(stack) > 1 /\ Len(stack') = Len(stack) - 1 /\ ret' = "inner"
        /\ \A i \in 1..Len(stack) - 1 : stack'[i] = stack[i]
    BY <1>2, <1>4, ExhaustedPlace DEF Live
  <2>2. Len(stack) = 3 /\ Len(stack') = 2
    BY <1>2, <2>1 DEF Shape, Fetched
  <2>3. stack'[1] = stack[1] /\ stack'[2] = stack[2]
    BY <2>1, <2>2
  <2>4. stack[1].at = 1 /\ stack[2].at = 5 /\ stack[3].pipe = "testdef"
    BY <1>2, <2>2, <2>3 DEF Shape, Fetched
  <2>5. stack[3].at \in Nat \ {0} /\ stack[3].at \notin 1..3
    BY <1>2, <1>4, <2>2, <2>4, Tables DEF Exhausted, Top, Shape
  <2>6. stack[3].at > k
    BY <2>5
  <2> QED
    BY <1>1, <2>2, <2>4, <2>6 DEF Fetched
<1> QED
  BY <1>1, <1>3, <1>4 DEF Interrupted

LEMMA RunFetches ==
  ASSUME KvmInv, KvmInv', ActionRuns, ret' \in Live, NEW k \in {1, 2}, Fetched(k)',
         k = 1 => Current # "repo", k = 2 => Current # "tar-repo"
  PROVE  ret \in {"run", "inner"} /\ Fetched(k)
<1>1. AnyRun /\ ret \in {"run", "inner"} /\ EngineInv /\ EngineInv'
  BY RunsAreRuns DEF KvmInv
<1>2. CASE \E c \in Conn \cup {NoConn} : Enters(c)
  BY <1>1, <1>2, EntersFetches
<1>3. CASE Raises \/ Cancels
  BY <1>3 DEF Raises, Cancels, Live
<1>4. ASSUME \/ \E c \in Conn \cup {NoConn} : Returns(c)
             \/ Fails
      PROVE  Fetched(k)
  <2>1. Top.conn \in Conn \cup {NoConn}
    BY <1>1, AtAction, TopFrame
  <2>2. \E c \in Conn \cup {NoConn} : GoOn(c)
    BY <1>4, <2>1 DEF Returns, Fails
  <2>3. ~Executing("testdef")
    <3>1. ASSUME Executing("testdef") PROVE FALSE
      <4>1. TestDefinitions /\ ret = "run"
        BY <3>1, ActionPlace DEF ActionRuns, Executing
      <4>2. Enters(Top.conn) \/ Raises
        BY <4>1 DEF TestDefinitions, Resumed
      <4>3. stack # <<>> /\ EngineTypeOK /\ Top.at \in Nat
        BY <1>1, AtAction, TopFrame
      <4> QED
        BY <1>1, <2>1, <4>2, EntersFetches DEF Raises, Live
    <3> QED
      BY <3>1
  <2> QED
    BY <1>1, <2>2, <2>3, GoOnFetches
<1> QED
  BY <1>1, <1>2, <1>3, <1>4 DEF AnyRun

(* What the deployment does before the overlay.                            *)
LEMMA NotPast ==
  ASSUME EngineInv, ret \in {"run", "inner"},
         Current \in {"download", "loop_mount", "repo", "tar-repo"}
  PROVE  ~Past /\ stack[1].at = 1
<1>1. Shape /\ Top.at \in DOMAIN Actions[Top.pipe]
  BY AtAction
<1>2. stack[1].at = 1 /\ Len(stack) \in {2, 3}
  BY <1>1, WhereActionsAre
<1>3. stack[2].at \in Nat /\ stack[2].at < 6
  <2>1. CASE Len(stack) = 2
    BY <1>1, <2>1, WhereActionsAre DEF Shape
  <2>2. CASE Len(stack) = 3
    BY <1>1, <2>2 DEF Shape
  <2> QED
    BY <1>2, <2>1, <2>2
<1> QED
  BY <1>2, <1>3 DEF Past

(* A job forgets no error while it runs.                                   *)
LEMMA NotedKept ==
  ASSUME KvmInv, ActionRuns, Noted
  PROVE  Noted'
<1>1. errors # {} => errors' # {}
  <2>1. AnyRun
    BY RunsAreRuns DEF KvmInv
  <2>2. errors' = errors \/ errors' = errors \cup {Current}
    BY <2>1 DEF AnyRun, Returns, Fails, Enters, Raises, Cancels
  <2> QED
    BY <2>2
<1>2. swallowed => swallowed'
  BY DEF ActionRuns, Plain, Deploy, Download, Mount, Offset, LoopCheck, LoopMount, TestDefinitions,
     GitRepo, BzrRepo, TarRepo, Overlay, Umount, Boot, ExpectShell, Test, Finalize, Ran
<1> QED
  BY <1>1, <1>2 DEF Noted

(* The tests in the images are left as they are.                           *)
SameTests ==
  /\ file' = file /\ mounted' = mounted /\ job' = job
  /\ \A f \in {file, "x"} : img'[f].repo = img[f].repo /\ img'[f].tar = img[f].tar
  /\ img'["x"].state = img["x"].state

LEMMA FetchKept ==
  ASSUME KvmInv, KvmInv', FetchInv, ActionRuns, SameTests, Moves, booted' = booted,
         Current \notin {"repo", "tar-repo"}
  PROVE  FetchInv'
<1>1. Noted => Noted'
  BY NotedKept
<1>2. ret \in Live
  BY RunsAreRuns DEF KvmInv, Live
<1>3. TestsInImage => TestsInImage'
  BY <1>1 DEF TestsInImage, SameTests
<1>4. \A k \in {1, 2} : ret' \in Live /\ Fetched(k)' => Fetched(k)
  BY RunFetches
<1>5. RepoIsFetched'
  BY <1>1, <1>2, <1>4 DEF FetchInv, RepoIsFetched, SameTests
<1>6. TarIsFetched'
  BY <1>1, <1>2, <1>4 DEF FetchInv, TarIsFetched, SameTests
<1>7. PastIsFetched'
  BY <1>2, <1>3 DEF FetchInv, PastIsFetched, SameTests, Moves, Live
<1>8. BootedIsFetched'
  BY <1>3 DEF FetchInv, BootedIsFetched
<1> QED
  BY <1>5, <1>6, <1>7, <1>8 DEF FetchInv

(* Before the overlay the invariant speaks of the mounted image only.      *)
LEMMA FetchBefore ==
  ASSUME KvmInv, KvmInv', ActionRuns, booted' = booted, RepoIsFetched', TarIsFetched',
         Current \in {"download", "loop_mount", "repo", "tar-repo"}
  PROVE  FetchInv'
<1>1. ret \in {"run", "inner"} /\ ret \in Live /\ EngineInv /\ BootedIsPast
  BY ActionPlace DEF KvmInv
<1>2. ~Past /\ stack[1].at = 1
  BY <1>1, NotPast
<1>3. Moves
  <2>1. ~Overlay
    BY ActionPlace
  <2> QED
    BY <2>1, ActionMoves
<1>4. PastIsFetched'
  BY <1>2, <1>3 DEF PastIsFetched, Moves, Live
<1>5. BootedIsFetched'
  BY <1>1, <1>2 DEF BootedIsPast, BootedIsFetched
<1> QED
  BY <1>4, <1>5 DEF FetchInv

LEMMA NotFetched ==
  ASSUME KvmInv, KvmInv', ActionRuns, ret' \in Live, NEW k \in {1, 2},
         Current \notin {"testdef", "tar-repo", "test-overlay", "overlay", "repo"} \/ (Current = "repo" /\ k = 2)
  PROVE  ~Fetched(k)'
<1>1. ASSUME Fetched(k)' PROVE FALSE
  <2>1. ret \in {"run", "inner"} /\ Fetched(k)
    BY <1>1, RunFetches
  <2> QED
    BY <2>1, FetchedPlace DEF KvmInv
<1> QED
  BY <1>1

-----------------------------------------------------------------------------
(* ... action by action.                                                   *)
LEMMA QuietFetch ==
  ASSUME KvmInv, KvmInv', FetchInv,
         Plain \/ Deploy \/ Mount \/ Offset \/ LoopCheck \/ TestDefinitions \/ Boot \/ Test \/ Finalize
  PROVE  FetchInv'
<1>1. ActionRuns /\ KvmTypes
  BY DEF ActionRuns, KvmInv
<1>2. Current \notin {"repo", "tar-repo", "overlay"}
  BY <1>1, ActionPlace
<1>3. Moves
  <2>1. ~Overlay
    BY <1>1, <1>2, ActionPlace
  <2> QED
    BY <1>1, <2>1, ActionMoves
<1>4. file' = file /\ mounted' = mounted /\ job' = job /\ booted' = booted
  BY DEF Plain, Deploy, Mount, Offset, LoopCheck, TestDefinitions, Boot, Test, Finalize, Jobs, files, device
<1>5. SameTests
  <2>1. CASE TestDefinitions
    <3>1. UNCHANGED img \/ SetConf(TRUE) \/ SetConf(FALSE)
      BY <2>1 DEF TestDefinitions
    <3>2. Root \in File /\ {file, "x"} \subseteq File /\ img \in [File -> Content]
      BY <1>1 DEF KvmTypes, Root, File
    <3>3. \A f \in File : img[f] \in Content
      BY <3>2
    <3> QED
      BY <1>4, <3>1, <3>2, <3>3 DEF SameTests, SetConf, Content
  <2>2. CASE ~TestDefinitions
    <3>1. img' = img
      BY <2>2 DEF Plain, Deploy, Mount, Offset, LoopCheck, Boot, Test, Finalize, files
    <3> QED
      BY <1>4, <3>1 DEF SameTests
  <2> QED
    BY <2>1, <2>2
<1> QED
  BY <1>1, <1>2, <1>3, <1>4, <1>5, FetchKept

LEMMA ExpectShellFetch ==
  ASSUME KvmInv, KvmInv', FetchInv, ExpectShell
  PROVE  FetchInv'
<1>1. ActionRuns /\ EngineInv
  BY DEF ActionRuns, KvmInv
<1>2. Current = "expect-shell" /\ ret \in Live /\ ret \in {"run", "inner"}
  BY <1>1, ActionPlace
<1>3. Moves
  <2>1. ~Overlay
    BY <1>1, <1>2, ActionPlace
  <2> QED
    BY <1>1, <2>1, ActionMoves
<1>4. SameTests
  BY DEF ExpectShell, SameTests, Jobs, files
<1>5. CASE booted' = booted
  BY <1>1, <1>2, <1>3, <1>4, <1>5, FetchKept
<1>6. CASE img["x"].state = "whole"
  <2>1. Past
    BY <1>1, <1>2, AtAction, WhereActionsAre DEF Past
  <2>2. TestsInImage'
    BY <1>1, <1>2, <1>4, <1>6, <2>1, NotedKept DEF FetchInv, PastIsFetched, TestsInImage, SameTests
  <2>3. ret' \in Live => ~Fetched(1)' /\ ~Fetched(2)'
    BY <1>1, <1>2, NotFetched
  <2> QED
    BY <2>2, <2>3 DEF FetchInv, RepoIsFetched, TarIsFetched, PastIsFetched, BootedIsFetched
<1> QED
  BY <1>5, <1>6 DEF ExpectShell

LEMMA DownloadOrMountFetch ==
  ASSUME KvmInv, KvmInv', Download \/ LoopMount \/ BzrRepo
  PROVE  FetchInv'
<1>1. ActionRuns
  BY DEF ActionRuns
<1>2. Current \in {"download", "loop_mount", "repo"}
  BY <1>1, ActionPlace
<1>3. booted' = booted
  BY DEF Download, LoopMount, BzrRepo, device
<1>4. RepoIsFetched' /\ TarIsFetched'
  <2>1. CASE BzrRepo
    BY <2>1 DEF BzrRepo, Raises, RepoIsFetched, TarIsFetched, Live
  <2>2. CASE Download \/ LoopMount
    <3>1. Current \in {"download", "loop_mount"}
      BY <1>1, <2>2, ActionPlace
    <3> QED
      BY <1>1, <3>1, NotFetched DEF RepoIsFetched, TarIsFetched
  <2> QED
    BY <2>1, <2>2
<1> QED
  BY <1>1, <1>2, <1>3, <1>4, FetchBefore

(* A checkout of other tests comes after a command whose failure was       *)
(* swallowed, or with an error.                                            *)
LEMMA GitRepoFetch ==
  ASSUME KvmInv, KvmInv', GitRepo
  PROVE  FetchInv'
<1>1. ActionRuns /\ KvmTypes
  BY DEF ActionRuns, KvmInv
<1>2. Current = "repo"
  BY <1>1, ActionPlace
<1>3. job' = job /\ file' = file /\ mounted' = mounted /\ booted' = booted
  BY DEF GitRepo, Jobs, device
<1>4. TarIsFetched'
  BY <1>1, <1>2, NotFetched DEF TarIsFetched
<1>5. ASSUME ret' \in Live, mounted PROVE img'[file].repo = job \/ Noted'
  <2>1. PICK c \in Command, k \in Command : \E r \in CheckedOut(c, k) :
          /\ ~par.revision \/ Cloned(c) = 0 => k = "ok"
          /\ Ran({c, k}) /\ img' = [img EXCEPT ![Root].repo = r, ![Root].dir = @ \/ r # 0]
          /\ \/ Returns(Top.conn) \/ Fails \/ Raises \/ Cancels
    BY DEF GitRepo
  <2>2. PICK r \in CheckedOut(c, k) :
          /\ ~par.revision \/ Cloned(c) = 0 => k = "ok"
          /\ Ran({c, k}) /\ img' = [img EXCEPT ![Root].repo = r, ![Root].dir = @ \/ r # 0]
          /\ \/ Returns(Top.conn) \/ Fails \/ Raises \/ Cancels
    BY <2>1
  <2>3. img'[file].repo = r
    <3>1. Root = file /\ file \in File /\ img \in [File -> Content] /\ img[file] \in Content
      BY <1>1, <1>5 DEF KvmTypes, Root
    <3> QED
      BY <2>2, <3>1 DEF Content
  <2>4. CASE c = "ok" /\ k = "ok"
    <3>1. Cloned(c) \in {Wrong, job} /\ (~par.revision => Cloned(c) = job)
      BY <2>4 DEF Cloned
    <3>2. job \in 0..MaxJobs /\ MaxJobs \in Nat
      BY <1>1, Tables DEF KvmTypes
    <3>3. Wrong # 0
      BY <3>2 DEF Wrong
    <3>4. r = job
      BY <2>4, <3>1, <3>3 DEF CheckedOut
    <3> QED
      BY <2>3, <3>4
  <2>5. CASE ~(c = "ok" /\ k = "ok")
    BY <2>2, <2>5 DEF Ran, Noted
  <2> QED
    BY <2>4, <2>5
<1>6. RepoIsFetched'
  BY <1>3, <1>5 DEF RepoIsFetched
<1> QED
  BY <1>1, <1>2, <1>3, <1>4, <1>6, FetchBefore

LEMMA TarRepoFetch ==
  ASSUME KvmInv, KvmInv', FetchInv, TarRepo
  PROVE  FetchInv'
<1>1. ActionRuns /\ KvmTypes
  BY DEF ActionRuns, KvmInv
<1>2. Current = "tar-repo" /\ ret \in Live
  BY <1>1, ActionPlace
<1>3. job' = job /\ file' = file /\ mounted' = mounted /\ booted' = booted
  BY DEF TarRepo, Jobs, device
<1>4. file \in File /\ Root \in File /\ img \in [File -> Content] /\ img[file] \in Content
      /\ img[Root] \in Content
  BY <1>1 DEF KvmTypes, Root, File
<1>5. img' = img \/ \E t : img' = Extracted(t)
  BY DEF TarRepo
<1>6. img'[file].repo = img[file].repo
  BY <1>4, <1>5 DEF Content, Extracted
<1>7. RepoIsFetched'
  <2>1. ret' \in Live /\ Fetched(1)' => Fetched(1)
    BY <1>1, <1>2, RunFetches
  <2> QED
    BY <1>1, <1>2, <1>3, <1>6, <2>1, NotedKept DEF FetchInv, RepoIsFetched
<1>8. ASSUME ret' \in Live, mounted PROVE img'[file].tar = job \/ Noted'
  <2>1. CASE img' = Extracted(job)
    <3>1. Root = file
      BY <1>8 DEF Root
    <3> QED
      BY <1>4, <2>1, <3>1 DEF Content, Extracted
  <2>2. CASE Fails
    BY <2>2 DEF Fails, Noted
  <2>3. CASE Raises \/ Cancels
    BY <1>8, <2>3 DEF Raises, Cancels, Live
  <2> QED
    BY <2>1, <2>2, <2>3 DEF TarRepo
<1>9. TarIsFetched'
  BY <1>3, <1>8 DEF TarIsFetched
<1> QED
  BY <1>1, <1>2, <1>3, <1>7, <1>9, FetchBefore

(* What the overlay is added to is mounted, and so are the tests.          *)
LEMMA OverlayFetch ==
  ASSUME KvmInv, KvmInv', FetchInv, Overlay
  PROVE  FetchInv'
<1>1. ActionRuns /\ KvmTypes /\ EngineInv /\ NoImageYet /\ BootedIsPast
  BY DEF ActionRuns, KvmInv
<1>2. Current = "overlay" /\ ret \in Live /\ ret \in {"run", "inner"}
  BY <1>1, ActionPlace
<1>3. file' = file /\ job' = job /\ booted' = booted /\ mounted' = mounted
  BY DEF Overlay, Jobs, device
<1>4. Shape /\ stack[1].at = 1 /\ Len(stack) = 2 /\ stack[2].at = 6
  BY <1>1, <1>2, AtAction, WhereActionsAre
<1>5. BootedIsFetched'
  BY <1>1, <1>2, <1>3, <1>4 DEF BootedIsPast, BootedIsFetched
<1>6. CASE Raises \/ Cancels
  <2>1. ret' \notin Live
    BY <1>6 DEF Raises, Cancels, Live
  <2> QED
    BY <1>5, <2>1 DEF FetchInv, RepoIsFetched, TarIsFetched, PastIsFetched
<1>7. CASE mounted /\ img' = [img EXCEPT ![file].overlay = job, ![file].dir = TRUE]
  <2>1. /\ file \in {"x", "x.img"} /\ file \in File /\ "x" \in File /\ img \in [File -> Content]
        /\ img["x"] \in Content /\ img[file] \in Content
    BY <1>1 DEF KvmTypes, File
  <2>2. \A f \in {file, "x"} : /\ img'[f].state = img[f].state /\ img'[f].repo = img[f].repo
                               /\ img'[f].tar = img[f].tar
    BY <1>7, <2>1 DEF Content
  <2>3. Fetched(1) /\ Fetched(2)
    BY <1>4 DEF Fetched
  <2>4. (img[file].repo = job /\ img[file].tar = job) \/ Noted
    BY <1>2, <1>7, <2>3 DEF FetchInv, RepoIsFetched, TarIsFetched
  <2>5. Noted => Noted'
    BY <1>1, NotedKept
  <2>6. RepoIsFetched' /\ TarIsFetched'
    BY <1>3, <2>2, <2>4, <2>5 DEF RepoIsFetched, TarIsFetched
  <2>7. PastIsFetched'
    <3>1. CASE file = "x"
      <4>1. TestsInImage'
        BY <1>3, <2>2, <2>4, <2>5, <3>1 DEF TestsInImage
      <4> QED
        BY <4>1 DEF PastIsFetched
    <3>2. CASE file = "x.img"
      <4>1. img'["x"].state # "whole"
        BY <1>1, <1>2, <2>2, <3>2 DEF NoImageYet
      <4> QED
        BY <4>1 DEF PastIsFetched
    <3> QED
      BY <2>1, <3>1, <3>2
  <2> QED
    BY <1>5, <2>6, <2>7 DEF FetchInv
<1> QED
  BY <1>6, <1>7 DEF Overlay

LEMMA UmountFetch ==
  ASSUME KvmInv, KvmInv', FetchInv, Umount
  PROVE  FetchInv'
<1>1. ActionRuns /\ KvmTypes /\ EngineInv /\ BootedIsPast
  BY DEF ActionRuns, KvmInv
<1>2. Current = "umount" /\ ret \in Live /\ ret \in {"run", "inner"}
  BY <1>1, ActionPlace
<1>3. Moves
  <2>1. ~Overlay
    BY <1>1, <1>2, ActionPlace
  <2> QED
    BY <1>1, <2>1, ActionMoves
<1>4. file' = file /\ job' = job /\ booted' = booted
  BY DEF Umount, Jobs, device
<1>5. BootedIsFetched'
  <2>1. stack[1].at = 1
    BY <1>1, <1>2, DeployActionPlace
  <2> QED
    BY <1>1, <1>2, <1>4, <2>1 DEF BootedIsPast, BootedIsFetched
<1>6. RepoIsFetched' /\ TarIsFetched'
  BY <1>1, <1>2, NotFetched DEF RepoIsFetched, TarIsFetched
<1>7. /\ file \in {"x", "x.img"} /\ File = {"x", "x.img", "dir"} /\ img \in [File -> Content]
  BY <1>1 DEF KvmTypes, File
<1>8. \/ img' = img \/ img' = Erase(file) \/ img' = [img EXCEPT !["dir"] = Holding("absent")]
  BY DEF Umount
<1>9. img'["x"] = img["x"] \/ img'["x"].state = "erased"
  BY <1>7, <1>8 DEF Erase, Holding
<1>10. PastIsFetched'
  <2>1. CASE img'["x"] = img["x"]
    <3>1. TestsInImage => TestsInImage'
      BY <1>1, <1>4, <2>1, NotedKept DEF TestsInImage
    <3> QED
      BY <1>2, <1>3, <2>1, <3>1 DEF FetchInv, PastIsFetched, Moves, Live
  <2>2. CASE img'["x"].state = "erased"
    BY <2>2 DEF PastIsFetched
  <2> QED
    BY <1>9, <2>1, <2>2
<1> QED
  BY <1>5, <1>6, <1>10 DEF FetchInv

LEMMA LoopFetch ==
  ASSUME KvmInv, FetchInv, Loop
  PROVE  FetchInv'
<1>1. EngineInv
  BY DEF KvmInv
<1>2. /\ file' = file /\ img' = img /\ job' = job /\ booted' = booted /\ mounted' = mounted
      /\ swallowed' = swallowed
  BY DEF Loop, Jobs, files, device
<1>3. errors' = errors
  BY DEF Loop, CallRun, Exhausted, Interrupted
<1>4. (Noted => Noted') /\ (TestsInImage => TestsInImage')
  BY <1>2, <1>3 DEF Noted, TestsInImage
<1>5. BootedIsFetched'
  BY <1>2, <1>4 DEF FetchInv, BootedIsFetched
<1>6. CASE ret' \in Live
  <2>1. ret \in Live /\ (Past' => Past)
    BY <1>1, <1>6, LoopMoves DEF Loop
  <2>2. \A k \in {1, 2} : Fetched(k)' => Fetched(k)
    BY <1>1, <1>6, LoopFetches DEF Loop
  <2>3. RepoIsFetched' /\ TarIsFetched'
    BY <1>2, <1>4, <2>1, <2>2 DEF FetchInv, RepoIsFetched, TarIsFetched
  <2>4. PastIsFetched'
    BY <1>2, <1>4, <2>1 DEF FetchInv, PastIsFetched
  <2> QED
    BY <1>5, <2>3, <2>4 DEF FetchInv
<1>7. CASE ret' \notin Live
  BY <1>5, <1>7 DEF FetchInv, RepoIsFetched, TarIsFetched, PastIsFetched
<1> QED
  BY <1>6, <1>7

LEMMA StartOrExitFetch ==
  ASSUME StartJob \/ ExitJob
  PROVE  FetchInv'
<1>1. booted' = FALSE
  BY DEF StartJob, ExitJob
<1>2. ret' \in Live => ~Past' /\ ~Fetched(1)' /\ ~Fetched(2)'
  <2>1. CASE JobRun
    <3> DEFINE f == [pipe |-> Outer, at |-> 1, conn |-> NoConn]
    <3>1. stack' = <<f>> /\ ret' = "loop" /\ f.at = 1
      BY <2>1 DEF JobRun
    <3> HIDE DEF f
    <3>2. Len(stack') = 1 /\ stack'[1].at = 1
      BY <3>1
    <3> QED
      BY <3>1, <3>2 DEF Past, Fetched
  <2>2. CASE JobInvalid \/ ExitJob
    BY <2>2 DEF JobInvalid, ExitJob, engine, Over, Live
  <2> QED
    BY <2>1, <2>2 DEF StartJob
<1> QED
  BY <1>1, <1>2 DEF FetchInv, RepoIsFetched, TarIsFetched, PastIsFetched, BootedIsFetched

LEMMA FetchInvKept ==
  ASSUME KvmInv, FetchInv, [Next]_vars
  PROVE  FetchInv'
<1>1. KvmInv'
  BY KvmInvKept
<1>2. CASE StartJob \/ ExitJob
  BY <1>2, StartOrExitFetch
<1>3. CASE Loop
  BY <1>3, LoopFetch
<1>4. CASE Plain \/ Deploy \/ Mount \/ Offset \/ LoopCheck \/ TestDefinitions \/ Boot \/ Test \/ Finalize
  BY <1>1, <1>4, QuietFetch
<1>5. CASE Download \/ LoopMount \/ BzrRepo
  BY <1>1, <1>5, DownloadOrMountFetch
<1>6. CASE GitRepo
  BY <1>1, <1>6, GitRepoFetch
<1>7. CASE TarRepo
  BY <1>1, <1>7, TarRepoFetch
<1>8. CASE Overlay
  BY <1>1, <1>8, OverlayFetch
<1>9. CASE Umount
  BY <1>1, <1>9, UmountFetch
<1>10. CASE ExpectShell
  BY <1>1, <1>10, ExpectShellFetch
<1>11. CASE UNCHANGED vars
  BY <1>11 DEF vars, engine, files, device, FetchInv, RepoIsFetched, TarIsFetched, PastIsFetched,
     BootedIsFetched, TestsInImage, Noted, Past, Fetched
<1> QED
  BY <1>2, <1>3, <1>4, <1>5, <1>6, <1>7, <1>8, <1>9, <1>10, <1>11 DEF Next

(* Where other tests than those of the job boot, some action has an error  *)
(* to show for it or _run_command has swallowed a failure: whatever else   *)
(* fails in the deployment, and whatever tests the jobs before left in the *)
(* image.                                                                  *)
THEOREM NoSilentWrongTestsHolds == Spec => []NoSilentWrongTests
<1>1. Init => KvmInv /\ FetchInv
  <2>1. ASSUME Init PROVE FetchInv
    BY <2>1 DEF Init, Idle, FetchInv, RepoIsFetched, TarIsFetched, PastIsFetched, BootedIsFetched, Live
  <2> QED
    BY <2>1, KvmInvInit
<1>2. KvmInv /\ FetchInv /\ [Next]_vars => (KvmInv /\ FetchInv)'
  BY KvmInvKept, FetchInvKept
<1>3. KvmInv /\ FetchInv => NoSilentWrongTests
  BY DEF FetchInv, BootedIsFetched, TestsInImage, Noted, NoSilentWrongTests
<1> QED
  BY <1>1, <1>2, <1>3, PTL DEF Spec
=============================================================================
