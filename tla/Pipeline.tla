------------------------------ MODULE Pipeline ------------------------------
(* The loop that runs a job of the YAML dispatcher (Pipeline.run_actions,  *)
(* pipeline/action.py:178): the actions of a pipeline in turn, an action   *)
(* with an internal pipeline running it in the same way.  A JobError or an *)
(* InfrastructureError is recorded in the action and the loop goes on; a   *)
(* KeyboardInterrupt leaves every loop; anything else ends the process.    *)
(* What the actions do is left open: KvmJob fills it in.                   *)
EXTENDS Naturals, Sequences

CONSTANTS Action,   \* the actions of the job
          Pipe,     \* its pipelines
          Outer,    \* the one Job.run runs
          Actions,  \* Actions[p]: the actions of pipeline p, in order
          Inner,    \* Inner[a]: the internal pipeline of the actions that have one
          Conn,     \* connections to the device
          NoConn    \* None

ASSUME TreeAssumption ==
  /\ Outer \in Pipe /\ Actions \in [Pipe -> Seq(Action)]
  /\ DOMAIN Inner \subseteq Action /\ \A a \in DOMAIN Inner : Inner[a] \in Pipe
  /\ NoConn \notin Conn

VARIABLES
  stack,      \* the calls of run_actions that have not returned
  ret,        \* where the innermost one stands
  value,      \* what the run_actions that returned last gave back
  errors,     \* the actions that have an error to show (valid is False)
  cancelled   \* history: a KeyboardInterrupt came out of an action
engine == <<stack, ret, value, errors, cancelled>>

Frame == [pipe : Pipe, at : Nat \ {0}, conn : Conn \cup {NoConn}]
Over == {"returned", "cancelled", "raised"}

Top == stack[Len(stack)]
Beneath == SubSeq(stack, 1, Len(stack) - 1)
Current == Actions[Top.pipe][Top.at]
Executing(a) == ret = "run" /\ Current = a
Resumed(a) == ret = "inner" /\ Current = a

Idle == stack = <<>> /\ ret = "idle" /\ value = NoConn /\ errors = {} /\ cancelled = FALSE

JobRun ==
  /\ ret \in Over \cup {"idle"}
  /\ stack' = << [pipe |-> Outer, at |-> 1, conn |-> NoConn] >>
  /\ ret' = "loop" /\ value' = NoConn /\ errors' = {} /\ cancelled' = FALSE

(* The job is over before it has run: validation failed.                   *)
JobInvalid ==
  /\ ret \in Over \cup {"idle"} /\ ret' = "raised"
  /\ stack' = <<>> /\ value' = NoConn /\ errors' = {} /\ cancelled' = FALSE

(* new_connection = action.run(connection, args)                           *)
CallRun ==
  /\ ret = "loop" /\ Top.at \in DOMAIN Actions[Top.pipe]
  /\ ret' = "run" /\ UNCHANGED <<stack, value, errors, cancelled>>

ExhaustedPopsLast ==  \* mutant: the outermost call is taken for a nested one
  /\ ret = "loop" /\ Top.at \notin DOMAIN Actions[Top.pipe]
  /\ ret' = "inner" /\ stack' = Beneath
  /\ value' = Top.conn /\ UNCHANGED <<errors, cancelled>>

(* return connection, to Job.run or to the action whose pipeline this is   *)
Exhausted ==
  /\ ret = "loop" /\ Top.at \notin DOMAIN Actions[Top.pipe]
  /\ IF Len(stack) = 1
       THEN ret' = "returned" /\ UNCHANGED stack
       ELSE ret' = "inner" /\ stack' = Beneath
  /\ value' = Top.conn /\ UNCHANGED <<errors, cancelled>>

(* What the run of an action may do to the loop.                           *)
GoOn(c) ==
  /\ stack' = [stack EXCEPT ![Len(stack)] = [pipe |-> Top.pipe, at |-> Top.at + 1, conn |-> c]]
  /\ ret' = "loop" /\ UNCHANGED <<value, cancelled>>

(* if new_connection: connection = new_connection                          *)
Returns(c) ==
  /\ ret \in {"run", "inner"} /\ UNCHANGED errors
  /\ GoOn(IF c = NoConn THEN Top.conn ELSE c)

FailsUnnoticed ==  \* mutant: the error is only logged
  /\ ret \in {"run", "inner"} /\ UNCHANGED errors
  /\ GoOn(Top.conn)

(* except (JobError, InfrastructureError): its message is recorded         *)
Fails ==
  /\ ret \in {"run", "inner"} /\ errors' = errors \cup {Current}
  /\ GoOn(Top.conn)

Enters(c) ==
  /\ ret = "run" /\ Current \in DOMAIN Inner
  /\ stack' = Append(stack, [pipe |-> Inner[Current], at |-> 1, conn |-> c])
  /\ ret' = "loop" /\ UNCHANGED <<value, errors, cancelled>>

Raises == ret \in {"run", "inner"} /\ ret' = "raised" /\ UNCHANGED <<stack, value, errors, cancelled>>
Cancels ==
  /\ ret \in {"run", "inner"} /\ ret' = "KeyboardInterrupt" /\ cancelled' = TRUE
  /\ UNCHANGED <<stack, value, errors>>

InterruptedBreaks ==  \* mutant: a nested pipeline breaks as the outer one does
  /\ ret = "KeyboardInterrupt"
  /\ IF Len(stack) > 1 THEN stack' = Beneath /\ ret' = "inner"
                       ELSE ret' = "cancelled" /\ UNCHANGED stack
  /\ UNCHANGED <<value, errors, cancelled>>

(* except KeyboardInterrupt: if self.parent: raise, else break             *)
Interrupted ==
  /\ ret = "KeyboardInterrupt"
  /\ IF Len(stack) > 1 THEN stack' = Beneath /\ UNCHANGED ret
                       ELSE ret' = "cancelled" /\ UNCHANGED stack
  /\ UNCHANGED <<value, errors, cancelled>>

AnyRun ==
  \/ \E c \in Conn \cup {NoConn} : Returns(c) \/ Enters(c)
  \/ Fails \/ Raises \/ Cancels

EngineNext == JobRun \/ JobInvalid \/ CallRun \/ Exhausted \/ Interrupted \/ AnyRun
EngineSpec == Idle /\ [][EngineNext]_engine

EngineTypeOK ==
  /\ stack \in Seq(Frame) /\ value \in Conn \cup {NoConn} /\ errors \subseteq Action
  /\ ret \in {"idle", "loop", "run", "inner", "KeyboardInterrupt"} \cup Over
  /\ cancelled \in BOOLEAN

(* Every call but the first is that of the internal pipeline of the action *)
(* its caller stands at (Pipeline.add_action sets parent.pipeline).        *)
Nested ==
  /\ ret \in {"loop", "run", "inner", "KeyboardInterrupt"} => stack # <<>> /\ stack[1].pipe = Outer
  /\ ret \in {"run", "inner"} => Top.at \in DOMAIN Actions[Top.pipe]
  /\ \A i \in DOMAIN stack : i < Len(stack) =>
       /\ stack[i].at \in DOMAIN Actions[stack[i].pipe]
       /\ Actions[stack[i].pipe][stack[i].at] \in DOMAIN Inner
       /\ stack[i + 1].pipe = Inner[Actions[stack[i].pipe][stack[i].at]]

(* A KeyboardInterrupt that comes out of an action, however deep, is the   *)
(* end of the job: no later action of any pipeline runs ("re-raise         *)
(* KeyboardInterrupt to allow for Cancel operations", action.py:495).      *)
InterruptEndsJob == cancelled => ret \in {"KeyboardInterrupt", "cancelled"}
=============================================================================
