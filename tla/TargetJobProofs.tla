-------------------------- MODULE TargetJobProofs --------------------------
(***************************************************************************)
(* Proofs about TargetJob, for every table of scripts of structured        *)
(* methods, every length of a job and every number of steps that fail.     *)
(***************************************************************************)
EXTENDS TargetOutlines, TargetClauses, SequenceTheorems, TLAPS

---------------------------------------------------------------------------
(* Control: where a command is, what it raised, and what is held back.     *)

(* A cleanup that runs holds one outcome back, for each finally clause     *)
(* that the command is in; a command that is over has let all of them go.  *)
HeldInv ==
  IF cmd = "idle" THEN exc = None /\ caught = None /\ held = << >>
                  ELSE Len(held) = Depth(Prog)[at]
ControlInv == TypeOK /\ HeldInv

LEMMA SomeExceptions ==
  /\ None \in Excs /\ "TIMEOUT" \in Excs /\ "OSError" \in Excs /\ "SystemExit" \in Excs
  /\ "quiet" \notin Excs
BY DEF Excs, Everything, Exceptions, Critical, None

LEMMA AssignDomain ==
  ASSUME NEW set, NEW w PROVE DOMAIN Assign(set, w) = DOMAIN w
BY DEF Assign

(* SIGTERM finds the effect of the step in place, or not.                  *)
LEMMA CancelOnce ==
  ASSUME Cancel
  PROVE  \E set \in Effects, off \in PowerOff[kind] :
           /\ set = Nil \/ (set = Here.set /\ Holds(Here.needs, d))
           /\ Holds(off.needs, Assign(set, d)) /\ d' = Assign(Then(set, off.set), d)
           /\ cancelled' = IF held # << >> THEN "cleanup" ELSE IF Mounts(set) THEN "mounting" ELSE "body"
<1>1. PICK set \in Effects, off \in PowerOff[kind] : SwitchOff(set, off)
  BY DEF Cancel
<1>2. set = Nil \/ (set = Here.set /\ Holds(Here.needs, d))
  BY DEF Effects
<1> QED
  BY <1>1, <1>2 DEF SwitchOff

LEMMA ProgWellNested ==
  ASSUME TypeOK, cmd # "idle"
  PROVE  /\ kind \in Kind /\ cmd \in DOMAIN Program[kind]
         /\ Len(Prog) \in Nat /\ DOMAIN Prog = 1..Len(Prog)
         /\ at \in 1..(Len(Prog) + 1)
         /\ Depth(Prog)[1] = 0 /\ Depth(Prog)[Len(Prog) + 1] = 0
         /\ at <= Len(Prog) => at \in DOMAIN Prog /\ WellNestedAt(Prog, Depth(Prog), at)
<1>1. kind \in Kind /\ cmd \in DOMAIN Program[kind] /\ at \in 1..(Len(Prog) + 1)
  BY DEF TypeOK
<1>2. WellNested(Prog)
  BY <1>1, ScriptAssumption DEF ScriptAssumption, Prog
<1>3. at <= Len(Prog) => at \in 1..Len(Prog)
  BY <1>1, <1>2 DEF WellNested
<1> QED
  BY <1>1, <1>2, <1>3 DEF WellNested

(* Where a step that stays in its command may go.                          *)
LEMMA WhereStepsGo ==
  ASSUME ControlInv, cmd # "idle", at <= Len(Prog)
  PROVE  /\ at + 1 \in 1..(Len(Prog) + 1)
         /\ Here.k \notin {"finally", "resume"} => Len(held) = Depth(Prog)[at + 1]
         /\ Here.k # "finally" => Out(Prog, at) \in 1..(Len(Prog) + 1)
         /\ Here.k \notin {"finally", "resume"} => Len(held) = Depth(Prog)[Out(Prog, at)]
         /\ Here.k \in {"if", "either", "else", "except"} =>
              /\ Past(Prog, at) + 1 \in 1..(Len(Prog) + 1)
              /\ Len(held) = Depth(Prog)[Past(Prog, at) + 1]
         /\ Here.k = "finally" => Len(held) + 1 = Depth(Prog)[at + 1]
         /\ Here.k = "resume" =>
              /\ held # << >>
              /\ Len(held) - 1 = Depth(Prog)[at + 1]
              /\ Len(held) - 1 = Depth(Prog)[Out(Prog, at)]
<1> DEFINE p == Prog
           depth == Depth(Prog)
<1>1. /\ Len(p) \in Nat /\ DOMAIN p = 1..Len(p) /\ at \in 1..Len(p) /\ Len(held) = depth[at]
      /\ WellNestedAt(p, depth, at)
  BY ProgWellNested DEF ControlInv, HeldInv
<1>2. held \in Seq(Excs) /\ Len(held) \in Nat
  BY DEF ControlInv, TypeOK
<1> HIDE DEF p, depth
<1>3. p[at] = Here
  BY DEF p, Here
<1>4. held = << >> => Len(held) = 0
  OBVIOUS
<1>5. p[at].k \in {"if", "either", "else", "except"} =>
        /\ p[at].k \notin {"finally", "resume"}
        /\ Past(p, at) + 1 \in 1..(Len(p) + 1)
        /\ depth[Past(p, at) + 1] = depth[at]
  BY <1>1 DEF WellNestedAt
<1>6. /\ p[at].k \notin {"finally", "resume"} => depth[at + 1] = depth[at]
      /\ p[at].k = "finally" => depth[at + 1] = depth[at] + 1
      /\ p[at].k = "resume" =>
           depth[at] > 0 /\ depth[at + 1] = depth[at] - 1 /\ depth[Out(p, at)] = depth[at] - 1
      /\ p[at].k # "finally" => Out(p, at) \in 1..(Len(p) + 1)
      /\ p[at].k \notin {"finally", "resume"} => depth[Out(p, at)] = depth[at]
  BY <1>1 DEF WellNestedAt
<1>7. at + 1 \in 1..(Len(p) + 1)
  BY <1>1
<1> USE <1>3
<1>8. QED
  BY <1>1, <1>2, <1>4, <1>5, <1>6, <1>7 DEF p, depth

(* A step that stays in its command keeps the invariant if it goes where   *)
(* as many outcomes are held back as it leaves.                            *)
LEMMA StepKeepsControl ==
  ASSUME ControlInv, cmd # "idle", UNCHANGED <<kind, cmd, stage, out, deployed>>,
         at' \in 1..(Len(Prog) + 1), exc' \in Excs, caught' \in Excs, held' \in Seq(Excs),
         Len(held') = Depth(Prog)[at'], DOMAIN d' = DOMAIN d,
         left' \in 0..MaxCommands, faults' \in 0..MaxFaults,
         cancelled' \in {"no", "body", "mounting", "cleanup", "late"}
  PROVE  ControlInv'
<1>1. Prog' = Prog
  BY DEF Prog
<1>2. TypeOK'
  BY <1>1 DEF ControlInv, TypeOK
<1> QED
  BY <1>1, <1>2 DEF ControlInv, HeldInv

LEMMA StartKeepsControl ==
  ASSUME ControlInv, NEW c \in DOMAIN Program[kind], Start(c)
  PROVE  ControlInv'
<1>1. /\ kind' = kind /\ cmd' = c /\ at' = 1 /\ cmd = "idle"
      /\ UNCHANGED <<d, stage, exc, caught, held, out, faults>>
  BY DEF Start
<1>2. kind \in Kind /\ c # "idle" /\ WellNested(Program[kind][c])
  BY ScriptAssumption DEF ScriptAssumption, ControlInv, TypeOK
<1>3. /\ Prog' = Program[kind][c]
      /\ at' \in 1..(Len(Prog') + 1) /\ Depth(Prog')[1] = 0
  BY <1>1, <1>2 DEF Prog, WellNested
<1>4. left' \in 0..MaxCommands
  BY BoundAssumption DEF Start, Legal, Commands, ControlInv, TypeOK, BoundAssumption
<1>5. /\ deployed' \in {None, "running", "ok", "failed"}
      /\ cancelled' \in {"no", "body", "mounting", "cleanup", "late"}
  BY DEF Start, Begun, ControlInv, TypeOK
<1>6. TypeOK'
  BY <1>1, <1>2, <1>3, <1>4, <1>5 DEF ControlInv, TypeOK
<1>7. HeldInv'
  <2>1. cmd' # "idle" /\ held' = << >>
    BY <1>1, <1>2 DEF ControlInv, HeldInv
  <2> QED
    BY <1>1, <1>3, <2>1 DEF HeldInv
<1> QED
  BY <1>6, <1>7 DEF ControlInv

LEMMA ReturnKeepsControl ==
  ASSUME ControlInv, Return PROVE ControlInv'
<1>1. /\ cmd # "idle" /\ cmd' = "idle" /\ at' = 1 /\ exc' = None /\ caught' = None
      /\ out' = <<cmd, exc>> /\ UNCHANGED <<kind, d, held, left, faults, cancelled>>
  BY DEF Return
<1>2. at = Len(Prog) + 1 /\ Depth(Prog)[Len(Prog) + 1] = 0
  BY <1>1, ProgWellNested DEF Return, ControlInv
<1>3. held = << >>
  <2>1. held \in Seq(Excs) /\ Len(held) = 0
    BY <1>1, <1>2 DEF ControlInv, HeldInv, TypeOK
  <2> QED
    BY <2>1, EmptySeq
<1>4. /\ stage' \in {"new", "run", "failed", "over", "done"}
      /\ deployed' \in {None, "running", "ok", "failed"}
  BY DEF Return, Becomes, Ended, ControlInv, TypeOK
<1>5. TypeOK'
  BY <1>1, <1>4, SomeExceptions DEF ControlInv, TypeOK
<1>6. HeldInv'
  BY <1>1, <1>3 DEF HeldInv
<1> QED
  BY <1>5, <1>6 DEF ControlInv

LEMMA DoKeepsControl ==
  ASSUME ControlInv, Perform \/ Fail \/ CannotWork \/ Cancel PROVE ControlInv'
<1>1. cmd # "idle" /\ at <= Len(Prog) /\ Here.k = "do"
  BY DEF Perform, Fail, CannotWork, Cancel, Normal, Running
<1>2. /\ UNCHANGED <<kind, cmd, stage, out, deployed, caught, held>>
      /\ cancelled' \in {"no", "body", "mounting", "cleanup", "late"}
  <2>1. CASE Cancel
    BY <2>1, CancelOnce DEF Cancel
  <2>2. CASE Perform \/ Fail \/ CannotWork
    BY <2>2 DEF Perform, Fail, CannotWork, Stays, ControlInv, TypeOK
  <2> QED
    BY <2>1, <2>2
<1>3. left' \in 0..MaxCommands /\ faults' \in 0..MaxFaults
  <2>1. left \in 0..MaxCommands /\ faults \in 0..MaxFaults
    BY DEF ControlInv, TypeOK
  <2> QED
    BY <2>1, BoundAssumption DEF Perform, Fail, CannotWork, Cancel, Stays, BoundAssumption
<1>4. DOMAIN d' = DOMAIN d
  BY AssignDomain, CancelOnce DEF Perform, Fail, CannotWork
<1>5. Here.raises \subseteq Excs \cup {"quiet"}
  BY <1>1, ProgWellNested DEF WellNestedAt, Here, ControlInv
<1>6. exc' \in Excs /\ (at' = at + 1 \/ at' = Out(Prog, at))
  <2>1. CASE Perform
    BY <2>1 DEF Perform, ControlInv, TypeOK
  <2>2. CASE Fail
    BY <2>2, <1>5, SomeExceptions DEF Fail, Goes
  <2>3. CASE CannotWork
    BY <2>3, SomeExceptions DEF CannotWork, Goes
  <2>4. CASE Cancel
    BY <2>4, SomeExceptions DEF Cancel, Goes
  <2> QED
    BY <2>1, <2>2, <2>3, <2>4
<1>7. caught' \in Excs /\ held' \in Seq(Excs)
  BY <1>2 DEF ControlInv, TypeOK
<1>8. at' \in 1..(Len(Prog) + 1) /\ Len(held') = Depth(Prog)[at']
  BY <1>1, <1>2, <1>6, WhereStepsGo
<1> QED
  BY <1>1, <1>2, <1>3, <1>4, <1>6, <1>7, <1>8, StepKeepsControl

LEMMA JumpKeepsControl ==
  ASSUME ControlInv, RaiseStep \/ Branch \/ Catch \/ Propagate PROVE ControlInv'
<1>1. /\ cmd # "idle" /\ at <= Len(Prog)
      /\ Here.k \in {"raise", "reraise", "if", "either", "else", "except", "end"}
  BY DEF RaiseStep, Branch, Catch, Propagate, Normal, Running
<1>2. UNCHANGED <<kind, cmd, stage, out, deployed, left, cancelled, d, held, faults>>
  BY DEF RaiseStep, Branch, Catch, Propagate, Stays
<1>3. Here.k = "raise" => Here.op \in Excs
  BY <1>1, ProgWellNested DEF WellNestedAt, Here, ControlInv
<1>4. exc \in Excs /\ caught \in Excs /\ held \in Seq(Excs)
  BY DEF ControlInv, TypeOK
<1>5. /\ exc' \in Excs /\ caught' \in Excs
      /\ \/ at' = at + 1 \/ at' = Out(Prog, at)
         \/ Here.k \in {"if", "either", "else", "except"} /\ at' = Past(Prog, at) + 1
  <2>1. CASE RaiseStep
    BY <2>1, <1>3, <1>4 DEF RaiseStep, Goes, Normal, Running
  <2>2. CASE Branch
    BY <2>2, <1>4 DEF Branch, Normal, Running
  <2>3. CASE Catch
    BY <2>3, <1>4, SomeExceptions DEF Catch, Goes
  <2>4. CASE Propagate
    BY <2>4, <1>4 DEF Propagate, Goes
  <2> QED
    BY <2>1, <2>2, <2>3, <2>4
<1>6. at' \in 1..(Len(Prog) + 1) /\ Len(held') = Depth(Prog)[at']
  BY <1>1, <1>2, <1>5, WhereStepsGo
<1>7. DOMAIN d' = DOMAIN d /\ held' \in Seq(Excs) /\ left' \in 0..MaxCommands
      /\ faults' \in 0..MaxFaults /\ cancelled' \in {"no", "body", "mounting", "cleanup", "late"}
  BY <1>2 DEF ControlInv, TypeOK
<1> QED
  BY <1>1, <1>2, <1>5, <1>6, <1>7, StepKeepsControl

LEMMA FinallyKeepsControl ==
  ASSUME ControlInv, EnterFinally \/ LeaveFinally PROVE ControlInv'
<1>1. cmd # "idle" /\ at <= Len(Prog) /\ Here.k \in {"finally", "resume"}
  BY DEF EnterFinally, LeaveFinally, Running
<1>2. UNCHANGED <<kind, cmd, stage, out, deployed, left, cancelled, d, caught, faults>>
  BY DEF EnterFinally, LeaveFinally, Stays
<1>3. exc \in Excs /\ caught \in Excs /\ held \in Seq(Excs)
  BY DEF ControlInv, TypeOK
<1>4. /\ exc' \in Excs /\ held' \in Seq(Excs)
      /\ at' \in 1..(Len(Prog) + 1) /\ Len(held') = Depth(Prog)[at']
  <2>1. CASE EnterFinally
    <3>1. /\ Here.k = "finally" /\ held' = <<exc>> \o held /\ exc' = None /\ at' = at + 1
      BY <2>1 DEF EnterFinally, Running
    <3>2. held' \in Seq(Excs) /\ Len(held') = Len(held) + 1
      BY <3>1, <1>3
    <3> QED
      BY <3>1, <3>2, <1>1, SomeExceptions, WhereStepsGo
  <2>2. CASE LeaveFinally
    <3>1. Here.k = "resume" /\ held' = Tail(held)
      BY <2>2 DEF LeaveFinally, Running
    <3>2. held # << >>
      BY <3>1, <1>1, WhereStepsGo
    <3>3. Head(held) \in Excs /\ held' \in Seq(Excs) /\ Len(held') = Len(held) - 1
      BY <3>1, <3>2, <1>3
    <3>4. exc' \in Excs /\ (at' = at + 1 \/ at' = Out(Prog, at))
      BY <2>2, <3>3, <1>3, SomeExceptions DEF LeaveFinally, Goes
    <3> QED
      BY <3>1, <3>3, <3>4, <1>1, WhereStepsGo
  <2> QED
    BY <2>1, <2>2
<1>5. DOMAIN d' = DOMAIN d /\ caught' \in Excs /\ left' \in 0..MaxCommands
      /\ faults' \in 0..MaxFaults /\ cancelled' \in {"no", "body", "mounting", "cleanup", "late"}
  BY <1>2, <1>3 DEF ControlInv, TypeOK
<1> QED
  BY <1>1, <1>2, <1>4, <1>5, StepKeepsControl

(* Control stays in its script: every jump of an exception ends at a step  *)
(* of the command, every cleanup that is entered is left once.             *)
THEOREM ControlInvariant == Spec => []ControlInv
<1>1. Init => ControlInv
  <2> SUFFICES ASSUME Init PROVE ControlInv
    OBVIOUS
  <2>1. left \in 0..MaxCommands /\ faults \in 0..MaxFaults
    BY BoundAssumption DEF Init, BoundAssumption
  <2>2. held \in Seq(Excs)
    BY DEF Init
  <2> QED
    BY <2>1, <2>2, SomeExceptions DEF Init, ControlInv, TypeOK, HeldInv
<1>2. ControlInv /\ [Next]_vars => ControlInv'
  <2> SUFFICES ASSUME ControlInv, [Next]_vars PROVE ControlInv'
    OBVIOUS
  <2>1. ASSUME NEW c \in DOMAIN Program[kind], Start(c) PROVE ControlInv'
    BY <2>1, StartKeepsControl
  <2>2. CASE UNCHANGED vars
    BY <2>2 DEF vars, script, ControlInv, TypeOK, HeldInv, Prog
  <2> QED
    BY <2>1, <2>2, ReturnKeepsControl, DoKeepsControl, JumpKeepsControl, FinallyKeepsControl
       DEF Next
<1> QED
  BY <1>1, <1>2, PTL DEF Spec

(* The variables of a target's job keep their types.                       *)
THEOREM TargetTypeCorrect == Spec => []TypeOK
BY ControlInvariant, PTL DEF ControlInv

---------------------------------------------------------------------------
(* Outlines: a job is at every step in one of the frames of the outline.   *)

(* The jobs, and the commands, that a view covers.                         *)
InScope(look) ==
  /\ Counts(look) => faults \in look.faults
  /\ look.cancel = "ends" => cancelled = "no"
  /\ look.cancel = "body" => cancelled \in {"no", "body"}
  /\ Starts(look) => cancelled \in {"body", "mounting", "cleanup"} /\ cmd \notin Calls \cup {"idle"}

Seen(look, c, h) ==
  Frame(exc, c, h, Sees(look, d), stage, Known(look, deployed), IF Counts(look) THEN faults ELSE 0)
Resting(look) ==
  Between(Sees(look, d), stage, Known(look, deployed), IF Counts(look) THEN faults ELSE 0)

(* The innermost outcomes that are held back are those of the frame.       *)
Fits(look, outline) ==
  \E c \in {None, caught}, h \in Seq(Excs), below \in Seq(Excs) :
    held = h \o below /\ Seen(look, c, h) \in outline[at]

(* A command that is not followed began in a state of rest.                *)
BeganIn(look, c, r) ==
  /\ Legal(c, r.stage, r.deployed) /\ r.world = Sees(look, d) /\ r.stage = stage
  /\ Known(look, deployed) = Known(look, Begun(c, r.deployed))
  /\ IF Counts(look) THEN r.faults \in 0..faults ELSE r.faults = 0
LeftAlone(look, c, rest) == \E r \in rest : BeganIn(look, c, r)

Outlined(v) ==
  kind \in DOMAIN View[v].fields /\ InScope(Look(v, kind)) =>
    IF cmd = "idle" THEN Resting(Look(v, kind)) \in Outline(v, kind).rest
    ELSE IF Aside(Look(v, kind), Prog) THEN LeftAlone(Look(v, kind), cmd, Outline(v, kind).rest)
    ELSE Fits(Look(v, kind), Outline(v, kind).steps[cmd])
OutlineInv == \A v \in DOMAIN View : Outlined(v)

LEMMA SeesHolds ==
  ASSUME NEW look, NEW w, NEW needs, look.fields \subseteq DOMAIN w
  PROVE  /\ Holds(needs, w) => May(needs, Sees(look, w))
         /\ ~Holds(needs, w) => MayNot(needs, Sees(look, w))
         /\ \A f \in look.fields : Sees(look, w)[f] = w[f]
         /\ DOMAIN Sees(look, w) = look.fields
BY DEF Holds, May, MayNot, Sees

LEMMA SeesAssigned ==
  ASSUME NEW look, NEW w, NEW set, look.fields \subseteq DOMAIN w
  PROVE  /\ Sees(look, Assign(set, w)) = Assign(set, Sees(look, w))
         /\ look.fields \subseteq DOMAIN set => Sees(look, Assign(set, w)) = Sees(look, set)
BY DEF Sees, Assign

(* What SIGTERM leaves, as a view sees it.                                 *)
LEMMA SeesThen ==
  ASSUME NEW look, NEW w, NEW first, NEW second, look.fields \subseteq DOMAIN w
  PROVE  /\ Sees(look, Assign(Then(first, second), w)) = Assign(Then(first, second), Sees(look, w))
         /\ look.fields \subseteq DOMAIN second =>
              Sees(look, Assign(Then(first, second), w)) = Sees(look, second)
         /\ (DOMAIN first \cup DOMAIN second) \cap look.fields = {} =>
              Sees(look, Assign(Then(first, second), w)) = Sees(look, w)
<1>1. Sees(look, Assign(Then(first, second), w)) = Assign(Then(first, second), Sees(look, w))
  BY SeesAssigned
<1>2. look.fields \subseteq DOMAIN second =>
        Sees(look, Assign(Then(first, second), w)) = Sees(look, second)
  BY DEF Sees, Assign, Then
<1>3. (DOMAIN first \cup DOMAIN second) \cap look.fields = {} =>
        Sees(look, Assign(Then(first, second), w)) = Sees(look, w)
  BY DEF Sees, Assign, Then
<1> QED
  BY <1>1, <1>2, <1>3

(* What a view forgets of the last deployment makes no difference to what  *)
(* the job may do next.                                                    *)
LEMMA KnownAgrees ==
  ASSUME NEW look, NEW dep, ~Starts(look)
  PROVE  /\ \A c, when : Legal(c, when, dep) <=> Legal(c, when, Known(look, dep))
         /\ \A c : Known(look, Begun(c, Known(look, dep))) = Known(look, Begun(c, dep))
         /\ \A c, e : Known(look, Ended(c, e, Known(look, dep))) = Known(look, Ended(c, e, dep))
<1>1. Known(look, dep) = None <=> dep = None
  BY DEF Known, None
<1>2. Known(look, Known(look, dep)) = Known(look, dep)
  BY DEF Known
<1> QED
  BY <1>1, <1>2 DEF Legal, Begun, Ended

(* A command at a step of its script p, in a frame of its outline.         *)
Inside(look, p, outline) ==
  /\ ControlInv /\ cmd # "idle" /\ Prog = p /\ at \in DOMAIN p
  /\ look.fields \subseteq DOMAIN d /\ look.off = PowerOff[kind]
  /\ StepsStay(look, p, outline)

LEMMA FitsNext ==
  ASSUME NEW look, NEW p, NEW outline, Inside(look, p, outline),
         NEW s \in outline[at], NEW c, NEW h \in Seq(Excs), NEW below \in Seq(Excs),
         c \in {None, caught'}, held' = h \o below,
         <<at', Seen(look, c, h)'>> \in After(look, p[at], at, Out(p, at), Past(p, at), s)
  PROVE  Fits(look, outline)'
<1>1. \A q \in After(look, p[at], at, Out(p, at), Past(p, at), s) : q[2] \in outline[q[1]]
  BY DEF Inside, StepsStay
<1>2. Seen(look, c, h)' \in outline[at']
  BY <1>1
<1> QED
  BY <1>2 DEF Fits

(* A step that leaves what is held back alone.                             *)
LEMMA FitsAt ==
  ASSUME NEW look, NEW p, NEW outline, Inside(look, p, outline), UNCHANGED <<caught, held>>,
         NEW c \in {None, caught}, NEW h \in Seq(Excs), NEW below \in Seq(Excs),
         held = h \o below, Seen(look, c, h) \in outline[at],
         <<at', Seen(look, c, h)'>>
           \in After(look, p[at], at, Out(p, at), Past(p, at), Seen(look, c, h))
  PROVE  Fits(look, outline)'
BY FitsNext

LEMMA DoFits ==
  ASSUME NEW look, NEW p, NEW outline, Inside(look, p, outline), Fits(look, outline),
         Perform \/ Fail \/ CannotWork \/ (Cancel /\ look.cancel \in {"followed", "body"}), InScope(look)'
  PROVE  Fits(look, outline)'
<1>1. PICK c \in {None, caught}, h \in Seq(Excs), below \in Seq(Excs) :
        held = h \o below /\ Seen(look, c, h) \in outline[at]
  BY DEF Fits
<1>2. PICK step : step = p[at]
  OBVIOUS
<1>3. step.k = "do" /\ exc = None /\ Here = step /\ UNCHANGED <<caught, held, stage, deployed>>
  BY <1>2 DEF Perform, Fail, CannotWork, Cancel, Normal, Running, Here, Inside, Stays
<1>4. PICK w, n, dep : w = Sees(look, d) /\ n = (IF Counts(look) THEN faults ELSE 0)
                       /\ dep = Known(look, deployed)
  OBVIOUS
<1>5. PICK s : s = Frame(None, c, h, w, stage, dep, n)
  OBVIOUS
<1>6. /\ s = Seen(look, c, h)
      /\ Seen(look, c, h)' = Frame(exc', c, h, Sees(look, d'), stage, dep,
                                   IF Counts(look) THEN faults' ELSE 0)
  BY <1>3, <1>4, <1>5 DEF Seen
<1>7. /\ s.exc = None /\ s.world = w /\ s.faults = n /\ s.stage = stage
      /\ s.caught = c /\ s.held = h /\ s.deployed = dep
  BY <1>5 DEF Frame
<1>8. \A e, x, m :
         /\ Raising(s, e) = Frame(e, c, h, w, stage, dep, n)
         /\ Amid(s, x) = Frame(None, c, h, x, stage, dep, n)
         /\ Raising(Amid(s, x), e) = Frame(e, c, h, x, stage, dep, n)
         /\ Failed(s, m) = Frame(None, c, h, w, stage, dep, m)
         /\ Raising(Failed(s, m), e) = Frame(e, c, h, w, stage, dep, m)
  <2> TAKE e, x, m
  <2>1. Raising(s, e) = Frame(e, c, h, w, stage, dep, n)
    BY <1>7 DEF Raising
  <2>2. Amid(s, x) = Frame(None, c, h, x, stage, dep, n)
    BY <1>7 DEF Amid
  <2>3. Failed(s, m) = Frame(None, c, h, w, stage, dep, m)
    BY <1>7 DEF Failed
  <2>4. Raising(Frame(None, c, h, x, stage, dep, n), e) = Frame(e, c, h, x, stage, dep, n)
    BY DEF Frame, Raising
  <2>5. Raising(Frame(None, c, h, w, stage, dep, m), e) = Frame(e, c, h, w, stage, dep, m)
    BY DEF Frame, Raising
  <2> QED
    BY <2>1, <2>2, <2>3, <2>4, <2>5
<1>9. After(look, step, at, Out(p, at), Past(p, at), s) = AfterDo(look, step, at, Out(p, at), s)
  BY <1>3, <1>6, <1>7, <1>8 DEF After
<1>10. <<at', Seen(look, c, h)'>> \in AfterDo(look, step, at, Out(p, at), s)
  <2>1. CASE Perform
    <3>1. Seen(look, c, h)' = Amid(s, Assign(step.set, w)) /\ at' = at + 1
      BY <2>1, <1>3, <1>4, <1>6, <1>7, <1>8, SeesAssigned DEF Perform, Inside, Stays
    <3>2. May(step.needs, w)
      BY <2>1, <1>3, <1>4, SeesHolds DEF Perform, Inside
    <3> QED
      BY <3>1, <3>2, <1>6, <1>7, <1>8 DEF AfterDo
  <2>2. CASE Fail
    <3>1. PICK e \in step.raises : IF e = "quiet" THEN exc' = None /\ at' = at + 1 ELSE Goes(e)
      BY <2>2, <1>3 DEF Fail
    <3>2. PICK m : m = IF Counts(look) THEN n + 1 ELSE 0
      OBVIOUS
    <3>3. m = (IF Counts(look) THEN faults' ELSE 0) /\ (Counts(look) => m \in look.faults)
      BY <2>2, <3>2, <1>4 DEF Fail, InScope, Counts
    <3>4. d' = d /\ May(step.needs, w)
      BY <2>2, <1>3, <1>4, SeesHolds DEF Fail, Inside
    <3>5. <<at', Seen(look, c, h)'>> = IF e = "quiet" THEN <<at + 1, Failed(s, m)>>
                                       ELSE <<Out(p, at), Raising(Failed(s, m), e)>>
      BY <3>1, <3>3, <3>4, <1>4, <1>6, <1>7, <1>8 DEF Goes, Inside
    <3> QED
      BY <3>2, <3>3, <3>4, <3>5, <1>6, <1>7, <1>8 DEF AfterDo
  <2>3. CASE CannotWork
    <3>1. MayNot(step.needs, w) /\ UNCHANGED <<d, faults>>
      BY <2>3, <1>3, <1>4, SeesHolds DEF CannotWork, Inside
    <3>2. PICK e : Goes(e) /\ e = IF "runs" \in DOMAIN step.needs /\ d.proc = "open"
                                  THEN "TIMEOUT" ELSE "OSError"
      BY <2>3, <1>3 DEF CannotWork
    <3>3. "proc" \in DOMAIN w => w.proc = d.proc
      BY <1>4 DEF Sees
    <3>4. e \in StuckOn(step.needs, w)
      BY <3>2, <3>3 DEF StuckOn
    <3>5. at' = Out(p, at) /\ Seen(look, c, h)' = Raising(s, e)
      BY <3>1, <3>2, <1>4, <1>6, <1>7, <1>8 DEF Goes, Inside
    <3>6. <<at', Seen(look, c, h)'>> \in Raised(Out(p, at), s, StuckOn(step.needs, w))
      BY <3>4, <3>5 DEF Raised
    <3> QED
      BY <3>1, <3>6, <1>6, <1>7, <1>8 DEF AfterDo
  <2>4. CASE Cancel /\ look.cancel \in {"followed", "body"}
    <3>1. PICK set \in Effects, off \in look.off :
            /\ set = Nil \/ (set = step.set /\ Holds(step.needs, d))
            /\ Holds(off.needs, Assign(set, d)) /\ d' = Assign(Then(set, off.set), d)
            /\ cancelled' = IF held # << >> THEN "cleanup" ELSE IF Mounts(set) THEN "mounting" ELSE "body"
      BY <2>4, <1>3, CancelOnce DEF Inside
    <3>2. set \in {Nil} \cup (IF May(step.needs, w) THEN {step.set} ELSE {})
      BY <3>1, <1>4, SeesHolds DEF Inside
    <3>3. May(off.needs, Assign(set, w))
      <4>1. look.fields \subseteq DOMAIN Assign(set, d)
        BY AssignDomain DEF Inside
      <4>2. May(off.needs, Sees(look, Assign(set, d)))
        BY <3>1, <4>1, SeesHolds
      <4> QED
        BY <4>2, <1>4, SeesAssigned DEF Inside
    <3>4. at' = Out(p, at) /\ exc' = "SystemExit" /\ faults' = faults /\ stage = "run"
      BY <2>4 DEF Cancel, Goes, Inside
    <3>5. Seen(look, c, h)' = Raising(Amid(s, Assign(Then(set, off.set), w)), "SystemExit")
      BY <3>1, <3>4, <1>4, <1>6, <1>7, <1>8, SeesThen DEF Inside
    <3>6. Cancels(look, h, set)
      <4>1. look.cancel = "body" => held = << >> /\ ~Mounts(set)
        BY <2>4, <3>1 DEF InScope
      <4> QED
        BY <2>4, <4>1, <1>1 DEF Cancels
    <3>7. <<at', Seen(look, c, h)'>> \in
            {<<Out(p, at), Raising(Amid(s, Assign(Then(set, o.set), w)), "SystemExit")>> :
               o \in {o \in look.off : May(o.needs, Assign(set, w))}}
      BY <3>3, <3>4, <3>5
    <3>8. s.stage = "run" /\ s.world = w /\ s.held = h
      BY <1>7, <3>4
    <3> QED
      BY <3>2, <3>6, <3>7, <3>8 DEF AfterDo
  <2> QED
    BY <2>1, <2>2, <2>3, <2>4
<1> QED
  BY <1>1, <1>2, <1>3, <1>6, <1>7, <1>8, <1>9, <1>10, FitsAt

LEMMA JumpFits ==
  ASSUME NEW look, NEW p, NEW outline, Inside(look, p, outline), Fits(look, outline),
         RaiseStep \/ Branch \/ Catch \/ Propagate
  PROVE  Fits(look, outline)'
<1>1. PICK c \in {None, caught}, h \in Seq(Excs), below \in Seq(Excs) :
        held = h \o below /\ Seen(look, c, h) \in outline[at]
  BY DEF Fits
<1>2. PICK step : step = p[at]
  OBVIOUS
<1>3. Here = step /\ UNCHANGED <<held, stage, deployed, faults, d>>
  BY <1>2 DEF RaiseStep, Branch, Catch, Propagate, Here, Inside, Stays
<1>4. PICK w, n, dep : w = Sees(look, d) /\ n = (IF Counts(look) THEN faults ELSE 0)
                       /\ dep = Known(look, deployed)
  OBVIOUS
<1>5. PICK s : s = Frame(exc, c, h, w, stage, dep, n)
  OBVIOUS
<1>6. /\ s = Seen(look, c, h)
      /\ \A x : Seen(look, x, h)' = Frame(exc', x, h, w, stage, dep, n)
  BY <1>3, <1>4, <1>5 DEF Seen
<1>7. /\ s.exc = exc /\ s.world = w /\ s.faults = n /\ s.stage = stage
      /\ s.caught = c /\ s.held = h /\ s.deployed = dep
  BY <1>5 DEF Frame
<1>8. \A e, x : /\ Raising(s, e) = Frame(e, c, h, w, stage, dep, n)
                /\ Handling(s, x) = Frame(None, x, h, w, stage, dep, n)
  BY <1>7 DEF Raising, Handling
<1> DEFINE after == After(look, step, at, Out(p, at), Past(p, at), s)
<1>9. CASE UNCHANGED caught /\ <<at', Seen(look, c, h)'>> \in after
  BY <1>1, <1>2, <1>3, <1>6, <1>9, FitsAt
<1>10. CASE RaiseStep
  <2>1. /\ exc = None /\ at' = Out(p, at) /\ UNCHANGED caught
        /\ step.k \in {"raise", "reraise"}
        /\ step.k = "raise" => exc' = step.op
        /\ step.k = "reraise" => exc' = caught
    BY <1>3, <1>10 DEF RaiseStep, Normal, Running, Goes, Inside
  <2>2. PICK classes : /\ after = Raised(Out(p, at), s, classes)
                       /\ exc' \in classes
    <3>1. caught \in Excs
      BY DEF Inside, ControlInv, TypeOK
    <3>2. CASE step.k = "raise"
      BY <2>1, <3>2, <1>7 DEF After
    <3>3. CASE step.k = "reraise"
      BY <2>1, <3>1, <3>3, <1>1, <1>7 DEF After
    <3> QED
      BY <2>1, <3>2, <3>3
  <2>3. Seen(look, c, h)' = Raising(s, exc')
    BY <1>6, <1>8
  <2> QED
    BY <2>1, <2>2, <2>3, <1>9 DEF Raised
<1>11. CASE Branch
  <2>1. exc = None /\ UNCHANGED <<caught, exc>> /\ Seen(look, c, h)' = s
    BY <1>5, <1>6, <1>11 DEF Branch, Normal
  <2>2. CASE step.k = "if"
    <3>1. at' = IF Holds(step.needs, d) THEN at + 1 ELSE Past(p, at) + 1
      BY <2>2, <1>3, <1>11 DEF Branch, Normal, Running, Inside
    <3>2. /\ Holds(step.needs, d) => May(step.needs, w)
          /\ ~Holds(step.needs, d) => MayNot(step.needs, w)
      BY <1>4, SeesHolds DEF Inside
    <3> QED
      BY <2>1, <2>2, <3>1, <3>2, <1>7, <1>9 DEF After
  <2>3. CASE step.k # "if"
    <3>1. /\ step.k \in {"either", "else", "except", "end"}
          /\ step.k = "either" => at' \in {at + 1, Past(p, at) + 1}
          /\ step.k \in {"else", "except"} => at' = Past(p, at) + 1
          /\ step.k = "end" => at' = at + 1
      BY <2>3, <1>3, <1>11 DEF Branch, Normal, Running, Inside
    <3> QED
      BY <2>1, <3>1, <1>7, <1>9 DEF After
  <2> QED
    BY <2>2, <2>3
<1>12. CASE Catch /\ exc \in step.raises
  <2>1. step.k = "except" /\ exc # None /\ caught' = exc /\ exc' = None /\ at' = at + 1
    BY <1>3, <1>12 DEF Catch, Running
  <2>2. PICK x : x = IF look.caught THEN exc ELSE None
    OBVIOUS
  <2>3. <<at', Seen(look, x, h)'>> \in after
    BY <2>1, <2>2, <1>6, <1>7, <1>8, <1>12 DEF After
  <2> QED
    BY <2>1, <2>2, <2>3, <1>1, <1>2, <1>3, <1>6, FitsNext
<1>13. CASE Propagate \/ (Catch /\ exc \notin step.raises)
  <2>1. /\ step.k \in {"else", "end", "except"} /\ exc # None /\ exc' = exc
        /\ at' = Out(p, at) /\ UNCHANGED caught
        /\ ~(step.k = "except" /\ exc \in step.raises)
    BY <1>3, <1>13 DEF Propagate, Catch, Running, Goes, Inside
  <2>2. after = Raised(Out(p, at), s, {exc}) /\ Seen(look, c, h)' = Raising(s, exc)
    BY <2>1, <1>6, <1>7, <1>8 DEF After
  <2> QED
    BY <2>1, <2>2, <1>9 DEF Raised
<1> QED
  BY <1>10, <1>11, <1>12, <1>13

LEMMA TailOfConcat ==
  ASSUME NEW S, NEW h \in Seq(S), NEW below \in Seq(S)
  PROVE  /\ h = << >> => h \o below = below
         /\ h # << >> => Tail(h \o below) = Tail(h) \o below /\ Head(h \o below) = Head(h)
                         /\ Tail(h) \in Seq(S)
         /\ below # << >> => Tail(below) \in Seq(S)
OBVIOUS

LEMMA FinallyFits ==
  ASSUME NEW look, NEW p, NEW outline, Inside(look, p, outline), Fits(look, outline),
         EnterFinally \/ LeaveFinally
  PROVE  Fits(look, outline)'
<1>1. PICK c \in {None, caught}, h \in Seq(Excs), below \in Seq(Excs) :
        held = h \o below /\ Seen(look, c, h) \in outline[at]
  BY DEF Fits
<1>2. PICK step : step = p[at]
  OBVIOUS
<1>3. Here = step /\ UNCHANGED <<stage, deployed, faults, d, caught>>
  BY <1>2 DEF EnterFinally, LeaveFinally, Here, Inside, Stays
<1>4. PICK w, n, dep : w = Sees(look, d) /\ n = (IF Counts(look) THEN faults ELSE 0)
                       /\ dep = Known(look, deployed)
  OBVIOUS
<1>5. PICK s : s = Frame(exc, c, h, w, stage, dep, n)
  OBVIOUS
<1>6. /\ s = Seen(look, c, h)
      /\ \A x : Seen(look, c, x)' = Frame(exc', c, x, w, stage, dep, n)
  BY <1>3, <1>4, <1>5 DEF Seen
<1>7. s.exc = exc /\ s.held = h /\ \A e, x : HeldBack(s, e, x) = Frame(e, c, x, w, stage, dep, n)
  BY <1>5 DEF Frame, HeldBack
<1> DEFINE after == After(look, step, at, Out(p, at), Past(p, at), s)
<1>8. exc \in Excs /\ held \in Seq(Excs)
  BY DEF Inside, ControlInv, TypeOK
<1>9. CASE EnterFinally
  <2>1. /\ step.k = "finally" /\ held' = <<exc>> \o held /\ exc' = None /\ at' = at + 1
    BY <1>3, <1>9 DEF EnterFinally, Running
  <2>2. PICK h2 : h2 = <<exc>> \o h
    OBVIOUS
  <2>3. h2 \in Seq(Excs) /\ held' = h2 \o below
    BY <2>1, <2>2, <1>1, <1>8
  <2>4. <<at', Seen(look, c, h2)'>> \in after
    BY <2>1, <2>2, <1>6, <1>7 DEF After
  <2> QED
    BY <2>3, <2>4, <1>1, <1>2, <1>3, <1>6, FitsNext
<1>10. CASE LeaveFinally
  <2>1. /\ step.k = "resume" /\ held' = Tail(held)
        /\ LET e == IF exc # None THEN exc ELSE Head(held)
           IN  IF e = None THEN exc' = None /\ at' = at + 1 ELSE exc' = e /\ at' = Out(p, at)
    BY <1>3, <1>10 DEF LeaveFinally, Running, Goes, Inside
  <2>2. held # << >>
    BY <2>1, <1>3, <1>10, WhereStepsGo DEF LeaveFinally, Running, Inside
  <2>3. after = AfterResume(at, Out(p, at), s)
    BY <2>1 DEF After
  <2>4. CASE h = << >>
    <3>1. held = below
      BY <2>4, <1>1, TailOfConcat
    <3>2. exc # None
      <4>1. SUFFICES ASSUME exc = None PROVE FALSE
        OBVIOUS
      <4>2. after = {<<Lost, s>>}
        BY <2>3, <2>4, <4>1, <1>7 DEF AfterResume
      <4>3. \A q \in after : q[1] # Lost
        BY <1>1, <1>2, <1>6 DEF Inside, StepsStay
      <4> QED
        BY <4>2, <4>3
    <3>3. <<at', Seen(look, c, << >>)'>> \in after
      <4>1. AfterResume(at, Out(p, at), s) = {<<Out(p, at), HeldBack(s, exc, << >>)>>}
        BY <2>4, <3>2, <1>7 DEF AfterResume
      <4>2. at' = Out(p, at) /\ exc' = exc /\ Seen(look, c, << >>)' = Frame(exc', c, << >>, w, stage, dep, n)
        BY <2>1, <3>2, <1>6
      <4> QED
        BY <4>1, <4>2, <2>3, <1>7
    <3>4. held' = << >> \o Tail(below) /\ Tail(below) \in Seq(Excs) /\ << >> \in Seq(Excs)
      BY <2>1, <2>2, <3>1, TailOfConcat
    <3> QED
      BY <3>3, <3>4, <1>1, <1>2, <1>3, <1>6, FitsNext
  <2>5. CASE h # << >>
    <3>1. PICK above : above = Tail(h)
      OBVIOUS
    <3>2. held' = above \o below /\ Head(held) = Head(h) /\ above \in Seq(Excs)
      BY <2>1, <2>5, <3>1, <1>1, TailOfConcat
    <3>3. <<at', Seen(look, c, above)'>> \in after
      BY <2>1, <2>3, <2>5, <3>1, <3>2, <1>6, <1>7 DEF AfterResume
    <3> QED
      BY <3>2, <3>3, <1>1, <1>2, <1>3, <1>6, FitsNext
  <2> QED
    BY <2>4, <2>5
<1> QED
  BY <1>9, <1>10

(* A target that a view covers, with what the view looks at there.         *)
Covered(v, k, look) ==
  /\ v \in DOMAIN View /\ k \in DOMAIN View[v].fields /\ kind = k /\ look = Look(v, k)

LEMMA CoveredFacts ==
  ASSUME NEW v, NEW k, NEW look, Covered(v, k, look), ControlInv
  PROVE  /\ LookOK(look, k) /\ look.off = PowerOff[k]
         /\ look.fields \subseteq DOMAIN d
         /\ ~Starts(look) =>
              Between(Sees(look, Fresh[k]), "new", Known(look, None), 0) \in Outline(v, k).rest
         /\ \A c \in DOMAIN Program[k] : Aside(look, Program[k][c]) =>
              ~Starts(look) /\ AsideStays(look, c, Outline(v, k).rest)
         /\ \A c \in DOMAIN Program[k] : ~Aside(look, Program[k][c]) =>
              /\ StepsStay(look, Program[k][c], Outline(v, k).steps[c])
              /\ Starts(look) /\ c \notin Calls =>
                   SigtermStarts(look, Program[k][c], Outline(v, k).steps[c])
              /\ ~Starts(look) =>
                   CommandStays(look, c, Program[k][c], Outline(v, k).steps[c], Outline(v, k).rest)
<1>1. Closed(v, k, Outline(v, k)) /\ look = Look(v, k) /\ kind = k
  BY OutlineAssumption DEF Covered, OutlineAssumption
<1>2. LookOK(look, k)
  BY <1>1 DEF Closed
<1>3. look.off = PowerOff[k]
  BY <1>1 DEF Look
<1>4. look.fields \subseteq DOMAIN d
  BY <1>1, <1>2 DEF LookOK, ControlInv, TypeOK
<1>5. ~Starts(look) => Between(Sees(look, Fresh[k]), "new", Known(look, None), 0) \in Outline(v, k).rest
  BY <1>1 DEF Closed
<1>6. ASSUME NEW c \in DOMAIN Program[k], ~Aside(look, Program[k][c])
      PROVE  /\ StepsStay(look, Program[k][c], Outline(v, k).steps[c])
             /\ Starts(look) /\ c \notin Calls =>
                  SigtermStarts(look, Program[k][c], Outline(v, k).steps[c])
             /\ ~Starts(look) =>
                  CommandStays(look, c, Program[k][c], Outline(v, k).steps[c], Outline(v, k).rest)
  BY <1>1, <1>6 DEF Closed
<1>7. ASSUME NEW c \in DOMAIN Program[k], Aside(look, Program[k][c])
      PROVE  ~Starts(look) /\ AsideStays(look, c, Outline(v, k).rest)
  BY <1>1, <1>2, <1>7 DEF Closed, Aside, LookOK
<1> QED
  BY <1>2, <1>3, <1>4, <1>5, <1>6, <1>7

(* Jobs that a view covers have been covered before, but for the command   *)
(* that SIGTERM reaches.                                                   *)
LEMMA ScopeBefore ==
  ASSUME NEW look, NEW k, LookOK(look, k), ControlInv, cmd # "idle", InScope(look)',
         Perform \/ Fail \/ CannotWork \/ RaiseStep \/ Branch \/ Catch \/ Propagate
           \/ EnterFinally \/ LeaveFinally \/ (Cancel /\ look.cancel \in {"followed", "body"})
  PROVE  InScope(look)
<1>1. look.faults \subseteq Nat /\ \A n \in look.faults : n > 0 => n - 1 \in look.faults
  BY DEF LookOK
<1>2. faults \in Nat /\ (faults' = faults \/ faults' = faults + 1)
  BY DEF ControlInv, TypeOK, Perform, Fail, CannotWork, RaiseStep, Branch, Catch, Propagate,
         EnterFinally, LeaveFinally, Cancel
<1>3. faults' \in look.faults => faults \in look.faults
  BY <1>1, <1>2
<1>4. /\ cmd' = cmd
      /\ cancelled' = cancelled \/ look.cancel = "followed" \/ (look.cancel = "body" /\ cancelled = "no")
  BY DEF Perform, Fail, CannotWork, RaiseStep, Branch, Catch, Propagate, EnterFinally,
         LeaveFinally, Cancel, Stays
<1> QED
  BY <1>3, <1>4 DEF InScope, Starts, Counts

(* A command that SIGTERM reaches is where its outline has it.             *)
LEMMA SigtermFits ==
  ASSUME NEW look, NEW p, NEW outline, Inside(look, p, outline), Starts(look), ~Counts(look),
         \A off \in look.off : look.fields \subseteq DOMAIN off.set,
         ~look.ended, SigtermStarts(look, p, outline), Cancel
  PROVE  Fits(look, outline)'
<1>1. PICK set \in Effects, off \in look.off : d' = Assign(Then(set, off.set), d)
  BY CancelOnce DEF Inside
<1>2. /\ p[at].k = "do" /\ at' = Out(p, at) /\ exc' = "SystemExit" /\ stage' = "run"
      /\ UNCHANGED <<held, caught>>
  BY DEF Cancel, Normal, Running, Here, Goes, Inside
<1>3. Sees(look, d') = Sees(look, off.set)
  BY <1>1, SeesThen DEF Inside
<1>4. Seen(look, None, << >>)' = Frame("SystemExit", None, << >>, Sees(look, off.set), "run", "ok", 0)
  BY <1>2, <1>3 DEF Seen, Known
<1>5. Seen(look, None, << >>)' \in outline[at']
  BY <1>1, <1>2, <1>4 DEF SigtermStarts, Hit, Inside
<1>6. held' \in Seq(Excs) /\ held' = << >> \o held' /\ << >> \in Seq(Excs)
  BY <1>2 DEF Inside, ControlInv, TypeOK
<1> QED
  BY <1>5, <1>6 DEF Fits

LEMMA StartFits ==
  ASSUME NEW v, NEW k, NEW look, Covered(v, k, look), ControlInv, Outlined(v),
         NEW c \in DOMAIN Program[kind], Start(c), InScope(look)'
  PROVE  IF Aside(look, Program[k][c]) THEN LeftAlone(look, c, Outline(v, k).rest)'
                                       ELSE Fits(look, Outline(v, k).steps[c])'
<1>1. /\ cmd = "idle" /\ cmd' = c /\ at' = 1 /\ Legal(c, stage, deployed)
      /\ deployed' = Begun(c, deployed) /\ UNCHANGED <<d, stage, exc, caught, held, faults>>
      /\ cancelled' = IF cancelled # "no" /\ c \in Commands THEN "late" ELSE cancelled
  BY DEF Start
<1>2. exc = None /\ caught = None /\ held = << >> /\ faults \in Nat
  BY <1>1 DEF ControlInv, HeldInv, TypeOK
<1>3. ~Starts(look)
  BY <1>1 DEF InScope, Commands
<1>4. InScope(look)
  BY <1>1, <1>3 DEF InScope
<1>5. PICK r \in Outline(v, k).rest : r = Resting(look)
  BY <1>1, <1>4 DEF Outlined, Covered
<1>6. r.stage = stage /\ r.deployed = Known(look, deployed) /\ r.world = Sees(look, d)
      /\ r.faults = IF Counts(look) THEN faults ELSE 0
  BY <1>5 DEF Resting, Between
<1>7. CASE Aside(look, Program[k][c])
  <2>1. Legal(c, r.stage, r.deployed) /\ Known(look, deployed') = Known(look, Begun(c, r.deployed))
    BY <1>1, <1>3, <1>6, KnownAgrees
  <2>2. BeganIn(look, c, r)'
    BY <2>1, <1>1, <1>2, <1>6 DEF BeganIn
  <2> QED
    BY <1>7, <2>2 DEF LeftAlone
<1>8. CASE ~Aside(look, Program[k][c])
  <2>1. CommandStays(look, c, Program[k][c], Outline(v, k).steps[c], Outline(v, k).rest)
    BY <1>3, <1>8, CoveredFacts DEF Covered
  <2>2. Beginning(look, c, r) \in Outline(v, k).steps[c][1]
    BY <1>1, <1>3, <1>6, <2>1, KnownAgrees DEF CommandStays
  <2>3. Seen(look, None, << >>)' = Beginning(look, c, r)
    <3>1. Known(look, deployed') = Known(look, Begun(c, r.deployed))
      BY <1>1, <1>3, <1>6, KnownAgrees
    <3> QED
      BY <3>1, <1>1, <1>2, <1>6 DEF Seen, Beginning
  <2>4. << >> \in Seq(Excs) /\ held' = << >> \o << >>
    BY <1>1, <1>2
  <2>5. Fits(look, Outline(v, k).steps[c])'
    BY <1>1, <2>2, <2>3, <2>4 DEF Fits
  <2> QED
    BY <1>8, <2>5
<1> QED
  BY <1>7, <1>8

LEMMA ReturnRests ==
  ASSUME NEW v, NEW k, NEW look, Covered(v, k, look), ControlInv, Outlined(v),
         Return, InScope(look)'
  PROVE  Resting(look)' \in Outline(v, k).rest
<1>1. PICK p, c0 : p = Prog /\ c0 = cmd
  OBVIOUS
<1>2. /\ cmd # "idle" /\ at > Len(p) /\ cmd' = "idle"
      /\ stage' = Becomes(c0, exc, stage) /\ deployed' = Ended(c0, exc, deployed)
      /\ UNCHANGED <<kind, d, held, faults, cancelled>>
  BY <1>1 DEF Return
<1>3. ~Starts(look)
  BY <1>2 DEF InScope
<1>4. InScope(look)
  BY <1>2, <1>3 DEF InScope
<1>5. /\ c0 \in DOMAIN Program[k] /\ p = Program[k][c0] /\ at = Len(p) + 1
  BY <1>1, <1>2, ProgWellNested DEF ControlInv, Covered, Prog
<1>6. CASE Aside(look, p)
  <2>1. PICK r \in Outline(v, k).rest : BeganIn(look, c0, r)
    BY <1>1, <1>2, <1>4, <1>6 DEF Outlined, Covered, LeftAlone
  <2>2. AsideStays(look, c0, Outline(v, k).rest)
    BY <1>5, <1>6, CoveredFacts
  <2>3. PICK n : n = IF Counts(look) THEN faults ELSE 0
    OBVIOUS
  <2>4. n \in (IF Counts(look) THEN {m \in look.faults : r.faults <= m} ELSE {0})
    BY <1>4, <2>1, <2>3 DEF BeganIn, InScope
  <2>5. exc \in Excs
    BY DEF ControlInv, TypeOK
  <2>6. Resting(look)' = Between(r.world, Becomes(c0, exc, r.stage),
                                 Known(look, Ended(c0, exc, Begun(c0, r.deployed))), n)
    <3>1. Known(look, deployed') = Known(look, Ended(c0, exc, Known(look, deployed)))
      BY <1>2, <1>3, KnownAgrees
    <3>2. Known(look, deployed) = Known(look, Begun(c0, r.deployed))
      BY <2>1 DEF BeganIn
    <3>3. Known(look, deployed') = Known(look, Ended(c0, exc, Begun(c0, r.deployed)))
      BY <3>1, <3>2, <1>3, KnownAgrees
    <3> QED
      BY <3>3, <1>2, <2>1, <2>3 DEF Resting, BeganIn
  <2>7. Resting(look)' \in LeftBy(look, c0, r)
    BY <2>4, <2>5, <2>6 DEF LeftBy
  <2> QED
    BY <2>1, <2>2, <2>7 DEF AsideStays, BeganIn
<1>7. CASE ~Aside(look, p)
  <2>1. PICK c \in {None, caught}, h \in Seq(Excs), below \in Seq(Excs) :
          held = h \o below /\ Seen(look, c, h) \in Outline(v, k).steps[c0][at]
    BY <1>1, <1>2, <1>4, <1>7 DEF Outlined, Covered, Fits
  <2>2. CommandStays(look, c0, p, Outline(v, k).steps[c0], Outline(v, k).rest)
    BY <1>3, <1>5, <1>7, CoveredFacts
  <2>3. Leaving(look, c0, Seen(look, c, h)) \in Outline(v, k).rest
    BY <1>5, <2>1, <2>2 DEF CommandStays
  <2>4. PICK s : s = Seen(look, c, h)
    OBVIOUS
  <2>5. /\ s.exc = exc /\ s.world = Sees(look, d) /\ s.stage = stage /\ s.deployed = Known(look, deployed)
        /\ s.faults = IF Counts(look) THEN faults ELSE 0
    BY <1>3, <2>4 DEF Seen, Frame
  <2>6. Resting(look)' = Leaving(look, c0, s)
    <3>1. Known(look, deployed') = Known(look, Ended(c0, exc, s.deployed))
      BY <1>2, <1>3, <2>5, KnownAgrees
    <3> QED
      BY <3>1, <1>2, <2>5 DEF Resting, Leaving
  <2> QED
    BY <2>3, <2>4, <2>6
<1> QED
  BY <1>6, <1>7

(* A step of a command that is not followed.                               *)
LEMMA AsideSteps ==
  ASSUME NEW look, NEW p, NEW rest, ControlInv, cmd # "idle", Prog = p, at \in DOMAIN p,
         look.fields \subseteq DOMAIN d, look.off = PowerOff[kind], Aside(look, p),
         LeftAlone(look, cmd, rest),
         Perform \/ Fail \/ CannotWork \/ RaiseStep \/ Branch \/ Catch \/ Propagate
           \/ EnterFinally \/ LeaveFinally \/ Cancel
  PROVE  LeftAlone(look, cmd, rest)'
<1>1. PICK r \in rest : BeganIn(look, cmd, r)
  BY DEF LeftAlone
<1>2. Sees(look, d') = Sees(look, d)
  <2>1. ASSUME NEW set, DOMAIN set \cap look.fields = {}
        PROVE  Sees(look, Assign(set, d)) = Sees(look, d)
    BY <2>1 DEF Sees, Assign
  <2>2. CASE Perform
    <3>1. p[at].k = "do" /\ d' = Assign(p[at].set, d)
      BY <2>2 DEF Perform, Normal, Running, Here
    <3> QED
      BY <2>1, <3>1 DEF Aside
  <2>3. CASE Cancel
    <3>1. PICK set \in Effects, off \in look.off :
            (set = Nil \/ set = p[at].set) /\ d' = Assign(Then(set, off.set), d)
      BY <2>3, CancelOnce DEF Here
    <3>2. p[at].k = "do"
      BY <2>3 DEF Cancel, Normal, Running, Here
    <3>3. DOMAIN set \cap look.fields = {} /\ DOMAIN off.set \cap look.fields = {}
      BY <3>1, <3>2 DEF Aside, Nil
    <3> QED
      BY <3>1, <3>3, SeesThen
  <2>4. CASE Fail \/ CannotWork \/ RaiseStep \/ Branch \/ Catch \/ Propagate
             \/ EnterFinally \/ LeaveFinally
    BY <2>4 DEF Fail, CannotWork, RaiseStep, Branch, Catch, Propagate, EnterFinally, LeaveFinally
  <2> QED
    BY <2>2, <2>3, <2>4
<1>3. UNCHANGED <<cmd, stage, deployed>> /\ faults \in Nat /\ (faults' = faults \/ faults' = faults + 1)
  BY DEF Perform, Fail, CannotWork, RaiseStep, Branch, Catch, Propagate, EnterFinally,
         LeaveFinally, Cancel, Stays, ControlInv, TypeOK
<1>4. Counts(look) => r.faults \in 0..faults'
  <2> SUFFICES ASSUME Counts(look) PROVE r.faults \in 0..faults'
    OBVIOUS
  <2>1. r.faults \in 0..faults
    BY <1>1 DEF BeganIn
  <2> QED
    BY <1>3, <2>1
<1>5. PICK c : c = cmd
  OBVIOUS
<1>6. BeganIn(look, c, r)'
  BY <1>1, <1>2, <1>3, <1>4, <1>5 DEF BeganIn
<1> QED
  BY <1>3, <1>5, <1>6 DEF LeftAlone

LEMMA StepFits ==
  ASSUME NEW v, NEW k, NEW look, Covered(v, k, look), ControlInv, Outlined(v), InScope(look)',
         Perform \/ Fail \/ CannotWork \/ RaiseStep \/ Branch \/ Catch \/ Propagate
           \/ EnterFinally \/ LeaveFinally \/ Cancel
  PROVE  /\ cmd' = cmd /\ cmd # "idle" /\ Prog' = Prog
         /\ IF Aside(look, Prog) THEN LeftAlone(look, cmd, Outline(v, k).rest)'
                                 ELSE Fits(look, Outline(v, k).steps[cmd])'
<1>1. PICK p, c : p = Prog /\ c = cmd
  OBVIOUS
<1>2. /\ cmd # "idle" /\ at <= Len(Prog) /\ UNCHANGED <<kind, cmd>>
      /\ Cancel => cancelled' \in {"body", "mounting", "cleanup"}
  BY CancelOnce DEF Perform, Fail, CannotWork, RaiseStep, Branch, Catch, Propagate, EnterFinally,
         LeaveFinally, Cancel, Normal, Running, Stays
<1>3. c \in DOMAIN Program[k] /\ p = Program[k][c] /\ at \in DOMAIN p /\ Prog' = Prog
  BY <1>1, <1>2, ProgWellNested DEF ControlInv, Covered, Prog
<1>4. PICK outline : outline = Outline(v, k).steps[c]
  OBVIOUS
<1>5. LookOK(look, k)
  BY CoveredFacts
<1>6. CASE Cancel /\ look.cancel \notin {"followed", "body"}
  <2>1. Starts(look) /\ c \notin Calls
    BY <1>1, <1>2, <1>5, <1>6 DEF InScope, LookOK, Starts
  <2>2. ~Aside(look, p)
    BY <2>1, <1>5 DEF Aside, LookOK
  <2>3. Inside(look, p, outline)
    BY <2>2, <1>1, <1>2, <1>3, <1>4, CoveredFacts DEF Inside, Covered
  <2>4. /\ ~Counts(look) /\ ~look.ended /\ SigtermStarts(look, p, outline)
        /\ \A off \in look.off : look.fields \subseteq DOMAIN off.set
    BY <2>1, <2>2, <1>3, <1>4, <1>5, CoveredFacts DEF LookOK
  <2>5. Fits(look, outline)'
    BY <2>1, <2>3, <2>4, <1>6, SigtermFits
  <2> QED
    BY <2>2, <2>5, <1>1, <1>2, <1>3, <1>4
<1>7. CASE ~(Cancel /\ look.cancel \notin {"followed", "body"})
  <2>1. InScope(look)
    BY <1>2, <1>5, <1>7, ScopeBefore
  <2>2. CASE Aside(look, p)
    <3>1. LeftAlone(look, cmd, Outline(v, k).rest)
      BY <2>1, <2>2, <1>1, <1>2 DEF Outlined, Covered
    <3>2. look.fields \subseteq DOMAIN d /\ look.off = PowerOff[kind]
      BY CoveredFacts DEF Covered
    <3>3. LeftAlone(look, cmd, Outline(v, k).rest)'
      BY <2>2, <3>1, <3>2, <1>1, <1>2, <1>3, AsideSteps
    <3> QED
      BY <2>2, <3>3, <1>1, <1>2, <1>3
  <2>3. CASE ~Aside(look, p)
    <3>1. Fits(look, outline)
      BY <2>1, <2>3, <1>1, <1>2, <1>4 DEF Outlined, Covered
    <3>2. Inside(look, p, outline)
      BY <2>3, <1>1, <1>2, <1>3, <1>4, CoveredFacts DEF Inside, Covered
    <3>3. Fits(look, outline)'
      BY <3>1, <3>2, <1>7, DoFits, JumpFits, FinallyFits
    <3> QED
      BY <2>3, <3>3, <1>1, <1>2, <1>3, <1>4
  <2> QED
    BY <2>2, <2>3
<1> QED
  BY <1>6, <1>7

(* A job of any length, in which any number of steps fail and SIGTERM may  *)
(* come anywhere, is at every step in a frame of the outline, in every     *)
(* view of it.                                                             *)
THEOREM OutlineInvariant == Spec => []OutlineInv
<1>1. Init => OutlineInv
  <2> SUFFICES ASSUME NEW v \in DOMAIN View, Init, kind \in DOMAIN View[v].fields, InScope(Look(v, kind))
               PROVE  cmd = "idle" /\ Resting(Look(v, kind)) \in Outline(v, kind).rest
    BY DEF OutlineInv, Outlined
  <2>1. PICK k, look : k = kind /\ look = Look(v, k)
    OBVIOUS
  <2>2. /\ cmd = "idle" /\ stage = "new" /\ deployed = None /\ faults = 0 /\ d = Fresh[k]
        /\ cancelled = "no"
    BY <2>1 DEF Init
  <2>3. Closed(v, k, Outline(v, k)) /\ ~Starts(look)
    BY <2>1, <2>2, OutlineAssumption DEF OutlineAssumption, InScope
  <2>4. Between(Sees(look, Fresh[k]), "new", Known(look, None), 0) \in Outline(v, k).rest
    BY <2>1, <2>3 DEF Closed
  <2> QED
    BY <2>1, <2>2, <2>4 DEF Resting
<1>2. ControlInv /\ OutlineInv /\ [Next]_vars => OutlineInv'
  <2> SUFFICES ASSUME ControlInv, NEW v \in DOMAIN View, Outlined(v), [Next]_vars
               PROVE  Outlined(v)'
    BY DEF OutlineInv
  <2>1. PICK k, look : k = kind /\ look = Look(v, k)
    OBVIOUS
  <2>2. kind' = kind
    BY DEF Next, Start, Return, Perform, Fail, CannotWork, RaiseStep, Branch, Catch, Propagate,
           EnterFinally, LeaveFinally, Cancel, Stays, vars
  <2>3. CASE UNCHANGED vars
    BY <2>3 DEF vars, script, Outlined, InScope, Resting, Fits, Seen, LeftAlone, BeganIn, Prog
  <2>4. CASE Next
    <3> SUFFICES ASSUME k \in DOMAIN View[v].fields, InScope(look)'
                 PROVE  IF cmd' = "idle" THEN Resting(look)' \in Outline(v, k).rest
                        ELSE IF Aside(look, Prog') THEN LeftAlone(look, cmd, Outline(v, k).rest)'
                        ELSE Fits(look, Outline(v, k).steps[cmd])'
      BY <2>1, <2>2 DEF Outlined
    <3>1. Covered(v, k, look)
      BY <2>1 DEF Covered
    <3>2. ASSUME NEW c \in DOMAIN Program[kind], Start(c)
          PROVE  /\ cmd' # "idle"
                 /\ IF Aside(look, Prog') THEN LeftAlone(look, cmd, Outline(v, k).rest)'
                    ELSE Fits(look, Outline(v, k).steps[cmd])'
      <4>1. cmd' = c /\ c # "idle" /\ Prog' = Program[k][c]
        BY <2>1, <2>2, <3>2, ScriptAssumption
           DEF Start, ScriptAssumption, ControlInv, TypeOK, Prog
      <4>2. IF Aside(look, Program[k][c]) THEN LeftAlone(look, c, Outline(v, k).rest)'
                                          ELSE Fits(look, Outline(v, k).steps[c])'
        BY <3>1, <3>2, StartFits
      <4>3. LeftAlone(look, c, Outline(v, k).rest)' => LeftAlone(look, cmd, Outline(v, k).rest)'
        BY <4>1
      <4>4. Fits(look, Outline(v, k).steps[c])' => Fits(look, Outline(v, k).steps[cmd])'
        BY <4>1
      <4> QED
        BY <4>1, <4>2, <4>3, <4>4
    <3>3. CASE Return
      BY <3>1, <3>3, ReturnRests DEF Return
    <3>4. CASE \/ Perform \/ Fail \/ CannotWork \/ RaiseStep \/ Branch
               \/ Catch \/ Propagate \/ EnterFinally \/ LeaveFinally \/ Cancel
      <4>1. /\ cmd' = cmd /\ cmd # "idle" /\ Prog' = Prog
            /\ IF Aside(look, Prog) THEN LeftAlone(look, cmd, Outline(v, k).rest)'
                                    ELSE Fits(look, Outline(v, k).steps[cmd])'
        BY <3>1, <3>4, StepFits
      <4> QED
        BY <4>1
    <3> QED
      BY <2>4, <3>2, <3>3, <3>4 DEF Next
  <2> QED
    BY <2>3, <2>4
<1>3. Spec => []ControlInv
  BY ControlInvariant
<1> QED
  BY <1>1, <1>2, <1>3, PTL DEF Spec

---------------------------------------------------------------------------
(* What the outlines show.                                                 *)

(* The world and the deployment of a frame.                                *)
Appears(v, k, w, dep) ==
  \/ \E r \in Outline(v, k).rest : r.world = w /\ r.deployed = dep
  \/ \E c \in DOMAIN Program[k] : \E i \in 1..(Len(Program[k][c]) + 1) :
       \E s \in Outline(v, k).steps[c][i] : s.world = w /\ s.deployed = dep

(* What is seen of d is the world of a frame, and a deployment that does   *)
(* not run is that of the frame.                                           *)
LEMMA WorldSeen ==
  ASSUME NEW v \in DOMAIN View, NEW k \in DOMAIN View[v].fields, kind = k,
         ControlInv, OutlineInv, InScope(Look(v, k))
  PROVE  \E dep : /\ Appears(v, k, Sees(Look(v, k), d), dep)
                  /\ Look(v, k).ended /\ deployed # "running" => dep = deployed
<1>1. PICK look : look = Look(v, k)
  OBVIOUS
<1>2. CASE cmd = "idle"
  <2>1. Resting(look) \in Outline(v, k).rest
    BY <1>1, <1>2 DEF OutlineInv, Outlined
  <2>2. PICK r \in Outline(v, k).rest : r.world = Sees(look, d) /\ (look.ended => r.deployed = deployed)
    BY <2>1 DEF Known, Resting, Between
  <2> QED
    BY <1>1, <2>2 DEF Appears
<1>3. CASE cmd # "idle" /\ Aside(look, Prog)
  <2>1. LeftAlone(look, cmd, Outline(v, k).rest)
    BY <1>1, <1>3 DEF OutlineInv, Outlined
  <2>2. PICK r \in Outline(v, k).rest : BeganIn(look, cmd, r)
    BY <2>1 DEF LeftAlone
  <2>3. ASSUME look.ended, deployed # "running" PROVE r.deployed = deployed
    BY <2>2, <2>3 DEF BeganIn, Known, Begun
  <2>4. r.world = Sees(look, d)
    BY <2>2 DEF BeganIn
  <2> QED
    BY <1>1, <2>3, <2>4 DEF Appears
<1>4. CASE cmd # "idle" /\ ~Aside(look, Prog)
  <2>1. cmd \in DOMAIN Program[k] /\ at \in 1..(Len(Program[k][cmd]) + 1)
    BY <1>4, ProgWellNested DEF ControlInv, Prog
  <2>2. Fits(look, Outline(v, k).steps[cmd])
    BY <1>1, <1>4 DEF OutlineInv, Outlined
  <2>3. PICK s \in Outline(v, k).steps[cmd][at] :
          s.world = Sees(look, d) /\ (look.ended => s.deployed = deployed)
    BY <2>2 DEF Fits, Seen, Frame, Known
  <2> QED
    BY <1>1, <2>1, <2>3 DEF Appears
<1> QED
  BY <1>2, <1>3, <1>4

(* The master image runs on the firmware that the backup holds, file by    *)
(* file, and but for a vexpress on that which the board came with: in a    *)
(* job of any number of commands, wherever SIGTERM comes, unless two steps *)
(* fail.                                                                   *)
THEOREM MasterOnGoodFirmwareHolds == ASSUME MaxFaults <= 1 PROVE Spec => []MasterOnGoodFirmware
<1>1. ControlInv /\ OutlineInv => MasterOnGoodFirmware
  <2> SUFFICES ASSUME OutlineInv, ControlInv, "fw" \in DOMAIN d, d.runs = "master"
               PROVE  GoodFile(kind, d.fw, d.backup) /\ GoodFile(kind, d.fw2, d.backup2)
    BY DEF MasterOnGoodFirmware
  <2>1. kind \in Kind /\ "fw" \in DOMAIN Fresh[kind] /\ faults \in {0, 1}
    BY BoundAssumption DEF ControlInv, TypeOK, BoundAssumption
  <2>2. GoodFile(kind, d.fw, d.backup)
    <3>1. PICK k, look : k = kind /\ look = Look("firmware", k)
      OBVIOUS
    <3>2. /\ Covers("firmware", k, {"runs", "fw", "backup"})
          /\ {0, 1} \subseteq View["firmware"].faults /\ View["firmware"].cancel = "followed"
          /\ Everywhere(k, Outline("firmware", k),
                        LAMBDA w, dep : w.runs = "master" => GoodFile(k, w.fw, w.backup))
      <4>1. Covers("firmware", k, {"runs", "fw", "backup"})
        BY <2>1, <3>1, ViewAssumption DEF ViewAssumption
      <4>2. {0, 1} \subseteq View["firmware"].faults /\ View["firmware"].cancel = "followed"
        BY ViewAssumption DEF ViewAssumption
      <4>3. Shown("firmware", k, Outline("firmware", k))
        BY <4>1, OutlineAssumption DEF OutlineAssumption, Covers
      <4>4. Everywhere(k, Outline("firmware", k),
                       LAMBDA w, dep : w.runs = "master" => GoodFile(k, w.fw, w.backup))
        BY <4>3 DEF Shown
      <4> QED
        BY <4>1, <4>2, <4>4
    <3>3. InScope(look) /\ {"runs", "fw", "backup"} \subseteq look.fields
      BY <2>1, <3>1, <3>2 DEF Look, InScope, Counts, Starts, Covers
    <3>4. PICK w, dep : w = Sees(look, d) /\ Appears("firmware", k, w, dep)
      BY <2>1, <3>1, <3>2, <3>3, WorldSeen DEF Covers
    <3>5. w.runs = "master" => GoodFile(k, w.fw, w.backup)
      BY <3>2, <3>4 DEF Everywhere, Appears
    <3>6. w.runs = d.runs /\ w.fw = d.fw /\ w.backup = d.backup
      BY <3>3, <3>4 DEF Sees
    <3> QED
      BY <3>1, <3>5, <3>6
  <2>3. GoodFile(kind, d.fw2, d.backup2)
    <3>1. PICK k, look : k = kind /\ look = Look("firmware2", k)
      OBVIOUS
    <3>2. /\ Covers("firmware2", k, {"runs", "fw2", "backup2"})
          /\ {0, 1} \subseteq View["firmware2"].faults /\ View["firmware2"].cancel = "followed"
          /\ Everywhere(k, Outline("firmware2", k),
                        LAMBDA w, dep : w.runs = "master" => GoodFile(k, w.fw2, w.backup2))
      <4>1. Covers("firmware2", k, {"runs", "fw2", "backup2"})
        BY <2>1, <3>1, ViewAssumption DEF ViewAssumption
      <4>2. {0, 1} \subseteq View["firmware2"].faults /\ View["firmware2"].cancel = "followed"
        BY ViewAssumption DEF ViewAssumption
      <4>3. Shown("firmware2", k, Outline("firmware2", k))
        BY <4>1, OutlineAssumption DEF OutlineAssumption, Covers
      <4>4. Everywhere(k, Outline("firmware2", k),
                       LAMBDA w, dep : w.runs = "master" => GoodFile(k, w.fw2, w.backup2))
        BY <4>3 DEF Shown
      <4> QED
        BY <4>1, <4>2, <4>4
    <3>3. InScope(look) /\ {"runs", "fw2", "backup2"} \subseteq look.fields
      BY <2>1, <3>1, <3>2 DEF Look, InScope, Counts, Starts, Covers
    <3>4. PICK w, dep : w = Sees(look, d) /\ Appears("firmware2", k, w, dep)
      BY <2>1, <3>1, <3>2, <3>3, WorldSeen DEF Covers
    <3>5. w.runs = "master" => GoodFile(k, w.fw2, w.backup2)
      BY <3>2, <3>4 DEF Everywhere, Appears
    <3>6. w.runs = d.runs /\ w.fw2 = d.fw2 /\ w.backup2 = d.backup2
      BY <3>3, <3>4 DEF Sees
    <3> QED
      BY <3>1, <3>5, <3>6
  <2> QED
    BY <2>2, <2>3
<1> QED
  BY <1>1, ControlInvariant, OutlineInvariant, PTL

(* The host never mounts the SD card that the board drives, in a job of    *)
(* any number of commands, wherever SIGTERM comes: unless two steps fail.  *)
THEOREM CardIsHostsHolds == ASSUME MaxFaults <= 1 PROVE Spec => []CardIsHosts
<1>1. ControlInv /\ OutlineInv => CardIsHosts
  <2> SUFFICES ASSUME OutlineInv, ControlInv, "sd" \in DOMAIN d
               PROVE  d.sdmount => d.sd = "host"
    BY DEF CardIsHosts
  <2>1. PICK k, look : k = kind /\ look = Look("card", k)
    OBVIOUS
  <2>2. kind = k /\ k \in Kind /\ "sd" \in DOMAIN Fresh[k]
    BY <2>1 DEF ControlInv, TypeOK
  <2>3. /\ Covers("card", k, {"sd", "sdmount"})
        /\ {0, 1} \subseteq View["card"].faults /\ View["card"].cancel = "followed"
        /\ Everywhere(k, Outline("card", k), LAMBDA w, dep : w.sdmount => w.sd = "host")
    BY <2>2, OutlineAssumption, ViewAssumption DEF OutlineAssumption, ViewAssumption, Shown, Covers
  <2>4. faults \in {0, 1}
    BY BoundAssumption DEF ControlInv, TypeOK, BoundAssumption
  <2>5. InScope(look) /\ {"sd", "sdmount"} \subseteq look.fields
    BY <2>1, <2>3, <2>4 DEF Look, InScope, Counts, Starts, Covers
  <2>6. PICK w, dep : w = Sees(look, d) /\ Appears("card", k, w, dep)
    BY <2>1, <2>2, <2>3, <2>5, WorldSeen DEF Covers
  <2>7. w.sdmount => w.sd = "host"
    BY <2>3, <2>6 DEF Everywhere, Appears
  <2>8. w.sdmount = d.sdmount /\ w.sd = d.sd
    BY <2>5, <2>6 DEF Sees
  <2> QED
    BY <2>7, <2>8
<1> QED
  BY <1>1, ControlInvariant, OutlineInvariant, PTL

(* A deployment that returns has written what the board boots from: in a   *)
(* job of any number of commands in any order, whatever steps fail and     *)
(* wherever SIGTERM comes.                                                 *)
THEOREM DeployedIsWrittenHolds == Spec => []DeployedIsWritten
<1>1. ControlInv /\ OutlineInv => DeployedIsWritten
  <2> SUFFICES ASSUME OutlineInv, ControlInv, deployed = "ok", ~Unchecked
               PROVE  Written(d)
    BY DEF DeployedIsWritten, Written
  <2>1. PICK k, look : k = kind /\ look = Look("written", k)
    OBVIOUS
  <2>2. kind = k /\ k \in Kind \ {"nexell"} /\ DOMAIN d = DOMAIN Fresh[k]
    BY <2>1 DEF ControlInv, TypeOK, Unchecked
  <2>3. /\ Covers("written", k, {"medium", "kept", "kernel"} \cap DOMAIN Fresh[k])
        /\ "medium" \in DOMAIN Fresh[k]
        /\ View["written"].faults = {} /\ View["written"].cancel = "followed" /\ View["written"].ended
        /\ Everywhere(k, Outline("written", k), LAMBDA w, dep : dep = "ok" => Written(w))
    BY <2>2, OutlineAssumption, ViewAssumption DEF OutlineAssumption, ViewAssumption, Shown, Covers
  <2>4. /\ InScope(look) /\ look.ended
        /\ {"medium", "kept", "kernel"} \cap DOMAIN d \subseteq look.fields
    BY <2>1, <2>2, <2>3 DEF Look, InScope, Counts, Starts, Covers
  <2>5. PICK w, dep : w = Sees(look, d) /\ Appears("written", k, w, dep) /\ dep = "ok"
    BY <2>1, <2>2, <2>3, <2>4, WorldSeen DEF Covers
  <2>6. Written(w)
    BY <2>3, <2>5 DEF Everywhere, Appears
  <2>7. \A f \in look.fields : f \in DOMAIN w /\ w[f] = d[f]
    BY <2>5 DEF Sees
  <2>8. w.medium = d.medium
    BY <2>2, <2>3, <2>4, <2>7
  <2>9. Overridden(w) => Overridden(d)
    <3>1. look.fields \subseteq DOMAIN d /\ DOMAIN w = look.fields
      BY <2>1, <2>2, <2>3, <2>5, CoveredFacts DEF Covered, Covers, Sees
    <3> QED
      BY <2>7, <3>1 DEF Overridden, KeptBoot
  <2> QED
    BY <2>6, <2>8, <2>9 DEF Written
<1> QED
  BY <1>1, ControlInvariant, OutlineInvariant, PTL

(* No command leaves an image or a card mounted on the host, in a job of   *)
(* any number of commands, unless two steps fail or SIGTERM comes in a     *)
(* cleanup or while mount runs.                                            *)
THEOREM HostCleanHolds == ASSUME MaxFaults <= 1 PROVE Spec => []HostClean
<1>1. ControlInv /\ OutlineInv => HostClean
  <2> SUFFICES ASSUME OutlineInv, ControlInv, cmd = "idle", cancelled \in {"no", "body"},
                      NEW m \in Mountable \cap DOMAIN d
               PROVE  ~d[m]
    BY DEF HostClean
  <2>1. PICK k, look : k = kind /\ look = Look("mounts", k)
    OBVIOUS
  <2>2. kind = k /\ k \in Kind /\ DOMAIN d = DOMAIN Fresh[k]
    BY <2>1 DEF ControlInv, TypeOK
  <2>3. /\ Covers("mounts", k, Mountable \cap DOMAIN Fresh[k])
        /\ {0, 1} \subseteq View["mounts"].faults /\ View["mounts"].cancel = "body"
        /\ \A r \in Outline("mounts", k).rest : ~r.world[m]
    BY <2>2, OutlineAssumption, ViewAssumption DEF OutlineAssumption, ViewAssumption, Shown, Covers
  <2>4. faults \in {0, 1}
    BY BoundAssumption DEF ControlInv, TypeOK, BoundAssumption
  <2>5. InScope(look) /\ m \in look.fields
    BY <2>1, <2>2, <2>3, <2>4 DEF Look, InScope, Counts, Starts, Covers
  <2>6. Resting(look) \in Outline("mounts", k).rest
    BY <2>1, <2>2, <2>3, <2>5 DEF OutlineInv, Outlined, Covers
  <2>7. PICK r \in Outline("mounts", k).rest : r.world = Sees(look, d)
    BY <2>6 DEF Resting, Between
  <2>8. r.world[m] = d[m]
    BY <2>5, <2>7 DEF Sees
  <2> QED
    BY <2>3, <2>7, <2>8
<1> QED
  BY <1>1, ControlInvariant, OutlineInvariant, PTL

(* A command that returns has ended as its outline says.                   *)
LEMMA EndsAsOutlined ==
  ASSUME ControlInv, OutlineInv, Return, NEW v, v \in DOMAIN View, kind \in DOMAIN View[v].fields,
         InScope(Look(v, kind)), ~View[v].aside
  PROVE  cmd \in DOMAIN Program[kind] /\ out' = <<cmd, exc>> /\ exc \in Endings(kind, Outline(v, kind), cmd)
<1>1. cmd # "idle" /\ out' = <<cmd, exc>> /\ at > Len(Prog)
  BY DEF Return
<1>2. cmd \in DOMAIN Program[kind] /\ at = Len(Program[kind][cmd]) + 1
  BY <1>1, ProgWellNested DEF ControlInv, Prog
<1>3. Fits(Look(v, kind), Outline(v, kind).steps[cmd])
  <2>1. ~Aside(Look(v, kind), Prog)
    BY DEF Aside, Look
  <2> QED
    BY <1>1, <2>1 DEF OutlineInv, Outlined
<1>4. PICK s \in Outline(v, kind).steps[cmd][at] : s.exc = exc
  BY <1>3 DEF Fits, Seen, Frame
<1> QED
  BY <1>1, <1>2, <1>4 DEF Endings

(* Only the return of a command makes the job idle.                        *)
LEMMA IdleAfterReturn ==
  ASSUME ControlInv, Next, cmd' = "idle" PROVE Return
<1>1. ASSUME NEW c \in DOMAIN Program[kind], Start(c) PROVE FALSE
  BY <1>1, ScriptAssumption DEF Start, ScriptAssumption, ControlInv, TypeOK
<1> QED
  BY <1>1 DEF Next, Perform, Fail, CannotWork, RaiseStep, Branch, Catch, Propagate,
              EnterFinally, LeaveFinally, Cancel, Normal, Running, Stays

(* A command that SIGTERM reached ends the job, wherever it was and        *)
(* whatever steps fail; but for those with bare ends.                      *)
THEOREM CancelEndsHolds == Spec => []CancelEnds
<1>1. Init => CancelEnds
  BY DEF Init, CancelEnds
<1>2. ControlInv /\ OutlineInv /\ CancelEnds /\ [Next]_vars => CancelEnds'
  <2> SUFFICES ASSUME ControlInv, OutlineInv, CancelEnds, [Next]_vars, cmd' = "idle",
                      cancelled' \in {"body", "mounting", "cleanup"}, out'[1] \in Commands', kind' # "sdmux",
                      out'[1] \notin {"lava_test_shell", "boot_android"}
               PROVE  out'[2] \notin Tolerated
    BY DEF CancelEnds
  <2>1. CASE UNCHANGED vars
    BY <2>1 DEF vars, script, CancelEnds, Commands
  <2>2. CASE Next
    <3>1. Return
      BY <2>2, IdleAfterReturn
    <3>2. /\ UNCHANGED <<kind, cancelled>> /\ cmd # "idle" /\ out' = <<cmd, exc>>
          /\ kind \in Kind \ {"sdmux"} /\ cmd \notin Calls \cup {"lava_test_shell", "boot_android"}
      BY <3>1 DEF Return, Commands, ControlInv, TypeOK
    <3>3. /\ Covers("cancelled", kind, {})
          /\ View["cancelled"].faults = {} /\ View["cancelled"].cancel = "starts" /\ ~View["cancelled"].aside
          /\ \A c \in DOMAIN Program[kind] \ (Calls \cup {"lava_test_shell", "boot_android"}) :
               Endings(kind, Outline("cancelled", kind), c) \cap Tolerated = {}
      BY <3>2, OutlineAssumption, ViewAssumption DEF OutlineAssumption, ViewAssumption, Shown, Covers
    <3>4. InScope(Look("cancelled", kind))
      BY <3>2, <3>3 DEF Look, InScope, Counts, Starts
    <3>5. cmd \in DOMAIN Program[kind] /\ exc \in Endings(kind, Outline("cancelled", kind), cmd)
      BY <3>1, <3>3, <3>4, EndsAsOutlined DEF Covers
    <3> QED
      BY <3>2, <3>3, <3>5
  <2> QED
    BY <2>1, <2>2
<1> QED
  BY <1>1, <1>2, ControlInvariant, OutlineInvariant, PTL DEF Spec

(* Where nothing fails and nobody cancels, no command fails but those that *)
(* the target refuses, in a job of any number of commands in any order.    *)
THEOREM UnprovokedHolds == Spec => []Unprovoked
<1>1. Init => Unprovoked
  BY DEF Init, Unprovoked
<1>2. ControlInv /\ OutlineInv /\ Unprovoked /\ [Next]_vars => Unprovoked'
  <2> SUFFICES ASSUME ControlInv, OutlineInv, Unprovoked, [Next]_vars,
                      faults' = 0, cancelled' = "no", cmd' = "idle"
               PROVE  out'[2] = None \/ <<kind', out'[1]>> \in Refused
    BY DEF Unprovoked
  <2>1. CASE UNCHANGED vars
    BY <2>1 DEF vars, script, Unprovoked
  <2>2. CASE Next
    <3>1. Return
      BY <2>2, IdleAfterReturn
    <3>2. /\ UNCHANGED <<kind, cancelled, faults>> /\ out' = <<cmd, exc>> /\ kind \in Kind
      BY <3>1 DEF Return, ControlInv, TypeOK
    <3>3. /\ Covers("healthy", kind, {})
          /\ View["healthy"].faults = {0} /\ View["healthy"].cancel = "ends" /\ ~View["healthy"].aside
          /\ \A c \in DOMAIN Program[kind] :
               <<kind, c>> \in Refused \/ Endings(kind, Outline("healthy", kind), c) \subseteq {None}
      BY <3>2, OutlineAssumption, ViewAssumption DEF OutlineAssumption, ViewAssumption, Shown, Covers
    <3>4. InScope(Look("healthy", kind))
      BY <3>2, <3>3 DEF Look, InScope, Counts, Starts
    <3>5. cmd \in DOMAIN Program[kind] /\ exc \in Endings(kind, Outline("healthy", kind), cmd)
      BY <3>1, <3>3, <3>4, EndsAsOutlined DEF Covers
    <3> QED
      BY <3>2, <3>3, <3>5
  <2> QED
    BY <2>1, <2>2
<1> QED
  BY <1>1, <1>2, ControlInvariant, OutlineInvariant, PTL DEF Spec

---------------------------------------------------------------------------
(* Clauses: every step is a move of TargetClauses, and where the weakest   *)
(* precondition of a clause was true, the clause is.                       *)

(* The literals that are so.                                               *)
HeldAt(n) == IF n <= Len(held) THEN held[Len(held) - n + 1] ELSE None
IsSo(x) ==
  \/ x[1] = "exc" /\ x[2] = exc
  \/ x[1] = "caught" /\ x[2] = caught
  \/ x[1] = "stage" /\ x[2] = stage
  \/ x[1] = "deployed" /\ x[2] = deployed
  \/ \E n \in DOMAIN Level : x[1] = Level[n] /\ x[2] = HeldAt(n)
  \/ x[1] \in DOMAIN d \ Moods /\ x[2] = d[x[1]]
IsTrue(C) == \E x \in C : IsSo(x)

WorldInv == \A f \in DOMAIN d : <<f, d[f]>> \in Literals[kind][f]

(* The step from this state is the move m.                                 *)
Taken(m) ==
  /\ \A x \in m.unless : ~IsSo(x)
  /\ \A x \in m.set : IsSo(x)'
  /\ \A x : x[1] \notin m.lost /\ IsSo(x) => IsSo(x)'
  /\ \A x : x[1] = m.copied /\ IsSo(<<m.from, x[2]>>) => IsSo(x)'

LEMMA WpSound ==
  ASSUME NEW m, NEW C, Taken(m), IsTrue(Wp(m, C))
  PROVE  IsTrue(C)'
<1>1. PICK x \in Wp(m, C) : IsSo(x)
  BY DEF IsTrue
<1>2. CASE x \in C /\ x[1] \notin m.lost
  <2>1. IsSo(x)'
    BY <1>1, <1>2 DEF Taken
  <2> QED
    BY <1>2, <2>1 DEF IsTrue
<1>3. CASE x \in m.unless
  BY <1>1, <1>3 DEF Taken
<1>4. ASSUME NEW y \in C, y[1] = m.copied, x = <<m.from, y[2]>> PROVE IsTrue(C)'
  <2>1. IsSo(<<m.from, y[2]>>)
    BY <1>1, <1>4
  <2>2. IsSo(y)'
    BY <2>1, <1>4 DEF Taken
  <2> QED
    BY <2>2 DEF IsTrue
<1> QED
  BY <1>1, <1>2, <1>3, <1>4 DEF Wp

LEMMA FollowsSound ==
  ASSUME NEW lits, NEW S, NEW m, NEW C, Taken(m), Follows(lits, S, m, C),
         \A q \in S : IsTrue(q), \A a \in DOMAIN lits : IsTrue(lits[a])
  PROVE  IsTrue(C)'
<1>1. CASE Makes(m, C)
  <2>1. PICK x \in C : x \in m.set
    BY <1>1 DEF Makes
  <2>2. IsSo(x)'
    BY <2>1 DEF Taken
  <2> QED
    BY <2>1, <2>2 DEF IsTrue
<1>2. CASE Given(lits, S, Wp(m, C))
  <2>1. PICK q : IsTrue(q) /\ q \subseteq Wp(m, C)
    BY <1>2 DEF Given, Truism
  <2>2. IsTrue(Wp(m, C))
    BY <2>1 DEF IsTrue
  <2> QED
    BY <2>2, WpSound
<1> QED
  BY <1>1, <1>2 DEF Follows

LEMMA LiteralFacts ==
  ASSUME NEW k \in Kind
  PROVE  /\ DOMAIN Literals[k] = DOMAIN Fresh[k] \cup Moods /\ DOMAIN Fresh[k] \cap Moods = {}
         /\ \A a \in Moods : Literals[k][a] = {a} \X MoodValues(a)
         /\ \A a \in DOMAIN Literals[k] : \A x \in Literals[k][a] : x = <<a, x[2]>>
         /\ WorldOf(Literals[k]) = DOMAIN Fresh[k]
         /\ None \notin DOMAIN Literals[k]
<1>1. Spelled(k, Literals[k])
  BY LiteralAssumption DEF LiteralAssumption
<1>2. DOMAIN Literals[k] = DOMAIN Fresh[k] \cup Moods /\ DOMAIN Fresh[k] \cap Moods = {}
  BY <1>1 DEF Spelled
<1> QED
  BY <1>1, <1>2 DEF Spelled, WorldOf

LEMMA LevelFacts ==
  /\ DOMAIN Level = 1..8 /\ Len(Level) = 8 /\ Levels = {Level[n] : n \in 1..8} /\ None \notin Moods
  /\ \A n \in 1..8 : Level[n] \in Moods /\ Level[n] \notin {"exc", "caught", "stage", "deployed"}
  /\ \A m, n \in 1..8 : Level[m] = Level[n] => m = n
<1>1. DOMAIN Level = 1..8 /\ Len(Level) = 8
  BY DEF Level
<1>2. \A n \in 1..8 : Level[n] \notin {"exc", "caught", "stage", "deployed", None}
  BY DEF Level, None
<1>3. \A m, n \in 1..8 : Level[m] = Level[n] => m = n
  BY DEF Level
<1>4. Levels = {Level[n] : n \in 1..8}
  BY <1>1 DEF Levels
<1>5. None \notin Moods
  BY <1>2, <1>4 DEF Moods, None
<1> QED
  BY <1>1, <1>2, <1>3, <1>4, <1>5 DEF Moods

(* An aspect has one of its values.                                        *)
LEMMA AspectsAreSo ==
  ASSUME ControlInv, WorldInv, NEW a \in DOMAIN Literals[kind]
  PROVE  IsTrue(Literals[kind][a])
<1>1. kind \in Kind /\ DOMAIN d = DOMAIN Fresh[kind]
  BY DEF ControlInv, TypeOK
<1>2. CASE a \in DOMAIN d
  <2>1. <<a, d[a]>> \in Literals[kind][a] /\ a \notin Moods
    BY <1>1, <1>2, LiteralFacts DEF WorldInv
  <2>2. IsSo(<<a, d[a]>>)
    BY <1>2, <2>1 DEF IsSo
  <2> QED
    BY <2>1, <2>2 DEF IsTrue
<1>3. ASSUME a \in Moods, NEW v \in MoodValues(a), IsSo(<<a, v>>) PROVE IsTrue(Literals[kind][a])
  <2>1. <<a, v>> \in Literals[kind][a]
    BY <1>1, <1>3, LiteralFacts
  <2> QED
    BY <1>3, <2>1 DEF IsTrue
<1>4. exc \in Excs /\ caught \in Excs /\ held \in Seq(Excs) /\ stage \in Stages
      /\ deployed \in {None, "running", "ok", "failed"}
  BY DEF ControlInv, TypeOK, Stages
<1>5. CASE a = "exc"
  BY <1>3, <1>4, <1>5 DEF MoodValues, IsSo, Moods
<1>6. CASE a = "caught"
  BY <1>3, <1>4, <1>6 DEF MoodValues, IsSo, Moods
<1>7. CASE a = "stage"
  BY <1>3, <1>4, <1>7 DEF MoodValues, IsSo, Moods
<1>8. CASE a = "deployed"
  BY <1>3, <1>4, <1>8 DEF MoodValues, IsSo, Moods
<1>10. ASSUME NEW n \in 1..8, a = Level[n] PROVE IsTrue(Literals[kind][a])
  <2>1. HeldAt(n) \in Excs
    <3>1. Len(held) \in Nat /\ \A j \in 1..Len(held) : held[j] \in Excs
      BY <1>4
    <3> QED
      BY <3>1, SomeExceptions DEF HeldAt
  <2>2. a \in Moods /\ MoodValues(a) = Excs
    BY <1>10, LevelFacts DEF MoodValues
  <2>3. IsSo(<<a, HeldAt(n)>>)
    BY <1>10, LevelFacts DEF IsSo
  <2> QED
    BY <1>3, <2>1, <2>2, <2>3
<1>11. a \in DOMAIN d \/ a \in Moods
  BY <1>1, LiteralFacts
<1> QED
  BY <1>2, <1>5, <1>6, <1>7, <1>8, <1>10, <1>11, LevelFacts DEF Moods

LEMMA NothingElse ==
  ASSUME NEW lost, DOMAIN d' = DOMAIN d,
         "exc" \in lost \/ exc' = exc, "caught" \in lost \/ caught' = caught,
         "stage" \in lost \/ stage' = stage, "deployed" \in lost \/ deployed' = deployed,
         \A n \in 1..8 : Level[n] \in lost \/ HeldAt(n)' = HeldAt(n),
         \A f \in DOMAIN d \ Moods : f \in lost \/ d'[f] = d[f],
         NEW x, x[1] \notin lost, IsSo(x)
  PROVE  IsSo(x)'
<1>1. ASSUME NEW n \in DOMAIN Level, x[1] = Level[n], x[2] = HeldAt(n) PROVE IsSo(x)'
  <2>1. HeldAt(n)' = HeldAt(n)
    BY <1>1, LevelFacts
  <2> QED
    BY <1>1, <2>1 DEF IsSo
<1>2. CASE x[1] \in DOMAIN d \ Moods /\ x[2] = d[x[1]]
  <2>1. d'[x[1]] = d[x[1]]
    BY <1>2
  <2> QED
    BY <1>2, <2>1 DEF IsSo
<1> QED
  BY <1>1, <1>2 DEF IsSo

LEMMA NoneIsNotSo ==
  ASSUME TypeOK, NEW v PROVE ~IsSo(<<None, v>>)
<1>1. None \notin Moods /\ None \notin DOMAIN d
  BY LevelFacts, LiteralFacts DEF TypeOK
<1>2. None \notin {"exc", "caught", "stage", "deployed"} /\ \A n \in DOMAIN Level : None # Level[n]
  BY <1>1, LevelFacts DEF Moods
<1> QED
  BY <1>1, <1>2 DEF IsSo

LEMMA MoveTaken ==
  ASSUME TypeOK, NEW to, NEW unless, NEW set, \A x \in unless : ~IsSo(x), \A x \in set : IsSo(x)',
         NEW lost, lost = {x[1] : x \in set}, \A x : x[1] \notin lost /\ IsSo(x) => IsSo(x)'
  PROVE  Taken(Move(to, unless, set))
BY NoneIsNotSo DEF Taken, Move

LEMMA CopyTaken ==
  ASSUME NEW to, NEW unless, NEW set, NEW a, NEW b, \A x \in unless : ~IsSo(x), \A x \in set : IsSo(x)',
         NEW lost, lost = {a} \cup {x[1] : x \in set}, \A x : x[1] \notin lost /\ IsSo(x) => IsSo(x)',
         \A x : x[1] = a /\ IsSo(<<b, x[2]>>) => IsSo(x)'
  PROVE  Taken(Copying(to, unless, set, a, b))
BY DEF Taken, Copying

LEMMA UnmetIsNotSo ==
  ASSUME TypeOK, NEW needs, DOMAIN needs \subseteq DOMAIN d, Holds(needs, d),
         NEW x \in Unmet(Literals[kind], needs)
  PROVE  ~IsSo(x)
<1>1. PICK f \in DOMAIN needs : x \in Literals[kind][f] /\ x # <<f, needs[f]>>
  BY DEF Unmet
<1>2. f \in DOMAIN d /\ f \notin Moods /\ x = <<f, x[2]>>
  BY <1>1, LiteralFacts DEF TypeOK
<1>3. IsSo(x) => x[2] = d[f]
  <2>1. x[1] = f
    BY <1>2
  <2> QED
    BY <1>2, <2>1, LevelFacts DEF IsSo, Moods
<1> QED
  BY <1>1, <1>2, <1>3 DEF Holds

LEMMA SetIsSo ==
  ASSUME TypeOK, NEW set, d' = Assign(set, d), NEW x \in Sets(Literals[kind], set)
  PROVE  IsSo(x)'
<1>1. PICK f \in DOMAIN set \cap WorldOf(Literals[kind]) : x = <<f, set[f]>>
  BY DEF Sets
<1>2. f \in DOMAIN d /\ f \notin Moods
  BY <1>1, LiteralFacts DEF TypeOK
<1>3. DOMAIN d' = DOMAIN d /\ d'[f] = set[f]
  BY <1>1, <1>2 DEF Assign
<1> QED
  BY <1>1, <1>2, <1>3 DEF IsSo

LEMMA MoodsAreSo ==
  ASSUME NEW v
  PROVE  /\ IsSo(<<"exc", v>>) <=> v = exc
         /\ IsSo(<<"caught", v>>) <=> v = caught
         /\ IsSo(<<"stage", v>>) <=> v = stage
         /\ IsSo(<<"deployed", v>>) <=> v = deployed
<1>1. {"exc", "caught", "stage", "deployed"} \subseteq Moods
  BY DEF Moods
<1>2. \A n \in DOMAIN Level : Level[n] \notin {"exc", "caught", "stage", "deployed"}
  BY LevelFacts
<1>3. IsSo(<<"exc", v>>) <=> v = exc
  BY <1>1, <1>2 DEF IsSo
<1>4. IsSo(<<"caught", v>>) <=> v = caught
  BY <1>1, <1>2 DEF IsSo
<1>5. IsSo(<<"stage", v>>) <=> v = stage
  BY <1>1, <1>2 DEF IsSo
<1>6. IsSo(<<"deployed", v>>) <=> v = deployed
  BY <1>1, <1>2 DEF IsSo
<1> QED
  BY <1>3, <1>4, <1>5, <1>6

LEMMA MoodsBecomeSo ==
  ASSUME NEW v
  PROVE  /\ IsSo(<<"exc", v>>)' <=> v = exc'
         /\ IsSo(<<"caught", v>>)' <=> v = caught'
         /\ IsSo(<<"stage", v>>)' <=> v = stage'
         /\ IsSo(<<"deployed", v>>)' <=> v = deployed'
<1>1. {"exc", "caught", "stage", "deployed"} \subseteq Moods
  BY DEF Moods
<1>2. \A n \in DOMAIN Level : Level[n] \notin {"exc", "caught", "stage", "deployed"}
  BY LevelFacts
<1>3. IsSo(<<"exc", v>>)' <=> v = exc'
  BY <1>1, <1>2 DEF IsSo
<1>4. IsSo(<<"caught", v>>)' <=> v = caught'
  BY <1>1, <1>2 DEF IsSo
<1>5. IsSo(<<"stage", v>>)' <=> v = stage'
  BY <1>1, <1>2 DEF IsSo
<1>6. IsSo(<<"deployed", v>>)' <=> v = deployed'
  BY <1>1, <1>2 DEF IsSo
<1> QED
  BY <1>3, <1>4, <1>5, <1>6

LEMMA LevelsAreSo ==
  ASSUME NEW v, NEW n \in 1..8
  PROVE  (IsSo(<<Level[n], v>>) <=> v = HeldAt(n)) /\ (IsSo(<<Level[n], v>>)' <=> v = HeldAt(n)')
<1>1. /\ Level[n] \in Moods /\ Level[n] \notin {"exc", "caught", "stage", "deployed"}
      /\ \A m \in DOMAIN Level : Level[n] = Level[m] => m = n
      /\ n \in DOMAIN Level
  BY LevelFacts
<1>2. IsSo(<<Level[n], v>>) <=> \E m \in DOMAIN Level : Level[n] = Level[m] /\ v = HeldAt(m)
  BY <1>1 DEF IsSo
<1>3. IsSo(<<Level[n], v>>)' <=> \E m \in DOMAIN Level : Level[n] = Level[m] /\ v = HeldAt(m)'
  BY <1>1 DEF IsSo
<1> QED
  BY <1>1, <1>2, <1>3

(* Where nothing is raised, no error is so.                                *)
LEMMA NoError ==
  ASSUME exc = None, NEW x \in Erring PROVE ~IsSo(x)
<1>1. PICK e \in Excs \ {None} : x = <<"exc", e>>
  BY DEF Erring, Raises
<1> QED
  BY <1>1, MoodsAreSo

LEMMA StepFacts ==
  ASSUME ControlInv, NEW k, NEW c, NEW i, kind = k, cmd = c, at = i, Running({Here.k})
  PROVE  /\ k \in Kind /\ c \in DOMAIN Program[k] /\ DOMAIN d = DOMAIN Fresh[k]
         /\ Prog = Program[k][c] /\ Here = Program[k][c][i] /\ Out(Prog, at) = Out(Program[k][c], i)
         /\ i \in DOMAIN Program[k][c] /\ Len(held) = Depth(Program[k][c])[i]
         /\ Here.k \in {"do", "if"} => DOMAIN Here.needs \subseteq DOMAIN d
         /\ Len(held) \in 0..8 /\ held \in Seq(Excs) /\ exc \in Excs
         /\ \A f \in DOMAIN Here.set \cap DOMAIN d : <<f, Here.set[f]>> \in Literals[k][f]
<1>1. cmd # "idle" /\ at <= Len(Prog)
  BY DEF Running
<1>2. /\ k \in Kind /\ c \in DOMAIN Program[k] /\ DOMAIN d = DOMAIN Fresh[k]
      /\ Prog = Program[k][c] /\ i \in DOMAIN Prog /\ held \in Seq(Excs) /\ exc \in Excs
  BY <1>1, ProgWellNested DEF ControlInv, TypeOK, Prog
<1>3. Len(held) = Depth(Prog)[i] /\ i \in DOMAIN Depth(Prog)
  BY <1>1, <1>2, ProgWellNested DEF ControlInv, HeldInv, Depth
<1>4. ScriptSpelled(k, Literals[k], Program[k][c])
  BY <1>2, LiteralAssumption DEF LiteralAssumption
<1>5. Len(held) <= 8
  BY <1>2, <1>3, <1>4, LevelFacts DEF ScriptSpelled
<1>6. Here = Program[k][c][i] /\ Out(Prog, at) = Out(Program[k][c], i)
  BY <1>2 DEF Here
<1> QED
  BY <1>2, <1>3, <1>4, <1>5, <1>6, LiteralFacts DEF ScriptSpelled

LEMMA PerformTaken ==
  ASSUME ControlInv, NEW k, NEW c, NEW i, NEW offs, kind = k, cmd = c, at = i, Perform
  PROVE  \E m \in DoMoves(Literals[k], offs, Program[k][c][i], i, Out(Program[k][c], i)) :
            m.to = at' /\ Taken(m)
<1> DEFINE step == Program[k][c][i]
           set == Sets(Literals[k], step.set)
           lost == {x[1] : x \in set}
           unless == Erring \cup Unmet(Literals[k], step.needs)
<1>1. /\ exc = None /\ Holds(Here.needs, d) /\ d' = Assign(Here.set, d) /\ at' = i + 1
      /\ UNCHANGED <<exc, caught, stage, deployed, held>> /\ Running({Here.k}) /\ Here.k = "do"
  BY DEF Perform, Normal, Running, Stays
<1>2. /\ k \in Kind /\ DOMAIN d = DOMAIN Fresh[k] /\ Here = step /\ DOMAIN step.needs \subseteq DOMAIN d /\ TypeOK
  BY <1>1, StepFacts DEF ControlInv
<1>3. \A x \in unless : ~IsSo(x)
  <2>1. \A x \in Erring : ~IsSo(x)
    BY <1>1, NoError
  <2>2. \A x \in Unmet(Literals[k], step.needs) : ~IsSo(x)
    BY <1>1, <1>2, UnmetIsNotSo
  <2> QED
    BY <2>1, <2>2
<1>4. \A x \in set : IsSo(x)'
  BY <1>1, <1>2, SetIsSo
<1>5. ASSUME NEW x, x[1] \notin lost, IsSo(x) PROVE IsSo(x)'
  <2>1. DOMAIN d' = DOMAIN d
    BY <1>1, AssignDomain
  <2>2. \A n \in 1..8 : HeldAt(n)' = HeldAt(n)
    BY <1>1 DEF HeldAt
  <2>3. ASSUME NEW f \in DOMAIN d \ Moods, f \notin lost PROVE d'[f] = d[f]
    <3>1. f \notin DOMAIN step.set
      <4>1. f \in DOMAIN step.set => <<f, step.set[f]>> \in set
        BY <1>2, <2>3, LiteralFacts DEF Sets
      <4> QED
        BY <4>1, <2>3
    <3> QED
      BY <1>1, <1>2, <3>1 DEF Assign
  <2> HIDE DEF lost
  <2> QED
    BY <1>1, <1>5, <2>1, <2>2, <2>3, NothingElse
<1>6. Taken(Move(i + 1, unless, set))
  BY <1>2, <1>3, <1>4, <1>5, MoveTaken
<1>7. Move(i + 1, unless, set) \in DoMoves(Literals[k], offs, step, i, Out(Program[k][c], i))
  <2>1. Move(i + 1, unless, set) \in PerformMoves(Literals[k], step, i)
    BY DEF PerformMoves
  <2> QED
    BY <2>1 DEF DoMoves
<1> QED
  BY <1>1, <1>6, <1>7 DEF Move

LEMMA FailTaken ==
  ASSUME ControlInv, NEW k, NEW c, NEW i, NEW offs, kind = k, cmd = c, at = i, Fail
  PROVE  \E m \in DoMoves(Literals[k], offs, Program[k][c][i], i, Out(Program[k][c], i)) :
            m.to = at' /\ Taken(m)
<1> DEFINE step == Program[k][c][i]
           jump == Out(Program[k][c], i)
           can == Erring \cup Unmet(Literals[k], step.needs)
<1>1. /\ exc = None /\ Holds(Here.needs, d)
      /\ UNCHANGED <<d, caught, stage, deployed, held>> /\ Running({Here.k}) /\ Here.k = "do"
  BY DEF Fail, Normal, Running
<1>2. /\ DOMAIN step.needs \subseteq DOMAIN d /\ TypeOK /\ Here = step /\ Out(Prog, at) = jump
      /\ kind \in Kind
  BY <1>1, StepFacts DEF ControlInv
<1>3. PICK e \in step.raises : IF e = "quiet" THEN exc' = None /\ at' = i + 1 ELSE exc' = e /\ at' = jump
  BY <1>2 DEF Fail, Goes
<1>4. \A x \in can : ~IsSo(x)
  <2>1. \A x \in Erring : ~IsSo(x)
    BY <1>1, NoError
  <2>2. \A x \in Unmet(Literals[k], step.needs) : ~IsSo(x)
    BY <1>1, <1>2, UnmetIsNotSo
  <2> QED
    BY <2>1, <2>2
<1>5. e # "quiet" => IsSo(Raises(e))'
  BY <1>3, MoodsBecomeSo DEF Raises
<1>6. ASSUME NEW x, x[1] # "exc" \/ exc' = exc, IsSo(x) PROVE IsSo(x)'
  <2>1. \A n \in 1..8 : HeldAt(n)' = HeldAt(n)
    BY <1>1 DEF HeldAt
  <2> DEFINE lost == IF exc' = exc THEN {} ELSE {"exc"}
  <2>2. x[1] \notin lost
    BY <1>6
  <2> QED
    BY <1>1, <1>6, <2>1, <2>2, NothingElse
<1>7. CASE e = "quiet"
  <2> DEFINE m == Move(i + 1, can, {})
  <2>1. \A x : IsSo(x) => IsSo(x)'
    BY <1>1, <1>3, <1>6, <1>7
  <2>2. Taken(m)
    BY <1>2, <1>4, <2>1, MoveTaken
  <2>3. m \in DoMoves(Literals[k], offs, step, i, jump)
    <3>1. m \in FailMoves(Literals[k], step, i, jump)
      BY <1>7 DEF FailMoves
    <3> QED
      BY <3>1 DEF DoMoves
  <2> QED
    BY <1>3, <1>7, <2>2, <2>3 DEF Move
<1>8. CASE e # "quiet"
  <2> DEFINE set == {Raises(e)}
             m == Move(jump, can, set)
  <2>1. \A x : x[1] \notin {y[1] : y \in set} /\ IsSo(x) => IsSo(x)'
    BY <1>6 DEF Raises
  <2>2. Taken(m)
    BY <1>2, <1>4, <1>5, <1>8, <2>1, MoveTaken
  <2>3. m \in DoMoves(Literals[k], offs, step, i, jump)
    <3>1. m \in FailMoves(Literals[k], step, i, jump)
      BY <1>8 DEF FailMoves
    <3> QED
      BY <3>1 DEF DoMoves
  <2> QED
    BY <1>3, <1>8, <2>2, <2>3 DEF Move
<1> QED
  BY <1>7, <1>8

LEMMA CannotWorkTaken ==
  ASSUME ControlInv, NEW k, NEW c, NEW i, NEW offs, kind = k, cmd = c, at = i, CannotWork
  PROVE  \E m \in DoMoves(Literals[k], offs, Program[k][c][i], i, Out(Program[k][c], i)) :
            m.to = at' /\ Taken(m)
<1> DEFINE step == Program[k][c][i]
           jump == Out(Program[k][c], i)
<1>1. /\ exc = None /\ ~Holds(Here.needs, d)
      /\ Goes(IF "runs" \in DOMAIN Here.needs /\ d.proc = "open" THEN "TIMEOUT" ELSE "OSError")
      /\ UNCHANGED <<d, caught, stage, deployed, held>> /\ Running({Here.k}) /\ Here.k = "do"
  BY DEF CannotWork, Normal, Running, Stays
<1>2. /\ DOMAIN step.needs \subseteq DOMAIN d /\ TypeOK /\ Here = step /\ Out(Prog, at) = jump
      /\ kind \in Kind
  BY <1>1, StepFacts DEF ControlInv
<1>3. PICK f \in DOMAIN step.needs : d[f] # step.needs[f]
  BY <1>1, <1>2 DEF Holds
<1>4. PICK e \in Sometimes(step.needs) : exc' = e
  BY <1>1, <1>2 DEF Goes, Sometimes
<1> DEFINE m == Move(jump, Erring \cup {<<f, step.needs[f]>>}, {Raises(e)})
<1>5. \A x \in Erring \cup {<<f, step.needs[f]>>} : ~IsSo(x)
  <2>1. f \in DOMAIN d /\ f \notin Moods
    BY <1>2, <1>3, LiteralFacts DEF TypeOK
  <2>2. ~IsSo(<<f, step.needs[f]>>)
    BY <1>3, <2>1, LevelFacts DEF IsSo, Moods
  <2> QED
    BY <1>1, <2>2, NoError
<1>6. IsSo(Raises(e))'
  BY <1>4, MoodsBecomeSo DEF Raises
<1>7. ASSUME NEW x, x[1] \notin {y[1] : y \in {Raises(e)}}, IsSo(x) PROVE IsSo(x)'
  <2>1. \A n \in 1..8 : HeldAt(n)' = HeldAt(n)
    BY <1>1 DEF HeldAt
  <2>2. x[1] \notin {"exc"}
    BY <1>7 DEF Raises
  <2> QED
    BY <1>1, <1>7, <2>1, <2>2, NothingElse
<1>8. Taken(m)
  BY <1>2, <1>5, <1>6, <1>7, MoveTaken
<1>9. m \in DoMoves(Literals[k], offs, step, i, jump)
  <2>1. m \in CannotWorkMoves(step, jump)
    <3>1. m \in {Move(jump, Erring \cup {<<g, step.needs[g]>>}, {Raises(e)}) : g \in DOMAIN step.needs}
      BY <1>3
    <3> QED
      BY <1>4, <3>1 DEF CannotWorkMoves
  <2> QED
    BY <2>1 DEF DoMoves
<1> QED
  BY <1>1, <1>2, <1>8, <1>9 DEF Move, Goes

LEMMA CancelMoveTaken ==
  ASSUME ControlInv, NEW k, NEW c, NEW i, kind = k, cmd = c, at = i, Cancel,
         NEW assigned, d' = Assign(assigned, d), NEW unless, \A x \in unless : ~IsSo(x)
  PROVE  Taken(Move(Out(Program[k][c], i), unless,
                    Sets(Literals[k], assigned) \cup {Raises("SystemExit")}))
<1> DEFINE jump == Out(Program[k][c], i)
           sets == Sets(Literals[k], assigned)
           set == sets \cup {Raises("SystemExit")}
<1>1. /\ exc = None /\ exc' = "SystemExit" /\ at' = Out(Prog, at)
      /\ UNCHANGED <<caught, stage, deployed, held>> /\ Running({Here.k}) /\ Here.k = "do"
  BY DEF Cancel, Normal, Running, Goes
<1>2. TypeOK /\ Out(Prog, at) = jump /\ k \in Kind /\ DOMAIN d = DOMAIN Fresh[k]
  BY <1>1, StepFacts DEF ControlInv
<1>3. \A x \in set : IsSo(x)'
  <2>1. IsSo(Raises("SystemExit"))'
    BY <1>1, MoodsBecomeSo DEF Raises
  <2>2. \A x \in sets : IsSo(x)'
    BY <1>2, SetIsSo
  <2> QED
    BY <2>1, <2>2
<1>4. ASSUME NEW x, x[1] \notin {y[1] : y \in set}, IsSo(x) PROVE IsSo(x)'
  <2> DEFINE lost == {"exc"} \cup {y[1] : y \in sets}
  <2>1. x[1] \notin lost
    <3>1. Raises("SystemExit")[1] = "exc" /\ Raises("SystemExit") \in set /\ sets \subseteq set
      BY DEF Raises
    <3> HIDE DEF sets
    <3>2. x[1] # "exc" /\ \A y \in sets : x[1] # y[1]
      BY <1>4, <3>1
    <3> QED
      BY <3>2
  <2>2. DOMAIN d' = DOMAIN d /\ \A n \in 1..8 : HeldAt(n)' = HeldAt(n)
    BY <1>1, AssignDomain DEF HeldAt
  <2>3. ASSUME NEW f \in DOMAIN d \ Moods, f \notin lost PROVE d'[f] = d[f]
    <3>1. f \notin DOMAIN assigned
      <4>1. f \in DOMAIN assigned => <<f, assigned[f]>> \in sets
        BY <1>2, <2>3, LiteralFacts DEF Sets
      <4> QED
        BY <4>1, <2>3
    <3> QED
      BY <2>3, <3>1 DEF Assign
  <2>4. "exc" \in lost
    OBVIOUS
  <2> HIDE DEF lost
  <2> QED
    BY <1>1, <1>4, <2>1, <2>2, <2>3, <2>4, NothingElse
<1> QED
  BY <1>1, <1>2, <1>3, <1>4, MoveTaken

LEMMA CancelTaken ==
  ASSUME ControlInv, NEW k, NEW c, NEW i, kind = k, cmd = c, at = i, Cancel
  PROVE  \E m \in DoMoves(Literals[k], PowerOff[k], Program[k][c][i], i, Out(Program[k][c], i)) :
            m.to = at' /\ Taken(m)
<1> DEFINE step == Program[k][c][i]
           jump == Out(Program[k][c], i)
<1>1. exc = None /\ at' = Out(Prog, at) /\ Running({Here.k}) /\ Here.k = "do"
  BY DEF Cancel, Normal, Running, Goes
<1>2. PICK set \in Effects, off \in PowerOff[k] :
        /\ set = Nil \/ (set = Here.set /\ Holds(Here.needs, d))
        /\ Holds(off.needs, Assign(set, d)) /\ d' = Assign(Then(set, off.set), d)
  BY CancelOnce
<1>3. /\ TypeOK /\ Here = step /\ Out(Prog, at) = jump /\ k \in Kind /\ DOMAIN d = DOMAIN Fresh[k]
      /\ DOMAIN step.needs \subseteq DOMAIN d
  BY <1>1, StepFacts DEF ControlInv
<1>4. DOMAIN off.needs \subseteq DOMAIN d
  <2>1. Spelled(k, Literals[k])
    BY <1>3, LiteralAssumption DEF LiteralAssumption
  <2> QED
    BY <1>3, <2>1 DEF Spelled
<1>5. \A m \in CancelMoves(Literals[k], PowerOff[k], step, jump) :
        m \in DoMoves(Literals[k], PowerOff[k], step, i, jump)
  BY DEF DoMoves
<1>6. CASE set = Nil
  <2>1. d' = Assign(off.set, d) /\ Holds(off.needs, d)
    <3>1. DOMAIN Nil = {}
      BY DEF Nil
    <3>2. ASSUME NEW f PROVE f \in DOMAIN Then(Nil, off.set) <=> f \in DOMAIN off.set
      BY <3>1 DEF Then
    <3>3. ASSUME NEW f \in DOMAIN off.set PROVE Then(Nil, off.set)[f] = off.set[f]
      BY <3>1 DEF Then
    <3>4. \A f \in DOMAIN d : Assign(Then(Nil, off.set), d)[f] = Assign(off.set, d)[f]
      BY <3>2, <3>3 DEF Assign
    <3>5. Assign(Then(Nil, off.set), d) = Assign(off.set, d)
      BY <3>4 DEF Assign
    <3>6. \A f \in DOMAIN d : Assign(Nil, d)[f] = d[f]
      BY <3>1 DEF Assign
    <3> QED
      BY <1>2, <1>4, <1>6, <3>5, <3>6 DEF Holds
  <2> DEFINE unless == Erring \cup Unmet(Literals[k], off.needs)
             m == Move(jump, unless, Sets(Literals[k], off.set) \cup {Raises("SystemExit")})
  <2>2. \A x \in unless : ~IsSo(x)
    BY <1>1, <1>3, <1>4, <2>1, NoError, UnmetIsNotSo
  <2>3. Taken(m)
    BY <2>1, <2>2, CancelMoveTaken
  <2>4. m \in CancelMoves(Literals[k], PowerOff[k], step, jump)
    BY DEF CancelMoves
  <2> QED
    BY <1>1, <1>3, <1>5, <2>3, <2>4 DEF Move
<1>7. CASE set = Here.set /\ Holds(Here.needs, d)
  <2> DEFINE unless == Erring \cup Unmet(Literals[k], step.needs)
             assigned == Then(step.set, off.set)
             m == Move(jump, unless, Sets(Literals[k], assigned) \cup {Raises("SystemExit")})
  <2>1. \A x \in unless : ~IsSo(x)
    BY <1>1, <1>3, <1>7, NoError, UnmetIsNotSo
  <2>2. d' = Assign(assigned, d)
    BY <1>2, <1>3, <1>7
  <2>3. Taken(m)
    BY <2>1, <2>2, CancelMoveTaken
  <2>4. m \in CancelMoves(Literals[k], PowerOff[k], step, jump)
    BY DEF CancelMoves
  <2> QED
    BY <1>1, <1>3, <1>5, <2>3, <2>4 DEF Move
<1> QED
  BY <1>2, <1>6, <1>7

(* The moves of the other steps: only what is raised changes, or nothing.  *)
LEMMA GoesTaken ==
  ASSUME TypeOK, UNCHANGED <<d, caught, stage, deployed, held>>,
         NEW to, NEW unless, \A x \in unless : ~IsSo(x), NEW e, exc' = e
  PROVE  Taken(Move(to, unless, {Raises(e)}))
<1>1. IsSo(Raises(e))'
  BY MoodsBecomeSo DEF Raises
<1>2. ASSUME NEW x, x[1] \notin {"exc"}, IsSo(x) PROVE IsSo(x)'
  <2>1. \A n \in 1..8 : HeldAt(n)' = HeldAt(n)
    BY DEF HeldAt
  <2> QED
    BY <1>2, <2>1, NothingElse
<1>3. {"exc"} = {x[1] : x \in {Raises(e)}}
  BY DEF Raises
<1> QED
  BY <1>1, <1>2, <1>3, MoveTaken

LEMMA StaysTaken ==
  ASSUME TypeOK, UNCHANGED <<d, exc, caught, stage, deployed, held>>,
         NEW to, NEW unless, \A x \in unless : ~IsSo(x)
  PROVE  Taken(Move(to, unless, {}))
<1> DEFINE lost == {x[1] : x \in {}}
<1> HIDE DEF lost
<1>1. ASSUME NEW x, x[1] \notin lost, IsSo(x) PROVE IsSo(x)'
  <2>1. \A n \in 1..8 : HeldAt(n)' = HeldAt(n)
    BY DEF HeldAt
  <2> QED
    BY <1>1, <2>1, NothingElse
<1> QED
  BY <1>1, MoveTaken DEF lost

LEMMA RaiseStepTaken ==
  ASSUME ControlInv, NEW k, NEW c, NEW i, kind = k, cmd = c, at = i, NEW n, RaiseStep
  PROVE  \E m \in Moves(Literals[k], PowerOff[k], Program[k][c][i], i,
                        Out(Program[k][c], i), Past(Program[k][c], i), n) : m.to = at' /\ Taken(m)
<1> DEFINE step == Program[k][c][i]
           jump == Out(Program[k][c], i)
<1>1. /\ exc = None /\ UNCHANGED <<d, caught, stage, deployed, held>> /\ Running({Here.k})
      /\ Here.k \in {"raise", "reraise"} /\ exc' = (IF Here.k = "raise" THEN Here.op ELSE caught)
      /\ at' = Out(Prog, at)
  BY DEF RaiseStep, Normal, Running, Goes, Stays
<1>2. TypeOK /\ Here = step /\ at' = jump
  <2>1. Running({Here.k})
    BY <1>1
  <2>2. Here = step /\ Out(Prog, at) = jump
    BY <2>1, StepFacts
  <2> QED
    BY <1>1, <2>2 DEF ControlInv
<1>3. \A x \in Erring : ~IsSo(x)
  BY <1>1, NoError
<1>4. CASE step.k = "raise"
  <2> DEFINE m == Move(jump, Erring, {Raises(step.op)})
  <2>1. Taken(m)
    BY <1>1, <1>2, <1>3, <1>4, GoesTaken
  <2>2. m \in Moves(Literals[k], PowerOff[k], step, i, jump, Past(Program[k][c], i), n)
    BY <1>4 DEF Moves
  <2> QED
    BY <1>2, <2>1, <2>2 DEF Move
<1>5. CASE step.k = "reraise"
  <2> DEFINE m == Copying(jump, Erring, {}, "exc", "caught")
  <2>1. \A n_1 \in 1..8 : HeldAt(n_1)' = HeldAt(n_1)
    BY <1>1 DEF HeldAt
  <2>2. \A x : x[1] \notin {"exc"} /\ IsSo(x) => IsSo(x)'
    BY <1>1, <2>1, NothingElse
  <2>3. ASSUME NEW x, x[1] = "exc", IsSo(<<"caught", x[2]>>) PROVE IsSo(x)'
    <3>1. x[2] = exc'
      BY <1>1, <1>2, <1>5, <2>3, MoodsAreSo
    <3> QED
      BY <2>3, <3>1 DEF IsSo
  <2>4. {"exc"} = {"exc"} \cup {x[1] : x \in {}}
    OBVIOUS
  <2>5. Taken(m)
    BY <1>3, <2>2, <2>3, <2>4, CopyTaken
  <2>6. m \in Moves(Literals[k], PowerOff[k], step, i, jump, Past(Program[k][c], i), n)
    BY <1>5 DEF Moves
  <2> QED
    BY <1>2, <2>5, <2>6 DEF Copying
<1> QED
  BY <1>1, <1>2, <1>4, <1>5

LEMMA BranchTaken ==
  ASSUME ControlInv, NEW k, NEW c, NEW i, kind = k, cmd = c, at = i, NEW n, Branch
  PROVE  \E m \in Moves(Literals[k], PowerOff[k], Program[k][c][i], i,
                        Out(Program[k][c], i), Past(Program[k][c], i), n) : m.to = at' /\ Taken(m)
<1> DEFINE step == Program[k][c][i]
           jump == Out(Program[k][c], i)
           past == Past(Program[k][c], i)
           all == Moves(Literals[k], PowerOff[k], step, i, jump, past, n)
<1> SUFFICES \E m \in all : m.to = at' /\ Taken(m)
  OBVIOUS
<1>1. /\ exc = None /\ Running({Here.k})
      /\ UNCHANGED <<d, exc, caught, stage, deployed, held>>
  BY DEF Branch, Normal, Running, Stays
<1>2. /\ TypeOK /\ Here = step /\ Prog = Program[k][c] /\ kind \in Kind
      /\ step.k = "if" => DOMAIN step.needs \subseteq DOMAIN d
  <2>1. Here = step /\ Prog = Program[k][c] /\ k \in Kind
    BY <1>1, StepFacts
  <2>2. Here.k = "if" => DOMAIN Here.needs \subseteq DOMAIN d
    BY <1>1, StepFacts
  <2> QED
    BY <2>1, <2>2 DEF ControlInv
<1>3. \A x \in Erring : ~IsSo(x)
  BY <1>1, NoError
<1>4. ASSUME NEW to, at' = to, Move(to, Erring, {}) \in all PROVE \E m \in all : m.to = at' /\ Taken(m)
  <2>1. Taken(Move(to, Erring, {}))
    BY <1>1, <1>2, <1>3, StaysTaken
  <2>2. Move(to, Erring, {}).to = to
    BY DEF Move
  <2> HIDE DEF all
  <2> QED
    BY <1>4, <2>1, <2>2
<1>5. CASE step.k = "if"
  <2>1. at' = IF Holds(step.needs, d) THEN i + 1 ELSE past + 1
    BY <1>2, <1>5 DEF Branch, Normal, Running
  <2>2. CASE Holds(step.needs, d)
    <3> DEFINE m == Move(i + 1, Erring \cup Unmet(Literals[k], step.needs), {})
    <3>1. \A x \in Unmet(Literals[k], step.needs) : ~IsSo(x)
      BY <1>2, <1>5, <2>2, UnmetIsNotSo
    <3>2. Taken(m)
      BY <1>1, <1>2, <1>3, <3>1, StaysTaken
    <3>3. m \in all
      BY <1>5 DEF Moves
    <3> QED
      BY <2>1, <2>2, <3>2, <3>3 DEF Move
  <2>3. CASE ~Holds(step.needs, d)
    <3>1. PICK f \in DOMAIN step.needs : d[f] # step.needs[f]
      BY <1>2, <1>5, <2>3 DEF Holds
    <3> DEFINE m == Move(past + 1, Erring \cup {<<f, step.needs[f]>>}, {})
    <3>2. f \in DOMAIN d /\ f \notin Moods
      BY <1>2, <1>5, <3>1, LiteralFacts DEF TypeOK
    <3>3. ~IsSo(<<f, step.needs[f]>>)
      BY <3>1, <3>2, LevelFacts DEF IsSo, Moods
    <3>4. Taken(m)
      BY <1>1, <1>2, <1>3, <3>3, StaysTaken
    <3>5. m \in all
      BY <1>5, <3>1 DEF Moves
    <3> QED
      BY <2>1, <2>3, <3>4, <3>5 DEF Move
  <2> QED
    BY <2>2, <2>3
<1>6. CASE step.k = "either"
  <2>1. at' \in {i + 1, past + 1}
    BY <1>2, <1>6 DEF Branch, Normal, Running
  <2>2. Move(i + 1, Erring, {}) \in all /\ Move(past + 1, Erring, {}) \in all
    BY <1>6 DEF Moves
  <2> HIDE DEF all
  <2> QED
    BY <1>4, <2>1, <2>2
<1>7. CASE step.k = "else" \/ step.k = "except"
  <2>1. at' = past + 1
    BY <1>2, <1>7 DEF Branch, Normal, Running
  <2>2. Move(past + 1, Erring, {}) \in all
    BY <1>7 DEF Moves
  <2> HIDE DEF all
  <2> QED
    BY <1>4, <2>1, <2>2
<1>8. CASE step.k = "end"
  <2>1. at' = i + 1
    BY <1>2, <1>8 DEF Branch, Normal, Running
  <2>2. Move(i + 1, Erring, {}) \in all
    BY <1>8 DEF Moves
  <2> HIDE DEF all
  <2> QED
    BY <1>4, <2>1, <2>2
<1>9. step.k \in {"if", "either", "else", "except", "end"}
  BY <1>2 DEF Branch, Normal, Running
<1> QED
  BY <1>5, <1>6, <1>7, <1>8, <1>9

LEMMA CatchTaken ==
  ASSUME ControlInv, NEW k, NEW c, NEW i, kind = k, cmd = c, at = i, NEW n, Catch
  PROVE  \E m \in Moves(Literals[k], PowerOff[k], Program[k][c][i], i,
                        Out(Program[k][c], i), Past(Program[k][c], i), n) : m.to = at' /\ Taken(m)
<1> DEFINE step == Program[k][c][i]
           jump == Out(Program[k][c], i)
           all == Moves(Literals[k], PowerOff[k], step, i, jump, Past(Program[k][c], i), n)
<1> SUFFICES \E m \in all : m.to = at' /\ Taken(m)
  OBVIOUS
<1>1. /\ exc # None /\ Running({Here.k}) /\ Here.k = "except"
      /\ UNCHANGED <<d, stage, deployed, held>>
      /\ IF exc \in Here.raises THEN caught' = exc /\ exc' = None /\ at' = at + 1
                                ELSE UNCHANGED caught /\ exc' = exc /\ at' = Out(Prog, at)
  BY DEF Catch, Running, Goes, Stays
<1>2. TypeOK /\ Here = step /\ Out(Prog, at) = jump
  <2>1. Running({Here.k})
    BY <1>1
  <2>2. Here = step /\ Out(Prog, at) = jump
    BY <2>1, StepFacts
  <2> QED
    BY <2>2 DEF ControlInv
<1>3. \A n_1 \in 1..8 : HeldAt(n_1)' = HeldAt(n_1)
  BY <1>1 DEF HeldAt
<1>4. CASE exc \in step.raises
  <2> DEFINE m == Copying(i + 1, {Raises(e) : e \in Excs \ step.raises}, {Raises(None)}, "caught", "exc")
             lost == {"caught"} \cup {x[1] : x \in {Raises(None)}}
  <2>1. caught' = exc /\ exc' = None /\ at' = i + 1
    BY <1>1, <1>2, <1>4
  <2>2. ASSUME NEW e \in Excs \ step.raises PROVE ~IsSo(Raises(e))
    BY <1>4, MoodsAreSo DEF Raises
  <2>3. IsSo(Raises(None))'
    BY <2>1, MoodsBecomeSo DEF Raises
  <2>4. "exc" \in lost /\ "caught" \in lost
    BY DEF Raises
  <2>5. ASSUME NEW x, x[1] = "caught", IsSo(<<"exc", x[2]>>) PROVE IsSo(x)'
    <3>1. x[2] = caught'
      BY <2>1, <2>5, MoodsAreSo
    <3> QED
      BY <2>5, <3>1 DEF IsSo
  <2> HIDE DEF lost
  <2>6. \A x : x[1] \notin lost /\ IsSo(x) => IsSo(x)'
    BY <1>1, <1>3, <2>4, NothingElse
  <2>7. Taken(m)
    BY <2>2, <2>3, <2>5, <2>6, CopyTaken DEF lost
  <2>8. m \in all
    BY <1>1, <1>2 DEF Moves
  <2> QED
    BY <2>1, <2>7, <2>8 DEF Copying
<1>5. CASE exc \notin step.raises
  <2> DEFINE m == Move(jump, {Raises(e) : e \in {None} \cup step.raises}, {})
  <2>1. UNCHANGED <<exc, caught>> /\ at' = jump
    BY <1>1, <1>2, <1>5
  <2>2. ASSUME NEW e \in {None} \cup step.raises PROVE ~IsSo(Raises(e))
    <3>1. e # exc
      BY <1>1, <1>5
    <3> QED
      BY <3>1, MoodsAreSo DEF Raises
  <2>3. Taken(m)
    BY <1>1, <1>2, <2>1, <2>2, StaysTaken
  <2>4. m \in all
    BY <1>1, <1>2 DEF Moves
  <2> QED
    BY <2>1, <2>3, <2>4 DEF Move
<1> QED
  BY <1>4, <1>5

LEMMA PropagateTaken ==
  ASSUME ControlInv, NEW k, NEW c, NEW i, kind = k, cmd = c, at = i, NEW n, Propagate
  PROVE  \E m \in Moves(Literals[k], PowerOff[k], Program[k][c][i], i,
                        Out(Program[k][c], i), Past(Program[k][c], i), n) : m.to = at' /\ Taken(m)
<1> DEFINE step == Program[k][c][i]
           jump == Out(Program[k][c], i)
           m == Move(jump, {Raises(None)}, {})
<1>1. /\ exc # None /\ Running({Here.k})
      /\ UNCHANGED <<d, exc, caught, stage, deployed, held>>
      /\ Here.k \in {"else", "end"} /\ at' = Out(Prog, at)
  BY DEF Propagate, Running, Goes, Stays
<1>2. TypeOK /\ Here = step /\ at' = jump
  <2>1. Running({Here.k})
    BY <1>1
  <2>2. Here = step /\ Out(Prog, at) = jump
    BY <2>1, StepFacts
  <2> QED
    BY <1>1, <2>2 DEF ControlInv
<1>3. ~IsSo(Raises(None))
  BY <1>1, MoodsAreSo DEF Raises
<1>4. Taken(m)
  BY <1>1, <1>2, <1>3, StaysTaken
<1>5. m \in Moves(Literals[k], PowerOff[k], step, i, jump, Past(Program[k][c], i), n)
  <2>1. CASE step.k = "else"
    BY <2>1 DEF Moves
  <2>2. CASE step.k = "end"
    BY <2>2 DEF Moves
  <2> QED
    BY <1>1, <1>2, <2>1, <2>2
<1> QED
  BY <1>2, <1>4, <1>5 DEF Move

LEMMA EnterFinallyTaken ==
  ASSUME ControlInv, NEW k, NEW c, NEW i, kind = k, cmd = c, at = i,
         NEW len, len = Len(held), NEW n, n = len + 1, EnterFinally
  PROVE  \E m \in Moves(Literals[k], PowerOff[k], Program[k][c][i], i,
                        Out(Program[k][c], i), Past(Program[k][c], i), len) : m.to = at' /\ Taken(m)
<1> DEFINE step == Program[k][c][i]
           m == Copying(i + 1, {}, {Raises(None)}, Level[n], "exc")
           lost == {Level[n]} \cup {x[1] : x \in {Raises(None)}}
<1>1. /\ UNCHANGED <<d, caught, stage, deployed>> /\ Running({Here.k}) /\ Here.k = "finally"
      /\ held' = <<exc>> \o held /\ exc' = None /\ at' = i + 1
  BY DEF EnterFinally, Running, Stays
<1>2. /\ Here = step /\ len = Depth(Program[k][c])[i] /\ held \in Seq(Excs) /\ len \in 0..8
      /\ k \in Kind /\ c \in DOMAIN Program[k] /\ i \in DOMAIN Program[k][c] /\ exc \in Excs
  <2>1. Running({Here.k})
    BY <1>1
  <2> QED
    BY <2>1, StepFacts
<1>3. n \in 1..8
  <2>1. WellNestedAt(Program[k][c], Depth(Program[k][c]), i) /\ Len(Program[k][c]) \in Nat
        /\ DOMAIN Program[k][c] = 1..Len(Program[k][c])
    BY <1>2, ScriptAssumption DEF ScriptAssumption, WellNested
  <2>2. Depth(Program[k][c])[i + 1] = n
    BY <1>1, <1>2, <2>1 DEF WellNestedAt
  <2>3. ScriptSpelled(k, Literals[k], Program[k][c])
    BY <1>2, LiteralAssumption DEF LiteralAssumption
  <2>4. i + 1 \in DOMAIN Depth(Program[k][c])
    BY <1>2, <2>1 DEF Depth
  <2>5. n <= 8
    BY <2>2, <2>3, <2>4, LevelFacts DEF ScriptSpelled
  <2> QED
    BY <1>2, <2>5
<1>4. ASSUME NEW j \in 1..8 PROVE HeldAt(j)' = IF j = n THEN exc ELSE HeldAt(j)
  <2>1. Len(held') = n /\ held'[1] = exc /\ \A a \in 1..len : held'[a + 1] = held[a]
    <3>1. held \in Seq(Excs) /\ exc \in Excs /\ held' = <<exc>> \o held
      BY <1>1, <1>2
    <3> QED
      BY <3>1
  <2>0. len \in 0..8
    BY <1>2
  <2>2. CASE j = n
    BY <2>1, <2>2, <2>0 DEF HeldAt
  <2>3. CASE j < n
    <3>1. len - j + 1 \in 1..len /\ Len(held') - j + 1 = (len - j + 1) + 1
      BY <2>0, <2>1, <2>3
    <3>2. held'[Len(held') - j + 1] = held[len - j + 1]
      BY <2>1, <3>1
    <3> QED
      BY <2>0, <2>1, <2>3, <3>2 DEF HeldAt
  <2>4. CASE j > n
    BY <2>0, <2>1, <2>4 DEF HeldAt
  <2> QED
    BY <2>0, <2>2, <2>3, <2>4
<1>5. IsSo(Raises(None))'
  BY <1>1, MoodsBecomeSo DEF Raises
<1>6. "exc" \in lost /\ Level[n] \in lost
  BY DEF Raises
<1>7. ASSUME NEW x, x[1] = Level[n], IsSo(<<"exc", x[2]>>) PROVE IsSo(x)'
  <2>1. x[2] = HeldAt(n)'
    <3>1. x[2] = exc
      BY <1>7, MoodsAreSo
    <3> QED
      BY <1>3, <1>4, <3>1
  <2> QED
    BY <1>3, <1>7, <2>1, LevelFacts DEF IsSo
<1> HIDE DEF lost
<1>8. \A j \in 1..8 : Level[j] \in lost \/ HeldAt(j)' = HeldAt(j)
  BY <1>4, <1>6
<1>9. \A x : x[1] \notin lost /\ IsSo(x) => IsSo(x)'
  BY <1>1, <1>6, <1>8, NothingElse
<1>10. Taken(m)
  BY <1>5, <1>7, <1>9, CopyTaken DEF lost
<1>11. m \in Moves(Literals[k], PowerOff[k], step, i, Out(Program[k][c], i),
                   Past(Program[k][c], i), len)
  BY <1>1, <1>2 DEF Moves
<1> QED
  BY <1>1, <1>10, <1>11 DEF Copying

LEMMA LeaveFinallyTaken ==
  ASSUME ControlInv, NEW k, NEW c, NEW i, kind = k, cmd = c, at = i,
         NEW n, n = Len(held), LeaveFinally
  PROVE  \E m \in Moves(Literals[k], PowerOff[k], Program[k][c][i], i,
                        Out(Program[k][c], i), Past(Program[k][c], i), n) : m.to = at' /\ Taken(m)
<1> DEFINE step == Program[k][c][i]
           jump == Out(Program[k][c], i)
           all == Moves(Literals[k], PowerOff[k], step, i, jump, Past(Program[k][c], i), n)
           e == IF exc # None THEN exc ELSE Head(held)
<1> SUFFICES \E m \in all : m.to = at' /\ Taken(m)
  OBVIOUS
<1>1. /\ UNCHANGED <<d, caught, stage, deployed>> /\ Running({Here.k}) /\ Here.k = "resume"
      /\ held' = Tail(held)
      /\ IF e = None THEN exc' = None /\ at' = at + 1 ELSE exc' = e /\ at' = Out(Prog, at)
  BY DEF LeaveFinally, Running, Stays, Goes
<1>2. /\ Here = step /\ n = Depth(Program[k][c])[i] /\ held \in Seq(Excs) /\ n \in 0..8
      /\ k \in Kind /\ c \in DOMAIN Program[k] /\ i \in DOMAIN Program[k][c] /\ Out(Prog, at) = jump
      /\ exc \in Excs
  <2>1. Running({Here.k})
    BY <1>1
  <2> QED
    BY <2>1, StepFacts
<1>3. n \in 1..8
  <2>1. WellNestedAt(Program[k][c], Depth(Program[k][c]), i)
    BY <1>2, ScriptAssumption DEF ScriptAssumption, WellNested
  <2>2. n > 0
    BY <1>1, <1>2, <2>1 DEF WellNestedAt
  <2> QED
    BY <1>2, <2>2
<1>4. HeldAt(n) = Head(held) /\ HeldAt(n)' = None
  <2>1. Len(held') = n - 1
    <3>1. held \in Seq(Excs) /\ held' = Tail(held)
      BY <1>1, <1>2
    <3> QED
      BY <1>3, <3>1
  <2> QED
    BY <1>2, <1>3, <2>1 DEF HeldAt
<1>5. ASSUME NEW j \in 1..8, j # n PROVE HeldAt(j)' = HeldAt(j)
  <2>1. Len(held') = n - 1 /\ \A a \in 1..(n - 1) : held'[a] = held[a + 1]
    <3>1. held \in Seq(Excs) /\ held' = Tail(held)
      BY <1>1, <1>2
    <3> QED
      BY <1>3, <3>1
  <2>2. CASE j < n
    <3>1. (n - 1) - j + 1 \in 1..(n - 1) /\ n - j + 1 = ((n - 1) - j + 1) + 1
      BY <1>3, <2>2
    <3>2. held'[(n - 1) - j + 1] = held[n - j + 1]
      BY <2>1, <3>1
    <3> QED
      BY <1>3, <2>1, <2>2, <3>2 DEF HeldAt
  <2>3. CASE j > n
    BY <1>3, <2>1, <2>3 DEF HeldAt
  <2> QED
    BY <1>3, <1>5, <2>2, <2>3
<1>7. CASE exc = None /\ Head(held) = None
  <2> DEFINE m == Move(i + 1, Erring \cup {<<Level[n], a>> : a \in Excs \ {None}}, {})
             lost == {x[1] : x \in {}}
  <2>1. exc' = exc /\ at' = i + 1
    BY <1>1, <1>7
  <2>2. \A j \in 1..8 : HeldAt(j)' = HeldAt(j)
    BY <1>4, <1>5, <1>7
  <2>3. \A a \in Excs \ {None} : ~IsSo(<<Level[n], a>>)
    BY <1>3, <1>4, <1>7, LevelsAreSo
  <2>4. \A x \in Erring : ~IsSo(x)
    BY <1>7, NoError
  <2> HIDE DEF lost
  <2>5. \A x : x[1] \notin lost /\ IsSo(x) => IsSo(x)'
    BY <1>1, <2>1, <2>2, NothingElse
  <2>6. Taken(m)
    BY <2>3, <2>4, <2>5, MoveTaken DEF lost, ControlInv
  <2>7. m \in all
    BY <1>1, <1>2 DEF Moves
  <2> QED
    BY <2>1, <2>6, <2>7 DEF Move
<1>8. CASE exc = None /\ Head(held) # None
  <2> DEFINE x0 == <<Level[n], None>>
             m == Copying(jump, Erring \cup {x0}, {x0}, "exc", Level[n])
             lost == {"exc"} \cup {x[1] : x \in {x0}}
  <2>1. exc' = Head(held) /\ at' = jump
    BY <1>1, <1>2, <1>8
  <2>2. ~IsSo(x0) /\ IsSo(x0)'
    BY <1>3, <1>4, <1>8, LevelsAreSo
  <2>3. \A x \in Erring : ~IsSo(x)
    BY <1>8, NoError
  <2>4. "exc" \in lost /\ Level[n] \in lost
    OBVIOUS
  <2>5. ASSUME NEW x, x[1] = "exc", IsSo(<<Level[n], x[2]>>) PROVE IsSo(x)'
    <3>1. x[2] = exc'
      BY <1>3, <1>4, <2>1, <2>5, LevelsAreSo
    <3> QED
      BY <2>5, <3>1 DEF IsSo
  <2> HIDE DEF lost
  <2>6. \A x : x[1] \notin lost /\ IsSo(x) => IsSo(x)'
    BY <1>1, <1>5, <2>4, NothingElse
  <2>7. Taken(m)
    BY <2>2, <2>3, <2>5, <2>6, CopyTaken DEF lost
  <2>8. m \in all
    BY <1>1, <1>2 DEF Moves
  <2> QED
    BY <2>1, <2>7, <2>8 DEF Copying
<1>9. CASE exc # None
  <2> DEFINE x0 == <<Level[n], None>>
             m == Move(jump, {Raises(None)}, {x0})
             lost == {x[1] : x \in {x0}}
  <2>1. exc' = exc /\ at' = jump
    BY <1>1, <1>2, <1>9
  <2>2. IsSo(x0)'
    BY <1>3, <1>4, LevelsAreSo
  <2>3. ~IsSo(Raises(None))
    BY <1>9, MoodsAreSo DEF Raises
  <2>4. Level[n] \in lost
    OBVIOUS
  <2> HIDE DEF lost
  <2>5. \A x : x[1] \notin lost /\ IsSo(x) => IsSo(x)'
    BY <1>1, <1>5, <2>1, <2>4, NothingElse
  <2>6. Taken(m)
    BY <2>2, <2>3, <2>5, MoveTaken DEF lost, ControlInv
  <2>7. m \in all
    BY <1>1, <1>2 DEF Moves
  <2> QED
    BY <2>1, <2>6, <2>7 DEF Move
<1> QED
  BY <1>7, <1>8, <1>9

LEMMA StepTaken ==
  ASSUME ControlInv, NEW h, NEW k, NEW c, NEW i,
         kind = k, cmd = c, at = i, NEW n, n = Len(held),
         Perform \/ Fail \/ CannotWork \/ Cancel \/ RaiseStep \/ Branch \/ Catch \/ Propagate
           \/ EnterFinally \/ LeaveFinally
  PROVE  \E m \in Moves(Literals[k], PowerOff[k], Program[k][c][i], i,
                        Out(Program[k][c], i), Past(Program[k][c], i), n) : m.to = at' /\ Taken(m)
<1> DEFINE step == Program[k][c][i]
           all == Moves(Literals[k], PowerOff[k], step, i,
                        Out(Program[k][c], i), Past(Program[k][c], i), n)
           do == DoMoves(Literals[k], PowerOff[k], step, i, Out(Program[k][c], i))
<1>1. ASSUME Perform \/ Fail \/ CannotWork \/ Cancel PROVE all = do
  <2>1. Running({Here.k}) /\ Here.k = "do"
    BY <1>1 DEF Perform, Fail, CannotWork, Cancel, Normal, Running
  <2>2. step.k = "do"
    BY <2>1, StepFacts
  <2> QED
    BY <2>2 DEF Moves
<1> SUFFICES \E m \in all : m.to = at' /\ Taken(m)
  OBVIOUS
<1>2. CASE Perform
  <2>1. \E m \in do : m.to = at' /\ Taken(m)
    BY <1>2, PerformTaken
  <2> QED
    BY <1>1, <1>2, <2>1
<1>3. CASE Fail
  <2>1. \E m \in do : m.to = at' /\ Taken(m)
    BY <1>3, FailTaken
  <2> QED
    BY <1>1, <1>3, <2>1
<1>4. CASE CannotWork
  <2>1. \E m \in do : m.to = at' /\ Taken(m)
    BY <1>4, CannotWorkTaken
  <2> QED
    BY <1>1, <1>4, <2>1
<1>5. CASE Cancel
  <2>1. \E m \in do : m.to = at' /\ Taken(m)
    BY <1>5, CancelTaken
  <2> QED
    BY <1>1, <1>5, <2>1
<1>6. CASE RaiseStep
  BY <1>6, RaiseStepTaken
<1>7. CASE Branch
  BY <1>7, BranchTaken
<1>8. CASE Catch
  BY <1>8, CatchTaken
<1>9. CASE Propagate
  BY <1>9, PropagateTaken
<1>10. CASE EnterFinally
  BY <1>10, EnterFinallyTaken
<1>11. CASE LeaveFinally
  BY <1>11, LeaveFinallyTaken
<1> QED
  BY <1>2, <1>3, <1>4, <1>5, <1>6, <1>7, <1>8, <1>9, <1>10, <1>11

(* A step goes on, or to where what is raised goes, or past a block.       *)
LEMMA StepGoes ==
  ASSUME NEW p, NEW i, Prog = p, at = i,
         Perform \/ Fail \/ CannotWork \/ Cancel \/ RaiseStep \/ Branch \/ Catch \/ Propagate
           \/ EnterFinally \/ LeaveFinally
  PROVE  /\ \/ at' \in {i + 1, Out(p, i)}
            \/ p[i].k \in {"if", "either", "else", "except"} /\ at' = Past(p, i) + 1
         /\ cmd # "idle" /\ at <= Len(Prog) /\ UNCHANGED <<kind, cmd, out>>
<1>1. ASSUME Perform \/ Fail \/ CannotWork \/ Cancel
      PROVE  /\ at' \in {i + 1, Out(p, i)}
             /\ cmd # "idle" /\ at <= Len(Prog) /\ UNCHANGED <<kind, cmd, out>>
  BY <1>1 DEF Perform, Fail, CannotWork, Cancel, Normal, Running, Goes, Stays
<1>2. ASSUME RaiseStep \/ Catch \/ Propagate \/ EnterFinally
      PROVE  /\ at' \in {i + 1, Out(p, i)}
             /\ cmd # "idle" /\ at <= Len(Prog) /\ UNCHANGED <<kind, cmd, out>>
  BY <1>2 DEF RaiseStep, Catch, Propagate, EnterFinally, Normal, Running, Goes, Stays
<1>3. ASSUME LeaveFinally
      PROVE  /\ at' \in {i + 1, Out(p, i)}
             /\ cmd # "idle" /\ at <= Len(Prog) /\ UNCHANGED <<kind, cmd, out>>
  BY <1>3 DEF LeaveFinally, Running, Goes, Stays
<1>4. CASE Branch
  <2>1. cmd # "idle" /\ at <= Len(Prog) /\ UNCHANGED <<kind, cmd, out>>
    BY <1>4 DEF Branch, Normal, Running, Stays
  <2>2. Here = p[i]
    BY DEF Here
  <2>3. \/ Here.k = "if" /\ at' = IF Holds(Here.needs, d) THEN i + 1 ELSE Past(p, i) + 1
        \/ Here.k = "either" /\ at' \in {i + 1, Past(p, i) + 1}
        \/ Here.k \in {"else", "except"} /\ at' = Past(p, i) + 1
        \/ at' = i + 1
    BY <1>4 DEF Branch, Normal, Running
  <2> QED
    BY <2>1, <2>2, <2>3
<1> QED
  BY <1>1, <1>2, <1>3, <1>4

LEMMA StartTaken ==
  ASSUME ControlInv, NEW c \in DOMAIN Program[kind], Start(c) PROVE Taken(StartMove(c))
<1> DEFINE unless == {<<"stage", w>> : w \in {x \in Stages : ~Legal(c, x, "ok")}}
                     \cup (IF c \in Calls \cup Deploys THEN {} ELSE {<<"deployed", None>>})
           set == Quiet \cup (IF c \in Deploys THEN {<<"deployed", "running">>} ELSE {})
           lost == {x[1] : x \in set}
<1>1. /\ UNCHANGED <<d, stage, exc, caught, held>> /\ deployed' = Begun(c, deployed)
      /\ exc = None /\ caught = None /\ held = << >> /\ Legal(c, stage, deployed)
  BY DEF Start, ControlInv, HeldInv
<1>2. \A n \in 1..8 : HeldAt(n) = None /\ HeldAt(n)' = None
  BY <1>1 DEF HeldAt
<1>3. \A x \in unless : ~IsSo(x)
  <2>1. Legal(c, stage, "ok")
    BY <1>1 DEF Legal, None
  <2>2. c \notin Calls \cup Deploys => deployed # None
    BY <1>1 DEF Legal, Calls
  <2>3. \A w : ~Legal(c, w, "ok") => ~IsSo(<<"stage", w>>)
    BY <2>1, MoodsAreSo
  <2>4. c \notin Calls \cup Deploys => ~IsSo(<<"deployed", None>>)
    BY <2>2, MoodsAreSo
  <2> QED
    BY <2>3, <2>4
<1>4. \A x \in Quiet : IsSo(x)'
  <2>1. IsSo(<<"exc", None>>)' /\ IsSo(<<"caught", None>>)'
    BY <1>1, MoodsBecomeSo
  <2>2. \A a \in Levels : IsSo(<<a, None>>)'
    BY <1>2, LevelsAreSo, LevelFacts
  <2> QED
    BY <2>1, <2>2 DEF Quiet, Raises
<1>5. \A x \in set : IsSo(x)'
  <2>1. c \in Deploys => IsSo(<<"deployed", "running">>)'
    BY <1>1, MoodsBecomeSo DEF Begun
  <2> QED
    BY <1>4, <2>1
<1>6. "deployed" \in lost \/ deployed' = deployed
  <2>1. CASE c \in Deploys
    <3>1. <<"deployed", "running">> \in set
      BY <2>1
    <3> QED
      BY <3>1
  <2> QED
    BY <1>1, <2>1 DEF Begun
<1>7. TypeOK
  BY DEF ControlInv
<1> HIDE DEF lost
<1>8. \A x : x[1] \notin lost /\ IsSo(x) => IsSo(x)'
  BY <1>1, <1>2, <1>6, NothingElse
<1> HIDE DEF unless, set
<1>9. Taken(Move(1, unless, set))
  BY <1>3, <1>5, <1>7, <1>8, MoveTaken DEF lost
<1> QED
  BY <1>9 DEF StartMove, unless, set

LEMMA ReturnTaken ==
  ASSUME ControlInv, NEW c, cmd = c, Return
  PROVE  \E m \in ReturnMoves(c) : m.to = Rest /\ Taken(m)
<1> DEFINE Barring(way, time) ==
             {Raises(e) : e \in Excs \ way[2]} \cup {<<"stage", w>> : w \in Stages \ time[2]}
           Set(way, time) ==
             {Raises(None), <<"caught", None>>, <<"stage", Becomes(c, way[1], time[1])>>}
               \cup (IF c \in Deploys THEN {<<"deployed", Ended(c, way[1], None)>>} ELSE {})
<1>1. /\ UNCHANGED <<d, held>> /\ exc' = None /\ caught' = None
      /\ stage' = Becomes(c, exc, stage) /\ deployed' = Ended(c, exc, deployed)
      /\ exc \in Excs /\ stage \in Stages /\ TypeOK
  BY DEF Return, ControlInv, TypeOK, Stages
<1>2. PICK way \in Ways : exc \in way[2]
  <2>1. None \in Tolerated
    BY DEF Tolerated
  <2>2. CASE exc = None
    BY <2>2 DEF Ways
  <2>3. CASE exc \in Tolerated \ {None}
    BY <2>3 DEF Ways
  <2>4. CASE exc \notin Tolerated
    BY <1>1, <2>4 DEF Ways
  <2> QED
    BY <2>1, <2>2, <2>3, <2>4
<1>3. (exc = None <=> way[1] = None) /\ (exc \in Tolerated <=> way[1] \in Tolerated)
  <2>1. None \in Tolerated /\ "TIMEOUT" \in Tolerated \ {None} /\ "SystemExit" \notin Tolerated
    BY DEF Tolerated, None
  <2>2. CASE way = <<None, {None}>>
    BY <1>2, <2>1, <2>2
  <2>3. CASE way = <<"TIMEOUT", Tolerated \ {None}>>
    BY <1>2, <2>1, <2>3
  <2>4. CASE way = <<"SystemExit", Excs \ Tolerated>>
    BY <1>2, <2>1, <2>4
  <2> QED
    BY <1>2, <2>2, <2>3, <2>4 DEF Ways
<1>4. PICK time \in Times : stage \in time[2] /\ (stage = "run" <=> time[1] = "run")
  <2>1. CASE stage = "run"
    BY <2>1 DEF Times
  <2>2. CASE stage # "run"
    BY <1>1, <2>2 DEF Times
  <2> QED
    BY <2>1, <2>2
<1>5. stage' = Becomes(c, way[1], time[1])
  BY <1>1, <1>3, <1>4 DEF Becomes
<1>6. IF c \in Deploys THEN deployed' = Ended(c, way[1], None) ELSE deployed' = deployed
  BY <1>1, <1>3 DEF Ended
<1> DEFINE unless == Barring(way, time)
           set == Set(way, time)
           lost == {x[1] : x \in set}
           m == Move(Rest, unless, set)
<1>7. \A x \in unless : ~IsSo(x)
  <2>1. \A e \in Excs \ way[2] : ~IsSo(Raises(e))
    BY <1>2, MoodsAreSo DEF Raises
  <2>2. \A w \in Stages \ time[2] : ~IsSo(<<"stage", w>>)
    BY <1>4, MoodsAreSo
  <2> QED
    BY <2>1, <2>2
<1>8. \A x \in set : IsSo(x)'
  <2>1. IsSo(Raises(None))' /\ IsSo(<<"caught", None>>)' /\ IsSo(<<"stage", Becomes(c, way[1], time[1])>>)'
    BY <1>1, <1>5, MoodsBecomeSo DEF Raises
  <2>2. c \in Deploys => IsSo(<<"deployed", Ended(c, way[1], None)>>)'
    BY <1>6, MoodsBecomeSo
  <2> QED
    BY <2>1, <2>2
<1>9. "exc" \in lost /\ "caught" \in lost /\ "stage" \in lost /\ ("deployed" \in lost \/ deployed' = deployed)
  <2>1. Raises(None) \in set /\ <<"caught", None>> \in set
    OBVIOUS
  <2>2. <<"stage", Becomes(c, way[1], time[1])>> \in set
    OBVIOUS
  <2>3. c \in Deploys => <<"deployed", Ended(c, way[1], None)>> \in set
    OBVIOUS
  <2> HIDE DEF set
  <2> QED
    BY <1>6, <2>1, <2>2, <2>3 DEF Raises
<1>10. m \in ReturnMoves(c)
  <2>1. m = ReturnMove(c, way, time)
    BY DEF ReturnMove
  <2> HIDE DEF m
  <2> QED
    BY <2>1 DEF ReturnMoves
<1>11. m.to = Rest
  BY DEF Move
<1> HIDE DEF lost
<1>12. \A n \in 1..8 : HeldAt(n)' = HeldAt(n)
  BY <1>1 DEF HeldAt
<1>13. \A x : x[1] \notin lost /\ IsSo(x) => IsSo(x)'
  BY <1>1, <1>9, <1>12, NothingElse
<1> HIDE DEF unless, set
<1>14. Taken(Move(Rest, unless, set))
  BY <1>1, <1>7, <1>8, <1>13, MoveTaken DEF lost
<1> QED
  BY <1>10, <1>11, <1>14

(* The world has the values that its literals name.                        *)
LEMMA WorldInvInit ==
  ASSUME Init PROVE WorldInv
<1>1. kind \in Kind /\ d = Fresh[kind]
  BY DEF Init
<1>2. Spelled(kind, Literals[kind])
  BY <1>1, LiteralAssumption DEF LiteralAssumption
<1> QED
  BY <1>1, <1>2 DEF Spelled, WorldInv

LEMMA StepKeepsWorld ==
  ASSUME ControlInv, WorldInv, [Next]_vars PROVE WorldInv'
<1>1. ASSUME UNCHANGED <<kind, d>> PROVE WorldInv'
  BY <1>1 DEF WorldInv
<1>2. ASSUME NEW k, kind = k, kind' = kind, NEW set, d' = Assign(set, d),
             \A f \in DOMAIN set \cap DOMAIN d : <<f, set[f]>> \in Literals[k][f]
      PROVE  WorldInv'
  <2>1. DOMAIN d' = DOMAIN d /\ \A f \in DOMAIN d : d'[f] = IF f \in DOMAIN set THEN set[f] ELSE d[f]
    BY <1>2 DEF Assign
  <2> QED
    BY <1>2, <2>1 DEF WorldInv
<1>3. CASE Perform
  <2>1. Running({Here.k}) /\ kind' = kind /\ d' = Assign(Here.set, d)
    BY <1>3 DEF Perform, Normal, Running, Stays
  <2>2. PICK k, set : k = kind /\ set = Here.set
    OBVIOUS
  <2>3. \A f \in DOMAIN set \cap DOMAIN d : <<f, set[f]>> \in Literals[k][f]
    BY <2>1, <2>2, StepFacts
  <2> QED
    BY <1>2, <2>1, <2>2, <2>3
<1>4. CASE Cancel
  <2>1. PICK set \in Effects, off \in PowerOff[kind] :
          (set = Nil \/ set = Here.set) /\ d' = Assign(Then(set, off.set), d)
    BY <1>4, CancelOnce
  <2>2. kind \in Kind /\ DOMAIN d = DOMAIN Fresh[kind] /\ kind' = kind
    BY <1>4 DEF Cancel, ControlInv, TypeOK
  <2>3. Spelled(kind, Literals[kind])
    BY <2>2, LiteralAssumption DEF LiteralAssumption
  <2>4. \A f \in DOMAIN off.set \cap DOMAIN d : <<f, off.set[f]>> \in Literals[kind][f]
    BY <2>1, <2>2, <2>3 DEF Spelled
  <2>5. Running({Here.k}) /\ Here.k = "do"
    BY <1>4 DEF Cancel, Normal, Running
  <2>6. PICK k, mine : k = kind /\ mine = Here.set
    OBVIOUS
  <2>7. \A f \in DOMAIN mine \cap DOMAIN d : <<f, mine[f]>> \in Literals[k][f]
    BY <2>5, <2>6, StepFacts
  <2>8. \A f \in DOMAIN set \cap DOMAIN d : <<f, set[f]>> \in Literals[k][f]
    BY <2>1, <2>6, <2>7 DEF Nil
  <2>9. \A f \in DOMAIN Then(set, off.set) \cap DOMAIN d : <<f, Then(set, off.set)[f]>> \in Literals[k][f]
    BY <2>4, <2>6, <2>8 DEF Then
  <2> QED
    BY <1>2, <2>1, <2>2, <2>6, <2>9
<1>5. CASE UNCHANGED vars
  BY <1>1, <1>5 DEF vars
<1>6. ASSUME NEW c, Start(c) PROVE WorldInv'
  BY <1>1, <1>6 DEF Start
<1>7. CASE Return
  BY <1>1, <1>7 DEF Return
<1>8. CASE Fail
  BY <1>1, <1>8 DEF Fail
<1>9. CASE CannotWork \/ RaiseStep \/ Branch \/ Catch \/ Propagate \/ EnterFinally \/ LeaveFinally
  BY <1>1, <1>9 DEF CannotWork, RaiseStep, Branch, Catch, Propagate, EnterFinally, LeaveFinally, Stays
<1> QED
  BY <1>3, <1>4, <1>5, <1>6, <1>7, <1>8, <1>9 DEF Next

(* The clauses of promise h where the job is.                              *)
Clauses(h) == IF cmd = "idle" THEN Sure(h, kind).rest ELSE Sure(h, kind).steps[cmd][at]
ClauseInv(h) == Promised(h, kind) => \A C \in Clauses(h) : IsTrue(C)
KeptPromises == \A h \in Promises : ClauseInv(h)

LEMMA KeptFacts ==
  ASSUME NEW h \in Promises, NEW k \in Kind, Promised(h, k)
  PROVE  /\ \A C \in Sure(h, k).rest : C \cap FreshLiterals(k) # {}
         /\ \A c \in DOMAIN Program[k] :
              CommandKeeps(k, h, Literals[k], c, Program[k][c], Sure(h, k).steps[c], Sure(h, k).rest)
BY ClauseAssumption DEF ClauseAssumption, Kept

LEMMA ClauseInvInit ==
  ASSUME NEW h \in Promises, Init PROVE ClauseInv(h)
<1>1. kind \in Kind /\ d = Fresh[kind] /\ exc = None /\ caught = None /\ held = << >>
      /\ stage = "new" /\ deployed = None /\ cmd = "idle"
  BY DEF Init
<1>2. ASSUME NEW x \in FreshLiterals(kind) PROVE IsSo(x)
  <2>1. IsSo(<<"exc", None>>) /\ IsSo(<<"caught", None>>) /\ IsSo(<<"stage", "new">>)
        /\ IsSo(<<"deployed", None>>)
    BY <1>1, MoodsAreSo
  <2>2. \A a \in Levels : IsSo(<<a, None>>)
    <3>1. \A n \in 1..8 : HeldAt(n) = None
      BY <1>1 DEF HeldAt
    <3> QED
      BY <3>1, LevelsAreSo, LevelFacts
  <2>3. \A f \in DOMAIN Fresh[kind] : IsSo(<<f, Fresh[kind][f]>>)
    BY <1>1, LiteralFacts DEF IsSo
  <2> QED
    BY <2>1, <2>2, <2>3 DEF FreshLiterals, Quiet, Raises
<1>3. ASSUME Promised(h, kind), NEW C \in Sure(h, kind).rest PROVE IsTrue(C)
  <2>1. C \cap FreshLiterals(kind) # {}
    BY <1>1, <1>3, KeptFacts
  <2> QED
    BY <1>2, <2>1 DEF IsTrue
<1> QED
  BY <1>1, <1>3 DEF ClauseInv, Clauses

LEMMA StepKeepsClauses ==
  ASSUME ControlInv, WorldInv, NEW h \in Promises, ClauseInv(h), [Next]_vars
  PROVE  ClauseInv(h)'
<1>1. kind' = kind
  BY DEF Next, vars, Start, Return, Perform, Fail, CannotWork, RaiseStep, Branch, Catch, Propagate,
         EnterFinally, LeaveFinally, Cancel, Stays
<1>2. PICK k, c, i, n : kind = k /\ cmd = c /\ at = i /\ n = Len(held)
  OBVIOUS
<1> DEFINE lits == Literals[k]
<1>3. k \in Kind /\ \A a \in DOMAIN lits : IsTrue(lits[a])
  BY <1>2, AspectsAreSo DEF ControlInv, TypeOK
<1> SUFFICES ASSUME Promised(h, k) PROVE \A C \in Clauses(h)' : IsTrue(C)'
  BY <1>1, <1>2 DEF ClauseInv
<1>4. \A C \in Clauses(h) : IsTrue(C)
  BY <1>2 DEF ClauseInv
<1> DEFINE s == Sure(h, k).steps
           rest == Sure(h, k).rest
<1>5. CASE UNCHANGED vars
  <2>1. Clauses(h)' = Clauses(h)
    BY <1>5 DEF vars, script, Clauses
  <2>2. ASSUME NEW C, IsTrue(C) PROVE IsTrue(C)'
    BY <1>5, <2>2 DEF IsTrue, IsSo, HeldAt, vars, script
  <2> QED
    BY <1>4, <2>1, <2>2
<1>6. ASSUME NEW e \in DOMAIN Program[kind], Start(e) PROVE \A C \in Clauses(h)' : IsTrue(C)'
  <2>1. cmd = "idle" /\ cmd' = e /\ at' = 1 /\ e # "idle"
    BY <1>2, <1>3, <1>6, ScriptAssumption DEF Start, ScriptAssumption
  <2>2. Clauses(h) = rest /\ Clauses(h)' = s[e][1]
    BY <1>1, <1>2, <2>1 DEF Clauses
  <2>3. CommandKeeps(k, h, lits, e, Program[k][e], s[e], rest)
    BY <1>2, <1>3, <1>6, KeptFacts
  <2>4. Taken(StartMove(e))
    BY <1>6, StartTaken
  <2>5. ASSUME NEW C \in s[e][1] PROVE IsTrue(C)'
    <3>1. Follows(lits, rest, StartMove(e), C)
      BY <2>3, <2>5 DEF CommandKeeps
    <3> HIDE DEF lits, rest, s
    <3> QED
      BY <1>3, <1>4, <2>2, <2>4, <3>1, FollowsSound
  <2> QED
    BY <2>2, <2>5
<1>7. CASE Return
  <2>1. cmd # "idle" /\ cmd' = "idle" /\ i = Len(Program[k][c]) + 1 /\ c \in DOMAIN Program[k]
    <3>1. cmd # "idle" /\ cmd' = "idle" /\ at > Len(Prog)
      BY <1>7 DEF Return
    <3>2. Len(Prog) \in Nat /\ at \in 1..(Len(Prog) + 1) /\ cmd \in DOMAIN Program[kind]
      BY <3>1, ProgWellNested DEF ControlInv
    <3>3. at = Len(Prog) + 1
      BY <3>1, <3>2
    <3> QED
      BY <1>2, <3>1, <3>2, <3>3 DEF Prog
  <2>2. Clauses(h) = s[c][i] /\ Clauses(h)' = rest
    BY <1>1, <1>2, <2>1 DEF Clauses
  <2>3. CommandKeeps(k, h, lits, c, Program[k][c], s[c], rest)
    BY <1>3, <2>1, KeptFacts
  <2>4. PICK m \in ReturnMoves(c) : Taken(m)
    BY <1>2, <1>7, ReturnTaken
  <2>5. ASSUME NEW C \in rest PROVE IsTrue(C)'
    <3>1. Follows(lits, s[c][i], m, C)
      BY <2>1, <2>3, <2>4, <2>5 DEF CommandKeeps
    <3> HIDE DEF lits, rest, s
    <3> QED
      BY <1>3, <1>4, <2>2, <2>4, <3>1, FollowsSound
  <2> QED
    BY <2>2, <2>5
<1>8. CASE Perform \/ Fail \/ CannotWork \/ Cancel \/ RaiseStep \/ Branch \/ Catch \/ Propagate
             \/ EnterFinally \/ LeaveFinally
  <2> DEFINE p == Program[k][c]
             jump == Out(p, i)
             past == Past(p, i)
  <2>1. Prog = p
    BY <1>2 DEF Prog
  <2>2. /\ at' \in {i + 1, jump} \/ (p[i].k \in {"if", "either", "else", "except"} /\ at' = past + 1)
        /\ cmd # "idle" /\ at <= Len(Prog) /\ UNCHANGED <<kind, cmd, out>>
    BY <1>2, <1>8, <2>1, StepGoes
  <2>3. PICK j : j = at'
    OBVIOUS
  <2>4. Clauses(h) = s[c][i] /\ Clauses(h)' = s[c][j]
    BY <1>2, <2>2, <2>3 DEF Clauses
  <2>5. c \in DOMAIN Program[k] /\ i \in DOMAIN p /\ n = Depth(p)[i]
    <3>1. cmd \in DOMAIN Program[kind] /\ at \in DOMAIN Prog /\ Len(held) = Depth(Prog)[at]
      BY <2>2, ProgWellNested DEF ControlInv, HeldInv
    <3> QED
      BY <1>2, <2>1, <3>1
  <2>6. PICK m \in Moves(lits, PowerOff[k], p[i], i, jump, past, n) : m.to = j /\ Taken(m)
    BY <1>2, <1>8, <2>3, StepTaken
  <2>7. CommandKeeps(k, h, lits, c, p, s[c], rest)
    BY <1>3, <2>5, KeptFacts
  <2>8. ASSUME NEW C \in s[c][j] PROVE IsTrue(C)'
    <3>1. \/ /\ s[c][i + 1] = {} /\ s[c][jump] = {}
             /\ p[i].k \in {"if", "either", "else", "except"} => s[c][past + 1] = {}
          \/ \A a \in Moves(lits, PowerOff[k], p[i], i, jump, past, n) :
               \A D \in s[c][a.to] : Follows(lits, s[c][i], a, D)
      BY <2>5, <2>7 DEF CommandKeeps
    <3>2. s[c][j] # {}
      BY <2>8
    <3>3. \A a \in Moves(lits, PowerOff[k], p[i], i, jump, past, n) :
               \A D \in s[c][a.to] : Follows(lits, s[c][i], a, D)
      <4> HIDE DEF s, lits, p, jump, past
      <4> QED
        BY <2>2, <2>3, <3>1, <3>2
    <3>4. Follows(lits, s[c][i], m, C)
      BY <2>6, <2>8, <3>3
    <3> HIDE DEF lits, rest, s
    <3> QED
      BY <1>3, <1>4, <2>4, <2>6, <3>4, FollowsSound
  <2> QED
    BY <2>4, <2>8
<1> QED
  BY <1>5, <1>6, <1>7, <1>8 DEF Next

(* No step of a job, however long, gives an aspect a value that the        *)
(* literals do not name.                                                   *)
THEOREM WorldInvariant == Spec => []WorldInv
<1>1. Init => WorldInv
  BY WorldInvInit
<1>2. ControlInv /\ WorldInv /\ [Next]_vars => WorldInv'
  BY StepKeepsWorld
<1> QED
  BY <1>1, <1>2, ControlInvariant, PTL DEF Spec

(* At every step the clauses that keep a promise hold, in a job of any     *)
(* number of commands.                                                     *)
THEOREM ClauseInvariant == Spec => []KeptPromises
<1>1. Init => KeptPromises
  BY ClauseInvInit DEF KeptPromises
<1>2. ControlInv /\ WorldInv /\ KeptPromises /\ [Next]_vars => KeptPromises'
  <2> SUFFICES ASSUME ControlInv, WorldInv, KeptPromises, [Next]_vars,
                      NEW h \in Promises
               PROVE  ClauseInv(h)'
    BY DEF KeptPromises
  <2>1. ClauseInv(h)
    BY DEF KeptPromises
  <2> QED
    BY <2>1, StepKeepsClauses
<1> QED
  BY <1>1, <1>2, WorldInvariant, ControlInvariant, PTL DEF Spec

(* A promise, where its command is.                                        *)
LEMMA PromiseIsTrue ==
  ASSUME ControlInv, WorldInv, NEW h \in Promises, ClauseInv(h), cmd # "idle", Promised(h, kind),
         NEW C \in Promise(h, kind, cmd, Prog, at)
  PROVE  IsTrue(C)
<1>1. /\ kind \in Kind /\ cmd \in DOMAIN Program[kind] /\ at \in 1..(Len(Prog) + 1)
  BY ProgWellNested DEF ControlInv
<1>2. CommandKeeps(kind, h, Literals[kind], cmd, Prog, Sure(h, kind).steps[cmd], Sure(h, kind).rest)
  BY <1>1, KeptFacts DEF Prog
<1>3. Given(Literals[kind], Sure(h, kind).steps[cmd][at], C)
  BY <1>1, <1>2 DEF CommandKeeps
<1>4. \A q \in Sure(h, kind).steps[cmd][at] : IsTrue(q)
  BY DEF ClauseInv, Clauses
<1>5. PICK q : IsTrue(q) /\ q \subseteq C
  BY <1>3, <1>4, AspectsAreSo DEF Given, Truism
<1> QED
  BY <1>5 DEF IsTrue

LEMMA FieldIsSo ==
  ASSUME NEW f \in {"live", "ramdisk", "kept", "dir", "access"}, NEW v, IsSo(<<f, v>>)
  PROVE  f \in DOMAIN d /\ d[f] = v
<1>1. f \notin {"exc", "caught", "stage", "deployed"} /\ \A n \in DOMAIN Level : f # Level[n]
  BY DEF Level
<1> QED
  BY <1>1 DEF IsSo

(* Where nothing is raised, one of the other literals is so.               *)
LEMMA NotRaised ==
  ASSUME exc = None, NEW L, IsTrue(Erring \cup L) PROVE \E x \in L : IsSo(x)
BY NoError DEF IsTrue

(* A runner that starts, a boot that has returned.                         *)
LEMMA TestsPromise ==
  ASSUME ControlInv, WorldInv, ClauseInv("tests"), cmd # "idle", exc = None,
         Starting("lava-test-runner") \/ (at = Len(Prog) + 1 /\ cmd \in Boots)
  PROVE  d.live \/ KeptBoot(d) \/ NeverAgain
<1> DEFINE never == IF kind = "fastmodel" THEN {<<"ramdisk", TRUE>>} ELSE {}
           keeps == IF kind \in MayKeep THEN {<<"kept", TRUE>>} ELSE {}
           L == {<<"live", TRUE>>} \cup never \cup keeps
<1>1. "tests" \in Promises /\ Promised("tests", kind)
  BY DEF Promises, Promised
<1>2. Erring \cup {<<"live", TRUE>>} \cup never \cup keeps \in Promise("tests", kind, cmd, Prog, at)
  <2>1. Starting("lava-test-runner") => at \in DOMAIN Prog /\ Prog[at].op = "lava-test-runner"
    BY ProgWellNested DEF Starting, ControlInv, Here
  <2> QED
    BY <2>1 DEF Promise
<1>3. IsTrue(Erring \cup L)
  <2>1. Erring \cup L = Erring \cup {<<"live", TRUE>>} \cup never \cup keeps
    OBVIOUS
  <2> QED
    BY <1>1, <1>2, <2>1, PromiseIsTrue
<1>4. PICK x \in L : IsSo(x)
  BY <1>3, NotRaised
<1>5. CASE x = <<"live", TRUE>>
  BY <1>4, <1>5, FieldIsSo
<1>6. CASE x = <<"ramdisk", TRUE>> /\ kind = "fastmodel"
  BY <1>4, <1>6, FieldIsSo DEF NeverAgain
<1>7. CASE x = <<"kept", TRUE>>
  BY <1>4, <1>7, FieldIsSo DEF KeptBoot
<1> QED
  BY <1>4, <1>5, <1>6, <1>7

LEMMA CopiedPromise ==
  ASSUME ControlInv, WorldInv, ClauseInv("copied"), Starting("lava-test-runner"), kind # "nexell"
  PROVE  d.dir = "new"
<1>1. cmd # "idle" /\ exc = None
  BY DEF Starting
<1>2. "copied" \in Promises /\ Promised("copied", kind)
  BY DEF Promises, Promised
<1>3. Erring \cup {<<"dir", "new">>} \in Promise("copied", kind, cmd, Prog, at)
  <2>1. at \in DOMAIN Prog /\ Prog[at].op = "lava-test-runner"
    BY ProgWellNested DEF Starting, ControlInv, Here
  <2> QED
    BY <2>1 DEF Promise
<1> DEFINE L == {<<"dir", "new">>}
<1>4. IsTrue(Erring \cup L)
  BY <1>1, <1>2, <1>3, PromiseIsTrue
<1> HIDE DEF L
<1>5. \E x \in L : IsSo(x)
  BY <1>1, <1>4, NotRaised
<1> QED
  BY <1>5, FieldIsSo DEF L

LEMMA ChangesPromise ==
  ASSUME ControlInv, WorldInv, ClauseInv("changes"), cmd = "lava_test_shell", exc = None,
         at = Len(Prog) + 1, kind # "nexell", d.access
  PROVE  d.dir = "new"
<1>1. cmd # "idle"
  OBVIOUS
<1>2. "changes" \in Promises /\ Promised("changes", kind)
  BY DEF Promises, Promised
<1>3. Erring \cup {<<"access", FALSE>>, <<"dir", "new">>} \in Promise("changes", kind, cmd, Prog, at)
  BY DEF Promise
<1> DEFINE L == {<<"access", FALSE>>, <<"dir", "new">>}
<1>4. IsTrue(Erring \cup L)
  BY <1>1, <1>2, <1>3, PromiseIsTrue
<1>5. ~IsSo(<<"access", FALSE>>)
  BY FieldIsSo
<1> HIDE DEF L
<1>6. \E x \in L : IsSo(x)
  BY <1>4, NotRaised
<1> QED
  BY <1>5, <1>6, FieldIsSo DEF L

LEMMA Promising ==
  ASSUME KeptPromises
  PROVE  ClauseInv("tests") /\ ClauseInv("copied") /\ ClauseInv("changes")
BY DEF KeptPromises, Promises

(* When a command has just ended, at the end of its script.                *)
LEMMA ReturnFacts ==
  ASSUME ControlInv, Return
  PROVE  /\ cmd # "idle" /\ at = Len(Prog) + 1 /\ out' = <<cmd, exc>> /\ UNCHANGED <<kind, d>>
         /\ out'[1] = cmd /\ out'[2] = exc
<1>1. cmd # "idle" /\ at > Len(Prog)
  BY DEF Return
<1>2. Len(Prog) \in Nat /\ at \in 1..(Len(Prog) + 1)
  BY <1>1, ProgWellNested DEF ControlInv
<1>3. at = Len(Prog) + 1
  BY <1>1, <1>2
<1> QED
  BY <1>1, <1>3 DEF Return

(* The tests, and a boot that returns, find what was deployed last, for    *)
(* every order of deployments, boots and tests, whatever steps fail and    *)
(* wherever SIGTERM comes, where what was before does not stay in force.   *)
THEOREM TestsWhatWasDeployedHolds == Spec => []TestsWhatWasDeployed
<1> DEFINE BootFinds == cmd = "idle" /\ out \in Boots \X {None} => d.live \/ KeptBoot(d) \/ NeverAgain
<1>1. Init => BootFinds
  BY DEF Init, Boots
<1>2. ControlInv /\ WorldInv /\ KeptPromises /\ BootFinds /\ [Next]_vars => BootFinds'
  <2> SUFFICES ASSUME ControlInv, WorldInv, KeptPromises, BootFinds, [Next]_vars,
                      cmd' = "idle", out' \in Boots \X {None}
               PROVE  (d.live \/ KeptBoot(d) \/ NeverAgain)'
    OBVIOUS
  <2>1. CASE UNCHANGED vars
    BY <2>1 DEF vars, script, NeverAgain, KeptBoot
  <2>2. CASE Next
    <3>1. Return
      BY <2>2, IdleAfterReturn
    <3>2. cmd # "idle" /\ at = Len(Prog) + 1 /\ out' = <<cmd, exc>> /\ UNCHANGED <<kind, d>>
      BY <3>1, ReturnFacts
    <3>3. cmd \in Boots /\ exc = None
      BY <3>2
    <3>4. d.live \/ KeptBoot(d) \/ NeverAgain
      BY <3>2, <3>3, TestsPromise, Promising
    <3> QED
      BY <3>2, <3>4 DEF NeverAgain, KeptBoot
  <2> QED
    BY <2>1, <2>2
<1>3. ControlInv /\ WorldInv /\ KeptPromises /\ BootFinds => TestsWhatWasDeployed
  <2> SUFFICES ASSUME ControlInv, WorldInv, KeptPromises, BootFinds,
                      Starting("lava-test-runner") \/ (cmd = "idle" /\ out \in Boots \X {None})
               PROVE  d.live \/ KeptBoot(d) \/ NeverAgain
    BY DEF TestsWhatWasDeployed
  <2>1. CASE Starting("lava-test-runner")
    BY <2>1, TestsPromise, Promising DEF Starting
  <2> QED
    BY <2>1
<1> QED
  BY <1>1, <1>2, <1>3, ClauseInvariant, WorldInvariant, ControlInvariant, PTL DEF Spec

(* The runner starts on a target that has the test definitions, for every  *)
(* order of deployments, boots and tests, whatever steps fail.             *)
THEOREM RunsWhatWasCopiedHolds == Spec => []RunsWhatWasCopied
<1>1. ControlInv /\ WorldInv /\ KeptPromises => RunsWhatWasCopied
  BY CopiedPromise, Promising DEF RunsWhatWasCopied, Unchecked
<1> QED
  BY <1>1, ClauseInvariant, WorldInvariant, ControlInvariant, PTL

(* A lava_test_shell that returns has left its changes on the target,      *)
(* whatever commands came before and whatever steps fail.                  *)
THEOREM ChangesAppliedHolds == Spec => []ChangesApplied
<1>1. Init => ChangesApplied
  BY DEF Init, ChangesApplied
<1>2. ControlInv /\ WorldInv /\ KeptPromises /\ ChangesApplied /\ [Next]_vars => ChangesApplied'
  <2> SUFFICES ASSUME ControlInv, WorldInv, KeptPromises, ChangesApplied, [Next]_vars,
                      cmd' = "idle", out' = <<"lava_test_shell", None>>, d'.access, kind' # "nexell"
               PROVE  d'.dir = "new"
    BY DEF ChangesApplied, Unchecked
  <2>1. CASE UNCHANGED vars
    BY <2>1 DEF vars, script, ChangesApplied, Unchecked
  <2>2. CASE Next
    <3>1. Return
      BY <2>2, IdleAfterReturn
    <3>2. at = Len(Prog) + 1 /\ out' = <<cmd, exc>> /\ UNCHANGED <<kind, d>>
      BY <3>1, ReturnFacts
    <3>3. cmd = "lava_test_shell" /\ exc = None
      BY <3>2
    <3> QED
      BY <3>2, <3>3, ChangesPromise, Promising
  <2> QED
    BY <2>1, <2>2
<1> QED
  BY <1>1, <1>2, ClauseInvariant, WorldInvariant, ControlInvariant, PTL DEF Spec
=============================================================================
