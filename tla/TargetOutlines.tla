--------------------------- MODULE TargetOutlines ---------------------------
(***************************************************************************)
(* Proof outlines for the scripts of TargetJob: for every step of every    *)
(* command, what a job may be in when it gets there, as far as a view      *)
(* looks. An outline that is closed under the steps holds for jobs of any  *)
(* length in which any number of steps fail (TargetJobProofs).             *)
(***************************************************************************)
EXTENDS TargetJob

CONSTANTS
  View,         \* View[v]: what the outlines of view v look at
  Outline(_, _) \* Outline(v, k).steps[c][i]: what a job may be in at step i of command c;
                \* Outline(v, k).rest: what it may be in between two commands

(* A view is a record:                                                     *)
(*   fields  for each target it covers, the fields of the world it sees    *)
(*   faults  the numbers of failed steps it covers; {} if it covers them   *)
(*           all and does not count                                        *)
(*   cancel  followed: a SIGTERM is a step like any other | body: only     *)
(*           outside a cleanup, and not in a mount | ends: only jobs       *)
(*           without one are covered | starts: only commands that it has   *)
(*           reached are                                                   *)
(*   caught  it remembers the exception that a handler caught              *)
(*   ended   it remembers how the last deployment ended, if there was one  *)
(*   aside   commands that leave its fields alone are not followed         *)
Look(v, k) ==
  [fields |-> View[v].fields[k], faults |-> View[v].faults, cancel |-> View[v].cancel,
   caught |-> View[v].caught, ended |-> View[v].ended, aside |-> View[v].aside, off |-> PowerOff[k]]

Counts(look) == look.faults # {}
Starts(look) == look.cancel = "starts"
Sees(look, w) == [f \in look.fields |-> w[f]]
(* After a deployment that ended well, every command is legal.             *)
Known(look, dep) == IF look.ended \/ (dep = None /\ ~Starts(look)) THEN dep ELSE "ok"
Cancels(look, h, set) ==
  look.cancel = "followed" \/ (look.cancel = "body" /\ h = << >> /\ ~Mounts(set))

Frame(e, c, h, w, s, dep, n) ==
  [exc |-> e, caught |-> c, held |-> h, world |-> w, stage |-> s, deployed |-> dep, faults |-> n]
Raising(s, e) == Frame(e, s.caught, s.held, s.world, s.stage, s.deployed, s.faults)
Handling(s, c) == Frame(None, c, s.held, s.world, s.stage, s.deployed, s.faults)
HeldBack(s, e, h) == Frame(e, s.caught, h, s.world, s.stage, s.deployed, s.faults)
Amid(s, w) == Frame(s.exc, s.caught, s.held, w, s.stage, s.deployed, s.faults)
Failed(s, n) == Frame(s.exc, s.caught, s.held, s.world, s.stage, s.deployed, n)
Between(w, s, dep, n) == [world |-> w, stage |-> s, deployed |-> dep, faults |-> n]

---------------------------------------------------------------------------
(* One step: from frame s at step i to a frame at another step; what it    *)
(* raises goes to jump, and past is the marker that it may go to.          *)

May(needs, w) == \A f \in DOMAIN needs \cap DOMAIN w : w[f] = needs[f]
MayNot(needs, w) == ~May(needs, w) \/ ~(DOMAIN needs \subseteq DOMAIN w)

Raised(jump, s, classes) == {<<jump, Raising(s, e)>> : e \in classes}

(* What a step raises that cannot succeed.                                 *)
StuckOn(needs, w) ==
  IF "runs" \notin DOMAIN needs THEN {"OSError"}
  ELSE IF "proc" \notin DOMAIN w THEN {"TIMEOUT", "OSError"}
  ELSE IF w.proc = "open" THEN {"TIMEOUT"} ELSE {"OSError"}

AfterDo(look, step, i, jump, s) ==
  LET performed == {<<i + 1, Amid(s, Assign(step.set, s.world))>>}
      n == IF Counts(look) THEN s.faults + 1 ELSE 0
      failed == {IF e = "quiet" THEN <<i + 1, Failed(s, n)>>
                 ELSE <<jump, Raising(Failed(s, n), e)>> : e \in step.raises}
      effects == {Nil} \cup (IF May(step.needs, s.world) THEN {step.set} ELSE {})
      Ended_(set) == {<<jump, Raising(Amid(s, Assign(Then(set, off.set), s.world)), "SystemExit")>> :
                        off \in {o \in look.off : May(o.needs, Assign(set, s.world))}}
      cancelled_ == UNION {Ended_(set) : set \in {e \in effects : Cancels(look, s.held, e)}}
  IN  (IF May(step.needs, s.world)
       THEN performed \cup (IF Counts(look) => n \in look.faults THEN failed ELSE {}) ELSE {})
      \cup (IF MayNot(step.needs, s.world)
            THEN Raised(jump, s, StuckOn(step.needs, s.world)) ELSE {})
      \cup (IF s.stage = "run" THEN cancelled_ ELSE {})

(* A view that starts with SIGTERM knows what is held back since only:     *)
(* where more matters, nothing is known.                                   *)
Lost == 0
AfterResume(i, jump, s) ==
  LET above == IF s.held = << >> THEN << >> ELSE Tail(s.held)
  IN  IF s.exc # None THEN {<<jump, HeldBack(s, s.exc, above)>>}
      ELSE IF s.held = << >> THEN {<<Lost, s>>}
      ELSE IF Head(s.held) = None THEN {<<i + 1, HeldBack(s, None, above)>>}
      ELSE {<<jump, HeldBack(s, Head(s.held), above)>>}

After(look, step, i, jump, past, s) ==
  LET falls == {<<i + 1, s>>}
      skips == {<<past + 1, s>>}
  IN  IF step.k = "finally" THEN {<<i + 1, HeldBack(s, None, <<s.exc>> \o s.held)>>}
      ELSE IF step.k = "resume" THEN AfterResume(i, jump, s)
      ELSE IF s.exc # None THEN
        IF step.k = "except" /\ s.exc \in step.raises
        THEN {<<i + 1, Handling(s, IF look.caught THEN s.exc ELSE None)>>}
        ELSE Raised(jump, s, {s.exc})
      ELSE IF step.k = "do" THEN AfterDo(look, step, i, jump, s)
      ELSE IF step.k = "raise" THEN Raised(jump, s, {step.op})
      ELSE IF step.k = "reraise" THEN Raised(jump, s, IF s.caught = None THEN Excs ELSE {s.caught})
      ELSE IF step.k = "if" THEN (IF May(step.needs, s.world) THEN falls ELSE {})
                                 \cup (IF MayNot(step.needs, s.world) THEN skips ELSE {})
      ELSE IF step.k = "either" THEN falls \cup skips
      ELSE IF step.k \in {"else", "except"} THEN skips
      ELSE falls

---------------------------------------------------------------------------
(* Closed outlines.                                                        *)

Beginning(look, c, r) ==
  Frame(None, None, << >>, r.world, r.stage, Known(look, Begun(c, r.deployed)), r.faults)
Leaving(look, c, s) ==
  Between(s.world, Becomes(c, s.exc, s.stage), Known(look, Ended(c, s.exc, s.deployed)), s.faults)
Hit(look) ==
  {Frame("SystemExit", None, << >>, Sees(look, off.set), "run", "ok", 0) : off \in look.off}

StepsStay(look, p, outline) ==
  \A i \in DOMAIN p :
    LET jump == Out(p, i)
        past == Past(p, i)
    IN  \A s \in outline[i] : \A q \in After(look, p[i], i, jump, past, s) :
          q[1] # Lost /\ q[2] \in outline[q[1]]

CommandStays(look, c, p, outline, rest) ==
  /\ \A r \in rest : Legal(c, r.stage, r.deployed) => Beginning(look, c, r) \in outline[1]
  /\ \A s \in outline[Len(p) + 1] : Leaving(look, c, s) \in rest

(* A command that is not followed may end in any way.                      *)
Aside(look, p) ==
  /\ look.aside
  /\ \A i \in DOMAIN p : p[i].k = "do" => DOMAIN p[i].set \cap look.fields = {}
  /\ \A off \in look.off : DOMAIN off.set \cap look.fields = {}
LeftBy(look, c, r) ==
  {Between(r.world, Becomes(c, e, r.stage), Known(look, Ended(c, e, Begun(c, r.deployed))), n) :
     e \in Excs, n \in (IF Counts(look) THEN {m \in look.faults : r.faults <= m} ELSE {0})}
AsideStays(look, c, rest) ==
  \A r \in rest : Legal(c, r.stage, r.deployed) => LeftBy(look, c, r) \subseteq rest

SigtermStarts(look, p, outline) ==
  \A i \in DOMAIN p : p[i].k = "do" => Hit(look) \subseteq outline[Out(p, i)]

LookOK(look, k) ==
  /\ look.cancel \in {"followed", "body", "ends", "starts"}
  /\ look.faults \subseteq Nat /\ \A n \in look.faults : n > 0 => n - 1 \in look.faults
  /\ look.fields \subseteq DOMAIN Fresh[k]
  /\ Starts(look) =>
       /\ ~Counts(look) /\ ~look.ended /\ ~look.aside
       /\ \A off \in look.off : look.fields \subseteq DOMAIN off.set

Closed(v, k, o) ==
  LET look == Look(v, k)
  IN  /\ LookOK(look, k)
      /\ ~Starts(look) => Between(Sees(look, Fresh[k]), "new", Known(look, None), 0) \in o.rest
      /\ \A c \in DOMAIN Program[k] :
           LET p == Program[k][c]
               outline == o.steps[c]
           IN  IF Aside(look, p) THEN AsideStays(look, c, o.rest)
               ELSE /\ StepsStay(look, p, outline)
                    /\ IF Starts(look) THEN c \notin Calls => SigtermStarts(look, p, outline)
                                       ELSE CommandStays(look, c, p, outline, o.rest)

---------------------------------------------------------------------------
(* What the outlines show of the targets that a view covers.               *)

(* What is in every frame of target k, and how command c ends.             *)
Everywhere(k, o, Is(_, _)) ==
  /\ \A r \in o.rest : Is(r.world, r.deployed)
  /\ \A c \in DOMAIN Program[k] : \A i \in 1..(Len(Program[k][c]) + 1) :
       \A s \in o.steps[c][i] : Is(s.world, s.deployed)
Endings(k, o, c) == {s.exc : s \in o.steps[c][Len(Program[k][c]) + 1]}

Written(w) == w.medium = "new" \/ Overridden(w)

Shown(v, k, o) ==
  /\ v = "firmware" => Everywhere(k, o, LAMBDA w, dep : w.runs = "master" => GoodFile(k, w.fw, w.backup))
  /\ v = "firmware2" => Everywhere(k, o, LAMBDA w, dep : w.runs = "master" => GoodFile(k, w.fw2, w.backup2))
  /\ v = "written" /\ k # "nexell" => Everywhere(k, o, LAMBDA w, dep : dep = "ok" => Written(w))
  /\ v = "mounts" => \A r \in o.rest : \A m \in Mountable \cap DOMAIN Fresh[k] : ~r.world[m]
  /\ v = "card" => Everywhere(k, o, LAMBDA w, dep : w.sdmount => w.sd = "host")
  /\ v = "cancelled" =>
       \A c \in DOMAIN Program[k] \ (Calls \cup {"lava_test_shell", "boot_android"}) :
         Endings(k, o, c) \cap Tolerated = {}
  /\ v = "healthy" =>
       \A c \in DOMAIN Program[k] : <<k, c>> \in Refused \/ Endings(k, o, c) \subseteq {None}

ASSUME OutlineAssumption ==
  \A v \in DOMAIN View : \A k \in DOMAIN View[v].fields :
    LET o == Outline(v, k) IN Closed(v, k, o) /\ Shown(v, k, o)

(* The targets, the failures and the SIGTERMs that the views cover.        *)
Covers(v, k, fields) == v \in DOMAIN View /\ k \in DOMAIN View[v].fields /\ fields \subseteq View[v].fields[k]

ASSUME ViewAssumption ==
  /\ \A k \in {x \in Kind : "fw" \in DOMAIN Fresh[x]} :
       Covers("firmware", k, {"runs", "fw", "backup"}) /\ Covers("firmware2", k, {"runs", "fw2", "backup2"})
  /\ \A v \in {"firmware", "firmware2"} : {0, 1} \subseteq View[v].faults /\ View[v].cancel = "followed"
  /\ \A k \in Kind \ {"nexell"} :
       "medium" \in DOMAIN Fresh[k] /\ Covers("written", k, {"medium", "kept", "kernel"} \cap DOMAIN Fresh[k])
  /\ View["written"].faults = {} /\ View["written"].cancel = "followed" /\ View["written"].ended
  /\ \A k \in Kind : Covers("mounts", k, Mountable \cap DOMAIN Fresh[k])
  /\ {0, 1} \subseteq View["mounts"].faults /\ View["mounts"].cancel = "body"
  /\ \A k \in {x \in Kind : "sd" \in DOMAIN Fresh[x]} : Covers("card", k, {"sd", "sdmount"})
  /\ {0, 1} \subseteq View["card"].faults /\ View["card"].cancel = "followed"
  /\ \A k \in Kind \ {"sdmux"} : Covers("cancelled", k, {})
  /\ View["cancelled"].faults = {} /\ View["cancelled"].cancel = "starts" /\ ~View["cancelled"].aside
  /\ \A k \in Kind : Covers("healthy", k, {})
  /\ View["healthy"].faults = {0} /\ View["healthy"].cancel = "ends" /\ ~View["healthy"].aside
=============================================================================
