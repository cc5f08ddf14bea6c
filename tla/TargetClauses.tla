---------------------------- MODULE TargetClauses ----------------------------
(***************************************************************************)
(* Weakest preconditions for the scripts of TargetJob. A literal is a pair *)
(* <<aspect, value>> of what a job is in, and a clause is a set of         *)
(* literals: one of them is so. A promise is a clause where a command is;  *)
(* what keeps it are clauses before every step on a way there, back to the *)
(* start of the job. Clauses that all steps keep hold for jobs of any      *)
(* length (TargetJobProofs).                                               *)
(***************************************************************************)
EXTENDS TargetJob

CONSTANTS
  Literals,  \* Literals[k][a]: the literals of aspect a of target k
  Sure(_, _) \* Sure(h, k).steps[c][i]: clauses that hold at step i of command c, for promise h;
             \* Sure(h, k).rest: those that hold between two commands

(* The aspects of a job are the fields of the world and, beside them, the  *)
(* outcome that the n-th finally clause around a step holds back, and:     *)
Level == <<"held1", "held2", "held3", "held4", "held5", "held6", "held7", "held8">>
Levels == {Level[n] : n \in DOMAIN Level}
Moods == {"exc", "caught", "stage", "deployed"} \cup Levels

Stages == {"new", "run", "failed", "over", "done"}
MoodValues(a) ==
  IF a = "stage" THEN Stages
  ELSE IF a = "deployed" THEN {None, "running", "ok", "failed"}
  ELSE Excs

WorldOf(lits) == DOMAIN lits \ Moods
Sets(lits, set) == {<<f, set[f]>> : f \in DOMAIN set \cap WorldOf(lits)}
Unmet(lits, needs) == UNION {lits[f] \ {<<f, needs[f]>>} : f \in DOMAIN needs}
Raises(e) == <<"exc", e>>
Erring == {Raises(e) : e \in Excs \ {None}}

---------------------------------------------------------------------------
(* A move goes on to step "to", unless one of the literals of "unless" is  *)
(* so; then those of "set" are so, aspect "copied" has the value that      *)
(* "from" had, and nothing else has changed.                               *)

Move(to, unless, set) ==
  [to |-> to, unless |-> unless, set |-> set, lost |-> {x[1] : x \in set},
   copied |-> None, from |-> None]
Copying(to, unless, set, a, b) ==
  [to |-> to, unless |-> unless, set |-> set, lost |-> {a} \cup {x[1] : x \in set},
   copied |-> a, from |-> b]

(* What must be so before a move that makes clause C true.                 *)
Wp(m, C) ==
  {x \in C : x[1] \notin m.lost} \cup m.unless
  \cup {<<m.from, x[2]>> : x \in {y \in C : y[1] = m.copied}}
Makes(m, C) == C \cap m.set # {}

Sometimes(needs) == IF "runs" \in DOMAIN needs THEN {"TIMEOUT", "OSError"} ELSE {"OSError"}

PerformMoves(lits, step, i) ==
  {Move(i + 1, Erring \cup Unmet(lits, step.needs), Sets(lits, step.set))}
FailMoves(lits, step, i, jump) ==
  LET can == Erring \cup Unmet(lits, step.needs)
  IN  {IF e = "quiet" THEN Move(i + 1, can, {}) ELSE Move(jump, can, {Raises(e)}) : e \in step.raises}
CannotWorkMoves(step, jump) ==
  UNION {{Move(jump, Erring \cup {<<f, step.needs[f]>>}, {Raises(e)}) : f \in DOMAIN step.needs} :
           e \in Sometimes(step.needs)}
CancelMoves(lits, offs, step, jump) ==
  {Move(jump, Erring \cup Unmet(lits, off.needs), Sets(lits, off.set) \cup {Raises("SystemExit")}) :
     off \in offs}
  \cup {Move(jump, Erring \cup Unmet(lits, step.needs),
             Sets(lits, Then(step.set, off.set)) \cup {Raises("SystemExit")}) : off \in offs}
DoMoves(lits, offs, step, i, jump) ==
  PerformMoves(lits, step, i) \cup FailMoves(lits, step, i, jump)
  \cup CannotWorkMoves(step, jump) \cup CancelMoves(lits, offs, step, jump)

(* Step i, where what is raised goes to jump, past is the marker that it   *)
(* may go to, and n finally clauses hold an outcome back.                  *)
Moves(lits, offs, step, i, jump, past, n) ==
  LET falls == Move(i + 1, Erring, {})
      skips == Move(past + 1, Erring, {})
      propagates == Move(jump, {Raises(None)}, {})
  IN  CASE step.k = "do" -> DoMoves(lits, offs, step, i, jump)
        [] step.k = "finally" ->
             {Copying(i + 1, {}, {Raises(None)}, Level[n + 1], "exc")}
        [] step.k = "resume" ->
             {Move(i + 1, Erring \cup {<<Level[n], e>> : e \in Excs \ {None}}, {}),
              Copying(jump, Erring \cup {<<Level[n], None>>}, {<<Level[n], None>>}, "exc", Level[n]),
              Move(jump, {Raises(None)}, {<<Level[n], None>>})}
        [] step.k = "raise" -> {Move(jump, Erring, {Raises(step.op)})}
        [] step.k = "reraise" -> {Copying(jump, Erring, {}, "exc", "caught")}
        [] step.k = "if" ->
             {Move(i + 1, Erring \cup Unmet(lits, step.needs), {})}
             \cup {Move(past + 1, Erring \cup {<<f, step.needs[f]>>}, {}) : f \in DOMAIN step.needs}
        [] step.k = "either" -> {falls, skips}
        [] step.k = "else" -> {skips, propagates}
        [] step.k = "except" ->
             {skips,
              Copying(i + 1, {Raises(e) : e \in Excs \ step.raises}, {Raises(None)}, "caught", "exc"),
              Move(jump, {Raises(e) : e \in {None} \cup step.raises}, {})}
        [] step.k = "end" -> {falls, propagates}

Quiet == {Raises(None), <<"caught", None>>} \cup {<<a, None>> : a \in Levels}
StartMove(c) ==
  Move(1,
    {<<"stage", w>> : w \in {x \in Stages : ~Legal(c, x, "ok")}}
      \cup (IF c \in Calls \cup Deploys THEN {} ELSE {<<"deployed", None>>}),
    Quiet \cup (IF c \in Deploys THEN {<<"deployed", "running">>} ELSE {}))

(* A command ends in one of three ways, at one of two times.               *)
Rest == 0
Ways == { <<None, {None}>>, <<"TIMEOUT", Tolerated \ {None}>>, <<"SystemExit", Excs \ Tolerated>> }
Times == { <<"run", {"run"}>>, <<"new", Stages \ {"run"}>> }
ReturnMove(c, way, time) ==
  Move(Rest,
    {Raises(e) : e \in Excs \ way[2]} \cup {<<"stage", w>> : w \in Stages \ time[2]},
    {Raises(None), <<"caught", None>>, <<"stage", Becomes(c, way[1], time[1])>>}
      \cup (IF c \in Deploys THEN {<<"deployed", Ended(c, way[1], None)>>} ELSE {}))
ReturnMoves(c) == UNION {{ReturnMove(c, way, time) : way \in Ways} : time \in Times}

---------------------------------------------------------------------------
(* The promises, and the clauses that keep them.                           *)

Promises == {"tests", "copied", "changes"}
Promised(h, k) == h \in {"copied", "changes"} => k # "nexell"

MayKeep == {k \in Kind : "kept" \in DOMAIN Fresh[k]}
Promise(h, k, c, p, i) ==
  LET runner == i \in DOMAIN p /\ p[i].op = "lava-test-runner"
      Ends(cs) == i = Len(p) + 1 /\ c \in cs
  IN  CASE h = "tests" /\ (runner \/ Ends(Boots)) ->
             {Erring \cup {<<"live", TRUE>>}
                     \cup (IF k = "fastmodel" THEN {<<"ramdisk", TRUE>>} ELSE {})
                     \cup (IF k \in MayKeep THEN {<<"kept", TRUE>>} ELSE {})}
        [] h = "copied" /\ runner -> {Erring \cup {<<"dir", "new">>}}
        [] h = "changes" /\ Ends({"lava_test_shell"}) ->
             {Erring \cup {<<"access", FALSE>>, <<"dir", "new">>}}
        [] OTHER -> {}

(* An aspect always has some value.                                        *)
Truism(lits, C) == \E a \in DOMAIN lits : lits[a] \subseteq C
Given(lits, S, C) == (\E q \in S : q \subseteq C) \/ Truism(lits, C)
Follows(lits, S, m, C) == Makes(m, C) \/ Given(lits, S, Wp(m, C))

CommandKeeps(k, h, lits, c, p, s, rest) ==
  LET depth == Depth(p)
      last == Len(p) + 1
  IN  /\ \A C \in s[1] : Follows(lits, rest, StartMove(c), C)
      /\ \A m \in ReturnMoves(c) : \A C \in rest : Follows(lits, s[last], m, C)
      /\ \A i \in 1..last : \A C \in Promise(h, k, c, p, i) : Given(lits, s[i], C)
      /\ \A i \in DOMAIN p :
           LET jump == Out(p, i)
               past == Past(p, i)
           IN  \/ s[i + 1] = {} /\ s[jump] = {} /\ (p[i].k \in {"if", "either", "else", "except"} => s[past + 1] = {})
               \/ \A m \in Moves(lits, PowerOff[k], p[i], i, jump, past, depth[i]) :
                    \A C \in s[m.to] : Follows(lits, s[i], m, C)

FreshLiterals(k) ==
  {<<f, Fresh[k][f]>> : f \in DOMAIN Fresh[k]} \cup Quiet
  \cup {<<"stage", "new">>, <<"deployed", None>>}
Kept(k, h, lits, o) ==
  /\ \A C \in o.rest : C \cap FreshLiterals(k) # {}
  /\ \A c \in DOMAIN Program[k] : CommandKeeps(k, h, lits, c, Program[k][c], o.steps[c], o.rest)

ASSUME ClauseAssumption ==
  \A k \in Kind : \A h \in Promises : Promised(h, k) => Kept(k, h, Literals[k], Sure(h, k))

(* The literals are all that a job may ever be in.                         *)
Spelled(k, lits) ==
  /\ DOMAIN lits = DOMAIN Fresh[k] \cup Moods /\ DOMAIN Fresh[k] \cap Moods = {}
  /\ \A a \in Moods : lits[a] = {a} \X MoodValues(a)
  /\ \A a \in DOMAIN lits : \A x \in lits[a] : x = <<a, x[2]>>
  /\ \A f \in DOMAIN Fresh[k] : <<f, Fresh[k][f]>> \in lits[f]
  /\ None \notin DOMAIN lits
  /\ \A off \in PowerOff[k] :
       /\ DOMAIN off.needs \subseteq DOMAIN Fresh[k]
       /\ \A f \in DOMAIN off.set \cap DOMAIN Fresh[k] : <<f, off.set[f]>> \in lits[f]
ScriptSpelled(k, lits, p) ==
  LET depth == Depth(p)
  IN  /\ \A i \in DOMAIN depth : depth[i] <= Len(Level)
      /\ \A i \in DOMAIN p :
           /\ p[i].k \in {"do", "if"} => DOMAIN p[i].needs \subseteq WorldOf(lits)
           /\ \A f \in DOMAIN p[i].set \cap DOMAIN Fresh[k] : <<f, p[i].set[f]>> \in lits[f]
ASSUME LiteralAssumption ==
  \A k \in Kind :
    /\ Spelled(k, Literals[k])
    /\ \A c \in DOMAIN Program[k] : ScriptSpelled(k, Literals[k], Program[k][c])
=============================================================================
