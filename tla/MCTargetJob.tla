----------------------------- MODULE MCTargetJob -----------------------------
EXTENDS MCTarget, TargetOutlines, TargetClauses, Functions

---------------------------------------------------------------------------
(* The views, and their least closed outlines. TLC keeps the value of a    *)
(* definition, but computes a constant of the configuration again: so each *)
(* of these has a definition of its own.                                   *)

(* The fields that some step of a target needs.                            *)
Needed(programs) ==
  Table([k \in MCKind |-> UNION {UNION {DOMAIN p[i].needs : i \in DOMAIN p} : p \in Range(programs[k])}])

Fields(of) == Table([k \in MCKind |-> of \cap DOMAIN Boards[k]])

(* Where nothing fails, these three do with what they boot from whatever   *)
(* they boot.                                                              *)
Healthy ==
  LET needed == Needed(Classes)
      few == {"proc", "runs", "copy", "error", "root", "booted", "reset", "ramdisk", "sim", "backup"}
  IN  Table([k \in MCKind |-> needed[k] \cap (IF k \in {"uboot", "vexpress", "fastmodel"} THEN few ELSE needed[k])])

OneFile(fw, backup) ==
  [fields |-> [k \in {"wg", "vexpress"} |-> {"runs", fw, backup} \cup (IF k = "wg" THEN {"proc"} ELSE {})], faults |-> {0, 1},
   cancel |-> "followed", caught |-> FALSE, ended |-> FALSE, aside |-> FALSE]
Views ==
  [ cancelled |-> [fields |-> [k \in MCKind \ {"sdmux"} |-> IF k \in Held \cup {"ssh"} THEN {} ELSE {"proc"}],
                   faults |-> {},
                   cancel |-> "starts", caught |-> TRUE, ended |-> FALSE, aside |-> FALSE],
    firmware |-> OneFile("fw", "backup"), firmware2 |-> OneFile("fw2", "backup2"),
    healthy |-> [fields |-> Healthy, faults |-> {0},
                 cancel |-> "ends", caught |-> TRUE, ended |-> TRUE, aside |-> FALSE],
    card |-> [fields |-> [k \in {"sdmux"} |-> {"sd", "sdmount"}], faults |-> {0, 1},
              cancel |-> "followed", caught |-> FALSE, ended |-> FALSE, aside |-> FALSE],
    written |-> [fields |-> Fields({"medium", "img", "kept", "kernel"}), faults |-> {},
                 cancel |-> "followed", caught |-> FALSE, ended |-> TRUE, aside |-> TRUE],
    mounts |-> [fields |-> Fields({"boot", "root", "card", "sdmount"}), faults |-> {0, 1},
                cancel |-> "body", caught |-> FALSE, ended |-> FALSE, aside |-> TRUE] ]
MCView == Views

(* A script with where its steps go, computed once.                        *)
Branches == {"if", "either", "else", "except"}
Plan(p) ==
  Table([p |-> p,
         out |-> [i \in DOMAIN p |-> Out(p, i)] \o << >>,
         skip |-> [i \in DOMAIN p |-> IF p[i].k \in Branches THEN Past(p, i) + 1 ELSE i + 1] \o << >>])
Plans ==
  LET programs == Program
  IN  Table([k \in MCKind |-> Table([c \in DOMAIN programs[k] |-> Plan(programs[k][c])])])

(* An outline while it is computed, in rows of 50 steps.                   *)
Width == 50
Row(i) == ((i - 1) \div Width) + 1
Column(i) == ((i - 1) % Width) + 1
Rows(n, At(_)) ==
  [r \in 1..Row(n) |->
     [c \in 1..Width |-> LET i == (r - 1) * Width + c IN IF i <= n THEN At(i) ELSE {}] \o << >>] \o << >>
Flat(n, o) == [i \in 1..n |-> o[Row(i)][Column(i)]] \o << >>

(* The outlines so far, after step i of a script. Every step goes forward, *)
(* so that one pass over a script finds what its steps lead to.            *)
Push(look, plan, known, o, i) ==
  LET jump == plan.out[i]
      skip == plan.skip[i]
      here == o[Row(i)][Column(i)]
      reached == UNION {After(look, plan.p[i], i, jump, skip - 1, s) : s \in here}
      Add(j, t) == LET new == {q[2] : q \in {r \in reached : r[1] = j}} \ known[j]
                   IN  IF new = {} THEN t ELSE [t EXCEPT ![Row(j)][Column(j)] = new \cup @]
  IN  IF here = {} THEN o
      ELSE LET one == Add(i + 1, o)
               two == IF jump = i + 1 THEN one ELSE Add(jump, one)
           IN  IF skip \in {i + 1, jump} THEN two ELSE Add(skip, two)

(* The outline of a script, from what it may be in at its steps; a row at  *)
(* a time, for the depth of the recursion.                                 *)
Pass(look, plan, known, Seed(_)) ==
  LET last == Len(plan.p)
      row[r \in 0..Row(last + 1)] ==
        LET before == row[r - 1]
            upTo[c \in 0..Width] ==
              LET i == (r - 1) * Width + c
              IN  IF c = 0 THEN before
                  ELSE IF i > last THEN upTo[c - 1] ELSE Push(look, plan, known, upTo[c - 1], i)
        IN  IF r = 0 THEN Rows(last + 1, Seed) ELSE IF before = << >> THEN before ELSE upTo[Width]
  IN  Flat(last + 1, row[Row(last + 1)])
Empty(plan) == [i \in 1..(Len(plan.p) + 1) |-> {}] \o << >>

(* Round n follows what the commands of the round before leave first.      *)
Rounds == 12
FromStart(look, plans, first) ==
  LET Begins(c, new) == {Beginning(look, c, r) : r \in {r \in new : Legal(c, r.stage, r.deployed)}}
      followed == {c \in DOMAIN plans : ~Aside(look, plans[c].p)}
      round[n \in 0..Rounds] ==
        LET o == round[n - 1]
            found == Table([c \in followed |->
                       Pass(look, plans[c], o.steps[c], LAMBDA i : IF i = 1 THEN Begins(c, o.new) ELSE {})])
            ends == UNION {{Leaving(look, c, s) : s \in found[c][Len(found[c])]} : c \in followed}
            past == UNION {UNION {LeftBy(look, c, r) : r \in {r \in o.new : Legal(c, r.stage, r.deployed)}} :
                             c \in DOMAIN plans \ followed}
        IN  IF n = 0
            THEN [steps |-> Table([c \in DOMAIN plans |-> Empty(plans[c])]),
                  rest |-> {first}, new |-> {first}]
            ELSE IF o.new = {} THEN o
            ELSE [steps |-> Table([c \in DOMAIN plans |->
                              IF c \in followed
                              THEN [i \in DOMAIN found[c] |-> o.steps[c][i] \cup found[c][i]] \o << >>
                              ELSE o.steps[c]]),
                  rest |-> o.rest \cup ends \cup past, new |-> (ends \cup past) \ o.rest]
  IN  round[Rounds]

FromSigterm(look, plans) ==
  LET hit == Hit(look)
      Of(c, plan) ==
        LET jumps == IF c \in Calls THEN {}
                     ELSE {plan.out[i] : i \in {j \in DOMAIN plan.p : plan.p[j].k = "do"}}
        IN  Pass(look, plan, Empty(plan), LAMBDA i : IF i \in jumps THEN hit ELSE {})
  IN  [steps |-> Table([c \in DOMAIN plans |-> Of(c, plans[c])]), rest |-> {}]

MCOutline(v, k) ==
  LET look == Look(v, k)
  IN  IF Starts(look) THEN FromSigterm(look, Plans[k])
      ELSE FromStart(look, Plans[k], Between(Sees(look, Fresh[k]), "new", Known(look, None), 0))
---------------------------------------------------------------------------
(* The clauses of the promises.                                            *)

LiteralsOf(k, programs) ==
  LET sets == UNION {{p[i].set : i \in DOMAIN p} : p \in Range(programs)}
              \cup {off.set : off \in Switches[k]}
      Values(f) == {Boards[k][f]} \cup {s[f] : s \in {x \in sets : f \in DOMAIN x}}
  IN  Table([f \in DOMAIN Boards[k] |-> {f} \X Values(f)]) @@ Table([a \in Moods |-> {a} \X MoodValues(a)])
Vocabulary == Table([k \in MCKind |-> LiteralsOf(k, Classes[k])])
MCLiterals == LET table == Vocabulary IN table

(* What holds between two commands. A board of a boot loader that is       *)
(* booted, or has a boot loader to start, has its boot data; and one that  *)
(* runs the test image then runs the deployed one. So does a fastboot      *)
(* board with a session, one with a serial line only if it runs the test   *)
(* image; a capri may also be unbooted without android. After a            *)
(* deployment a fastboot board has its image, unless the job has failed,   *)
(* and a board on JTAG its NFS root.                                       *)
Not(k, a, v) == Vocabulary[k][a] \ {<<a, v>>}
Bootable(k) ==
  LET still == {<<"loader", "none">>, <<"booted", FALSE>>, <<"kept", TRUE>>}
  IN  { {<<"data", TRUE>>, <<"loader", "none">>}, {<<"data", TRUE>>, <<"booted", FALSE>>},
        still \cup {<<"live", TRUE>>} \cup Not(k, "runs", "test"),
        still \cup Not(k, "runs", "master") }
OnceDeployed(x) ==
  { {x, <<"deployed", None>>, <<"stage", "failed">>, <<"stage", "over">>, <<"stage", "done">>} }
BetweenCommands(h, k) ==
  CASE h = "tests" /\ k \in {"uboot", "vexpress"} -> Bootable(k)
    [] h = "tests" /\ k = "fastboot" -> {{<<"live", TRUE>>} \cup Not(k, "proc", "open")}
    [] h = "tests" /\ k = "fastboot_serial" ->
         {{<<"live", TRUE>>, <<"kept", TRUE>>} \cup Not(k, "proc", "open") \cup Not(k, "runs", "test")}
    [] h = "tests" /\ k = "capri" ->
         {{<<"live", TRUE>>, <<"android", TRUE>>, <<"booted", FALSE>>} \cup Not(k, "runs", "test")}
    [] h = "tests" /\ k = "nexell" -> {{<<"live", TRUE>>} \cup Not(k, "runs", "test")}
    [] h = "copied" /\ k \in {"fastboot", "capri"} -> OnceDeployed(<<"image", TRUE>>)
    [] h = "copied" /\ k = "fastboot_serial" -> {{<<"android", FALSE>>, <<"image", TRUE>>}}
    [] h = "copied" /\ k = "jtag" -> OnceDeployed(<<"nfs", TRUE>>)
    [] OTHER -> {}

(* The aspects that the clauses speak of, those on which two clauses that  *)
(* differ there only are made one, and whether they tell exceptions apart. *)
Care(keep, merge, blur) == [keep |-> {"exc"} \cup keep, merge |-> <<"exc">> \o merge, blur |-> blur]
Cares(h, k) ==
  LET copied == {"copy", "dir"} \cup Levels
  IN  CASE h = "tests" /\ k \in {"uboot", "vexpress"} ->
             Care({"booted", "data", "kept", "live", "loader", "runs"}, <<"loader">>, TRUE)
        [] h = "tests" /\ k = "fastboot" -> Care({"live", "proc"}, << >>, TRUE)
        [] h = "tests" /\ k = "fastboot_serial" -> Care({"kept", "live", "proc", "runs"}, << >>, FALSE)
        [] h = "tests" /\ k = "capri" -> Care({"android", "booted", "live", "runs"}, << >>, FALSE)
        [] h = "tests" /\ k = "fastmodel" -> Care({"live", "ramdisk"}, << >>, FALSE)
        [] h = "tests" /\ k \in {"nexell", "ipmi_tftp"} -> Care({"live", "runs"}, << >>, FALSE)
        [] h = "tests" -> Care({"live"}, << >>, FALSE)
        [] h = "copied" /\ k \in {"uboot", "vexpress"} -> Care(copied \cup {"booted", "loader"}, << >>, FALSE)
        [] h = "copied" /\ k = "fastmodel" -> Care(copied \cup {"booted", "ramdisk"}, << >>, FALSE)
        [] h = "copied" /\ k \in {"fastboot", "capri"} ->
             Care(copied \cup {"image", "stage", "deployed"}, <<"stage">>, FALSE)
        [] h = "copied" /\ k = "fastboot_serial" ->
             Care(copied \cup {"android", "booted", "caught", "image", "root", "runs", "served"}, << >>, TRUE)
        [] h = "copied" /\ k = "jtag" ->
             Care(copied \cup {"img", "live", "medium", "mounted", "nfs", "stage", "deployed"}, <<"stage">>, FALSE)
        [] h = "copied" -> Care(copied, << >>, FALSE)
        [] h = "changes" -> Care(copied \cup {"access", "caught"}, << >>, FALSE)

Cut(care, C) ==
  LET kept == {x \in C : x[1] \in care.keep}
  IN  IF care.blur /\ ~(Erring \subseteq kept) THEN {x \in kept : x \notin Erring} ELSE kept
(* Clauses that differ in aspect a only become what they share.            *)
Without(C, a) == {x \in C : x[1] # a}
Merged(a, S) ==
  LET others == {Without(C, a) : C \in S}
      Shared(o) == LET same == {C \in S : Without(C, a) = o}
                   IN  {x \in UNION same : \A C \in same : x \in C}
  IN  IF Cardinality(others) = Cardinality(S) THEN S ELSE {Shared(o) : o \in others}
Least(S) == {C \in S : \A D \in S : D = C \/ ~(D \subseteq C)}

(* The clauses before the moves of a step, after those of the later steps. *)
Before(lits, care, moves, At(_), promise) ==
  LET Wps(m) == LET full == {lits[a] : a \in {x[1] : x \in m.unless}}
                IN  {w \in {Wp(m, C) : C \in {D \in At(m.to) : ~Makes(m, D)}} :
                       \A all \in full : ~(all \subseteq w)}
      found == promise \cup {Cut(care, w) : w \in UNION {Wps(m) : m \in moves}}
      merged[n \in 0..Len(care.merge)] ==
        IF n = 0 THEN found ELSE Merged(care.merge[n], merged[n - 1])
  IN  IF Cardinality(found) < 2 THEN found ELSE Least(merged[Len(care.merge)])

Backwards(k, h, lits, care, c, plan, rest) ==
  LET last == Len(plan.p) + 1
      depth == Depth(plan.p) \o << >>
      Goal(i) == {C \in Promise(h, k, c, plan.p, i) : ~Truism(lits, C)}
      offs == PowerOff[k]
      Pull(o, i) ==
        LET At(j) == o[Row(j)][Column(j)]
            jump == plan.out[i]
            skip == plan.skip[i]
            goal == Goal(i)
        IN  IF At(i + 1) = {} /\ At(jump) = {} /\ At(skip) = {} /\ goal = {} THEN o
            ELSE [o EXCEPT ![Row(i)][Column(i)] =
                   Before(lits, care,
                          Moves(lits, offs, plan.p[i], i, jump, skip - 1, depth[i]), At, goal)]
      ends == Before(lits, care, ReturnMoves(c), LAMBDA j : rest, Goal(last))
      end == Rows(last, LAMBDA i : IF i = last THEN ends ELSE {})
      RECURSIVE Down(_, _, _)
      Down(o, high, low) ==
        IF high = low THEN Pull(o, high)
        ELSE LET middle == (high + low) \div 2
                 upper == Down(o, high, middle + 1)
             IN  IF upper = << >> THEN upper ELSE Down(upper, middle, low)
  IN  Flat(last, IF last = 1 THEN end ELSE Down(end, last - 1, 1))

MCSure(h, k) ==
  LET lits == Vocabulary[k]
      care == Cares(h, k)
      rest == BetweenCommands(h, k)
      plans == Plans[k]
  IN  [steps |-> Table([c \in DOMAIN plans |-> Backwards(k, h, lits, care, c, plans[c], rest)]),
       rest |-> rest]
=============================================================================
