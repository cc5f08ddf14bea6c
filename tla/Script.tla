------------------------------- MODULE Script -------------------------------
(***************************************************************************)
(* The control structure of the methods that drive a target, as data. A    *)
(* script is a sequence of steps, each at a nesting depth "in". A method   *)
(* of the code is an operator that returns its script, and a call of a     *)
(* method is that script in place. TargetJob executes them.                *)
(***************************************************************************)
EXTENDS Naturals, Sequences

Step(k, op, needs, set, raises) ==
  << [k |-> k, op |-> op, in |-> 0, needs |-> needs, set |-> set, raises |-> raises,
     out |-> 0, past |-> 0] >>

(* The empty assignment, as a condition and as an effect.                  *)
Nil == << >>
Mark(k) == Step(k, k, Nil, Nil, {})

(* One effect on the world: it takes place in the states that agree with   *)
(* "needs", assigns "set", or fails with one of "raises". "quiet" is a     *)
(* failure that the code does not notice: nothing happens.                 *)
Do(op, needs, set, raises) == Step("do", op, needs, set, raises)
Raise(class) == Step("raise", class, Nil, Nil, {class})
Reraise == Mark("reraise")

Deeper(p) == [i \in DOMAIN p |-> [p[i] EXCEPT !.in = @ + 1]]

TryFinally(p, q) == Deeper(p) \o Mark("finally") \o Deeper(q) \o Mark("resume")
TryExcept(p, classes, q) ==
  Deeper(p) \o Step("except", "except", Nil, Nil, classes) \o Deeper(q) \o Mark("end")

(* if cond: p else: q. Either leaves open what decides.                    *)
IfElse(cond, p, q) ==
  Step("if", "if", cond, Nil, {}) \o Deeper(p) \o Mark("else") \o Deeper(q) \o Mark("end")
Either(p, q) == Mark("either") \o Deeper(p) \o Mark("else") \o Deeper(q) \o Mark("end")
When(cond, p) == IfElse(cond, p, Nil)
Unless(cond, p) == IfElse(cond, Nil, p)
Maybe(p) == Either(p, Nil)

(* A loop that tries p until it succeeds, of two attempts: "between" is    *)
(* what the code does after the first failure, "last" after the second.    *)
Retry(p, classes, between, last) ==
  TryExcept(p, classes, between \o TryExcept(p, classes, last))

(* A context manager is a script with a Yield, where the body of the with  *)
(* statement goes.                                                         *)
Yield == Mark("yield")
Within(manager, body) ==
  LET from[i \in 1..(Len(manager) + 1)] ==
        LET yields == {j \in i..Len(manager) : manager[j].k = "yield"}
            y == CHOOSE j \in yields : \A k \in yields : j <= k
        IN  IF yields = {} THEN SubSeq(manager, i, Len(manager))
            ELSE SubSeq(manager, i, y - 1)
                 \o [j \in DOMAIN body |-> [body[j] EXCEPT !.in = @ + manager[y].in]]
                 \o from[y + 1]
  IN  from[1]

(* Where an exception raised at step i of p goes, and the marker of the    *)
(* same depth that follows it; a script is linked when it is whole.        *)
FirstAfter(p, i, Is(_)) ==
  CHOOSE j \in (i + 1)..(Len(p) + 1) :
    /\ j = Len(p) + 1 \/ Is(p[j].in)
    /\ \A k \in (i + 1)..(j - 1) : ~Is(p[k].in)
Link(p) ==
  [i \in DOMAIN p |->
     [p[i] EXCEPT !.out = FirstAfter(p, i, LAMBDA n : n < p[i].in),
                  !.past = FirstAfter(p, i, LAMBDA n : n = p[i].in)]] \o << >>
Out(p, i) == p[i].out
Past(p, i) == p[i].past

Holds(cond, w) == \A f \in DOMAIN cond : w[f] = cond[f]
Assign(set, w) == [f \in DOMAIN w |-> IF f \in DOMAIN set THEN set[f] ELSE w[f]]
(* What "first" and then "second" assign.                                  *)
Then(first, second) ==
  [f \in DOMAIN first \cup DOMAIN second |-> IF f \in DOMAIN second THEN second[f] ELSE first[f]]
Put(f, v) == [x \in {f} |-> v]
=============================================================================
