-------------------------------- MODULE Meaning -------------------------------
(***************************************************************************)
(* What a program of integers, variables, functions, if, for and the       *)
(* extern function print means: the output that compiling it with          *)
(* CodeGen and running it with Interp has to produce.  This is the         *)
(* ordinary reading of the language, told from no part of the compiler:    *)
(* arguments and results are values, a variable of a function belongs to   *)
(* one call of it, return ends the call.                                   *)
(*                                                                         *)
(* A machine m has the variables of the program and of the running call,   *)
(* the functions, the lines printed, and whether and what the call has     *)
(* returned.  Eval(tree, m) is the pair of the new machine and the value.  *)
(***************************************************************************)
EXTENDS Integers, Sequences, TLC

Boot ==
  [globals |-> [n \in {} |-> 0], locals |-> [n \in {} |-> 0], inCall |-> FALSE,
   functions |-> [n \in {} |-> 0], out |-> << >>, returned |-> FALSE, result |-> 0]

V(m, value) == [m |-> m, value |-> value]

Read(m, name) == IF name \in DOMAIN m.locals THEN m.locals[name] ELSE m.globals[name]
Write(m, name, value) ==
  IF name \in DOMAIN m.locals THEN [m EXCEPT !.locals[name] = value]
                              ELSE [m EXCEPT !.globals[name] = value]
New(m, name, value) ==
  IF m.inCall THEN [m EXCEPT !.locals = (name :> value) @@ @]
              ELSE [m EXCEPT !.globals = (name :> value) @@ @]

Bit(b) == IF b THEN 1 ELSE 0
Whole(l, r) ==   \* the quotient without its fraction, for what is divided by a positive r
  LET floor == l \div r IN IF l < 0 /\ floor * r # l THEN floor + 1 ELSE floor
Apply(op, l, r) ==
  CASE op = "plus" -> l + r
    [] op = "minus" -> l - r
    [] op = "times" -> l * r
    [] op = "over" -> Whole(l, r)
    [] op = "rest" -> l - r * Whole(l, r)
    [] op = "left" -> l * 2^r
    [] op = "right" -> l \div 2^r
    [] op = "less" -> Bit(l < r)
    [] op = "greater" -> Bit(l > r)
    [] op = "equal" -> Bit(l = r)
    [] op = "unequal" -> Bit(l # r)
    [] op = "atleast" -> Bit(l >= r)
    [] op = "atmost" -> Bit(l <= r)
    [] op = "bitand" -> Bit(l # 0 /\ r # 0)
    [] op = "bitor" -> Bit(l # 0 \/ r # 0)

RECURSIVE Eval(_, _), EvalEach(_, _), Repeat(_, _)

EvalEach(es, m) ==
  IF es = << >> THEN V(m, << >>)
  ELSE LET first == Eval(Head(es), m)
           rest == EvalEach(Tail(es), first.m) IN
       V(rest.m, <<first.value>> \o rest.value)

\* Statements up to a return.
RECURSIVE Run(_, _)
Run(es, m) ==
  IF es = << >> \/ m.returned THEN m ELSE Run(Tail(es), Eval(Head(es), m).m)

Repeat(e, m) ==
  LET cond == Eval(e.condition, m)
      body == Eval(e.body, cond.m) IN
  IF cond.value = 0 THEN cond.m
  ELSE IF body.m.returned THEN body.m ELSE Repeat(e, Eval(e.update, body.m).m)

Call(f, values, m) ==
  LET locals == [n \in {f.params[k] : k \in DOMAIN f.params} |->
                   values[CHOOSE k \in DOMAIN f.params : f.params[k] = n]]
      inside == [m EXCEPT !.locals = locals, !.inCall = TRUE, !.returned = FALSE,
                          !.result = 0]
      done == Eval(f.body, inside).m IN
  V([done EXCEPT !.locals = m.locals, !.inCall = m.inCall, !.returned = m.returned,
                 !.result = m.result], done.result)

Eval(e, m) ==
  CASE e.t = "int" -> V(m, e.value)
    [] e.t = "id" -> V(m, Read(m, e.name))
    [] e.t = "binary" ->
         LET l == Eval(e.lhs, m)
             r == Eval(e.rhs, l.m) IN V(r.m, Apply(e.op, l.value, r.value))
    [] e.t = "assign" ->
         LET r == Eval(e.rhs, m) IN V(Write(r.m, e.lhs.name, r.value), r.value)
    [] e.t \in {"prefix", "postfix"} ->
         LET old == Read(m, e.expr.name)
             new == IF e.op = "increment" THEN old + 1 ELSE old - 1 IN
         V(Write(m, e.expr.name, new), IF e.t = "prefix" THEN new ELSE old)
    [] e.t = "member" ->
         LET as == EvalEach(e.arguments, m)
             f == as.m.functions[e.expr.name] IN
         IF f.extern THEN V([as.m EXCEPT !.out = Append(@, as.value)], 0)
                     ELSE Call(f, as.value, as.m)
    [] e.t = "let" ->
         LET i == Eval(e.init, m) IN V(New(i.m, e.name, i.value), 0)
    [] e.t \in {"lets", "block"} -> V(Run(e.list, m), 0)
    [] e.t = "function" -> V([m EXCEPT !.functions = (e.name :> e) @@ @], 0)
    [] e.t = "return" ->
         LET r == Eval(e.expr, m) IN
         V([r.m EXCEPT !.returned = TRUE, !.result = r.value], r.value)
    [] e.t = "for" -> V(Repeat(e, Eval(e.init, m).m), 0)
    [] e.t = "if" ->
         LET c == Eval(e.condition, m) IN
         IF c.value # 0 THEN Eval(e.body, c.m)
         ELSE IF e.els.t = "none" THEN c ELSE Eval(e.els, c.m)

\* The lines a program prints.
Output(tree) == Eval(tree, Boot).m.out
===============================================================================
