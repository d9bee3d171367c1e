-------------------------------- MODULE DumpAST -------------------------------
(***************************************************************************)
(* samples/dump-ast.cc and the dump methods of types/type.cc, up to what   *)
(* they print: whether printing a tree comes to an end.  A null tree that  *)
(* is printed is followed; the type of a struct that holds a pointer to    *)
(* itself is printed for ever.                                             *)
(***************************************************************************)
EXTENDS Sequences

RECURSIVE TypeEnds(_, _, _), Dumps(_, _)

\* Type::dump, with the names whose types are being printed.
TypeEnds(ty, resolved, within) ==
  CASE ty.k \in {"pointer", "array"} -> TypeEnds(ty.base, resolved, within)
    [] ty.k = "struct" ->
         \A i \in DOMAIN ty.fields : TypeEnds(ty.fields[i].type, resolved, within)
    [] ty.k = "function" ->
         /\ \A i \in DOMAIN ty.args : TypeEnds(ty.args[i], resolved, within)
         /\ TypeEnds(ty.ret, resolved, within)
    [] ty.k = "name" /\ ty.name \in DOMAIN resolved ->
         /\ ty.name \notin within
         /\ TypeEnds(resolved[ty.name], resolved, within \cup {ty.name})
    [] OTHER -> TRUE

\* The parts of a tree that are printed if they are there.
Optional(e) ==
  CASE e.t = "for" -> <<e.init, e.condition, e.update>>
    [] e.t = "if" -> <<e.els>>
    [] e.t = "return" -> <<e.expr>>
    [] e.t = "let" -> <<e.init>>
    [] OTHER -> << >>

\* The parts that are printed anyway: what a member, index or call is made of, the
\* operands of an operator, and the parts of a statement.
Accessed(e) ==
  CASE e.kind = "call" -> <<e.expr>> \o e.arguments
    [] e.kind = "index" -> <<e.expr, e.index>>
    [] e.kind = "dot" -> <<e.expr>>

Operands(e) ==
  CASE e.t \in {"binary", "assign"} -> <<e.lhs, e.rhs>>
    [] e.t \in {"prefix", "postfix"} -> <<e.expr>>
    [] OTHER -> << >>

Needed(e) ==
  CASE e.t \in {"block", "lets"} -> e.list
    [] e.t = "for" -> <<e.body>>
    [] e.t \in {"if", "while", "do"} -> <<e.condition, e.body>>
    [] e.t = "function" -> IF e.extern THEN << >> ELSE <<e.body>>
    [] e.t = "member" -> Accessed(e)
    [] OTHER -> Operands(e)

TypesOf(e) ==
  CASE e.t = "let" -> <<e.type>> [] e.t = "function" -> Append(e.types, e.ret) [] OTHER -> << >>

\* e->Accept(&printer) comes back.
Dumps(e, resolved) ==
  /\ e.t # "none"
  /\ \A i \in DOMAIN Needed(e) : Dumps(Needed(e)[i], resolved)
  /\ \A i \in DOMAIN Optional(e) : Optional(e)[i].t = "none" \/ Dumps(Optional(e)[i], resolved)
  /\ \A i \in DOMAIN TypesOf(e) : TypeEnds(TypesOf(e)[i], resolved, {})
===============================================================================
