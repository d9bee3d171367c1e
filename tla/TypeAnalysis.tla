----------------------------- MODULE TypeAnalysis -----------------------------
(***************************************************************************)
(* src/jast/semantics/type-analysis.cc and type-detector.cc: the visitor   *)
(* that gives expressions types and records what does not fit, and what    *)
(* the dumper of samples/dump-ast.cc does with the same trees before.      *)
(*                                                                         *)
(* An analysis state a has the scopes of the detector's symbol table, the  *)
(* innermost last, as maps from names to types (module ScopeStack is what  *)
(* the table implements), currentFunctionStack, the errors recorded, and   *)
(* whether a null pointer has been followed, an assertion has failed or an *)
(* empty stack been read: nothing happens after that.                      *)
(***************************************************************************)
EXTENDS Integers, Sequences, TLC

NoType == [k |-> "none"]          \* a null Type*

\* An analysis that starts, with what the parser has resolved names to.
Fresh(resolved) ==
  [scopes |-> <<[n \in {} |-> NoType]>>, functions |-> << >>, errors |-> << >>,
   crashed |-> FALSE, resolved |-> resolved]

Found(a, type) == [a |-> a, type |-> type]
Crash(a) == [a EXCEPT !.crashed = TRUE]
Err(a, what) == [a EXCEPT !.errors = Append(@, what)]
Refused(a, what) == Found(Err(a, what), NoType)

\* What follows a detection, unless it has crashed.
With(r, F(_, _)) == IF r.a.crashed THEN r ELSE F(r.a, r.type)

\* Is...Type() and As...Type() of a Type*, through the wrapper of a name.
Concrete(a, ty) ==
  IF ty.k = "name" /\ ty.name \in DOMAIN a.resolved THEN a.resolved[ty.name] ELSE ty

\* ty->Is...Type() ? F : an error.  ty may be null.
Demand(a, ty, kinds, what, F(_)) ==
  IF ty = NoType THEN Found(Crash(a), NoType)
  ELSE IF Concrete(a, ty).k \in kinds THEN F(Concrete(a, ty))
  ELSE Refused(a, what)

-------------------------------------------------------------------------------
\* The symbol table.
OpenScope(a) == [a EXCEPT !.scopes = Append(@, [n \in {} |-> NoType])]
CloseScope(a) == [a EXCEPT !.scopes = SubSeq(@, 1, Len(@) - 1)]
Innermost(a) == a.scopes[Len(a.scopes)]
PutSymbol(a, n, ty) ==
  IF n \in DOMAIN Innermost(a) THEN a
  ELSE [a EXCEPT !.scopes[Len(a.scopes)] = (n :> ty) @@ @]
ScopesWith(a, n) == {d \in DOMAIN a.scopes : n \in DOMAIN a.scopes[d]}

-------------------------------------------------------------------------------
TypeOfIdentifier(a, n) ==
  IF ScopesWith(a, n) = {} THEN Refused(a, "used before definition")
  ELSE LET d == CHOOSE d \in ScopesWith(a, n) : \A c \in ScopesWith(a, n) : c <= d IN
       Found(a, a.scopes[d][n])

TypeOfDeclaration(a, e) ==
  IF e.name \in DOMAIN Innermost(a) THEN Refused(a, "already defined")
  ELSE Found(PutSymbol(a, e.name, e.type), e.type)

RECURSIVE TypeOf(_, _)

\* The arguments of a call and the index of an array are not looked at.
TypeOfMemberExpression(a, e) ==
  With(TypeOf(a, e.expr), LAMBDA b, ty :
    CASE e.kind = "call" ->
           Demand(b, ty, {"function"}, "not a function", LAMBDA f : Found(b, f.ret))
      [] e.kind = "index" ->
           Demand(b, ty, {"array"}, "not an array", LAMBDA array : Found(b, array.base))
      [] e.kind = "dot" ->
           Demand(b, ty, {"struct"}, "not an object", LAMBDA struct :
             LET at == {i \in DOMAIN struct.fields : struct.fields[i].name = e.name} IN
             IF at = {} THEN Refused(b, "no such property")
             ELSE Found(b, struct.fields[CHOOSE i \in at : TRUE].type)))

TypeOfPrefixExpression(a, e) ==
  With(TypeOf(a, e.expr), LAMBDA b, ty :
    CASE e.op = "addr" -> Found(b, [k |-> "pointer", base |-> ty])
      [] e.op = "deref" ->
           Demand(b, ty, {"pointer"}, "non-pointer dereferenced",
                  LAMBDA pointer : Found(b, pointer.base))
      [] OTHER -> Demand(b, ty, {"int"}, "not numeric", LAMBDA c : Found(b, ty)))

TypeOfPostfixExpression(a, e) ==
  With(TypeOf(a, e.expr), LAMBDA b, ty :
    Demand(b, ty, {"int"}, "not numeric", LAMBDA c : Found(b, ty)))

\* Types are compared as pointers.  The right one is never followed.
TypeOfBinaryExpression_AnyOperator(a, e) ==  \* mutant: strings are not only added
  With(TypeOf(a, e.lhs), LAMBDA b, l :
    With(TypeOf(b, e.rhs), LAMBDA c, r :
      Demand(c, l, {"int", "str"}, "wrong type",
             LAMBDA ty : IF l = r THEN Found(c, l) ELSE Refused(c, "wrong type"))))
TypeOfBinaryExpression(a, e) ==
  With(TypeOf(a, e.lhs), LAMBDA b, l :
    With(TypeOf(b, e.rhs), LAMBDA c, r :
      Demand(c, l, IF e.op = "plus" THEN {"int", "str"} ELSE {"int"}, "wrong type",
             LAMBDA ty : IF l = r THEN Found(c, l) ELSE Refused(c, "wrong type"))))

\* TypeDetector::Detect.  A null tree is followed; other trees fail an assertion.
TypeOf(a, e) ==
  CASE e.t = "null" -> Found(a, [k |-> "undef"])
    [] e.t \in {"int", "bool"} -> Found(a, [k |-> "int"])
    [] e.t = "str" -> Found(a, [k |-> "str"])
    [] e.t = "let" -> TypeOfDeclaration(a, e)
    [] e.t = "id" -> TypeOfIdentifier(a, e.name)
    [] e.t = "binary" -> TypeOfBinaryExpression(a, e)
    [] e.t = "assign" -> TypeOf(a, e.rhs)
    [] e.t = "member" -> TypeOfMemberExpression(a, e)
    [] e.t = "prefix" -> TypeOfPrefixExpression(a, e)
    [] e.t = "postfix" -> TypeOfPostfixExpression(a, e)
    [] OTHER -> Found(Crash(a), NoType)

-------------------------------------------------------------------------------
RECURSIVE Visit(_, _), VisitEach(_, _)

VisitEach(a, es) ==
  IF es = << >> \/ a.crashed THEN a ELSE VisitEach(Visit(a, Head(es)), Tail(es))

\* The parts of a statement that are there.
VisitParts_All(a, es) == VisitEach(a, es)   \* mutant: a missing part is visited, too
VisitParts(a, es) == VisitEach(a, SelectSeq(es, LAMBDA e : e.t # "none"))

VisitDeclarationList(a, e) == VisitEach(a, e.list)

VisitBlockStatement(a, e) ==
  LET b == VisitEach(OpenScope(a), e.list) IN IF b.crashed THEN b ELSE CloseScope(b)

\* The condition before the body, the body before the update.
VisitForStatement(a, e) ==
  LET b == VisitParts(OpenScope(a), <<e.init, e.condition, e.body, e.update>>) IN
  IF b.crashed THEN b ELSE CloseScope(b)

\* A function is known in its own body, and by the first type given to its name.
VisitFunctionStatement_Leaks(a, e) ==  \* mutant: no scope of its own
  LET type == [k |-> "function", ret |-> e.ret, args |-> e.types]
      known == PutSymbol(a, e.name, type)
      RECURSIVE Declared(_, _)
      Declared(b, i) ==
        IF i > Len(e.params) THEN b ELSE Declared(PutSymbol(b, e.params[i], e.types[i]), i + 1)
      opened == Declared([known EXCEPT !.functions = Append(@, e.ret)], 1)
      b == Visit(opened, e.body) IN
  IF e.extern THEN known ELSE IF b.crashed THEN b
  ELSE [b EXCEPT !.functions = SubSeq(@, 1, Len(@) - 1)]
VisitFunctionStatement(a, e) ==
  LET type == [k |-> "function", ret |-> e.ret, args |-> e.types]
      known == PutSymbol(a, e.name, type)
      RECURSIVE Declared(_, _)
      Declared(b, i) ==
        IF i > Len(e.params) THEN b ELSE Declared(PutSymbol(b, e.params[i], e.types[i]), i + 1)
      opened == Declared(OpenScope([known EXCEPT !.functions = Append(@, e.ret)]), 1)
      b == Visit(opened, e.body) IN
  IF e.extern THEN known ELSE IF b.crashed THEN b
  ELSE [CloseScope(b) EXCEPT !.functions = SubSeq(@, 1, Len(@) - 1)]

\* The else branch is visited whether or not there is one.
VisitIfElseStatement(a, e) ==
  LET r == With(TypeOf(a, e.condition), LAMBDA b, ty :
             Demand(b, ty, {"int"}, "condition should be an integer type",
                    LAMBDA c : Found(b, ty))) IN
  VisitEach(r.a, <<e.body, e.els>>)

\* back() of an empty stack is not a function.
VisitReturnStatement(a, e) ==
  LET r == TypeOf(a, e.expr) IN
  IF r.a.crashed THEN r.a
  ELSE IF r.a.functions = << >> THEN Crash(r.a)
  ELSE IF r.a.functions[Len(r.a.functions)] # r.type THEN Err(r.a, "return type mismatch")
  ELSE r.a

VisitAssignExpression(a, e) ==
  With(TypeOf(a, e.rhs), LAMBDA b, r :
    With(TypeOf(b, e.lhs), LAMBDA c, l :
      IF l = r THEN Found(c, l) ELSE Refused(c, "mismatch in assignment"))).a

\* e->Accept(this)
Visit(a, e) ==
  CASE e.t = "none" -> Crash(a)
    [] e.t \in {"null", "this", "int", "str", "bool", "id"} -> a
    [] e.t \in {"member", "prefix", "postfix", "binary", "let"} -> TypeOf(a, e).a
    [] e.t = "assign" -> VisitAssignExpression(a, e)
    [] e.t = "lets" -> VisitDeclarationList(a, e)
    [] e.t = "block" -> VisitBlockStatement(a, e)
    [] e.t = "for" -> VisitForStatement(a, e)
    [] e.t \in {"while", "do"} -> VisitParts(a, <<e.condition, e.body>>)
    [] e.t = "function" -> VisitFunctionStatement(a, e)
    [] e.t = "if" -> VisitIfElseStatement(a, e)
    [] e.t = "return" -> VisitReturnStatement(a, e)
===============================================================================
