-------------------------------- MODULE Parser --------------------------------
(***************************************************************************)
(* src/jast/parser.cc as operators: a recursive descent parser with        *)
(* operator precedence for binary expressions.  A token is a record with   *)
(* its type in t, and its value if it has one.  A parser state p has the   *)
(* tokens from the current one on, the flag of a for header, and the       *)
(* process-wide registry of named types.  Parse...(p) is the state after   *)
(* the handler and the tree it built.  What has been thrown is a token     *)
(* that no handler accepts and that nothing advances past: all that would  *)
(* follow in the code is passed by.  A Type* is the shape of its type or   *)
(* the wrapper that stands for a name (module TypeSystem has the objects,  *)
(* and that equal shapes are one object).                                  *)
(***************************************************************************)
EXTENDS AST, Integers, Sequences

\* Names of struct members in the order of std::map.
FieldNames == <<"next", "u", "v">>

-------------------------------------------------------------------------------
\* The tokens of a text and what the parser has of it.
Tok(p) == p.rest[1].t

\* Tokenizer::advance: at a slash where no division is expected, everything up
\* to the next slash is one regular expression.
Tokenized(rest, divide) ==
  LET slashes == {k \in 2..Len(rest) : rest[k].t = "/"} IN
  IF ~divide /\ rest[1].t = "/" /\ slashes # {}
    THEN LET end == CHOOSE k \in slashes : \A l \in slashes : k <= l IN
         <<[t |-> "regex"]>> \o SubSeq(rest, end + 1, Len(rest))
    ELSE rest

Thrown(p) == Tok(p) \in {"SyntaxError", "TypeError", "crash"}

Advance(p, divide) ==
  IF Tok(p) = "EOF" \/ Thrown(p) THEN p
  ELSE [p EXCEPT !.rest = Tokenized(Tail(@), divide)]

\* A parser at the start of a text, with the types that are there from the start.
Started(tokens) ==
  [rest |-> Tokenized(Append(tokens, [t |-> "EOF"]), FALSE), inFor |-> FALSE,
   fresh |-> 0, objects |-> {}, resolved |-> [n \in {} |-> None],
   named |-> [int |-> [k |-> "int"], str |-> [k |-> "str"], undef |-> [k |-> "undef"]]]

Done(p, e) == [p |-> p, e |-> e]
Throw(p, what) == Done(IF Thrown(p) THEN p ELSE [p EXCEPT !.rest = <<[t |-> what]>>], None)
Fail(p) == Throw(p, "SyntaxError")

\* EXPECT(t), and the checks of peek() that throw and else advance.
Expect_Any(p, t) == Advance(p, FALSE)   \* mutant: whatever there is
Expect(p, t) == IF Tok(p) = t THEN Advance(p, FALSE) ELSE Fail(p).p

-------------------------------------------------------------------------------
\* tokens.inc
AssignTokens == {"=", "|=", "^=", "&=", "<<=", ">>=", ">>>=", "+=", "-=", "*=", "/=", "%="}
Keywords == {"instanceof", "in", "delete", "typeof", "do", "else", "for", "function", "if",
             "return", "this", "while", "extern", "null", "true", "false", "type", "const", "let"}

Precedence(t) ==
  CASE t = "," -> 1                             [] t \in AssignTokens -> 2
    [] t = "||" -> 4                            [] t = "&&" -> 5
    [] t = "|" -> 6 [] t = "^" -> 7             [] t = "&" -> 8
    [] t \in {"==", "!=", "===", "!=="} -> 9
    [] t \in {"<", ">", "<=", ">=", "instanceof", "in"} -> 10
    [] t \in {"<<", ">>", ">>>"} -> 11          [] t \in {"+", "-"} -> 12
    [] t \in {"*", "/", "%"} -> 13              [] OTHER -> 0

\* MapBinaryOperator, MapTokenWithPrefixOperator
BinaryOperator ==
  "+" :> "plus" @@ "-" :> "minus" @@ "*" :> "times" @@ "/" :> "over" @@ "%" :> "rest"
  @@ "<<" :> "left" @@ ">>" :> "right" @@ ">>>" :> "zeroright" @@ "<" :> "less"
  @@ ">" :> "greater" @@ "<=" :> "atmost" @@ ">=" :> "atleast" @@ "==" :> "equal"
  @@ "!=" :> "unequal" @@ "===" :> "identical" @@ "!==" :> "different" @@ "&&" :> "both"
  @@ "||" :> "either" @@ "&" :> "bitand" @@ "|" :> "bitor" @@ "^" :> "bitxor" @@ "in" :> "in"
PrefixOperator ==
  "++" :> "increment" @@ "--" :> "decrement" @@ "&" :> "addr" @@ "~" :> "bitnot"
  @@ "!" :> "not" @@ "*" :> "deref"

-------------------------------------------------------------------------------
\* TypeSystem, over shapes.  getNamedType; TypeRegistry::Register.
GetNamedType(p, n) ==
  IF n \in DOMAIN p.named THEN Done(p, p.named[n])
  ELSE LET wrapper == [k |-> "name", name |-> n] IN
       Done([p EXCEPT !.named = (n :> wrapper) @@ @], wrapper)

Register(p, n, ty) ==
  LET open(w) == w.k = "name" /\ w.name \notin DOMAIN p.resolved
      target == IF ty.k = "name" THEN p.resolved[ty.name] ELSE ty IN
  CASE Thrown(p) -> Done(p, None)
    [] ~Thrown(p) /\ n \notin DOMAIN p.named ->
         Done([p EXCEPT !.named = (n :> ty) @@ @], None)
    [] ~Thrown(p) /\ n \in DOMAIN p.named ->
         IF ~open(p.named[n]) THEN Throw(p, "TypeError")
         ELSE IF open(ty) THEN Throw(p, "crash")
         ELSE Done([p EXCEPT !.resolved = (p.named[n].name :> target) @@ @], None)

\* The members that a std::map has after the insertions.
Struct(members) ==
  LET names == SelectSeq(FieldNames, LAMBDA n : n \in DOMAIN members) IN
  [k |-> "struct",
   fields |-> [i \in DOMAIN names |-> [name |-> names[i], type |-> members[names[i]]]]
              \o << >>]

\* Parse(what, p): the handlers that are called from more places than one.
RECURSIVE Parse(_, _), ParseTypes(_, _), ParseMembers(_, _), ParseParameters(_, _, _),
          ParseArguments(_, _), Suffixed(_, _), ParseBinaryExpressionRhs(_, _, _),
          ParseDeclarations(_, _), ParseStatements(_, _)

\* The arguments of a function type, the next one to read, and the parenthesis.
ParseTypes(p, tys) ==
  LET ty == Parse("type", p)
      all == Append(tys, ty.e) IN
  IF Tok(ty.p) = "," THEN ParseTypes(Advance(ty.p, FALSE), all)
  ELSE Done(Expect(ty.p, ")"), all)

ParseFunctionType(p) ==
  LET open == Expect(Advance(p, FALSE), "(")
      args == IF Tok(open) = ")" THEN Done(Advance(open, FALSE), << >>)
              ELSE ParseTypes(open, << >>)
      ret == IF Tok(args.p) = ":" THEN Parse("type", Advance(args.p, FALSE))
             ELSE Done(args.p, [k |-> "undef"]) IN
  Done(ret.p, [k |-> "function", ret |-> ret.e, args |-> args.e])

ParseType(p) ==
  LET next == Advance(p, FALSE)
      size == IF Tok(next) = "number" THEN Advance(next, FALSE) ELSE next
      over(kind, base) == Done(base.p, [k |-> kind, base |-> base.e]) IN
  CASE Tok(p) = "id" -> GetNamedType(next, p.rest[1].name)
    [] Tok(p) = "[" -> over("array", Parse("type", Expect(size, "]")))
    [] Tok(p) = "*" -> over("pointer", Parse("type", next))
    [] Tok(p) = "function" -> Parse("function type", p)
    [] OTHER -> Fail(p)

ParseMembers(p, members) ==
  LET ty == Parse("type", Expect(Advance(p, FALSE), ":")) IN
  CASE Tok(p) = "}" -> Done(Advance(p, FALSE), members)
    [] Tok(p) = "id" -> ParseMembers(ty.p, (p.rest[1].name :> ty.e) @@ members)
    [] OTHER -> Fail(p)

\* getObjectType registers the name only of a struct that is new.
DefineObject(p, n, ty) ==
  IF ty \in p.objects THEN Done(p, None)
  ELSE Register([p EXCEPT !.objects = @ \cup {ty}], n, ty)

ParseTypeDefinition(p) ==
  LET name == Advance(p, FALSE)
      q == Advance(name, FALSE)
      n == name.rest[1].name
      ty == CASE Tok(q) = "id" -> GetNamedType(Advance(q, FALSE), q.rest[1].name)
              [] Tok(q) = "{" -> ParseMembers(Advance(q, FALSE), [f \in {} |-> None])
              [] Tok(q) = "function" -> Parse("function type", q)
              [] Tok(q) = "*" -> Parse("type", q)
              [] OTHER -> Fail(q) IN
  IF Tok(name) # "id" THEN Fail(name)
  ELSE IF Tok(q) = "{" /\ ~Thrown(ty.p) THEN DefineObject(ty.p, n, Struct(ty.e))
  ELSE Register(ty.p, n, ty.e)

-------------------------------------------------------------------------------

\* function name(p: type, ...): type, as a tree still without a body.
ParseParameters(p, params, types) ==
  LET ty == Parse("type", Expect(Advance(p, FALSE), ":"))
      ps == Append(params, p.rest[1].name)
      tys == Append(types, ty.e) IN
  IF Tok(p) # "id" THEN Fail(p)
  ELSE IF Tok(ty.p) = ")" THEN Done(Advance(ty.p, FALSE), <<ps, tys>>)
  ELSE ParseParameters(Expect(ty.p, ","), ps, tys)

ParseFunctionPrototype(p) ==
  LET start == Advance(p, FALSE)
      named == Tok(start) = "id"
      open == Expect(IF named THEN Advance(start, FALSE) ELSE start, "(")
      lists == IF Tok(open) = ")" THEN Done(Advance(open, FALSE), << << >>, << >> >>)
               ELSE ParseParameters(open, << >>, << >>)
      ret == IF Tok(lists.p) = ":" THEN Parse("type", Advance(lists.p, FALSE))
             ELSE Done(lists.p, [k |-> "undef"]) IN
  IF Thrown(ret.p) THEN Fail(ret.p)
  ELSE Done(ret.p, FunctionPrototype(IF named THEN start.rest[1].name ELSE "",
                                     lists.e[1], lists.e[2], ret.e))

ParseFunctionStatement(p) ==
  LET proto == Parse("prototype", p)
      body == Parse("statement", proto.p) IN
  Done(body.p, FunctionStatement(proto.e, body.e, FALSE))

\* What stands behind extern is taken for function.
ParseExternFunction(p) ==
  LET proto == Parse("prototype", Advance(p, FALSE)) IN
  Done(proto.p, FunctionStatement(proto.e, None, TRUE))

\* After the token of a primary expression a slash divides.
ParsePrimary(p) ==
  LET tok == p.rest[1]
      next == Advance(p, TRUE)
      inner == Parse("binary", Advance(p, FALSE)) IN
  CASE tok.t = "null" -> Done(next, NullLiteral)
    [] tok.t = "number" -> Done(next, IntegralLiteral(tok.value))
    [] tok.t = "string" -> Done(next, StringLiteral(tok.text))
    [] tok.t = "id" -> Done(next, Identifier(tok.name))
    [] tok.t \in {"true", "false"} -> Done(next, BooleanLiteral(tok.t = "true"))
    [] tok.t = "this" -> Done(next, ThisHolder)
    [] tok.t = "(" -> IF Tok(inner.p) = ")" THEN Done(Advance(inner.p, TRUE), inner.e)
                      ELSE Fail(inner.p)
    [] tok.t = "function" -> Parse("function", p)
    [] OTHER -> Fail(p)

\* What can follow an expression to make a member expression of it.
ParseDotExpression(p) ==
  LET name == Advance(p, FALSE) IN
  CASE Tok(name) = "id" -> Done(Advance(name, TRUE), name.rest[1].name)
    [] Tok(name) \in Keywords -> Done(Advance(name, TRUE), Tok(name))
    [] OTHER -> Fail(name)

ParseIndexExpression(p) ==
  LET index == Parse("assign", Advance(p, FALSE)) IN
  IF Tok(index.p) = "]" THEN Done(Advance(index.p, TRUE), index.e) ELSE Fail(index.p)

ParseArguments(p, es) ==
  LET one == Parse("assign", p) IN
  CASE Tok(one.p) = ")" -> Done(Advance(one.p, TRUE), Append(es, one.e))
    [] Tok(one.p) = "," -> ParseArguments(Advance(one.p, FALSE), Append(es, one.e))
    [] OTHER -> Fail(one.p)

\* No arguments are a null list, here the empty sequence.
ParseArgumentList(p) ==
  LET first == Advance(p, FALSE) IN
  IF Tok(first) = ")" THEN Done(Advance(first, TRUE), << >>)
  ELSE ParseArguments(first, << >>)

\* The loop of ParseMemberExpression and of ParseCallExpression, which finds
\* nothing left to do.
Suffixed(p, e) ==
  LET name == ParseDotExpression(p)
      index == ParseIndexExpression(p)
      es == ParseArgumentList(p) IN
  CASE Tok(p) = "." -> Suffixed(name.p, DotExpression(e, name.e))
    [] Tok(p) = "[" -> Suffixed(index.p, IndexExpression(e, index.e))
    [] Tok(p) = "(" -> Suffixed(es.p, CallExpression(e, es.e))
    [] OTHER -> Done(p, e)
ParseMemberExpression(p) == LET e == ParsePrimary(p) IN Suffixed(e.p, e.e)
ParseCallExpression(p) == LET e == ParseMemberExpression(p) IN Suffixed(e.p, e.e)

\* A sign multiplies by one or minus one.  The tokens after ++ and -- are read as
\* if an operand had to follow.
ParseUnaryExpression(p) ==
  LET tok == Tok(p)
      operand == Parse("unary", Advance(p, FALSE))
      times(n) == Done(operand.p, BinaryExpression("times", operand.e, IntegralLiteral(n)))
      call == Parse("call", p)
      post(op) == Done(Advance(call.p, FALSE), PostfixExpression(op, call.e)) IN
  CASE tok = "+" -> times(1)
    [] tok = "-" -> times(-1)
    [] tok \in DOMAIN PrefixOperator ->
         Done(operand.p, PrefixExpression(PrefixOperator[tok], operand.e))
    [] OTHER -> CASE Tok(call.p) = "++" -> post("increment")
                  [] Tok(call.p) = "--" -> post("decrement")
                  [] OTHER -> call

\* Operator precedence: a tighter operator takes the right operand with it.
ParseBinaryExpressionRhs_Right(prec, p, lhs) ==  \* mutant: equal operators, too
  LET own == Precedence(Tok(p))
      operand == Parse("unary", Advance(p, FALSE))
      rhs == IF own <= Precedence(Tok(operand.p))
               THEN ParseBinaryExpressionRhs(own, operand.p, operand.e)
               ELSE operand IN
  IF own < prec THEN Done(p, lhs)
  ELSE IF Tok(p) \notin DOMAIN BinaryOperator THEN Fail(p)
  ELSE ParseBinaryExpressionRhs(prec, rhs.p, BinaryExpression(BinaryOperator[Tok(p)], lhs, rhs.e))
ParseBinaryExpressionRhs(prec, p, lhs) ==
  LET own == Precedence(Tok(p))
      operand == Parse("unary", Advance(p, FALSE))
      rhs == IF own < Precedence(Tok(operand.p))
               THEN ParseBinaryExpressionRhs(own + 1, operand.p, operand.e)
               ELSE operand IN
  IF own < prec THEN Done(p, lhs)
  ELSE IF Tok(p) \notin DOMAIN BinaryOperator THEN Fail(p)
  ELSE ParseBinaryExpressionRhs(prec, rhs.p, BinaryExpression(BinaryOperator[Tok(p)], lhs, rhs.e))

ParseBinaryExpression(p) ==
  LET lhs == Parse("unary", p) IN ParseBinaryExpressionRhs(3, lhs.p, lhs.e)

\* Which assignment it was is forgotten.
ParseAssignExpression(p) ==
  LET lhs == Parse("binary", p)
      rhs == Parse("assign", Advance(lhs.p, FALSE)) IN
  IF Tok(lhs.p) \notin AssignTokens THEN lhs
  ELSE Done(rhs.p, AssignExpression(lhs.e, rhs.e))

ParseExpressionOptional(p) ==
  IF Tok(p) = "semicolon" THEN Done(p, None) ELSE Parse("assign", p)

-------------------------------------------------------------------------------
\* let name: type = e.  Without a type there is a new wrapper, of its own.
ParseDeclaration(p) ==
  LET name == Advance(p, FALSE)
      ty == IF Tok(name) = ":" THEN Parse("type", Advance(name, FALSE))
            ELSE Done([name EXCEPT !.fresh = @ + 1], [k |-> "unresolved", at |-> name.fresh])
      ends == Tok(ty.p) \in {"semicolon", ","} \/ (ty.p.inFor /\ Tok(ty.p) = "in")
      init == IF ends THEN Done(ty.p, None) ELSE Parse("assign", Expect(ty.p, "=")) IN
  IF Tok(p) # "id" THEN Fail(p)
  ELSE Done(init.p, Declaration(p.rest[1].name, init.e, ty.e))

ParseDeclarations(p, list) ==
  LET one == ParseDeclaration(p)
      lets == Append(list, one.e) IN
  CASE Tok(one.p) = "semicolon" -> Done(Advance(one.p, FALSE), DeclarationList(lets))
    [] Tok(one.p) = "in" -> Done(one.p, DeclarationList(lets))
    [] Tok(one.p) = "," -> ParseDeclarations(Advance(one.p, FALSE), lets)
    [] OTHER -> Fail(one.p)
ParseVariableStatement(p) == ParseDeclarations(Advance(p, FALSE), << >>)

\* A condition in parentheses.
ParseCondition(p) ==
  LET c == Parse("binary", Expect(p, "(")) IN Done(Expect(c.p, ")"), c.e)

ParseIfStatement(p) ==
  LET c == Parse("condition", Advance(p, FALSE))
      body == Parse("statement", c.p)
      els == IF Tok(body.p) = "else" THEN Parse("statement", Advance(body.p, FALSE))
             ELSE Done(body.p, None) IN
  Done(els.p, IfElseStatement(c.e, body.e, els.e))

ParseForInStatement(p, in) ==
  LET body == Parse("statement", Expect(p, ")")) IN Done(body.p, ForStatement(in, None, None, body.e))

\* The rest of a for statement after what initialises it.
ParseForRest(p, init) ==
  LET c == IF Tok(p) = "semicolon" THEN Done(p, BooleanLiteral(TRUE))
           ELSE Parse("binary", p)
      q == Expect(c.p, "semicolon")
      update == IF Tok(q) = ")" THEN Done(q, None) ELSE Parse("binary", q)
      body == Parse("statement", Expect(update.p, ")")) IN
  Done(body.p, ForStatement(init, c.e, update.e, body.e))

\* The flag of the header lasts until the whole statement has been read.
ParseForStatement(p) ==
  LET q == [Expect(Advance(p, FALSE), "(") EXCEPT !.inFor = TRUE]
      init == IF Tok(q) \in {"let", "const"} THEN Parse("let", q)
              ELSE ParseExpressionOptional(q)
      over == Parse("assign", Advance(init.p, FALSE))
      loop == CASE Tok(init.p) = "in" ->
                     ParseForInStatement(over.p, BinaryExpression("in", init.e, over.e))
                [] Tok(init.p) # "in" /\ init.e.t = "binary" ->
                     IF init.e.op = "in" THEN ParseForInStatement(init.p, init.e)
                     ELSE ParseForRest(Expect(init.p, "semicolon"), init.e)
                [] Tok(init.p) # "in" /\ init.e.t = "lets" -> ParseForRest(init.p, init.e)
                [] OTHER -> ParseForRest(Expect(init.p, "semicolon"), init.e) IN
  Done([loop.p EXCEPT !.inFor = p.inFor], loop.e)

ParseWhileStatement(p) ==
  LET c == Parse("condition", Advance(p, FALSE))
      body == Parse("statement", c.p) IN
  Done(body.p, WhileStatement(c.e, body.e))

ParseDoWhileStatement(p) ==
  LET body == Parse("statement", Advance(p, FALSE))
      c == Parse("condition", Expect(body.p, "while")) IN
  Done(Expect(c.p, "semicolon"), DoWhileStatement(c.e, body.e))

\* A block keeps the null statements in it.
ParseStatements(p, list) ==
  LET one == Parse("statement", p) IN
  IF Tok(p) = "}" THEN Done(Advance(p, FALSE), BlockStatement(list))
  ELSE IF Thrown(one.p) THEN one
  ELSE ParseStatements(one.p, Append(list, one.e))
ParseBlockStatement(p) == ParseStatements(Advance(p, FALSE), << >>)

\* The semicolon of a return without a value is left to the next statement.
ParseReturnStatement(p) ==
  LET q == Advance(p, FALSE)
      e == Parse("binary", q) IN
  IF Tok(q) = "semicolon" THEN Done(q, ReturnStatement(None))
  ELSE Done(Expect(e.p, "semicolon"), ReturnStatement(e.e))

ParseStatement(p) ==
  LET e == ParseExpressionOptional(p) IN
  CASE Tok(p) = "if" -> ParseIfStatement(p)
    [] Tok(p) = "for" -> ParseForStatement(p)
    [] Tok(p) = "function" -> Parse("function", p)
    [] Tok(p) = "extern" -> ParseExternFunction(p)
    [] Tok(p) = "{" -> ParseBlockStatement(p)
    [] Tok(p) = "return" -> ParseReturnStatement(p)
    [] Tok(p) = "while" -> ParseWhileStatement(p)
    [] Tok(p) = "do" -> ParseDoWhileStatement(p)
    [] Tok(p) \in {"const", "let"} -> Parse("let", p)
    [] Tok(p) = "type" -> ParseTypeDefinition(p)
    [] OTHER -> Done(Expect(e.p, "semicolon"), e.e)

Parse(what, p) ==
  CASE what = "statement" -> ParseStatement(p)
    [] what = "let" -> ParseVariableStatement(p)
    [] what = "function" -> ParseFunctionStatement(p)
    [] what = "prototype" -> ParseFunctionPrototype(p)
    [] what = "condition" -> ParseCondition(p)
    [] what = "assign" -> ParseAssignExpression(p)
    [] what = "binary" -> ParseBinaryExpression(p)
    [] what = "unary" -> ParseUnaryExpression(p)
    [] what = "call" -> ParseCallExpression(p)
    [] what = "type" -> ParseType(p)
    [] what = "function type" -> ParseFunctionType(p)
===============================================================================
