------------------------------- MODULE MCFrontEnd -----------------------------
(***************************************************************************)
(* The texts the front end is checked on: trees written down, with every   *)
(* operator next to every other and every statement within every other,    *)
(* the programs of module Sources, and small programs with one token left  *)
(* out, doubled or replaced.                                               *)
(***************************************************************************)
EXTENDS FrontEnd, ASTMatch, Rendering, Sources

\* The structs of module Sources have a name in a text.
Prelude ==
  Sym("type") \o Ident("pair") \o Sym("{") \o Ident("u") \o Sym(":") \o Ident("int")
    \o Ident("v") \o Sym(":") \o Sym("*") \o Ident("int") \o Sym("}")

WrittenDown(tree) == [tokens |-> Prelude \o Sentences(tree.list), tree |-> tree]

\* What f makes of the elements, n of each, one after the other.
Spread(f(_), es, n) ==
  [k \in 1..(n * Len(es)) |-> f(es[(k - 1) \div n + 1])[((k - 1) % n) + 1]]

\* Expressions: operators in pairs, in both orders and both nestings, and prefix
\* and postfix operators, calls, members and indices around and below them.
Simple == <<Id("x"), CallOf("f", <<Id("y"), Lit(2)>>), CallOf("f", << >>), Dot("p", "u"),
            IndexExpression(Id("x"), Assign("y", Lit(1))),
            Str("s"), BooleanLiteral(TRUE), NullLiteral, ThisHolder>>
Ops == <<"either", "both", "bitor", "bitxor", "bitand", "equal", "different", "less", "in",
         "left", "plus", "minus", "times", "rest">>
Pairs ==
  Spread(LAMBDA o1 : [k \in DOMAIN Ops |-> Op(o1, Op(Ops[k], Id("x"), Id("y")), Id("z"))],
         Ops, Len(Ops))
  \o Spread(LAMBDA o1 : [k \in DOMAIN Ops |-> Op(o1, Id("x"), Op(Ops[k], Id("y"), Id("z")))],
            Ops, Len(Ops))
Triples ==
  {Op(o1, Op(o2, Id("x"), Id("y")), Op(o3, Id("y"), Id("z"))) :
          o1 \in {"plus", "times", "less"}, o2 \in {"plus", "minus", "rest", "both"},
          o3 \in {"plus", "minus", "rest", "both"}}
  \cup {Op("over", Op("over", Id("x"), Dot("p", "u")), Op("over", Id("y"), CallOf("f", << >>)))}
Posts(e) == {PostfixExpression(op, e) : op \in {"increment", "decrement"}}
Signed ==
  {Prefix(op, e) :
     op \in {"increment", "decrement", "addr", "deref", "not", "bitnot"},
     e \in {Id("x"), CallOf("f", <<Id("y")>>), Op("plus", Id("x"), Id("y")),
            Prefix("not", Id("x"))} \cup Posts(Id("x"))}
Unaries ==
  {Op(op, l, r) : op \in {"times", "bitand", "minus"},
     l \in {Prefix("addr", Id("x"))} \cup Posts(Id("x")),
     r \in {Prefix("deref", Id("x")), Prefix("decrement", Id("x"))} \cup Posts(Id("y"))}
  \cup Posts(Op("plus", Id("x"), Id("y"))) \cup Posts(Prefix("deref", Id("x")))
  \cup {CallExpression(Op("plus", Id("x"), Id("y")),
                       <<Assign("x", Lit(3)), Op("plus", Id("x"), Id("y"))>>),
        DotExpression(Simple[5], "u"),
        Set(Op("plus", Id("x"), Id("y")), Assign("z", Id("x")))}
Divided ==
  {Op(o1, Op(o2, l, Id("y")), r) : o1 \in {"over", "times"}, o2 \in {"over", "times"},
     l \in {Prefix("increment", Id("x"))} \cup Posts(Id("x")), r \in {Id("z")} \cup Posts(Id("z"))}
Expressions ==
  Simple \o Pairs \o Listed(Triples) \o Listed(Signed) \o Listed(Unaries) \o Listed(Divided)

\* Statements, each within each of the others.
ForIn(l, e) == For(Op("in", l, Id("y")), None, None, e)
Untyped(n, i) == Typed(n, [k |-> "unresolved", at |-> i], None)
FunctionOf(ps, ret) == [k |-> "function", ret |-> ret, args |-> ps]
Leaves == <<Id("x"), Assign("x", Lit(1)), Ret1(Id("x")), Block(<< >>), Let("z", Id("x")),
            [Extern("e") EXCEPT !.types = <<FunctionOf(<<IntType, IntType>>, IntType)>>],
            DeclarationList(<<Declaration("v", Id("x"), IntType),
              Declaration("w", None, [k |-> "array", base |-> [k |-> "pointer", base |-> IntType]])>>),
            Let("f", Fun("", << >>, <<Ret1(Lit(1))>>)), None>>
Around(e) ==
  <<Block(<<e, e>>), If(Id("x"), Block(<<e>>), e), If(Id("x"), e, None),
    If(Id("x"), e, Block(<< >>)), WhileStatement(Lit(1), e), DoWhileStatement(Id("x"), e),
    For(Let("i", Lit(0)), Op("less", Id("i"), Lit(2)), Inc("i"), e),
    For(None, BooleanLiteral(TRUE), None, e), For(Id("x"), Id("y"), None, e),
    ForIn(Id("x"), e), Fun("f", <<"a", "b">>, <<e>>),
    [Fun("g", << >>, << >>) EXCEPT !.body = e, !.ret = [k |-> "undef"]]>>

AroundEach(es) == Spread(Around, es, Len(Around(None)))
Once == AroundEach(Leaves)
Statements == SelectSeq(Leaves \o Once \o AroundEach(Once)
                          \o [i \in DOMAIN Once |-> ForIn(Untyped("i", 0), Once[i])],
                        LAMBDA e : e.t # "none" /\ ~Dangles(e))

\* A statement after the variables it is about.
Around2(es) ==
  [i \in DOMAIN es |-> Block(<<Let("x", Lit(1)), Typed("p", Pair, None), es[i]>>)]
Compilable == SelectSeq(WellBehaved \o IllBehaved,
                        LAMBDA tree : \A k \in DOMAIN Sentences(tree.list) :
                          LET tok == Sentences(tree.list)[k] IN
                          tok.t = "number" => tok.value >= 0)
WrittenTexts ==
  LET trees == Around2(Expressions) \o Around2(Statements) \o Compilable IN
  [i \in DOMAIN trees |-> WrittenDown(trees[i])]

\* Two structs that hold or point to themselves, each other, both or neither, and
\* variables of them.  A name is a wrapper in whatever mentions it before it is
\* defined, and for ever if what defines it repeats the members of another struct.
Named(n) == [k |-> "name", name |-> n]
PointerTo(ty) == [k |-> "pointer", base |-> ty]
Holding(ty) == [k |-> "struct", fields |-> <<[name |-> "u", type |-> ty]>>]
MemberTypes ==
  <<IntType, PointerTo(Named("node")), PointerTo(Named("other")),
    [k |-> "array", base |-> Named("other")], Named("node"),
    FunctionOf(<<Named("node")>>, IntType)>>
Defined(n, ty) ==
  Sym("type") \o Ident(n) \o Sym("{") \o Ident("u") \o Sym(":") \o TypeText(ty) \o Sym("}")
Knowing(ty, node) ==      \* a type whose mentions of node are the type node
  CASE ty = MemberTypes[2] -> PointerTo(node)
    [] ty = MemberTypes[5] -> node
    [] ty = MemberTypes[6] -> FunctionOf(<<node>>, IntType)
    [] OTHER -> ty
DefinedText(first, second) ==
  LET node == IF "node" \in Mentioned(first) THEN Named("node") ELSE Holding(first)
      member == Knowing(second, node)
      other == IF \/ "other" \in Mentioned(first) \cup Mentioned(second)
                  \/ member = first
                 THEN Named("other") ELSE Holding(member) IN
  [tokens |-> Defined("node", first) \o Defined("other", second)
                \o Sentence(Typed("x", PointerTo(Named("node")), None))
                \o Sentence(Typed("y", Named("other"), None)) \o Sentence(Dot("y", "u")),
   tree |-> Block(<<Typed("x", PointerTo(node), None), Typed("y", other, None), Dot("y", "u")>>)]
DefinedTexts ==
  Spread(LAMBDA first : [k \in DOMAIN MemberTypes |-> DefinedText(first, MemberTypes[k])],
         MemberTypes, Len(MemberTypes))

\* What is edited, and the edits: a token left out, doubled or replaced.
Edited == <<
  <<Let("x", Id("y"))>>,
  <<If(Op("less", Id("x"), Id("y")), Assign("x", Lit(1)), Block(<<Assign("y", Lit(2))>>))>>,
  <<For(Let("i", Lit(0)), Op("less", Id("i"), Id("x")), PostInc("i"),
        CallOf("f", <<Id("i"), Id("y")>>))>>,
  <<ForIn(Id("i"), Set(IndexExpression(Id("x"), Id("i")), Lit(1)))>>,
  <<WhileStatement(Op("bitand", Id("x"), Id("y")), Set(Dot("x", "u"), Id("y")))>>,
  <<DoWhileStatement(Id("x"), Block(<<Assign("x", Prefix("deref", Id("y")))>>))>>,
  <<Fun("f", <<"a", "b">>, <<Ret1(Op("times", Id("a"), Id("b")))>>)>>,
  <<Extern("e"), Assign("x", Op("equal", Op("less", Id("y"), Lit(1)), Lit(2)))>>,
  <<DeclarationList(Let("v", Id("x")).list \o Untyped("w", 0).list), Id("x")>> >>
Replacements ==
  <<Sym("("), Sym(")"), Sym("semicolon"), Sym("="), Sym("+="), Sym("in"), Sym("else"), Sym("}"),
    Sym(","), Sym("function"), Ident("x"), Ident("int"), << >> >>
RECURSIVE Flat(_)
Flat(ss) == IF ss = << >> THEN << >> ELSE Head(ss) \o Flat(Tail(ss))
EditsOf(ts) ==
  Flat([k \in DOMAIN ts |->
    [r \in DOMAIN Replacements |->
       SubSeq(ts, 1, k - 1) \o Replacements[r] \o SubSeq(ts, k + 1, Len(ts))]
    \o <<SubSeq(ts, 1, k) \o SubSeq(ts, k, Len(ts))>>])
EditedTexts ==
  LET texts == Flat([i \in DOMAIN Edited |-> EditsOf(Sentences(Edited[i]))]) IN
  [i \in DOMAIN texts |-> [tokens |-> texts[i], tree |-> None]]

AllTexts == WrittenTexts \o DefinedTexts \o EditedTexts
CheckedTexts == AllTexts

\* The example that the comments of ParseForStatement give of a for.
ForExample ==
  Sym("for") \o Parens(Sentence(Assign("x", Lit(10)))
                         \o Sentence(Op("less", Id("x"), Lit(100)))
                         \o Written(Assign("x", Op("plus", Id("x"), Lit(1)))))
    \o Sym("semicolon")
ExampleTexts == <<[tokens |-> ForExample, tree |-> None]>>

-------------------------------------------------------------------------------
\* Behind ++ or -- a slash that is not the last one starts a regular expression.
Misread(tokens) ==
  \E k \in 2..Len(tokens) :
    /\ tokens[k].t = "/" /\ tokens[k - 1].t \in {"++", "--"}
    /\ \E l \in (k + 1)..Len(tokens) : tokens[l].t = "/"

\* What is read of a text that was written down from a tree is that tree: every
\* operator takes the operands its level and its side give it, every part of
\* a statement ends where it ended, every name stands for its type, and nothing
\* of it is refused, but for a text whose divisions are misread, which is refused.
ParsesBack ==
  \A given \in {Texts[text]} :
    given.tree.t # "none" =>
      /\ phase \notin {"SyntaxError", "TypeError", "crash"} \/ Misread(given.tokens)
      /\ Read => Program = given.tree /\ ~Misread(given.tokens)

\* What of a text its tree shows: parentheses and semicolons are in its shape alone,
\* which assignment it was is forgotten, a keyword may name a member, and the token
\* behind extern is skipped whatever it is (parser.cc:798).
Significant(tokens) ==
  LET said(k) ==
        CASE k > 1 /\ tokens[k - 1].t = "extern" -> Sym("function")[1]
          [] tokens[k].t \in AssignTokens -> Sym("=")[1]
          [] tokens[k].t = "id" /\ tokens[k].name \in Keywords -> Sym(tokens[k].name)[1]
          [] OTHER -> tokens[k] IN
  SelectSeq([k \in DOMAIN tokens |-> said(k)],
            LAMBDA tok : tok.t \notin {"(", ")", "semicolon"})

\* Whatever the text, if it is accepted then writing its tree down gives what the
\* text says: no token is skipped, and none is taken for another.
NothingIgnored ==
  \A given \in {Texts[text]} :
    given.tree.t = "none" /\ Read =>
      Significant(Sentences(statements)) = Significant(given.tokens)

\* What the matcher compares of a tree: everything but types, whether a function is
\* extern, and whether a member is named by a dot or by an index.
RECURSIVE Blurred(_)
Blurred(e) ==
  LET each(es) == [i \in DOMAIN es |-> Blurred(es[i])] IN
  CASE e.t \in {"block", "lets"} -> <<e.t, each(e.list)>>
    [] e.t = "let" -> <<e.t, e.name, Blurred(e.init)>>
    [] e.t = "for" -> <<e.t, each(<<e.init, e.condition, e.update, e.body>>)>>
    [] e.t = "if" -> <<e.t, each(<<e.condition, e.body, e.els>>)>>
    [] e.t \in {"while", "do"} -> <<e.t, each(<<e.condition, e.body>>)>>
    [] e.t = "function" -> <<e.t, e.name, e.params, Blurred(e.body)>>
    [] e.t = "binary" -> <<e.t, e.op, each(<<e.lhs, e.rhs>>)>>
    [] e.t = "assign" -> <<e.t, each(<<e.lhs, e.rhs>>)>>
    [] e.t \in {"prefix", "postfix"} -> <<e.t, e.op, Blurred(e.expr)>>
    [] e.t = "return" -> <<e.t, Blurred(e.expr)>>
    [] e.t = "member" /\ e.kind = "call" -> <<e.t, "call", Blurred(e.expr), each(e.arguments)>>
    [] e.t = "member" /\ e.kind = "dot" ->
         <<e.t, "part", Blurred(e.expr), Blurred(Identifier(e.name))>>
    [] e.t = "member" /\ e.kind = "index" ->
         <<e.t, "part", Blurred(e.expr), Blurred(e.index)>>
    [] OTHER -> <<e.t, e>>

\* The program as it was written, the one of the text before, and those that were
\* edited.
Others ==
  UNION {{BlockStatement(edited[i]) : i \in DOMAIN edited} : edited \in {Edited}}
  \cup (UNION {{texts[i].tree : i \in {text - 1, text} \ {0}} : texts \in {Texts}} \ {None})

\* The matcher, asked both ways, takes a program for another exactly if the two
\* differ in nothing that it compares: no part is skipped and none is compared with
\* the part of another place.  Asked one way it also takes declarations for the first
\* of a longer list, and it gives no answer on equal calls without arguments.
MatcherTellsApart ==
  phase = "dumping" =>
    \A program \in {Program} : \A other \in Others :
      (Match(program, other) = "yes" /\ Match(other, program) = "yes")
        <=> (/\ Blurred(program) = Blurred(other)
             /\ \A e \in Trees(program) : e.t = "member" =>
                  e.kind # "call" \/ e.arguments # << >>)

\* ParseForStatement reads the example of its comments, "for (x = 10; x < 100;
\* x = x + 1)" (parser.cc:688).
ExampleIsRead == phase \notin {"SyntaxError", "TypeError", "crash"}
===============================================================================
