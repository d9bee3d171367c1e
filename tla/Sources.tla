-------------------------------- MODULE Sources -------------------------------
(***************************************************************************)
(* The source programs that the pipeline is checked on: every program of   *)
(* some small families of syntax trees, as src/jast/parser.cc builds them. *)
(* The families keep to what the language means under every reading        *)
(* (module Meaning); the last ones leave that ground on purpose.           *)
(***************************************************************************)
EXTENDS AST, Integers, Sequences

Lit(n) == IntegralLiteral(n)
Id(n) == Identifier(n)
Op(op, l, r) == BinaryExpression(op, l, r)
Inc(n) == PrefixExpression("increment", Id(n))
PostInc(n) == PostfixExpression("increment", Id(n))
Assign(n, e) == AssignExpression(Id(n), e)
CallOf(f, es) == CallExpression(Id(f), es)
Printed(es) == CallOf("print", es)
IntType == [k |-> "int"]
Typed(n, type, e) == DeclarationList(<<Declaration(n, e, type)>>)
Let(n, e) == Typed(n, IntType, e)
Block(es) == BlockStatement(es)
If(c, a, b) == IfElseStatement(c, a, b)
For(i, c, u, b) == ForStatement(i, c, u, b)
TypedFunction(f, ps, type, extern, body) ==
  FunctionStatement(FunctionPrototype(f, ps, [i \in DOMAIN ps |-> type], type), body, extern)
Function(f, ps, extern, body) == TypedFunction(f, ps, IntType, extern, body)
Fun(f, ps, es) == Function(f, ps, FALSE, Block(es))
Ret1(e) == ReturnStatement(e)
Extern(f) == Function(f, <<"p">>, TRUE, None)

\* extern function print(...); let x = 1; let y = 2; then es.
Main(es) == Block(<<Extern("print"), Let("x", Lit(1)), Let("y", Lit(2))>> \o es)

Atoms == {Lit(0), Lit(2), Id("x"), Id("y")}
Sums == {Op(op, l, r) : op \in {"plus", "minus", "less"}, l \in Atoms, r \in Atoms}
\* >= and <= of what is equal are left out: they are compiled as > and <.
Tests == {Op(op, l, Id("y")) : op \in {"less", "equal", "greater", "unequal"},
                               l \in {Lit(2), Id("x")}}
         \cup {Op(op, l, Id("y")) : op \in {"atleast", "atmost"}, l \in {Lit(5), Id("x")}}

\* Divided and shifted is by constants, for what may be negative and what may not.
Parts == {Op(op, Op("minus", l, Lit(5)), Lit(n)) : op \in {"over", "rest"},
                                                  l \in Atoms, n \in {2, 3}}
         \cup {Op(op, l, Lit(n)) : op \in {"left", "right"}, l \in Atoms, n \in {0, 1}}

\* x = e, then both variables are printed.
Straight ==
  {Main(<<Assign("x", e), Printed(<<Id("x"), Id("y")>>)>>) :
     e \in Sums \cup {Op("times", s, Id("y")) : s \in Sums} \cup Parts}

\* A condition in an if, with and without else, within an if.
Branches ==
  {Main(<<If(c, Block(<<Assign("x", Lit(5))>>), e), Printed(<<Id("x"), Id("y")>>)>>) :
     c \in Tests,
     e \in {None, Block(<<Assign("y", Op("plus", Id("x"), Lit(1)))>>)}
           \cup {If(d, Block(<<Inc("y")>>), Block(<<Inc("x")>>)) : d \in Tests}}

\* A loop, with a body that goes on, branches, or loops itself.
Loops ==
  {Main(<<For(Let("i", Lit(0)), Op("less", Id("i"), Lit(n)), u, Block(b)),
          Printed(<<Id("x"), Id("y")>>)>>) :
     n \in 0..3, u \in {Inc("i"), PostInc("i")},
     b \in {<<Assign("x", Op("plus", Id("x"), Id("i")))>>,
            <<If(Op("less", Id("x"), Id("i")), Block(<<Inc("y")>>),
                 Block(<<Inc("x")>>))>>,
            <<Assign("x", Lit(0)),
              For(Assign("x", Lit(0)), Op("less", Id("x"), Id("i")), Inc("x"),
                  Block(<<Inc("y")>>)),
              Printed(<<Id("y")>>)>>}}

\* Functions that call each other, once or twice, and return on every path.
F(e) == Fun("f", <<"a", "b">>, <<Ret1(e)>>)
G(e) == Fun("g", <<"c">>, <<Let("z", CallOf("f", <<Id("c"), Lit(3)>>)), Ret1(e)>>)
Calls ==
  {Main(<<F(e), G(d), Printed(<<CallOf("g", <<Id("x")>>),
                              CallOf("f", <<Id("y"), CallOf("g", <<Lit(4)>>)>>)>>),
          Printed(<<Id("x")>>)>>) :
     e \in {Op(op, l, r) : op \in {"plus", "minus"}, l \in {Id("a"), Id("x")},
                           r \in {Id("b"), Lit(1)}},
     d \in {Op("plus", Id("z"), Id("c")),
            Op("minus", Id("c"), CallOf("f", <<Id("z"), Id("z")>>))}}
  \cup
  {Main(<<Fun("f", <<"a">>,
              <<If(Op("less", Id("a"), Id("y")), Block(<<Ret1(Op("plus", Id("a"), Lit(10)))>>),
                   Block(<<Ret1(Op("minus", Id("a"), Lit(10)))>>))>>),
          For(Let("i", Lit(0)), Op("less", Id("i"), Lit(3)), Inc("i"),
              Block(<<Assign("x", Op("plus", Id("x"), CallOf("f", <<e>>)))>>)),
          Printed(<<Id("x")>>)>>) : e \in {Id("i"), Op("plus", Id("i"), Id("y"))}}
  \cup   \* a function without return, between one that returns and its caller
  {Main(<<Fun("f", <<"a">>, <<Ret1(Op("plus", Id("a"), Lit(1)))>>),
          Fun("h", <<"c">>, <<Assign("x", CallOf("f", <<Id("c")>>))>>),
          Fun("k", <<"d">>, <<CallOf("h", <<Id("d")>>),
                              Ret1(Op("plus", Id("d"), Id("x")))>>),
          Printed(<<CallOf("k", <<e>>), Id("x")>>)>>) : e \in Atoms \ {Id("x")}}

RECURSIVE Listed(_)
Listed(trees) ==
  IF trees = {} THEN << >>
  ELSE LET tree == CHOOSE tree \in trees : TRUE IN <<tree>> \o Listed(trees \ {tree})

WellBehaved == Listed(Straight) \o Listed(Branches) \o Listed(Loops) \o Listed(Calls)

\* Programs over values of several types, right and wrong; module Pipeline takes those
\* that type analysis accepts.  They leave out what it does not look at: arguments,
\* initial values, the left side of an assignment within another, a missing else, a
\* variable alone as a statement, dereferencing, a path without return; and what no
\* backend has: indexing, operators without an opcode, updates of what is no variable
\* or is a parameter.
StrType == [k |-> "str"]
Pair == [k |-> "struct", fields |-> <<[name |-> "u", type |-> IntType],
          [name |-> "v", type |-> [k |-> "pointer", base |-> IntType]]>>]
Dot(n, f) == DotExpression(Id(n), f)
Str(str) == StringLiteral(str)
Prefix(op, e) == PrefixExpression(op, e)
Set(lhs, e) == AssignExpression(lhs, e)

Places == {Id("x"), Id("s"), Id("p"), Dot("p", "u"), Dot("p", "v")}
Terms == Places \cup {Lit(2), Str("t"), Dot("s", "u"), Dot("p", "w"), Prefix("addr", Id("x")),
                      CallOf("f", <<Id("x"), Lit(3)>>), CallOf("g", <<Id("s")>>),
                      CallOf("h", <<Dot("p", "u")>>), CallOf("x", <<Id("y")>>), Id("missing")}
Steps == {[t |-> t, op |-> "increment", expr |-> Id(n)] :
            t \in {"prefix", "postfix"}, n \in {"x", "s", "p", "f"}}
Mixed == {Op(op, l, r) : op \in {"plus", "less"}, l \in Terms, r \in Terms}
Nested == {Op("plus", Op("plus", a, b), c) :
             a \in {Id("s"), Id("y")}, b \in Places, c \in {Dot("p", "u"), Str("t"), Id("p")}}

TypedMain(es) ==
  Main(<<Typed("s", StrType, Str("s")), Typed("p", Pair, None),
         Fun("f", <<"a", "b">>, <<Ret1(Op("plus", Id("a"), Id("b")))>>),
         TypedFunction("g", <<"c">>, StrType, FALSE,
                       Block(<<Ret1(Op("plus", Id("c"), Str("t")))>>)),
         Fun("h", <<"d">>, <<If(Op("less", Id("d"), Id("y")),
                                Block(<<Ret1(Op("plus", Id("d"), Lit(1)))>>),
                                Block(<<Ret1(Op("times", Id("d"), Id("d")))>>))>>)>>
       \o es \o <<Printed(<<Id("x"), Id("s")>>)>>)

OfType == {<<IntType, Id("x")>>, <<StrType, Id("s")>>}

TypedPrograms ==
  {TypedMain(<<Set(l, e)>>) : l \in Places, e \in Terms \cup Steps \cup Nested}
  \cup {TypedMain(<<Set(l, Set(l, e))>>) : l \in Places, e \in Terms}
  \cup {TypedMain(<<Set(l, e)>>) : l \in {Id("x"), Id("s")}, e \in Mixed}
  \cup {TypedMain(<<If(e, Block(<<Inc("x")>>), Block(<<Set(Id("s"), Str("u"))>>))>>) :
           e \in Mixed \cup Steps}
  \cup {TypedMain(<<For(Let("i", Lit(0)), Op("less", Id("i"), v), Inc("i"),
                       Block(<<Set(Id("s"), w)>>))>>) : v \in Terms, w \in Terms}
  \cup {TypedMain(<<TypedFunction("k", <<"e">>, o[1], FALSE, Block(<<Ret1(Op("plus", Id("e"), v))>>)),
                    Set(l, Op("plus", CallOf("k", <<o[2]>>), w))>>) :
           o \in OfType, l \in {Id("x"), Id("s")}, v \in Terms, w \in {Id("x"), Str("t")}}

OddExpressions ==
  {Op(op, Id("x"), r) : op \in {"plus", "over", "rest", "left", "right", "zeroright",
                                "identical", "bitand", "bitor"},
                       r \in {Lit(0), Lit(-7), Id("y"), Id("s"), Str("t"), CallOf("g", <<Id("y")>>)}}
  \cup {Op("plus", Id("s"), Str("t")), Op("plus", Id("p"), Id("p")), Dot("x", "u"), Dot("p", "u"),
        IndexExpression(Id("x"), Id("y")),
        Prefix("addr", Id("x")), Prefix("deref", Id("x")), Prefix("deref", Prefix("addr", Id("x"))),
        CallOf("x", <<Lit(1)>>), CallOf("missing", <<Lit(1)>>), CallOf("two", <<Lit(1)>>)}

OddPrograms ==
  {Main(<<Typed("s", StrType, Str("s")), Typed("p", Pair, None), Extern("missing"),
          Fun("g", <<"a">>, <<If(Id("a"), Block(<<Ret1(Op("plus", Id("a"), Lit(1)))>>), None),
                              Assign("y", Lit(4))>>),
          Fun("two", <<"b", "c">>, <<Ret1(Op("plus", Id("b"), Id("c")))>>),
          Set(Dot("p", "u"), Lit(3)), Set(Dot("p", "v"), Lit(4)),
          Typed("q", Pair, Id("p")), Set(Dot("q", "u"), Lit(5)),
          Assign("x", e), Printed(<<e, Id("x"), Dot("p", "u")>>)>>) : e \in OddExpressions}

\* Calls that call themselves, that go on after they returned, that never return.
OddCalls ==
  {Main(<<Fun("f", <<"a">>,
              <<If(Op(op, Id("a"), Lit(1)), Block(<<Ret1(Op("plus", Id("a"), Lit(0)))>>), None),
                Let("r", CallOf("f", <<Op("minus", Id("a"), Lit(1))>>)), last>>),
          Printed(<<CallOf("f", <<Lit(2)>>)>>)>>) :
     op \in {"less", "greater"}, last \in {Ret1(Op("plus", Id("r"), Id("a"))), Assign("x", Id("r"))}}
  \cup
  {Main(<<Fun("g", <<"a">>, <<Ret1(Op("plus", Id("a"), Lit(1)))>>),
          Fun("f", <<"b">>, <<If(Id("b"), Block(<<Ret1(Op("plus", Id("b"), Lit(5)))>>), None), last>>),
          Fun("h", <<"c">>, <<CallOf("f", <<Lit(3)>>), mid>>),
          Printed(<<CallOf("f", <<Lit(1)>>), CallOf("h", <<Lit(1)>>)>>)>>) :
     last \in {CallOf("g", <<Id("b")>>), Assign("x", CallOf("g", <<Id("b")>>)), Inc("x")},
     mid \in {CallOf("g", <<Id("c")>>), Ret1(CallOf("g", <<Id("c")>>)), Inc("y")}}

IllBehaved == Listed(OddPrograms) \o Listed(OddCalls)

\* A parameter is read after something has been printed.
PrintsThenReads ==
  <<Main(<<Fun("f", <<"a">>, <<Printed(<<Lit(7)>>), Ret1(Op("plus", Id("a"), Lit(0)))>>),
           Printed(<<CallOf("f", <<Lit(1)>>)>>)>>)>>

\* Statements whose values nothing reads, next to one that reads the same.
Unread == {Id("w"), Op("plus", Id("x"), Id("x")), Op("less", Lit(1), Op("plus", Id("x"), Id("y")))}
Wasteful == Listed(
  {Main(<<Typed("w", IntType, None),
          Fun("f", <<"a">>, <<d, If(Op("less", Id("a"), Lit(2)), Block(<<e>>), None),
                             Let("z", Id("a")), Ret1(Op("plus", Id("a"), Lit(1)))>>),
          Printed(<<Id("y"), CallOf("f", <<Lit(1)>>)>>), d, Id("y")>>) :
     d \in Unread, e \in Unread \cup {Printed(<<Id("x")>>)}})
===============================================================================
