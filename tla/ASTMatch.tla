-------------------------------- MODULE ASTMatch ------------------------------
(***************************************************************************)
(* src/jast/ast-match.cc: whether two trees are the same, part by part.    *)
(* The answer of a comparison is "yes", "no", or "none" where it follows   *)
(* a null pointer or reads past the end of a list, which is undefined.     *)
(* A comparison stops at the first part that is not the same, so the order *)
(* in which parts are compared is kept.  Array and object literals and     *)
(* lone prototypes are left out: the parser builds none.                   *)
(***************************************************************************)
EXTENDS AST, Integers, Sequences

Answer(same) == IF same THEN "yes" ELSE "no"

\* a && b && ..., or a loop that returns at the first answer that is not yes.
FirstOther(answers) ==
  IF \A i \in DOMAIN answers : answers[i] = "yes" THEN "yes"
  ELSE answers[CHOOSE i \in DOMAIN answers :
                 answers[i] # "yes" /\ \A j \in 1..(i - 1) : answers[j] = "yes"]
All(answers) == CHOOSE answer \in {FirstOther(given) : given \in {answers}} : TRUE

\* What a member expression has behind its expression: a name is an identifier.
MemberPart(e) ==
  CASE e.kind = "dot" -> Identifier(e.name)
    [] e.kind = "index" -> e.index
    [] e.kind = "call" -> [t |-> "arguments", list |-> e.arguments]

RECURSIVE Match(_, _)

MatchExpressionList(as, bs) ==
  IF Len(as) # Len(bs) THEN "no" ELSE All([i \in DOMAIN as |-> Match(as[i], bs[i])])

\* A call without arguments has no list to compare.
MatchArgumentList(a, b) ==
  IF << >> \in {a.list, b.list} THEN "none" ELSE MatchExpressionList(a.list, b.list)

\* Which kind of member expression it is, is left to its parts to tell.
MatchMemberExpression(a, b) == All(<<Match(MemberPart(a), MemberPart(b)), Match(a.expr, b.expr)>>)

MatchPrefixExpression(a, b) == All(<<Answer(a.op = b.op), Match(a.expr, b.expr)>>)
MatchPostfixExpression(a, b) == All(<<Answer(a.op = b.op), Match(a.expr, b.expr)>>)
MatchBinaryExpression_AnyOperator(a, b) ==   \* mutant: the operators are not compared
  All(<<Match(a.lhs, b.lhs), Match(a.rhs, b.rhs)>>)
MatchBinaryExpression(a, b) ==
  All(<<Answer(a.op = b.op), Match(a.lhs, b.lhs), Match(a.rhs, b.rhs)>>)
MatchAssignExpression(a, b) == All(<<Match(a.lhs, b.lhs), Match(a.rhs, b.rhs)>>)

MatchDeclaration(a, b) == All(<<Answer(a.name = b.name), Match(a.init, b.init)>>)

\* The lengths are not compared.
MatchDeclarationList(a, b) ==
  All([i \in DOMAIN a.list |-> IF i \in DOMAIN b.list THEN MatchDeclaration(a.list[i], b.list[i])
                               ELSE "none"])

MatchBlockStatement(a, b) == MatchExpressionList(a.list, b.list)
MatchForStatement(a, b) ==
  All(<<Match(a.init, b.init), Match(a.condition, b.condition), Match(a.update, b.update),
        Match(a.body, b.body)>>)
MatchWhileStatement(a, b) == All(<<Match(a.condition, b.condition), Match(a.body, b.body)>>)
MatchDoWhileStatement(a, b) == All(<<Match(a.condition, b.condition), Match(a.body, b.body)>>)
MatchFunctionPrototype(a, b) == Answer(a.name = b.name /\ a.params = b.params)
MatchFunctionStatement(a, b) == All(<<MatchFunctionPrototype(a, b), Match(a.body, b.body)>>)
MatchIfElseStatement(a, b) ==
  All(<<Match(a.condition, b.condition), Match(a.body, b.body), Match(a.els, b.els)>>)

Match(a, b) ==
  IF a.t # b.t THEN "no"
  ELSE CASE a.t \in {"none", "null", "this"} -> "yes"
         [] a.t = "int" -> Answer(a.value = b.value)
         [] a.t = "str" -> Answer(a.text = b.text)
         [] a.t = "id" -> Answer(a.name = b.name)
         [] a.t = "bool" -> Answer(a.pred = b.pred)
         [] a.t = "arguments" -> MatchArgumentList(a, b)
         [] a.t = "member" -> MatchMemberExpression(a, b)
         [] a.t = "prefix" -> MatchPrefixExpression(a, b)
         [] a.t = "postfix" -> MatchPostfixExpression(a, b)
         [] a.t = "binary" -> MatchBinaryExpression(a, b)
         [] a.t = "assign" -> MatchAssignExpression(a, b)
         [] a.t = "lets" -> MatchDeclarationList(a, b)
         [] a.t = "if" -> MatchIfElseStatement(a, b)
         [] a.t = "for" -> MatchForStatement(a, b)
         [] a.t = "while" -> MatchWhileStatement(a, b)
         [] a.t = "do" -> MatchDoWhileStatement(a, b)
         [] a.t = "block" -> MatchBlockStatement(a, b)
         [] a.t = "function" -> MatchFunctionStatement(a, b)
         [] a.t = "return" -> Match(a.expr, b.expr)
===============================================================================
