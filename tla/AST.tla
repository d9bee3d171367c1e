---------------------------------- MODULE AST ---------------------------------
(***************************************************************************)
(* The nodes of src/include/jast/expression.h and statement.h: a node is   *)
(* a record with its type in t and a field for each part.  The parser      *)
(* builds every member expression with a kind of its own part: the name    *)
(* behind a dot, an index, or the arguments of a call, where a call        *)
(* without arguments has the null list, here the empty sequence.           *)
(***************************************************************************)
EXTENDS TLC

None == [t |-> "none"]              \* a null Handle<Expression>

NullLiteral == [t |-> "null"]
ThisHolder == [t |-> "this"]
IntegralLiteral(value) == [t |-> "int", value |-> value]
StringLiteral(string) == [t |-> "str", text |-> string]
BooleanLiteral(pred) == [t |-> "bool", pred |-> pred]
Identifier(name) == [t |-> "id", name |-> name]

DotExpression(expr, name) == [t |-> "member", kind |-> "dot", expr |-> expr, name |-> name]
IndexExpression(expr, index) ==
  [t |-> "member", kind |-> "index", expr |-> expr, index |-> index]
CallExpression(expr, arguments) ==
  [t |-> "member", kind |-> "call", expr |-> expr, arguments |-> arguments]
PrefixExpression(op, expr) == [t |-> "prefix", op |-> op, expr |-> expr]
PostfixExpression(op, expr) == [t |-> "postfix", op |-> op, expr |-> expr]
BinaryExpression(op, lhs, rhs) == [t |-> "binary", op |-> op, lhs |-> lhs, rhs |-> rhs]
AssignExpression(lhs, rhs) == [t |-> "assign", lhs |-> lhs, rhs |-> rhs]

Declaration(name, init, type) == [t |-> "let", name |-> name, type |-> type, init |-> init]
DeclarationList(exprs) == [t |-> "lets", list |-> exprs]

BlockStatement(stmts) == [t |-> "block", list |-> stmts]
ForStatement(init, condition, update, body) ==
  [t |-> "for", init |-> init, condition |-> condition, update |-> update, body |-> body]
WhileStatement(condition, body) == [t |-> "while", condition |-> condition, body |-> body]
DoWhileStatement(condition, body) == [t |-> "do", condition |-> condition, body |-> body]
\* An if without else is one whose other branch is null.
IfElseStatement(condition, body, els) ==
  [t |-> "if", condition |-> condition, body |-> body, els |-> els]
ReturnStatement(expr) == [t |-> "return", expr |-> expr]

\* A function with its prototype: the types of the parameters and of the result
\* are the function type of the prototype.
FunctionPrototype(name, params, types, ret) ==
  [t |-> "function", name |-> name, params |-> params, types |-> types, ret |-> ret]
FunctionStatement(proto, body, extern) == [body |-> body, extern |-> extern] @@ proto
===============================================================================
