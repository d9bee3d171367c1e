------------------------------- MODULE Rendering ------------------------------
(***************************************************************************)
(* How a syntax tree is written down: the tokens of its text, with the     *)
(* parentheses that the levels of the operators ask for and no other.      *)
(* This is what the parser is checked against, and shares nothing with it: *)
(* the levels are the operator table of the language, loosest first.       *)
(***************************************************************************)
EXTENDS Integers, Sequences, TLC

Levels ==
  << {"either"}, {"both"}, {"bitor"}, {"bitxor"}, {"bitand"},
     {"equal", "unequal", "identical", "different"},
     {"less", "greater", "atmost", "atleast", "in"},
     {"left", "right", "zeroright"}, {"plus", "minus"}, {"times", "over", "rest"} >>

Sign ==
  [either |-> "||", both |-> "&&", bitor |-> "|", bitxor |-> "^", bitand |-> "&",
   equal |-> "==", unequal |-> "!=", identical |-> "===", different |-> "!==",
   less |-> "<", greater |-> ">", atmost |-> "<=", atleast |-> ">=", in |-> "in",
   left |-> "<<", right |-> ">>", zeroright |-> ">>>", plus |-> "+", minus |-> "-",
   times |-> "*", over |-> "/", rest |-> "%",
   increment |-> "++", decrement |-> "--", addr |-> "&", deref |-> "*", not |-> "!",
   bitnot |-> "~"]

Sym(t) == <<[t |-> t]>>
Ident(n) == <<[t |-> "id", name |-> n]>>
Parens(ts) == Sym("(") \o ts \o Sym(")")

\* How tightly a tree holds together: binary operators by level, then prefix
\* operators, postfix operators, and what needs no parentheses anywhere.
Prefixes == Len(Levels) + 1
Postfixes == Prefixes + 1
Tightness(e) ==
  CASE e.t = "assign" -> 0
    [] e.t = "binary" -> CHOOSE l \in DOMAIN Levels : e.op \in Levels[l]
    [] e.t = "prefix" -> Prefixes
    [] e.t = "postfix" -> Postfixes
    [] OTHER -> Postfixes + 1

RECURSIVE TypeText(_), Joined(_), Written(_), Sentence(_), Sentences(_)

\* Texts one after the other with commas between them.
Joined(texts) ==
  IF texts = << >> THEN << >>
  ELSE IF Len(texts) = 1 THEN texts[1]
  ELSE texts[1] \o Sym(",") \o Joined(Tail(texts))

TypeText(ty) ==
  CASE ty.k \in {"int", "str", "undef"} -> Ident(ty.k)
    [] ty.k = "name" -> Ident(ty.name)
    [] ty.k = "struct" -> Ident("pair")          \* the one struct of the texts
    [] ty.k = "pointer" -> Sym("*") \o TypeText(ty.base)
    [] ty.k = "array" -> Sym("[") \o Sym("]") \o TypeText(ty.base)
    [] ty.k = "function" ->
         Sym("function") \o Parens(Joined([i \in DOMAIN ty.args |-> TypeText(ty.args[i])]))
           \o Sym(":") \o TypeText(ty.ret)

WithType(ty) ==
  IF ty.k = "unresolved" THEN << >> ELSE Sym(":") \o TypeText(ty)

\* A part that must hold together at least as tightly as a level.
Held(e, level) == IF Tightness(e) < level THEN Parens(Written(e)) ELSE Written(e)

Written(e) ==
  CASE e.t = "none" -> << >>
    [] e.t = "int" -> <<[t |-> "number", value |-> e.value]>>
    [] e.t = "str" -> <<[t |-> "string", text |-> e.text]>>
    [] e.t = "id" -> Ident(e.name)
    [] e.t = "bool" -> Sym(IF e.pred THEN "true" ELSE "false")
    [] e.t \in {"null", "this"} -> Sym(e.t)
    [] e.t = "binary" ->
         Held(e.lhs, Tightness(e)) \o Sym(Sign[e.op]) \o Held(e.rhs, Tightness(e) + 1)
    [] e.t = "assign" -> Held(e.lhs, 1) \o Sym("=") \o Written(e.rhs)
    [] e.t = "prefix" -> Sym(Sign[e.op]) \o Held(e.expr, Prefixes)
    [] e.t = "postfix" -> Held(e.expr, Postfixes + 1) \o Sym(Sign[e.op])
    [] e.t = "member" ->
         Held(e.expr, Postfixes + 1)
           \o (CASE e.kind = "dot" -> Sym(".") \o Ident(e.name)
                 [] e.kind = "index" -> Sym("[") \o Written(e.index) \o Sym("]")
                 [] e.kind = "call" ->
                      Parens(Joined([i \in DOMAIN e.arguments |-> Written(e.arguments[i])])))
    [] OTHER -> Sentence(e)      \* a function where an expression stands

Signature(e) ==
  Sym("function") \o (IF e.name = "" THEN << >> ELSE Ident(e.name))
    \o Parens(Joined([i \in DOMAIN e.params |->
                        Ident(e.params[i]) \o Sym(":") \o TypeText(e.types[i])]))
    \o (IF e.ret.k = "undef" THEN << >> ELSE Sym(":") \o TypeText(e.ret))

LetList(e) ==
  Joined([i \in DOMAIN e.list |->
            Ident(e.list[i].name) \o WithType(e.list[i].type)
              \o (IF e.list[i].init.t = "none" THEN << >>
                  ELSE Sym("=") \o Written(e.list[i].init))])

\* What stands between the parentheses of a for.
Header(e) ==
  IF e.condition.t = "none"
    THEN (IF e.init.lhs.t = "lets" THEN Sym("let") \o LetList(e.init.lhs)
          ELSE Held(e.init.lhs, 7)) \o Sym("in") \o Held(e.init.rhs, 8)
    ELSE Sentence(e.init)
           \o (IF e.condition = [t |-> "bool", pred |-> TRUE] THEN << >>
               ELSE Held(e.condition, 1)) \o Sym("semicolon")
           \o (IF e.update.t = "none" THEN << >> ELSE Held(e.update, 1))

Sentence(e) ==
  CASE e.t = "lets" -> Sym("let") \o LetList(e) \o Sym("semicolon")
    [] e.t = "block" -> Sym("{") \o Sentences(e.list) \o Sym("}")
    [] e.t = "if" ->
         Sym("if") \o Parens(Held(e.condition, 1)) \o Sentence(e.body)
           \o (IF e.els.t = "none" THEN << >> ELSE Sym("else") \o Sentence(e.els))
    [] e.t = "for" -> Sym("for") \o Parens(Header(e)) \o Sentence(e.body)
    [] e.t = "while" -> Sym("while") \o Parens(Held(e.condition, 1)) \o Sentence(e.body)
    [] e.t = "do" ->
         Sym("do") \o Sentence(e.body) \o Sym("while") \o Parens(Held(e.condition, 1))
           \o Sym("semicolon")
    [] e.t = "return" -> Sym("return") \o Written(e.expr) \o Sym("semicolon")
    [] e.t = "function" ->
         IF e.extern THEN Sym("extern") \o Signature(e) ELSE Signature(e) \o Sentence(e.body)
    [] OTHER -> Written(e) \o Sym("semicolon")

Sentences(es) ==
  IF es = << >> THEN << >> ELSE Sentence(Head(es)) \o Sentences(Tail(es))

-------------------------------------------------------------------------------
\* A statement that an else behind it would become a part of, and a tree whose
\* text would be read as another one because of that.
RECURSIVE Opens(_), Dangles(_)
Opens(e) ==
  CASE e.t = "if" -> e.els.t = "none" \/ Opens(e.els)
    [] e.t \in {"for", "while", "function"} -> Opens(e.body)
    [] OTHER -> FALSE
Dangles(e) ==
  CASE e.t = "if" -> (e.els.t # "none" /\ Opens(e.body)) \/ Dangles(e.body) \/ Dangles(e.els)
    [] e.t \in {"for", "while", "do", "function"} -> Dangles(e.body)
    [] e.t = "block" -> \E i \in DOMAIN e.list : Dangles(e.list[i])
    [] OTHER -> FALSE
===============================================================================
