-------------------------------- MODULE FrontEnd ------------------------------
(***************************************************************************)
(* The front half of samples/parse.cc: Parser::ParseProgram on a text,     *)
(* statement by statement, the dump of the tree, and TypeAnalysis on the   *)
(* block of the program, statement by statement.                           *)
(***************************************************************************)
EXTENDS Parser, TypeAnalysis, DumpAST

CONSTANT Texts   \* the texts: the tokens of each and the tree it was written from

VARIABLES
  text,        \* which text is being compiled
  parser,      \* what is left to read
  statements,  \* the statements of the program so far
  phase,       \* "parsing", "dumping", "analysing", "done", or how it ended
  analysis,    \* the analysis
  at           \* the statement it visits next

vars == <<text, parser, statements, phase, analysis, at>>

Program == BlockStatement(statements)

Init ==
  /\ text \in DOMAIN Texts
  /\ parser = Started(Texts[text].tokens)
  /\ statements = << >>
  /\ phase = "parsing"
  /\ analysis = Fresh(parser.resolved)
  /\ at = 1

-------------------------------------------------------------------------------
\* The loop of ParseProgram, which leaves null statements out.
Statement_KeepsNull ==      \* mutant: a null statement is inserted
  /\ phase = "parsing" /\ Tok(parser) # "EOF"
  /\ \E r \in {Parse("statement", parser)} :
       /\ ~Thrown(r.p)
       /\ parser' = r.p
       /\ statements' = Append(statements, r.e)
  /\ UNCHANGED <<text, phase, analysis, at>>
Statement ==
  /\ phase = "parsing" /\ Tok(parser) # "EOF"
  /\ \E r \in {Parse("statement", parser)} :
       /\ ~Thrown(r.p)
       /\ parser' = r.p
       /\ statements' = IF r.e.t = "none" THEN statements ELSE Append(statements, r.e)
  /\ UNCHANGED <<text, phase, analysis, at>>

\* ParseProgram throws on what a statement has thrown.
Throws ==
  /\ phase = "parsing" /\ Tok(parser) # "EOF"
  /\ \E r \in {Parse("statement", parser)} : Thrown(r.p) /\ phase' = Tok(r.p)
  /\ UNCHANGED <<text, parser, statements, analysis, at>>

EndOfProgram ==
  /\ phase = "parsing" /\ Tok(parser) = "EOF"
  /\ phase' = "dumping"
  /\ UNCHANGED <<text, parser, statements, analysis, at>>

\* ast->Accept(&printer), then the analysis enters the block of the program.
Dump ==
  /\ phase = "dumping" /\ Dumps(Program, parser.resolved)
  /\ phase' = "analysing"
  /\ analysis' = OpenScope(Fresh(parser.resolved))
  /\ UNCHANGED <<text, parser, statements, at>>

DumpFails ==
  /\ phase = "dumping" /\ ~Dumps(Program, parser.resolved)
  /\ phase' = "not dumped"
  /\ UNCHANGED <<text, parser, statements, analysis, at>>

Analyse ==
  /\ phase = "analysing" /\ at <= Len(statements)
  /\ analysis' = Visit(analysis, statements[at])
  /\ phase' = IF analysis'.crashed THEN "not analysed" ELSE phase
  /\ at' = at + 1
  /\ UNCHANGED <<text, parser, statements>>

Analysed ==
  /\ phase = "analysing" /\ at > Len(statements)
  /\ analysis' = CloseScope(analysis)
  /\ phase' = "done"
  /\ UNCHANGED <<text, parser, statements, at>>

Next ==
  \/ Statement \/ Throws \/ EndOfProgram \/ Dump \/ DumpFails \/ Analyse \/ Analysed

Spec == Init /\ [][Next]_vars

-------------------------------------------------------------------------------
Read == phase \notin {"parsing", "SyntaxError", "TypeError", "crash"}

\* Types of the variables; the program is never given a null statement.
TypeOK ==
  /\ text \in DOMAIN Texts
  /\ phase \in {"parsing", "SyntaxError", "TypeError", "crash", "dumping", "not dumped",
                "analysing", "not analysed", "done"}
  /\ \A i \in DOMAIN statements : statements[i].t # "none"
  /\ at \in 1..(Len(statements) + 1)
  /\ Len(analysis.scopes) > 0

\* The names a statement declares where it stands: a branch or a loop body that
\* is no block declares them there, too.
RECURSIVE Declared(_)
Declared(e) ==
  CASE e.t = "lets" -> {e.list[i].name : i \in DOMAIN e.list}
    [] e.t = "function" -> {e.name}
    [] e.t = "if" -> Declared(e.body) \cup Declared(e.els)
    [] e.t \in {"while", "do"} -> Declared(e.body)
    [] OTHER -> {}

\* Between two statements of the program the analysis is in the scope of the
\* program and in no function, and what it knows there is what the statements
\* before have declared in it: no name of a block, a function or a for leaks out
\* or is lost, whatever was wrong in it.
KnowsWhatIsDeclared ==
  /\ phase = "analysing" =>
       /\ Len(analysis.scopes) = 2 /\ DOMAIN analysis.scopes[1] = {}
       /\ DOMAIN analysis.scopes[2] = UNION {Declared(statements[i]) : i \in 1..(at - 1)}
       /\ analysis.functions = << >>
  /\ phase = "done" => Len(analysis.scopes) = 1

\* An expression whose type cannot be found for what stands in it: a function or
\* this, which have none, the declarations of a for, or nothing at all.
RECURSIVE Untypable(_)
Untypable(e) ==
  \/ e.t \in {"function", "this", "lets", "none"}
  \/ e.t = "binary" /\ (Untypable(e.lhs) \/ Untypable(e.rhs))
  \/ e.t = "assign" /\ Untypable(e.rhs)
  \/ e.t \in {"prefix", "postfix", "member"} /\ Untypable(e.expr)

\* A statement in which something is missing: a statement where a semicolon stands
\* for one, an else branch, a value to return, a function to return it from, or
\* the type of an expression.
RECURSIVE Gap(_, _)
Gap(e, inFunction) ==
  \/ e.t = "none"
  \/ e.t \in {"binary", "prefix", "postfix", "member"} /\ Untypable(e)
  \/ e.t = "assign" /\ (Untypable(e.lhs) \/ Untypable(e.rhs))
  \/ e.t = "return" /\ (Untypable(e.expr) \/ ~inFunction)
  \/ e.t = "block" /\ \E i \in DOMAIN e.list : Gap(e.list[i], inFunction)
  \/ e.t = "if" /\ (\/ Untypable(e.condition)
                   \/ Gap(e.body, inFunction) \/ Gap(e.els, inFunction))
  \/ /\ e.t \in {"for", "while", "do"}
     /\ \E part \in {"init", "condition", "body", "update"} \cap DOMAIN e :
          e[part].t # "none" /\ Gap(e[part], inFunction)
  \/ e.t = "function" /\ ~e.extern /\ Gap(e.body, TRUE)

\* A tree and the trees in it.
RECURSIVE Trees(_)
Trees(e) ==
  {e} \cup UNION {Trees(part) : part \in
    CASE e.t \in {"block", "lets"} -> {e.list[i] : i \in DOMAIN e.list}
      [] e.t = "for" -> {e.init, e.condition, e.update, e.body}
      [] e.t = "if" -> {e.condition, e.body, e.els}
      [] e.t \in {"while", "do"} -> {e.condition, e.body}
      [] e.t = "function" -> {e.body}
      [] e.t \in {"binary", "assign"} -> {e.lhs, e.rhs}
      [] e.t \in {"prefix", "postfix", "return"} -> {e.expr}
      [] e.t = "let" -> {e.init}
      [] e.t = "member" /\ e.kind = "dot" -> {e.expr}
      [] e.t = "member" /\ e.kind = "index" -> {e.expr, e.index}
      [] e.t = "member" /\ e.kind = "call" ->
           {e.expr} \cup {e.arguments[i] : i \in DOMAIN e.arguments}
      [] OTHER -> {}}

\* A tree with a semicolon or a type definition where a statement should be.
Hollow(e) ==
  \/ e.t = "block" /\ \E i \in DOMAIN e.list : e.list[i].t = "none"
  \/ e.t \in {"if", "for", "while", "do"} /\ e.body.t = "none"
  \/ e.t = "function" /\ ~e.extern /\ e.body.t = "none"

\* The names in a type, and a type in which one can be looked up for ever.
RECURSIVE Mentioned(_)
Mentioned(ty) ==
  CASE ty.k = "name" -> {ty.name}
    [] ty.k \in {"pointer", "array"} -> Mentioned(ty.base)
    [] ty.k = "struct" -> UNION {Mentioned(ty.fields[i].type) : i \in DOMAIN ty.fields}
    [] ty.k = "function" ->
         Mentioned(ty.ret) \cup UNION {Mentioned(ty.args[i]) : i \in DOMAIN ty.args}
    [] OTHER -> {}
Circular(ty) ==
  \E names \in SUBSET DOMAIN parser.resolved :
    /\ Mentioned(ty) \cap names # {}
    /\ \A n \in names : Mentioned(parser.resolved[n]) \cap names # {}
TypesIn(e) ==
  CASE e.t = "let" -> {e.type}
    [] e.t = "function" -> {e.ret} \cup {e.types[i] : i \in DOMAIN e.types}
    [] OTHER -> {}

\* The dump of a program comes to an end unless a statement is missing in it or
\* a type of it contains itself.  The analysis stops only at a statement in which
\* something is missing, or at one whose error it has recorded; and it never gets
\* past a statement in which something is missing.
StopsOnlyAtGaps ==
  /\ phase \in {"not dumped", "not analysed", "done"} =>
       (phase = "not dumped" <=>
          \E e \in Trees(Program) : Hollow(e) \/ \E ty \in TypesIn(e) : Circular(ty))
  /\ phase = "not analysed" => Gap(statements[at - 1], FALSE) \/ analysis.errors # << >>
  /\ phase = "done" => \A i \in DOMAIN statements : ~Gap(statements[i], FALSE)
===============================================================================
