------------------------------ MODULE ScopeStack ------------------------------
(***************************************************************************)
(* What a symbol table promises its clients: a stack of scopes, each scope *)
(* a set of <<name, value>> bindings with at most one binding per name.    *)
(* A name means its binding in the innermost scope that has one, and a     *)
(* name cannot be declared twice in one scope.  A value stands for the     *)
(* pair of type and IR value that a declaration carries.                   *)
(***************************************************************************)
EXTENDS Naturals, Sequences

CONSTANTS
  Names,  \* identifiers
  Vals,   \* what a declaration binds a name to
  NIL     \* the answer "no such symbol" / "already declared" (nullptr)

VARIABLES
  stack,  \* the open scopes, outermost first
  call,   \* the last question asked of the table, with its name ...
  answer  \* ... and what it returned

vars == <<stack, call, answer>>

Declares(scope, n) == \E v \in Vals : <<n, v>> \in scope

\* v is the innermost binding of n, or NIL when no open scope binds n.
Means(n, v) ==
  \/ \E i \in 1..Len(stack) :
       /\ <<n, v>> \in stack[i]
       /\ \A j \in 1..Len(stack) : j > i => ~Declares(stack[j], n)
  \/ /\ v = NIL
     /\ \A i \in 1..Len(stack) : ~Declares(stack[i], n)

Init ==
  /\ stack = << {} >>
  /\ call = << >>
  /\ answer = NIL

Lookup(n) ==
  /\ call' = <<"GetSymbol", n>>
  /\ stack # << >>
  /\ answer' \in {v \in Vals \cup {NIL} : Means(n, v)}
  /\ UNCHANGED stack

LookupInCurrentScope(n) ==
  /\ call' = <<"GetSymbolInCurrentScope", n>>
  /\ stack # << >>
  /\ answer' \in {v \in Vals \cup {NIL} :
                    IF Declares(stack[Len(stack)], n)
                      THEN <<n, v>> \in stack[Len(stack)]
                      ELSE v = NIL}
  /\ UNCHANGED stack

Declare(n, v) ==
  /\ call' = <<"PutSymbol", n>>
  /\ stack # << >>
  /\ ~Declares(stack[Len(stack)], n)
  /\ stack' = [stack EXCEPT ![Len(stack)] = @ \cup {<<n, v>>}]
  /\ answer' = v

RefuseRedeclaration(n) ==
  /\ call' = <<"PutSymbol", n>>
  /\ stack # << >>
  /\ Declares(stack[Len(stack)], n)
  /\ answer' = NIL
  /\ UNCHANGED stack

OpenScope ==
  /\ stack # << >>
  /\ stack' = Append(stack, {})
  /\ UNCHANGED <<call, answer>>

CloseScope ==
  /\ stack # << >>
  /\ stack' = SubSeq(stack, 1, Len(stack) - 1)
  /\ UNCHANGED <<call, answer>>

Next ==
  \/ \E n \in Names :
       \/ Lookup(n)
       \/ LookupInCurrentScope(n)
       \/ RefuseRedeclaration(n)
       \/ \E v \in Vals : Declare(n, v)
  \/ OpenScope
  \/ CloseScope

Spec == Init /\ [][Next]_vars
===============================================================================
