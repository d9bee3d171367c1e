------------------------------ MODULE SymbolTable ------------------------------
(***************************************************************************)
(* src/jast/semantics/symbol-table.cc.  The table keeps one chain of       *)
(* SymbolDefinition objects per name, innermost first (next_), a map from  *)
(* a name to the head of its chain (table_), and per depth the list of     *)
(* definitions that CloseScope has to unlink and delete (entries_).        *)
(*                                                                         *)
(* Clients are TypeAnalysis (opens and closes scopes around functions and  *)
(* for loops, in balance) and CodeGenerator (never opens one).  Addresses  *)
(* are members of Nodes: `new` picks one that is not live, `delete` takes  *)
(* it out of DOMAIN defs, so a dangling pointer is an address outside it.  *)
(* The order inside one entries_ list is abstracted: a list is a set.      *)
(***************************************************************************)
EXTENDS Integers, Sequences

CONSTANTS
  Names,      \* identifiers
  Vals,       \* what a definition carries: its Type* and Ref<Value>
  Nodes,      \* heap addresses of SymbolDefinition objects
  NIL,        \* nullptr
  MaxScopes   \* bound on Len(entries), so on the OpenScope calls of a run

ASSUME NilIsNoObject == NIL \notin Nodes /\ NIL \notin Vals

VARIABLES
  table,         \* table_ : name -> head of its chain
  defs,          \* the heap: address -> SymbolDefinition
  entries,       \* entries_ : entries[d + 1] are the definitions of depth d
  currentDepth,  \* currentDepth_
  alive,         \* FALSE once ~SymbolTable has started
  call,          \* the last query or declaration, with its name ...
  answer         \* ... and what it returned, as the value it leads to

vars == <<table, defs, entries, currentDepth, alive, call, answer>>

SymbolDefinition ==
  [name : Names, val : Vals, depth : Nat,
   last : Nodes \cup {NIL}, next : Nodes \cup {NIL}]

Live == DOMAIN defs

\* The object GetSymbol returns.
Top(n) == IF n \in DOMAIN table THEN table[n] ELSE NIL

DeclaredHere_AnyDepth(n) == Top(n) # NIL  \* mutant: depth not compared
DeclaredHere(n) ==
  Top(n) # NIL /\ defs[Top(n)].depth = currentDepth

\* What PutSymbol allocates: the new head of the chain of n.
NewDefinition(n, v) ==
  [name |-> n, val |-> v, depth |-> currentDepth, last |-> NIL, next |-> Top(n)]

-------------------------------------------------------------------------------
Init ==
  /\ table = [n \in {} |-> NIL]
  /\ defs = [a \in {} |-> NIL]
  /\ entries = << {} >>
  /\ currentDepth = 0
  /\ alive = TRUE
  /\ call = << >>
  /\ answer = NIL

GetSymbol(n) ==
  /\ alive
  /\ call' = <<"GetSymbol", n>>
  /\ answer' = IF Top(n) = NIL THEN NIL ELSE defs[Top(n)].val
  /\ UNCHANGED <<table, defs, entries, currentDepth, alive>>

GetSymbolInCurrentScope(n) ==
  /\ alive
  /\ call' = <<"GetSymbolInCurrentScope", n>>
  /\ answer' = IF DeclaredHere(n) THEN defs[Top(n)].val ELSE NIL
  /\ UNCHANGED <<table, defs, entries, currentDepth, alive>>

\* PutSymbol on a name that the current scope already has: nullptr.
RefuseSymbol(n) ==
  /\ alive
  /\ call' = <<"PutSymbol", n>>
  /\ DeclaredHere(n)
  /\ answer' = NIL
  /\ UNCHANGED <<table, defs, entries, currentDepth, alive>>

\* PutSymbol on a new name of the current scope, with a at the new address.
PutSymbol(n, v, a) ==
  /\ alive
  /\ call' = <<"PutSymbol", n>>
  /\ ~DeclaredHere(n)
  /\ a \notin Live
  /\ defs' =
       [b \in Live \cup {a} |->
          IF b = a THEN NewDefinition(n, v)
          ELSE IF b = Top(n) THEN [defs[b] EXCEPT !.last = a] ELSE defs[b]]
  /\ table' = [m \in DOMAIN table \cup {n} |-> IF m = n THEN a ELSE table[m]]
  /\ entries' = [entries EXCEPT ![currentDepth + 1] = @ \cup {a}]
  /\ answer' = v
  /\ UNCHANGED <<currentDepth, alive>>

OpenScope_NoList ==                      \* mutant: no list for the new depth
  /\ alive
  /\ Len(entries) < MaxScopes
  /\ currentDepth < MaxScopes
  /\ currentDepth' = currentDepth + 1
  /\ UNCHANGED <<entries, table, defs, alive, call, answer>>
OpenScope ==
  /\ alive
  /\ Len(entries) < MaxScopes
  /\ currentDepth' = currentDepth + 1
  /\ entries' = Append(entries, {})
  /\ UNCHANGED <<table, defs, alive, call, answer>>

\* The body of CloseScope: unlink and delete every definition of the current
\* depth, empty its list, step out.  entries_ itself never shrinks.
Dying == entries[currentDepth + 1]
DyingOf(n) == CHOOSE a \in Dying : defs[a].name = n
Unhides(b) == \E a \in Dying : defs[a].next = b

UnwoundTable_Forget ==                   \* mutant: hidden definition not restored
  [n \in DOMAIN table \ {defs[a].name : a \in Dying} |-> table[n]]
UnwoundTable ==
  [n \in DOMAIN table \ {defs[a].name : a \in {d \in Dying : defs[d].next = NIL}} |->
     IF \E a \in Dying : defs[a].name = n THEN defs[DyingOf(n)].next
                                          ELSE table[n]]

UnwoundHeap_KeepLast ==                  \* mutant: last_ not reset
  [b \in Live \ Dying |-> defs[b]]
UnwoundHeap ==
  [b \in Live \ Dying |->
     IF Unhides(b) THEN [defs[b] EXCEPT !.last = NIL] ELSE defs[b]]

UnwoundEntries_Kept == entries           \* mutant: entries_[depth] not cleared
UnwoundEntries == [entries EXCEPT ![currentDepth + 1] = {}]

Unwind ==
  /\ table' = UnwoundTable
  /\ defs' = UnwoundHeap
  /\ entries' = UnwoundEntries
  /\ currentDepth' = currentDepth - 1
  /\ UNCHANGED <<alive, call, answer>>

\* Clients call CloseScope once for each OpenScope before it.
CloseScope == alive /\ currentDepth > 0 /\ Unwind

\* ~SymbolTable runs at any depth, after an exception too, ...
Destroy ==
  /\ alive
  /\ alive' = FALSE
  /\ UNCHANGED <<table, defs, entries, currentDepth, call, answer>>

\* ... and closes the scopes that are still open, the outermost included.
DestroyScope_SkipsGlobal == ~alive /\ currentDepth > 0 /\ Unwind  \* mutant: off by one
DestroyScope == ~alive /\ currentDepth >= 0 /\ Unwind

Next ==
  \/ \E n \in Names :
       \/ GetSymbol(n)
       \/ GetSymbolInCurrentScope(n)
       \/ RefuseSymbol(n)
       \/ \E v \in Vals, a \in Nodes : PutSymbol(n, v, a)
  \/ OpenScope
  \/ CloseScope
  \/ Destroy
  \/ DestroyScope

Spec == Init /\ [][Next]_vars

\* The destructor's loop is straight-line code: once begun it runs on.
FairSpec == Spec /\ WF_vars(DestroyScope)

-------------------------------------------------------------------------------
\* Types of the members (symbol-table.h:40-46, 66-71).
TypeOK ==
  /\ defs \in [Live -> SymbolDefinition]
  /\ Live \subseteq Nodes
  /\ table \in [DOMAIN table -> Nodes]
  /\ DOMAIN table \subseteq Names
  /\ entries \in Seq(SUBSET Nodes)
  /\ currentDepth \in Int
  /\ -1 <= currentDepth /\ currentDepth < Len(entries)
  /\ alive \in BOOLEAN
  /\ alive => currentDepth >= 0
  /\ answer \in Vals \cup {NIL}

\* Each definition is on exactly the list of its own depth, and a list above
\* the current depth is empty: CloseScope deletes every definition of the scope
\* once, never one it already deleted when an earlier scope of that depth closed.
ScopesOwnDefinitions ==
  /\ \A i \in 1..Len(entries) : \A a \in entries[i] :
       a \in Live /\ defs[a].depth = i - 1
  /\ \A a \in Live :
       defs[a].depth <= currentDepth /\ a \in entries[defs[a].depth + 1]

\* At most one definition of a name per scope.
OnePerScope ==
  \A a, b \in Live :
    defs[a].name = defs[b].name /\ defs[a].depth = defs[b].depth => a = b

\* next_ leads to the definition that this one hides: the deepest live one of
\* the same name in an enclosing scope, never a deleted one, nullptr iff none.
NextIsHidden ==
  \A a \in Live :
    /\ defs[a].next # NIL =>
         /\ defs[a].next \in Live
         /\ defs[defs[a].next].name = defs[a].name
         /\ defs[defs[a].next].depth < defs[a].depth
    /\ \A b \in Live :
         defs[b].name = defs[a].name /\ defs[b].depth < defs[a].depth =>
           defs[a].next # NIL /\ defs[b].depth <= defs[defs[a].next].depth

\* last_ is the inverse of next_ among live definitions, nullptr elsewhere.
LastIsInverse ==
  \A a \in Live :
    /\ defs[a].last # NIL => defs[a].last \in Live /\ defs[defs[a].last].next = a
    /\ \A b \in Live : defs[b].next = a => defs[a].last = b

\* The chains lead outwards through live definitions and back: whatever was closed or
\* hidden in between, no pointer to a deleted definition is left (symbol-table.cc:79).
ChainsAreTrue == NextIsHidden /\ LastIsInverse

\* table_ has exactly the declared names, each at its deepest definition.
TableIsInnermost ==
  /\ \A n \in DOMAIN table :
       /\ table[n] \in Live
       /\ defs[table[n]].name = n
       /\ \A b \in Live : defs[b].name = n => defs[b].depth <= defs[table[n]].depth
  /\ \A a \in Live : defs[a].name \in DOMAIN table

\* The invariant of the data structure, inductive.
Inv ==
  /\ TypeOK
  /\ ScopesOwnDefinitions
  /\ OnePerScope
  /\ NextIsHidden
  /\ LastIsInverse
  /\ TableIsInnermost

-------------------------------------------------------------------------------
\* The scope of a depth as its bindings.
Scope(i) == {<<defs[a].name, defs[a].val>> : a \in entries[i]}

OpenScopes == [i \in 1..(currentDepth + 1) |-> Scope(i)]

Scopes == INSTANCE ScopeStack WITH stack <- OpenScopes

\* Every call answers what a stack of scopes would answer: lookups find the
\* innermost declaration, redeclarations are refused, and closing a scope brings
\* back what it hid.
ImplementsScopeStack == Scopes!Spec

\* The destructor deletes every definition and forgets every name.
TeardownFrees == ~alive ~> (Live = {} /\ DOMAIN table = {} /\ currentDepth = -1)
===============================================================================
