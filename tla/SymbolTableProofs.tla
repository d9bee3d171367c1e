--------------------------- MODULE SymbolTableProofs ---------------------------
(***************************************************************************)
(* Proofs about SymbolTable: the data structure invariant is inductive,    *)
(* and every call answers as the stack of scopes of ScopeStack does.       *)
(***************************************************************************)
EXTENDS SymbolTable, SequenceTheorems, TLAPS

\* A function on an initial segment is a sequence.
LEMMA FunctionIsSeq ==
  ASSUME NEW m \in Nat, NEW T, NEW g \in [1..m -> T]
  PROVE  g \in Seq(T) /\ Len(g) = m
  OBVIOUS

\* The fields of a live definition, one by one.
LEMMA FieldTypes ==
  ASSUME TypeOK
  PROVE  \A b \in Live : /\ defs[b].name \in Names /\ defs[b].val \in Vals
                         /\ defs[b].depth \in Nat
                         /\ defs[b].last \in Nodes \cup {NIL}
                         /\ defs[b].next \in Nodes \cup {NIL}
  BY DEF TypeOK, SymbolDefinition

\* Lookups and refused redeclarations touch only the answer.
LEMMA ReadsPreserveInv ==
  ASSUME Inv, NEW n \in Names,
         GetSymbol(n) \/ GetSymbolInCurrentScope(n) \/ RefuseSymbol(n)
  PROVE  Inv'
<1>1. UNCHANGED <<table, defs, entries, currentDepth, alive>>
  BY DEF GetSymbol, GetSymbolInCurrentScope, RefuseSymbol
<1>2. answer' \in Vals \cup {NIL}
  BY DEF GetSymbol, GetSymbolInCurrentScope, RefuseSymbol, Inv, TypeOK,
         TableIsInnermost, DeclaredHere, Top, Live, SymbolDefinition
<1>3. TypeOK'
  BY <1>1, <1>2 DEF Inv, TypeOK, Live
<1> QED
  BY <1>1, <1>3 DEF Inv, ScopesOwnDefinitions, OnePerScope, NextIsHidden,
     LastIsInverse, TableIsInnermost, Live

-------------------------------------------------------------------------------
\* A declaration puts a fresh object at the head of its name's chain.
LEMMA PutPreservesInv ==
  ASSUME Inv, NEW n \in Names, NEW v \in Vals, NEW a \in Nodes, PutSymbol(n, v, a)
  PROVE  Inv'
<1> USE DEF Inv
<1> DEFINE d == [name |-> n, val |-> v, depth |-> currentDepth,
                 last |-> NIL, next |-> Top(n)]
<1>1. /\ currentDepth \in Nat /\ currentDepth + 1 \in 1..Len(entries)
      /\ currentDepth' = currentDepth /\ alive' = alive 
      /\ Len(entries) \in Nat /\ DOMAIN entries = 1..Len(entries)
      /\ Len(entries') = Len(entries)
  BY DEF PutSymbol, NewDefinition, TypeOK
<1>2. /\ Live' = Live \cup {a}  /\ a \notin Live
      /\ defs'[a] = d
      /\ \A b \in Live : /\ defs'[b].name = defs[b].name
                         /\ defs'[b].depth = defs[b].depth
                         /\ defs'[b].next = defs[b].next
                         /\ defs'[b].val = defs[b].val
                         /\ defs'[b].last = IF b = Top(n) THEN a ELSE defs[b].last
  <2>1. \A b \in Live : defs[b] \in SymbolDefinition
    BY DEF TypeOK
  <2> QED
    BY <2>1 DEF PutSymbol, NewDefinition, Live, SymbolDefinition
<1>3. /\ Top(n) # NIL => /\ Top(n) \in Live /\ defs[Top(n)].name = n
                         /\ defs[Top(n)].depth < currentDepth
                         /\ \A b \in Live : defs[b].name = n =>
                              defs[b].depth <= defs[Top(n)].depth
      /\ Top(n) = NIL => \A b \in Live : defs[b].name # n
  BY NilIsNoObject DEF Top, TableIsInnermost, DeclaredHere, PutSymbol,
     ScopesOwnDefinitions, TypeOK, Live, SymbolDefinition
<1>4. TypeOK'
  <2>1. d \in SymbolDefinition
    BY <1>1, <1>3 DEF SymbolDefinition, TypeOK
  <2>2. ASSUME NEW b \in Live' PROVE defs'[b] \in SymbolDefinition
    <3>1. CASE b = a
      BY <1>2, <2>1, <3>1
    <3>2. CASE b # a
      <4>1. b \in Live /\ defs[b] \in SymbolDefinition
        BY <1>2, <3>2 DEF TypeOK
      <4>2. defs'[b] = defs[b] \/ defs'[b] = [defs[b] EXCEPT !.last = a]
        BY <3>2, <4>1 DEF PutSymbol, NewDefinition, Live
      <4> QED
        BY <4>1, <4>2 DEF SymbolDefinition
    <3> QED
      BY <3>1, <3>2
  <2>3. defs' \in [Live' -> SymbolDefinition] /\ Live' \subseteq Nodes
    BY <1>2, <2>2 DEF PutSymbol, NewDefinition, TypeOK, Live
  <2>4. table' \in [DOMAIN table' -> Nodes] /\ DOMAIN table' \subseteq Names
    BY DEF PutSymbol, NewDefinition, TypeOK
  <2>5. entries' \in Seq(SUBSET Nodes)
    BY <1>1 DEF PutSymbol, NewDefinition, TypeOK
  <2> QED
    BY <1>1, <2>3, <2>4, <2>5 DEF PutSymbol, NewDefinition, TypeOK
<1>5. ScopesOwnDefinitions'
  <2>1. \A i \in 1..Len(entries) :
          entries'[i] = IF i = currentDepth + 1 THEN entries[i] \cup {a} ELSE entries[i]
    <3>1. entries' = [entries EXCEPT ![currentDepth + 1] = entries[currentDepth + 1] \cup {a}]
      BY DEF PutSymbol, NewDefinition
    <3> QED
      BY <1>1, <3>1
  <2>2. \A i \in 1..Len(entries) : \A b \in entries'[i] : b \in Live' /\ defs'[b].depth = i - 1
    <3> SUFFICES ASSUME NEW i \in 1..Len(entries), NEW b \in entries'[i]
                 PROVE  b \in Live' /\ defs'[b].depth = i - 1
      OBVIOUS
    <3>1. CASE b = a
      <4>1. i = currentDepth + 1
        BY <1>2, <2>1, <3>1 DEF ScopesOwnDefinitions
      <4> QED
        BY <1>1, <1>2, <3>1, <4>1
    <3>2. CASE b # a
      <4>1. b \in entries[i]
        BY <2>1, <3>2
      <4> QED
        BY <1>2, <4>1 DEF ScopesOwnDefinitions
    <3> QED
      BY <3>1, <3>2
  <2>3. ASSUME NEW b \in Live'
        PROVE  defs'[b].depth <= currentDepth /\ b \in entries'[defs'[b].depth + 1]
    <3>1. CASE b = a
      <4>1. defs'[b].depth = currentDepth
        BY <1>2, <3>1
      <4>2. a \in entries'[currentDepth + 1]
        BY <1>1, <2>1
      <4> QED
        BY <1>1, <3>1, <4>1, <4>2
    <3>2. CASE b \in Live
      <4>1. /\ defs[b].depth \in Nat /\ defs[b].depth <= currentDepth
            /\ b \in entries[defs[b].depth + 1] /\ defs[b].depth + 1 \in 1..Len(entries)
        BY <1>1, <3>2, FieldTypes DEF ScopesOwnDefinitions
      <4>2. b \in entries'[defs[b].depth + 1]
        BY <2>1, <4>1
      <4>3. defs'[b].depth = defs[b].depth
        BY <1>2, <3>2
      <4> QED
        BY <4>1, <4>2, <4>3
    <3> QED
      BY <1>2, <3>1, <3>2
  <2> QED
    BY <1>1, <2>2, <2>3 DEF ScopesOwnDefinitions
<1>6. OnePerScope'
  <2>1. \A b \in Live : defs[b].name = n => defs[b].depth # currentDepth
    BY <1>1, <1>3, FieldTypes
  <2> QED
    BY <1>2, <2>1 DEF OnePerScope
<1>7. NextIsHidden'
  <2>1. ASSUME NEW b \in Live
        PROVE  defs[b].next # NIL =>
                 /\ defs[b].next \in Live' /\ defs'[defs[b].next].name = defs[b].name
                 /\ defs'[defs[b].next].depth < defs[b].depth
    BY <1>2 DEF NextIsHidden
  <2>2. ASSUME NEW b \in Live, NEW c \in Live',
               defs'[c].name = defs'[b].name, defs'[c].depth < defs'[b].depth
        PROVE  defs'[b].next # NIL /\ defs'[c].depth <= defs'[defs'[b].next].depth
    <3>1. c # a
      BY <1>1, <1>2, <2>2, FieldTypes DEF ScopesOwnDefinitions
    <3> QED
      BY <1>2, <2>2, <3>1 DEF NextIsHidden
  <2>3. /\ Top(n) # NIL => /\ Top(n) \in Live' /\ defs'[Top(n)].name = n
                           /\ defs'[Top(n)].depth < currentDepth
        /\ \A c \in Live' : defs'[c].name = n /\ defs'[c].depth < currentDepth =>
             Top(n) # NIL /\ defs'[c].depth <= defs'[Top(n)].depth
    BY <1>1, <1>2, <1>3
  <2> QED
    BY <1>2, <2>1, <2>2, <2>3 DEF NextIsHidden
<1>8. LastIsInverse'
  <2>1. \A b \in Live : defs[b].next # a
    BY <1>2, NilIsNoObject DEF NextIsHidden
  <2>2. \A b \in Live : b = Top(n) => \A c \in Live : defs[c].next # b
    BY <1>3, FieldTypes, NilIsNoObject DEF NextIsHidden, TypeOK
  <2>3. defs'[a].last = NIL /\ defs'[a].next = Top(n) /\ defs'[a].next # a
    BY <1>2, <1>3, NilIsNoObject
  <2>4. \A b \in Live' : defs'[b].next = a => FALSE
    BY <1>2, <2>1, <2>3
  <2>5. ASSUME NEW b \in Live
        PROVE  /\ defs'[b].last # NIL => defs'[b].last \in Live' /\ defs'[defs'[b].last].next = b
               /\ \A c \in Live' : defs'[c].next = b => defs'[b].last = c
    <3>1. CASE b = Top(n)
      BY <1>2, <2>2, <2>3, <3>1
    <3>2. CASE b # Top(n)
      BY <1>2, <2>3, <3>2 DEF LastIsInverse
    <3> QED
      BY <3>1, <3>2
  <2> QED
    BY <1>2, <2>3, <2>4, <2>5 DEF LastIsInverse
<1>9. TableIsInnermost'
  <2>1. /\ DOMAIN table' = DOMAIN table \cup {n}
        /\ table'[n] = a
        /\ \A m \in DOMAIN table : m # n => table'[m] = table[m]
    BY DEF PutSymbol, NewDefinition
  <2>2. \A b \in Live : defs[b].depth <= currentDepth
    BY DEF ScopesOwnDefinitions
  <2>3. \A b \in Live' : defs'[b].name = n => defs'[b].depth <= defs'[a].depth
    BY <1>1, <1>2, <2>2
  <2>4. ASSUME NEW m \in DOMAIN table, m # n
        PROVE  /\ table'[m] \in Live' /\ defs'[table'[m]].name = m
               /\ \A b \in Live' : defs'[b].name = m => defs'[b].depth <= defs'[table'[m]].depth
    BY <1>2, <2>1, <2>4 DEF TableIsInnermost
  <2> QED
    BY <1>2, <2>1, <2>3, <2>4 DEF TableIsInnermost
<1> QED
  BY <1>4, <1>5, <1>6, <1>7, <1>8, <1>9
-------------------------------------------------------------------------------
\* An opened scope has no definitions yet, whatever an earlier one of its depth had.
LEMMA OpenPreservesInv ==
  ASSUME Inv, OpenScope
  PROVE  Inv'
<1> USE DEF Inv
<1>1. /\ UNCHANGED <<table, defs, alive, answer>> /\ Live' = Live
      /\ currentDepth' = currentDepth + 1
      /\ entries' = Append(entries, {}) /\ entries \in Seq(SUBSET Nodes)
      /\ currentDepth \in Nat
  BY DEF OpenScope, TypeOK, Live
<1>2. /\ Len(entries) \in Nat /\ Len(entries') = Len(entries) + 1
      /\ \A i \in 1..Len(entries) : entries'[i] = entries[i]
      /\ entries'[Len(entries) + 1] = {}
      /\ entries' \in Seq(SUBSET Nodes)
  BY <1>1
<1>3. TypeOK'
  BY <1>1, <1>2 DEF TypeOK
<1>4. ScopesOwnDefinitions'
  <2>1. \A i \in 1..Len(entries') : \A a \in entries'[i] : a \in Live /\ defs[a].depth = i - 1
    BY <1>2 DEF ScopesOwnDefinitions
  <2>2. ASSUME NEW a \in Live
        PROVE  defs[a].depth <= currentDepth + 1 /\ a \in entries'[defs[a].depth + 1]
    <3>1. defs[a].depth \in Nat /\ defs[a].depth <= currentDepth /\ a \in entries[defs[a].depth + 1]
      BY FieldTypes DEF ScopesOwnDefinitions
    <3>2. defs[a].depth + 1 \in 1..Len(entries)
      BY <1>1, <1>2, <3>1 DEF TypeOK
    <3> QED
      BY <1>1, <1>2, <3>1, <3>2
  <2> QED
    BY <1>1, <2>1, <2>2 DEF ScopesOwnDefinitions
<1> QED
  BY <1>1, <1>3, <1>4 DEF OnePerScope, NextIsHidden, LastIsInverse, TableIsInnermost

-------------------------------------------------------------------------------
\* The definitions a closing scope deletes are the live ones of its depth, and
\* each is the only one of its name among them.
LEMMA DyingIsTheScope ==
  ASSUME Inv, currentDepth >= 0
  PROVE  /\ Dying = {b \in Live : defs[b].depth = currentDepth}
         /\ \A b \in Live \ Dying : defs[b].depth < currentDepth
         /\ \A a \in Dying : DyingOf(defs[a].name) = a
<1> USE DEF Inv
<1>1. currentDepth \in Nat /\ currentDepth + 1 \in 1..Len(entries)
  BY DEF TypeOK
<1>2. Dying = {b \in Live : defs[b].depth = currentDepth}
  <2>1. ASSUME NEW b \in Dying PROVE b \in Live /\ defs[b].depth = currentDepth
    <3>1. b \in Live /\ defs[b].depth = (currentDepth + 1) - 1
      BY <1>1 DEF ScopesOwnDefinitions, Dying
    <3> QED
      BY <1>1, <3>1
  <2>2. \A b \in Live : defs[b].depth = currentDepth => b \in Dying
    BY DEF ScopesOwnDefinitions, Dying
  <2> QED
    BY <2>1, <2>2
<1>3. \A b \in Live \ Dying : defs[b].depth < currentDepth
  BY <1>1, <1>2, FieldTypes DEF ScopesOwnDefinitions
<1>4. ASSUME NEW a \in Dying PROVE DyingOf(defs[a].name) = a
  <2>1. \A b \in Dying : defs[b].name = defs[a].name => b = a
    BY <1>2 DEF OnePerScope
  <2> QED
    BY <2>1 DEF DyingOf
<1> QED
  BY <1>2, <1>3, <1>4

\* What a closed scope leaves of the heap.
LEMMA UnwindHeapFacts ==
  ASSUME Inv, currentDepth >= 0, Unwind
  PROVE  /\ Live' = Live \ Dying
         /\ \A b \in Live' : /\ b \in Live
                             /\ defs'[b].name = defs[b].name
                             /\ defs'[b].val = defs[b].val
                             /\ defs'[b].depth = defs[b].depth
                             /\ defs'[b].next = defs[b].next
                             /\ defs'[b].last = IF Unhides(b) THEN NIL ELSE defs[b].last
                             /\ defs'[b] \in SymbolDefinition
<1>1. Live' = Live \ Dying
  BY DEF Unwind, UnwoundTable, UnwoundHeap, UnwoundEntries, Live
<1>2. ASSUME NEW b \in Live'
      PROVE  /\ b \in Live
             /\ defs'[b] = IF Unhides(b) THEN [defs[b] EXCEPT !.last = NIL] ELSE defs[b]
  BY <1>1 DEF Unwind, UnwoundTable, UnwoundHeap, UnwoundEntries, Live
<1>3. \A b \in Live : defs[b] \in SymbolDefinition
  BY DEF Inv, TypeOK
<1>4. ASSUME NEW b \in Live'
      PROVE  /\ defs'[b].name = defs[b].name
             /\ defs'[b].val = defs[b].val
             /\ defs'[b].depth = defs[b].depth
             /\ defs'[b].next = defs[b].next
             /\ defs'[b].last = IF Unhides(b) THEN NIL ELSE defs[b].last
             /\ defs'[b] \in SymbolDefinition
  BY <1>2, <1>3 DEF SymbolDefinition
<1> QED
  BY <1>1, <1>2, <1>4

\* What it leaves of the name map: each name of the scope goes back to the
\* definition it hid, or away when it hid none.
LEMMA UnwindTable ==
  ASSUME Inv, currentDepth >= 0, Unwind
  PROVE  /\ \A n \in DOMAIN table' :
              /\ n \in DOMAIN table
              /\ \A a \in Dying : defs[a].name = n =>
                   defs[a].next # NIL /\ table'[n] = defs[a].next
              /\ (\A a \in Dying : defs[a].name # n) => table'[n] = table[n]
         /\ \A n \in DOMAIN table \ DOMAIN table' :
              \E a \in Dying : defs[a].name = n /\ defs[a].next = NIL
<1> DEFINE erased == {defs[a].name : a \in {d \in Dying : defs[d].next = NIL}}
<1>1. DOMAIN table' = DOMAIN table \ erased
  BY DEF Unwind, UnwoundTable, UnwoundHeap, UnwoundEntries
<1>2. \A n \in DOMAIN table' :
         table'[n] = IF \E a \in Dying : defs[a].name = n THEN defs[DyingOf(n)].next
                                                       ELSE table[n]
  BY DEF Unwind, UnwoundTable, UnwoundHeap, UnwoundEntries
<1>3. ASSUME NEW n \in DOMAIN table', NEW a \in Dying, defs[a].name = n
      PROVE  defs[a].next # NIL /\ table'[n] = defs[a].next
  BY <1>1, <1>2, <1>3, DyingIsTheScope
<1> QED
  BY <1>1, <1>2, <1>3

\* Closing a scope keeps the data structure.
LEMMA UnwindPreservesInv ==
  ASSUME Inv, currentDepth >= 0, alive => currentDepth > 0, Unwind
  PROVE  Inv'
<1> USE DEF Inv
<1>1. /\ currentDepth \in Nat /\ currentDepth' = currentDepth - 1
      /\ Len(entries) \in Nat /\ currentDepth + 1 \in 1..Len(entries)
      /\ entries \in Seq(SUBSET Nodes) /\ DOMAIN entries = 1..Len(entries)
      /\ UNCHANGED <<alive, answer>>
  BY DEF Unwind, UnwoundTable, UnwoundHeap, UnwoundEntries, TypeOK
<1>2. /\ entries' \in Seq(SUBSET Nodes) /\ Len(entries') = Len(entries)
      /\ \A i \in 1..Len(entries) :
           entries'[i] = IF i = currentDepth + 1 THEN {} ELSE entries[i]
  <2>1. entries' = [entries EXCEPT ![currentDepth + 1] = {}]
    BY DEF Unwind, UnwoundTable, UnwoundHeap, UnwoundEntries
  <2> QED
    BY <1>1, <2>1
<1>3. \A b \in Live' : defs[b].depth < currentDepth /\ defs[b].depth \in Nat
  BY DyingIsTheScope, UnwindHeapFacts, FieldTypes
<1>4. \A b \in Live' : defs[b].next # NIL => defs[b].next \in Live'
  <2> SUFFICES ASSUME NEW b \in Live', defs[b].next # NIL
               PROVE  defs[b].next \in Live'
    OBVIOUS
  <2>1. defs[b].next \in Live /\ defs[defs[b].next].depth < defs[b].depth
    BY UnwindHeapFacts DEF NextIsHidden
  <2>2. defs[defs[b].next].depth # currentDepth
    BY <1>1, <1>3, <2>1, FieldTypes
  <2> QED
    BY <2>1, <2>2, UnwindHeapFacts, DyingIsTheScope
<1>5. TypeOK'
  <2>1. defs' \in [Live' -> SymbolDefinition] /\ Live' \subseteq Nodes
    <3>1. defs' = [b \in Live' |-> defs'[b]]
      BY DEF Unwind, UnwoundTable, UnwoundHeap, UnwoundEntries, Live
    <3>2. Live' \subseteq Nodes
      BY UnwindHeapFacts DEF TypeOK
    <3> QED
      BY <3>1, <3>2, UnwindHeapFacts
  <2>2. DOMAIN table' \subseteq Names
    BY UnwindTable DEF TypeOK
  <2>3. ASSUME NEW n \in DOMAIN table' PROVE table'[n] \in Nodes
    <3>1. CASE \A a \in Dying : defs[a].name # n
      BY <3>1, UnwindTable DEF TypeOK
    <3>2. ASSUME NEW a \in Dying, defs[a].name = n PROVE table'[n] \in Nodes
      <4>1. table'[n] = defs[a].next /\ defs[a].next # NIL
        BY <3>2, UnwindTable
      <4>2. defs[a].next \in Nodes \cup {NIL}
        BY DyingIsTheScope, FieldTypes
      <4> QED
        BY <4>1, <4>2
    <3> QED
      BY <3>1, <3>2
  <2>4. table' \in [DOMAIN table' -> Nodes]
    <3>1. table' = [n \in DOMAIN table' |-> table'[n]]
      BY DEF Unwind, UnwoundTable, UnwoundHeap, UnwoundEntries
    <3> QED
      BY <2>3, <3>1
  <2> QED
    BY <1>1, <1>2, <2>1, <2>2, <2>4 DEF TypeOK
<1>6. ScopesOwnDefinitions'
  <2>1. ASSUME NEW i \in 1..Len(entries'), NEW a \in entries'[i]
        PROVE  a \in Live' /\ defs'[a].depth = i - 1
    <3>1. i # currentDepth + 1 /\ a \in entries[i] /\ i \in 1..Len(entries)
      BY <1>2, <2>1
    <3>2. a \in Live /\ defs[a].depth = i - 1
      BY <3>1 DEF ScopesOwnDefinitions
    <3>3. defs[a].depth # currentDepth
      BY <1>1, <3>1, <3>2
    <3> QED
      BY <3>2, <3>3, UnwindHeapFacts, DyingIsTheScope
  <2>2. ASSUME NEW a \in Live'
        PROVE  defs'[a].depth <= currentDepth' /\ a \in entries'[defs'[a].depth + 1]
    <3>1. defs'[a].depth = defs[a].depth /\ a \in Live
      BY UnwindHeapFacts
    <3>2. defs[a].depth < currentDepth /\ defs[a].depth \in Nat
      BY <1>3
    <3>3. a \in entries[defs[a].depth + 1]
      BY <3>1 DEF ScopesOwnDefinitions
    <3>4. defs[a].depth + 1 \in 1..Len(entries) /\ defs[a].depth + 1 # currentDepth + 1
      BY <1>1, <3>2
    <3>5. entries'[defs[a].depth + 1] = entries[defs[a].depth + 1]
      BY <1>2, <3>4
    <3> QED
      BY <1>1, <3>1, <3>2, <3>3, <3>5
  <2> QED
    BY <2>1, <2>2 DEF ScopesOwnDefinitions
<1>7. OnePerScope'
  BY UnwindHeapFacts DEF OnePerScope
<1>8. NextIsHidden'
  BY <1>4, UnwindHeapFacts DEF NextIsHidden
<1>9. LastIsInverse'
  <2>1. ASSUME NEW a \in Live', defs'[a].last # NIL
        PROVE  defs'[a].last \in Live' /\ defs'[defs'[a].last].next = a
    <3>1. ~Unhides(a) /\ defs'[a].last = defs[a].last /\ a \in Live
      BY <2>1, UnwindHeapFacts
    <3>2. defs[a].last \in Live /\ defs[defs[a].last].next = a
      BY <2>1, <3>1 DEF LastIsInverse
    <3>3. defs[a].last \notin Dying
      BY <3>1, <3>2 DEF Unhides
    <3> QED
      BY <3>1, <3>2, <3>3, UnwindHeapFacts
  <2>2. ASSUME NEW a \in Live', NEW b \in Live', defs'[b].next = a
        PROVE  defs'[a].last = b
    <3>1. defs[b].next = a /\ a \in Live /\ b \in Live /\ b \notin Dying
      BY <2>2, UnwindHeapFacts
    <3>2. defs[a].last = b
      BY <3>1 DEF LastIsInverse
    <3>3. ~Unhides(a)
      BY <3>1, <3>2, DyingIsTheScope DEF LastIsInverse, Unhides
    <3> QED
      BY <3>2, <3>3, UnwindHeapFacts
  <2> QED
    BY <2>1, <2>2 DEF LastIsInverse
<1>10. TableIsInnermost'
  <2>1. ASSUME NEW n \in DOMAIN table'
        PROVE  /\ table'[n] \in Live' /\ defs'[table'[n]].name = n
               /\ \A b \in Live' : defs'[b].name = n => defs'[b].depth <= defs'[table'[n]].depth
    <3>1. CASE \A a \in Dying : defs[a].name # n
      <4>1. table'[n] = table[n] /\ n \in DOMAIN table
        BY <3>1, UnwindTable
      <4>2. table[n] \in Live' /\ defs[table[n]].name = n
        BY <3>1, <4>1, UnwindHeapFacts DEF TableIsInnermost
      <4> QED
        BY <4>1, <4>2, UnwindHeapFacts DEF TableIsInnermost
    <3>2. ASSUME NEW a \in Dying, defs[a].name = n
          PROVE  /\ table'[n] \in Live' /\ defs'[table'[n]].name = n
                 /\ \A b \in Live' : defs'[b].name = n => defs'[b].depth <= defs'[table'[n]].depth
      <4>1. table'[n] = defs[a].next /\ defs[a].next # NIL
        BY <3>2, UnwindTable
      <4>2. a \in Live /\ defs[a].depth = currentDepth
        BY DyingIsTheScope
      <4>3. /\ table'[n] \in Live /\ defs[table'[n]].name = n
            /\ defs[table'[n]].depth < currentDepth
        BY <3>2, <4>1, <4>2 DEF NextIsHidden
      <4>4. table'[n] \in Live'
        BY <1>1, <4>3, UnwindHeapFacts, DyingIsTheScope
      <4>5. \A b \in Live' : defs[b].name = n => defs[b].depth <= defs[table'[n]].depth
        BY <1>3, <3>2, <4>1, <4>2, UnwindHeapFacts DEF NextIsHidden
      <4> QED
        BY <4>3, <4>4, <4>5, UnwindHeapFacts
    <3> QED
      BY <3>1, <3>2
  <2>2. ASSUME NEW a \in Live' PROVE defs'[a].name \in DOMAIN table'
    <3>1. defs[a].name \in DOMAIN table /\ a \in Live /\ defs'[a].name = defs[a].name
      BY UnwindHeapFacts DEF TableIsInnermost
    <3>2. ASSUME NEW d \in Dying, defs[d].name = defs[a].name PROVE defs[d].next # NIL
      BY <1>3, <3>1, <3>2, DyingIsTheScope DEF NextIsHidden
    <3> QED
      BY <3>1, <3>2, UnwindTable
  <2> QED
    BY <2>1, <2>2 DEF TableIsInnermost
<1> QED
  BY <1>5, <1>6, <1>7, <1>8, <1>9, <1>10
-------------------------------------------------------------------------------
\* Every step keeps the data structure.
LEMMA StepPreservesInv == Inv /\ [Next]_vars => Inv'
<1> SUFFICES ASSUME Inv, [Next]_vars
             PROVE  Inv'
  OBVIOUS
<1>1. ASSUME NEW n \in Names, GetSymbol(n) \/ GetSymbolInCurrentScope(n) \/ RefuseSymbol(n)
      PROVE  Inv'
  BY <1>1, ReadsPreserveInv
<1>2. ASSUME NEW n \in Names, NEW v \in Vals, NEW a \in Nodes, PutSymbol(n, v, a)
      PROVE  Inv'
  BY <1>2, PutPreservesInv
<1>3. CASE OpenScope
  BY <1>3, OpenPreservesInv
<1>4. CASE CloseScope
  <2>1. currentDepth >= 0 /\ (alive => currentDepth > 0) /\ Unwind
    BY <1>4 DEF CloseScope, Inv, TypeOK
  <2> QED
    BY <2>1, UnwindPreservesInv
<1>5. CASE DestroyScope
  <2>1. currentDepth >= 0 /\ (alive => currentDepth > 0) /\ Unwind
    BY <1>5 DEF DestroyScope
  <2> QED
    BY <2>1, UnwindPreservesInv
<1>6. CASE Destroy
  BY <1>6 DEF Destroy, Inv, TypeOK, ScopesOwnDefinitions, OnePerScope, NextIsHidden,
     LastIsInverse, TableIsInnermost, Live
<1>7. CASE UNCHANGED vars
  BY <1>7 DEF vars, Inv, TypeOK, ScopesOwnDefinitions, OnePerScope, NextIsHidden,
     LastIsInverse, TableIsInnermost, Live
<1> QED
  BY <1>1, <1>2, <1>3, <1>4, <1>5, <1>6, <1>7 DEF Next

LEMMA InitInv == Init => Inv
<1> SUFFICES ASSUME Init PROVE Inv
  OBVIOUS
<1>1. Live = {} /\ DOMAIN table = {} /\ entries = << {} >> /\ currentDepth = 0
      /\ alive = TRUE /\ answer = NIL
  BY DEF Init, Live
<1>2. TypeOK
  <2>1. defs \in [Live -> SymbolDefinition] /\ table \in [DOMAIN table -> Nodes]
    BY DEF Init, Live
  <2>2. entries \in Seq(SUBSET Nodes) /\ Len(entries) = 1
    BY <1>1
  <2> QED
    BY <1>1, <2>1, <2>2 DEF TypeOK
<1>3. ScopesOwnDefinitions
  BY <1>1 DEF ScopesOwnDefinitions
<1> QED
  BY <1>1, <1>2, <1>3 DEF Inv, OnePerScope, NextIsHidden, LastIsInverse, TableIsInnermost

\* For every set of names, values and addresses, and any sequence of calls: the
\* chains, the scope lists and the name map agree, and no pointer dangles.
THEOREM SymbolTableInvariant == Spec => []Inv
  BY InitInv, StepPreservesInv, PTL DEF Spec

\* At most one definition of a name is ever live in a scope: PutSymbol refuses
\* the second one, at whatever depth the first was hidden or uncovered.
THEOREM OneDefinitionPerScope == Spec => []OnePerScope
<1>1. Inv => OnePerScope
  BY DEF Inv
<1> QED
  BY <1>1, SymbolTableInvariant, PTL

\* The chains lead through live definitions only, outwards and back: a scope that
\* closes leaves neither a next_ nor a last_ to what it deleted.
THEOREM ChainsNeverDangle == Spec => []ChainsAreTrue
<1>1. Inv => ChainsAreTrue
  BY DEF Inv, ChainsAreTrue
<1> QED
  BY <1>1, SymbolTableInvariant, PTL

\* The members keep their types, in particular the depth stays within entries_.
THEOREM SymbolTableTypes == Spec => []TypeOK
<1>1. Inv => TypeOK
  BY DEF Inv
<1> QED
  BY <1>1, SymbolTableInvariant, PTL

\* A name of the table leads to its innermost live definition, always.
THEOREM TableAlwaysInnermost == Spec => []TableIsInnermost
<1>1. Inv => TableIsInnermost
  BY DEF Inv
<1> QED
  BY <1>1, SymbolTableInvariant, PTL

\* Each definition is on the list of its own scope, so it is deleted once.
THEOREM DefinitionsOwnedByTheirScope == Spec => []ScopesOwnDefinitions
<1>1. Inv => ScopesOwnDefinitions
  BY DEF Inv
<1> QED
  BY <1>1, SymbolTableInvariant, PTL

-------------------------------------------------------------------------------
\* The stack of scopes that a state of the table stands for: its shape, and what
\* its scopes hold in terms of live definitions.
LEMMA StackShape ==
  ASSUME Inv
  PROVE  /\ OpenScopes \in Seq(SUBSET (Names \X Vals))
         /\ Len(OpenScopes) = currentDepth + 1
         /\ \A i \in 1..(currentDepth + 1) : OpenScopes[i] = Scope(i)
         /\ \A i \in 1..(currentDepth + 1), n \in Names, v \in Vals :
              <<n, v>> \in OpenScopes[i] <=>
                \E a \in Live : defs[a].name = n /\ defs[a].val = v /\ defs[a].depth = i - 1
<1> USE DEF Inv
<1>1. currentDepth + 1 \in Nat /\ currentDepth \in Int /\ Len(entries) \in Nat
      /\ currentDepth + 1 <= Len(entries)
  BY DEF TypeOK
<1>2. ASSUME NEW i \in 1..(currentDepth + 1)
      PROVE  \A a \in Live : a \in entries[i] <=> defs[a].depth = i - 1
  <2>1. \A a \in entries[i] : a \in Live /\ defs[a].depth = i - 1
    BY <1>1 DEF ScopesOwnDefinitions
  <2>2. \A a \in Live : defs[a].depth = i - 1 => defs[a].depth + 1 = i
    BY FieldTypes
  <2> QED
    BY <2>1, <2>2 DEF ScopesOwnDefinitions
<1>3. \A i \in 1..(currentDepth + 1) : entries[i] \subseteq Live
  BY <1>1 DEF ScopesOwnDefinitions
<1>4. \A i \in 1..(currentDepth + 1) : Scope(i) \in SUBSET (Names \X Vals)
  BY <1>3, FieldTypes DEF Scope
<1>5. \A i \in 1..(currentDepth + 1) : OpenScopes[i] = Scope(i)
  BY DEF OpenScopes
<1>6. OpenScopes \in Seq(SUBSET (Names \X Vals)) /\ Len(OpenScopes) = currentDepth + 1
  BY <1>1, <1>4 DEF OpenScopes
<1>7. ASSUME NEW i \in 1..(currentDepth + 1), NEW n \in Names, NEW v \in Vals
      PROVE  <<n, v>> \in OpenScopes[i] <=>
               \E a \in Live : defs[a].name = n /\ defs[a].val = v /\ defs[a].depth = i - 1
  BY <1>2, <1>3, <1>5 DEF Scope
<1> QED
  BY <1>5, <1>6, <1>7

\* What the head of a chain says about the scopes.
LEMMA TopMeaning ==
  ASSUME Inv, NEW n \in Names
  PROVE  /\ Top(n) = NIL => \A a \in Live : defs[a].name # n
         /\ Top(n) # NIL => /\ Top(n) \in Live /\ defs[Top(n)].name = n
                            /\ defs[Top(n)].val \in Vals
                            /\ defs[Top(n)].depth + 1 \in 1..(currentDepth + 1)
                            /\ \A b \in Live : defs[b].name = n => defs[b].depth <= defs[Top(n)].depth
<1>1. CASE n \in DOMAIN table
  <2>1. /\ Top(n) \in Live /\ defs[Top(n)].name = n
        /\ \A b \in Live : defs[b].name = n => defs[b].depth <= defs[Top(n)].depth
    BY <1>1 DEF Top, Inv, TableIsInnermost
  <2>2. defs[Top(n)].depth <= currentDepth /\ currentDepth \in Int
    BY <2>1 DEF Inv, ScopesOwnDefinitions, TypeOK
  <2>3. Top(n) # NIL
    BY <1>1, NilIsNoObject DEF Top, Inv, TypeOK
  <2> QED
    BY <2>1, <2>2, <2>3, FieldTypes DEF Inv
<1>2. CASE n \notin DOMAIN table
  BY <1>2 DEF Top, Inv, TableIsInnermost
<1> QED
  BY <1>1, <1>2

\* A name is declared in the current scope for the table iff it is for the stack.
LEMMA DeclaredHereMeaning ==
  ASSUME Inv, currentDepth >= 0, NEW n \in Names
  PROVE  /\ DeclaredHere(n) <=> \E a \in Live : defs[a].name = n /\ defs[a].depth = currentDepth
         /\ DeclaredHere(n) => \A a \in Live :
              defs[a].name = n /\ defs[a].depth = currentDepth => a = Top(n)
<1>1. ASSUME NEW a \in Live, defs[a].name = n, defs[a].depth = currentDepth
      PROVE  Top(n) = a /\ DeclaredHere(n)
  <2>1. Top(n) # NIL /\ Top(n) \in Live /\ defs[Top(n)].name = n
        /\ currentDepth <= defs[Top(n)].depth
    BY <1>1, TopMeaning
  <2>2. defs[Top(n)].depth <= currentDepth /\ defs[Top(n)].depth \in Nat
    BY <2>1, FieldTypes DEF Inv, ScopesOwnDefinitions
  <2>3. defs[Top(n)].depth = currentDepth
    BY <2>1, <2>2 DEF Inv, TypeOK
  <2> QED
    BY <1>1, <2>1, <2>3 DEF Inv, OnePerScope, DeclaredHere
<1>2. ASSUME DeclaredHere(n)
      PROVE  Top(n) \in Live /\ defs[Top(n)].name = n /\ defs[Top(n)].depth = currentDepth
  BY <1>2, TopMeaning DEF DeclaredHere
<1> QED
  BY <1>1, <1>2

-------------------------------------------------------------------------------
\* Lookups answer as the stack does.
LEMMA LookupRefines ==
  ASSUME Inv, NEW n \in Names, GetSymbol(n)
  PROVE  Scopes!Lookup(n)
<1>1. /\ currentDepth \in Nat /\ UNCHANGED <<table, defs, entries, currentDepth, alive>>
      /\ call' = <<"GetSymbol", n>>
  BY DEF GetSymbol, Inv, TypeOK
<1>2. OpenScopes' = OpenScopes
  BY <1>1 DEF OpenScopes, Scope
<1>3. OpenScopes # << >>
  BY <1>1, StackShape
<1>4. CASE Top(n) = NIL
  <2>1. answer' = NIL
    BY <1>4 DEF GetSymbol
  <2>2. ASSUME NEW i \in 1..Len(OpenScopes)
        PROVE  ~Scopes!Declares(OpenScopes[i], n)
    <3>1. i \in 1..(currentDepth + 1)
      BY StackShape
    <3>2. \A b \in Live : defs[b].name # n
      BY <1>4, TopMeaning
    <3> QED
      BY <3>1, <3>2, StackShape DEF Scopes!Declares
  <2>3. Scopes!Means(n, answer')
    BY <2>1, <2>2 DEF Scopes!Means
  <2> QED
    BY <1>1, <1>2, <1>3, <2>1, <2>3 DEF Scopes!Lookup
<1>5. CASE Top(n) # NIL
  <2> DEFINE k == defs[Top(n)].depth + 1
             w == defs[Top(n)].val
  <2>1. /\ Top(n) \in Live /\ defs[Top(n)].name = n /\ w \in Vals
        /\ k \in 1..(currentDepth + 1) /\ defs[Top(n)].depth \in Nat
        /\ \A b \in Live : defs[b].name = n => defs[b].depth <= defs[Top(n)].depth
    BY <1>5, TopMeaning, FieldTypes DEF Inv
  <2>2. answer' = w
    BY <1>5 DEF GetSymbol
  <2>3. <<n, w>> \in OpenScopes[k]
    <3>1. defs[Top(n)].depth = k - 1
      BY <2>1
    <3> QED
      BY <2>1, <3>1, StackShape
  <2>4. ASSUME NEW j \in 1..Len(OpenScopes), j > k
        PROVE  ~Scopes!Declares(OpenScopes[j], n)
    <3>1. j \in 1..(currentDepth + 1)
      BY StackShape
    <3>2. \A b \in Live : defs[b].name = n => defs[b].depth # j - 1
      <4>1. j - 1 > defs[Top(n)].depth
        BY <1>1, <2>1, <2>4, <3>1
      <4> QED
        BY <1>1, <2>1, <3>1, <4>1, FieldTypes DEF Inv
    <3>3. ASSUME NEW v \in Vals, <<n, v>> \in OpenScopes[j] PROVE FALSE
      <4>1. \E b \in Live : defs[b].name = n /\ defs[b].val = v /\ defs[b].depth = j - 1
        BY <3>1, <3>3, StackShape
      <4> QED
        BY <3>2, <4>1
    <3> QED
      BY <3>3 DEF Scopes!Declares
  <2>5. Scopes!Means(n, answer')
    BY <2>1, <2>2, <2>3, <2>4, StackShape DEF Scopes!Means
  <2> QED
    BY <1>1, <1>2, <1>3, <2>1, <2>2, <2>5 DEF Scopes!Lookup
<1> QED
  BY <1>4, <1>5

\* The current scope of the stack declares what the table has at its depth.
LEMMA CurrentScopeMeaning ==
  ASSUME Inv, currentDepth >= 0, NEW n \in Names
  PROVE  /\ OpenScopes # << >> /\ Len(OpenScopes) \in 1..(currentDepth + 1)
         /\ Scopes!Declares(OpenScopes[Len(OpenScopes)], n) <=> DeclaredHere(n)
         /\ DeclaredHere(n) => /\ defs[Top(n)].val \in Vals
                               /\ <<n, defs[Top(n)].val>> \in OpenScopes[Len(OpenScopes)]
<1>1. currentDepth \in Nat
  BY DEF Inv, TypeOK
<1>2. Len(OpenScopes) = currentDepth + 1 /\ (currentDepth + 1) - 1 = currentDepth
  BY <1>1, StackShape
<1>3. \A v \in Vals : <<n, v>> \in OpenScopes[currentDepth + 1] <=>
        \E a \in Live : defs[a].name = n /\ defs[a].val = v /\ defs[a].depth = currentDepth
  BY <1>1, <1>2, StackShape
<1>4. Scopes!Declares(OpenScopes[currentDepth + 1], n) <=> DeclaredHere(n)
  BY <1>3, DeclaredHereMeaning, FieldTypes DEF Scopes!Declares, Inv
<1>5. DeclaredHere(n) => /\ Top(n) \in Live /\ defs[Top(n)].name = n
                         /\ defs[Top(n)].depth = currentDepth /\ defs[Top(n)].val \in Vals
  BY TopMeaning DEF DeclaredHere
<1>6. OpenScopes # << >>
  BY <1>1, <1>2, StackShape
<1> QED
  BY <1>1, <1>2, <1>3, <1>4, <1>5, <1>6

\* So a lookup of the current scope and a refused declaration are the stack's.
LEMMA CurrentScopeRefines ==
  ASSUME Inv, NEW n \in Names
  PROVE  /\ GetSymbolInCurrentScope(n) => Scopes!LookupInCurrentScope(n)
         /\ RefuseSymbol(n) => Scopes!RefuseRedeclaration(n)
<1>1. ASSUME alive, UNCHANGED <<table, defs, entries, currentDepth, alive>>
      PROVE  OpenScopes' = OpenScopes /\ currentDepth >= 0
  BY <1>1 DEF OpenScopes, Scope, Inv, TypeOK
<1>2. ASSUME GetSymbolInCurrentScope(n) PROVE Scopes!LookupInCurrentScope(n)
  <2>1. OpenScopes' = OpenScopes /\ currentDepth >= 0
    BY <1>1, <1>2 DEF GetSymbolInCurrentScope
  <2>2. /\ answer' = IF DeclaredHere(n) THEN defs[Top(n)].val ELSE NIL
        /\ call' = <<"GetSymbolInCurrentScope", n>>
    BY <1>2 DEF GetSymbolInCurrentScope
  <2> QED
    BY <2>1, <2>2, CurrentScopeMeaning DEF Scopes!LookupInCurrentScope
<1>3. ASSUME RefuseSymbol(n) PROVE Scopes!RefuseRedeclaration(n)
  <2>1. /\ OpenScopes' = OpenScopes /\ currentDepth >= 0 /\ DeclaredHere(n)
        /\ answer' = NIL /\ call' = <<"PutSymbol", n>>
    BY <1>1, <1>3 DEF RefuseSymbol
  <2> QED
    BY <2>1, CurrentScopeMeaning DEF Scopes!RefuseRedeclaration
<1> QED
  BY <1>2, <1>3

-------------------------------------------------------------------------------
\* A declaration adds its binding to the top scope of the stack.
LEMMA PutRefines ==
  ASSUME Inv, Inv', NEW n \in Names, NEW v \in Vals, NEW a \in Nodes, PutSymbol(n, v, a)
  PROVE  Scopes!Declare(n, v)
<1>1. /\ currentDepth \in Nat /\ currentDepth' = currentDepth /\ ~DeclaredHere(n)
      /\ a \notin Live /\ answer' = v /\ call' = <<"PutSymbol", n>> /\ Len(entries) \in Nat
      /\ currentDepth + 1 \in 1..Len(entries)
  BY DEF PutSymbol, NewDefinition, Inv, TypeOK
<1>2. \A i \in 1..Len(entries) :
        entries'[i] = IF i = currentDepth + 1 THEN entries[i] \cup {a} ELSE entries[i]
  <2>1. entries' = [entries EXCEPT ![currentDepth + 1] = entries[currentDepth + 1] \cup {a}]
    BY DEF PutSymbol, NewDefinition
  <2>2. entries \in Seq(SUBSET Nodes) /\ DOMAIN entries = 1..Len(entries)
    BY DEF Inv, TypeOK
  <2> QED
    BY <1>1, <2>1, <2>2
<1>3. \A b \in Live : defs'[b].name = defs[b].name /\ defs'[b].val = defs[b].val
  <2>1. \A b \in Live : defs[b] \in SymbolDefinition
    BY DEF Inv, TypeOK
  <2> QED
    BY <1>1, <2>1 DEF PutSymbol, NewDefinition, Live, SymbolDefinition
<1>4. defs'[a].name = n /\ defs'[a].val = v
  BY DEF PutSymbol, NewDefinition
<1>5. \A i \in 1..(currentDepth + 1) : entries[i] \subseteq Live /\ i \in 1..Len(entries)
  BY <1>1 DEF Inv, ScopesOwnDefinitions
<1>6. ASSUME NEW i \in 1..(currentDepth + 1)
      PROVE  Scope(i)' = IF i = currentDepth + 1 THEN Scope(i) \cup {<<n, v>>} ELSE Scope(i)
  <2>1. \A b \in entries[i] : defs'[b].name = defs[b].name /\ defs'[b].val = defs[b].val
    BY <1>3, <1>5
  <2>2. entries'[i] = IF i = currentDepth + 1 THEN entries[i] \cup {a} ELSE entries[i]
    BY <1>2, <1>5
  <2>3. {<<defs'[b].name, defs'[b].val>> : b \in entries[i]} = Scope(i)
    BY <2>1 DEF Scope
  <2>4. CASE i = currentDepth + 1
    <3>1. Scope(i)' = {<<defs'[b].name, defs'[b].val>> : b \in entries[i] \cup {a}}
      BY <2>2, <2>4 DEF Scope
    <3>2. Scope(i)' = {<<defs'[b].name, defs'[b].val>> : b \in entries[i]}
                        \cup {<<defs'[a].name, defs'[a].val>>}
      BY <3>1
    <3> QED
      BY <1>4, <2>3, <2>4, <3>2
  <2>5. CASE i # currentDepth + 1
    BY <2>2, <2>3, <2>5 DEF Scope
  <2> QED
    BY <2>4, <2>5
<1>7. Len(OpenScopes) = currentDepth + 1 /\ DOMAIN OpenScopes = 1..(currentDepth + 1)
  BY StackShape DEF OpenScopes
<1>8. OpenScopes' = [OpenScopes EXCEPT ![Len(OpenScopes)] =
                       OpenScopes[Len(OpenScopes)] \cup {<<n, v>>}]
  BY <1>1, <1>6, <1>7 DEF OpenScopes
<1>9. OpenScopes # << >> /\ ~Scopes!Declares(OpenScopes[Len(OpenScopes)], n)
  <2>1. currentDepth >= 0
    BY <1>1
  <2>2. Scopes!Declares(OpenScopes[Len(OpenScopes)], n) <=> DeclaredHere(n)
    BY <2>1, CurrentScopeMeaning
  <2>3. OpenScopes # << >>
    BY <2>1, CurrentScopeMeaning
  <2> QED
    BY <1>1, <2>2, <2>3
<1> QED
  BY <1>1, <1>8, <1>9 DEF Scopes!Declare

\* Opening a scope pushes an empty one.
LEMMA OpenRefines ==
  ASSUME Inv, Inv', OpenScope
  PROVE  Scopes!OpenScope
<1>1. /\ currentDepth \in Nat /\ currentDepth' = currentDepth + 1
      /\ UNCHANGED <<defs, call, answer>> /\ entries' = Append(entries, {})
      /\ entries \in Seq(SUBSET Nodes) /\ currentDepth + 1 <= Len(entries)
      /\ Len(entries) \in Nat
  BY DEF OpenScope, Inv, TypeOK
<1>2. \A i \in 1..(currentDepth + 1) : Scope(i)' = Scope(i)
  BY <1>1 DEF Scope
<1>3. ASSUME NEW i, i = currentDepth + 2 PROVE Scope(i)' = {}
  <2>1. i \in 1..Len(entries') /\ i - 1 = currentDepth + 1
    BY <1>1, <1>3
  <2>2. \A b \in entries'[i] : b \in Live /\ defs[b].depth = currentDepth + 1
    <3>1. \A b \in entries'[i] : b \in Live' /\ defs'[b].depth = i - 1
      BY <2>1 DEF Inv, ScopesOwnDefinitions
    <3> QED
      BY <1>1, <2>1, <3>1 DEF Live
  <2>3. \A b \in Live : defs[b].depth # currentDepth + 1
    BY <1>1, FieldTypes DEF Inv, ScopesOwnDefinitions
  <2>4. entries'[i] = {}
    BY <2>2, <2>3
  <2> QED
    BY <2>4 DEF Scope
<1>4. OpenScopes \in Seq(SUBSET (Names \X Vals)) /\ Len(OpenScopes) = currentDepth + 1
      /\ OpenScopes # << >>
  BY <1>1, StackShape
<1>5. OpenScopes' = Append(OpenScopes, {})
  <2> DEFINE S == SUBSET (Names \X Vals)
             top == currentDepth + 2
  <2>1. OpenScopes' = [i \in 1..top |-> Scope(i)'] /\ top \in Nat
    BY <1>1 DEF OpenScopes
  <2>2. \A i \in 1..top : Scope(i)' = IF i = top THEN {} ELSE OpenScopes[i]
    BY <1>1, <1>2, <1>3 DEF OpenScopes
  <2>3. /\ Append(OpenScopes, {}) \in Seq(S) /\ Len(Append(OpenScopes, {})) = top
        /\ \A i \in 1..(currentDepth + 1) : Append(OpenScopes, {})[i] = OpenScopes[i]
        /\ Append(OpenScopes, {})[currentDepth + 2] = {}
    BY <1>1, <1>4, AppendProperties
  <2>4. \A i \in 1..top : Append(OpenScopes, {})[i] = IF i = top THEN {} ELSE OpenScopes[i]
    BY <1>1, <2>3
  <2>5. \A i \in 1..top : Scope(i)' \in S
    <3>1. \A i \in 1..top : i # top => OpenScopes[i] \in S
      BY <1>1, <1>4
    <3> QED
      BY <2>2, <3>1
  <2>6. OpenScopes' \in Seq(S) /\ Len(OpenScopes') = top
        /\ \A i \in 1..top : OpenScopes'[i] = Append(OpenScopes, {})[i]
    <3>1. OpenScopes' = [i \in 1..top |-> Append(OpenScopes, {})[i]]
      BY <2>1, <2>2, <2>4
    <3>2. \A i \in 1..top : Append(OpenScopes, {})[i] \in S
      BY <2>2, <2>4, <2>5
    <3> DEFINE f == [i \in 1..top |-> Append(OpenScopes, {})[i]]
    <3>3. /\ f \in Seq(S) /\ Len(f) = top
          /\ \A i \in 1..top : f[i] = Append(OpenScopes, {})[i]
      <4>1. f \in [1..top -> S]
        BY <3>2
      <4>2. f \in Seq(S) /\ Len(f) = top
        BY <2>1, <4>1, FunctionIsSeq
      <4> QED
        BY <4>2
    <3> QED
      BY <3>1, <3>3
  <2> HIDE DEF S, top
  <2> QED
    BY <2>3, <2>6, SeqEqual
<1> QED
  BY <1>1, <1>4, <1>5 DEF Scopes!OpenScope

\* Closing a scope pops it and leaves the others as they were.
LEMMA UnwindRefines ==
  ASSUME Inv, currentDepth >= 0, Unwind
  PROVE  Scopes!CloseScope
<1>1. /\ currentDepth \in Nat /\ currentDepth' = currentDepth - 1 /\ UNCHANGED <<call, answer>>
      /\ Len(entries) \in Nat /\ currentDepth + 1 \in 1..Len(entries)
      /\ entries \in Seq(SUBSET Nodes) /\ DOMAIN entries = 1..Len(entries)
  BY DEF Unwind, UnwoundTable, UnwoundHeap, UnwoundEntries, Inv, TypeOK
<1>2. ASSUME NEW i \in 1..currentDepth PROVE Scope(i)' = Scope(i)
  <2>1. i \in 1..Len(entries) /\ i # currentDepth + 1 /\ i - 1 # currentDepth
    BY <1>1
  <2>2. entries'[i] = entries[i]
    BY <1>1, <2>1 DEF Unwind, UnwoundTable, UnwoundHeap, UnwoundEntries
  <2>3. \A b \in entries[i] : b \in Live /\ defs[b].depth # currentDepth
    BY <2>1 DEF Inv, ScopesOwnDefinitions
  <2>4. \A b \in entries[i] : b \in Live'
    BY <2>3, UnwindHeapFacts, DyingIsTheScope
  <2>5. \A b \in entries[i] : defs'[b].name = defs[b].name /\ defs'[b].val = defs[b].val
    BY <2>4, UnwindHeapFacts
  <2> QED
    BY <2>2, <2>5 DEF Scope
<1>3. OpenScopes \in Seq(SUBSET (Names \X Vals)) /\ Len(OpenScopes) = currentDepth + 1
      /\ OpenScopes # << >>
  BY <1>1, StackShape
<1>4. OpenScopes' = SubSeq(OpenScopes, 1, Len(OpenScopes) - 1)
  <2>1. OpenScopes' = [i \in 1..currentDepth |-> Scope(i)']
    BY <1>1 DEF OpenScopes
  <2>2. SubSeq(OpenScopes, 1, currentDepth) = [i \in 1..currentDepth |-> OpenScopes[i]]
    BY <1>1, <1>3
  <2>3. \A i \in 1..currentDepth : Scope(i)' = OpenScopes[i]
    BY <1>1, <1>2 DEF OpenScopes
  <2> QED
    BY <1>1, <1>3, <2>1, <2>2, <2>3
<1> QED
  BY <1>1, <1>3, <1>4 DEF Scopes!CloseScope

\* Any client's calls get the answers of a stack of scopes, for every set of
\* names and values and however the calls nest: the table is a correct
\* implementation of lexical scoping.
THEOREM SymbolTableImplementsScopeStack == Spec => ImplementsScopeStack
<1>1. Init => Scopes!Init
  <2> SUFFICES ASSUME Init PROVE Scopes!Init
    OBVIOUS
  <2>1. Scope(1) = {} /\ currentDepth = 0 /\ call = << >> /\ answer = NIL
    BY DEF Init, Scope
  <2>2. OpenScopes = << {} >>
    BY <2>1 DEF OpenScopes
  <2> QED
    BY <2>1, <2>2 DEF Scopes!Init
<1>2. Inv /\ Inv' /\ [Next]_vars => [Scopes!Next]_(Scopes!vars)
  <2> SUFFICES ASSUME Inv, Inv', [Next]_vars
               PROVE  [Scopes!Next]_(Scopes!vars)
    OBVIOUS
  <2>1. ASSUME NEW n \in Names, GetSymbol(n) PROVE Scopes!Next
    BY <2>1, LookupRefines DEF Scopes!Next
  <2>2. ASSUME NEW n \in Names, GetSymbolInCurrentScope(n) PROVE Scopes!Next
    BY <2>2, CurrentScopeRefines DEF Scopes!Next
  <2>3. ASSUME NEW n \in Names, RefuseSymbol(n) PROVE Scopes!Next
    BY <2>3, CurrentScopeRefines DEF Scopes!Next
  <2>4. ASSUME NEW n \in Names, NEW v \in Vals, NEW a \in Nodes, PutSymbol(n, v, a)
        PROVE  Scopes!Next
    BY <2>4, PutRefines DEF Scopes!Next
  <2>5. CASE OpenScope
    BY <2>5, OpenRefines DEF Scopes!Next
  <2>6. CASE CloseScope
    <3>1. currentDepth >= 0 /\ Unwind
      BY <2>6 DEF CloseScope, Inv, TypeOK
    <3> QED
      BY <3>1, UnwindRefines DEF Scopes!Next
  <2>7. CASE DestroyScope
    BY <2>7, UnwindRefines DEF DestroyScope, Scopes!Next
  <2>8. CASE Destroy \/ UNCHANGED vars
    BY <2>8 DEF Destroy, vars, Scopes!vars, OpenScopes, Scope
  <2> QED
    BY <2>1, <2>2, <2>3, <2>4, <2>5, <2>6, <2>7, <2>8 DEF Next
<1> QED
  BY <1>1, <1>2, SymbolTableInvariant, PTL DEF Spec, ImplementsScopeStack, Scopes!Spec
===============================================================================
