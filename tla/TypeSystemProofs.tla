---------------------------- MODULE TypeSystemProofs --------------------------
(***************************************************************************)
(* Proofs about TypeSystem: the tables of the type system and the objects  *)
(* they hold agree, whatever types a program names and builds.             *)
(***************************************************************************)
EXTENDS TypeSystem, SequenceTheorems, TLAPS

\* The lists of parts an object can have, and the objects.
PartsSet == UNION {[D -> Nat] : D \in (SUBSET Fields) \cup {1..k : k \in 0..(MaxArgs + 1)}}
ObjectSet ==
  [kind : Basic \cup Composite \cup {"unresolved"}, parts : PartsSet, size : Nat,
   placeholder : Nat]

\* Parts that point at some of the objects there are.
Among(parts, tys) == parts \in PartsSet /\ \A p \in DOMAIN parts : parts[p] \in 1..Len(tys)

\* The objects: nothing points anywhere else, and a wrapper leads to a real type.
ObjectsOK(tys) ==
  /\ tys \in Seq(ObjectSet)
  /\ \A i \in 1..Len(tys) :
       /\ Among(tys[i].parts, tys)
       /\ tys[i].placeholder \in 0..Len(tys)
       /\ tys[i].placeholder # Null =>
            tys[i].kind = "unresolved" /\ tys[tys[i].placeholder].kind # "unresolved"

\* The tables: they hold every composite type, each under its own kind and parts.
TablesOK(tys, tables) ==
  /\ \A key \in DOMAIN tables : /\ tables[key] \in 1..Len(tys)
                                /\ key = <<tys[tables[key]].kind, tys[tables[key]].parts>>
  /\ \A i \in 1..Len(tys) :
       tys[i].kind \in Composite =>
         /\ <<tys[i].kind, tys[i].parts>> \in DOMAIN tables
         /\ tables[<<tys[i].kind, tys[i].parts>>] = i

NamesOK(tys, names) == names \in [DOMAIN names -> 1..Len(tys)] /\ DOMAIN names \subseteq Names

Sound(tys, tables, names) == ObjectsOK(tys) /\ TablesOK(tys, tables) /\ NamesOK(tys, names)

\* The inductive invariant.
IInv == Sound(types, interned, named) /\ status \in {"running", "error", "crashed"}

\* What later objects keep of the ones there were, and later names.
Keeps(tys, now) ==
  /\ Len(tys) <= Len(now)
  /\ \A i \in 1..Len(tys) :
       /\ now[i].kind = tys[i].kind /\ now[i].parts = tys[i].parts
       /\ tys[i].placeholder # Null => now[i].placeholder = tys[i].placeholder
KeepsNames(names, now) == \A n \in DOMAIN names : n \in DOMAIN now /\ now[n] = names[n]

-------------------------------------------------------------------------------
\* The objects that the operations create.
LEMMA NewObjects ==
  ASSUME NEW kind \in Composite \cup {"unresolved"}, NEW parts \in PartsSet, NEW size \in Nat
  PROVE  /\ Object(kind, parts, size) \in ObjectSet
         /\ Object(kind, parts, size).kind = kind
         /\ Object(kind, parts, size).parts = parts
         /\ Object(kind, parts, size).placeholder = Null
  BY DEF Object, ObjectSet, Null

LEMMA FewParts ==
  ASSUME NEW tys, Len(tys) \in Nat
  PROVE  /\ Among(<< >>, tys)
         /\ \A b \in 1..Len(tys) : Among(<<b>>, tys)
         /\ \A fs \in SUBSET Fields : \A members \in [fs -> 1..Len(tys)] : Among(members, tys)
         /\ \A k \in 1..(MaxArgs + 1) : \A sig \in [1..k -> 1..Len(tys)] : Among(sig, tys)
<1>1. MaxArgs \in Nat /\ Fields \subseteq Nat
  BY ConstantsOK
<1>2. \A k \in 0..(MaxArgs + 1) : \A sig \in [1..k -> Nat] : sig \in PartsSet
  BY DEF PartsSet
<1>3. \A fs \in SUBSET Fields : [fs -> Nat] \subseteq PartsSet
  BY DEF PartsSet
<1>4. << >> \in [1..0 -> Nat] /\ DOMAIN << >> = {}
  OBVIOUS
<1>5. Among(<< >>, tys)
  <2>1. 0 \in 0..(MaxArgs + 1)
    BY <1>1
  <2>2. << >> \in PartsSet
    BY <1>2, <1>4, <2>1
  <2> QED
    BY <1>4, <2>2 DEF Among
<1>6. ASSUME NEW b \in 1..Len(tys) PROVE Among(<<b>>, tys)
  <2>1. <<b>> \in [1..1 -> Nat] /\ 1 \in 0..(MaxArgs + 1)
    BY <1>1
  <2>2. <<b>> \in PartsSet
    BY <1>2, <2>1
  <2>3. DOMAIN <<b>> = {1} /\ <<b>>[1] = b
    OBVIOUS
  <2> QED
    BY <2>2, <2>3 DEF Among
<1>7. ASSUME NEW fs \in SUBSET Fields, NEW members \in [fs -> 1..Len(tys)]
      PROVE  Among(members, tys)
  <2>1. members \in [fs -> Nat]
    OBVIOUS
  <2> QED
    BY <1>3, <2>1 DEF Among
<1>8. ASSUME NEW k \in 1..(MaxArgs + 1), NEW sig \in [1..k -> 1..Len(tys)]
      PROVE  Among(sig, tys)
  <2>1. sig \in [1..k -> Nat] /\ k \in 0..(MaxArgs + 1)
    BY <1>1
  <2> QED
    BY <1>2, <2>1 DEF Among
<1> QED
  BY <1>5, <1>6, <1>7, <1>8

\* A new object disturbs none there was.
LEMMA AppendKeeps ==
  ASSUME NEW tys, ObjectsOK(tys), NEW new \in ObjectSet, Among(new.parts, tys),
         new.placeholder = Null
  PROVE  /\ ObjectsOK(Append(tys, new)) /\ Keeps(tys, Append(tys, new))
         /\ Len(Append(tys, new)) = Len(tys) + 1 /\ Append(tys, new)[Len(tys) + 1] = new
         /\ \A i \in 1..Len(tys) : Append(tys, new)[i] = tys[i]
         /\ Len(tys) \in Nat
<1> DEFINE now == Append(tys, new)
<1>1. tys \in Seq(ObjectSet) /\ Len(tys) \in Nat
  BY DEF ObjectsOK
<1>2. /\ now \in Seq(ObjectSet) /\ Len(now) = Len(tys) + 1 /\ now[Len(tys) + 1] = new
      /\ \A i \in 1..Len(tys) : now[i] = tys[i]
  BY <1>1
<1> HIDE DEF now
<1>3. ASSUME NEW parts, Among(parts, tys) PROVE Among(parts, now)
  BY <1>1, <1>2, <1>3 DEF Among
<1>4. ASSUME NEW i \in 1..Len(now)
      PROVE  /\ Among(now[i].parts, now)
             /\ now[i].placeholder \in 0..Len(now)
             /\ now[i].placeholder # Null =>
                  now[i].kind = "unresolved" /\ now[now[i].placeholder].kind # "unresolved"
  <2>1. CASE i = Len(tys) + 1
    BY <1>1, <1>2, <1>3, <2>1 DEF Null
  <2>2. CASE i \in 1..Len(tys)
    <3>1. /\ now[i] = tys[i] /\ Among(tys[i].parts, tys) /\ tys[i].placeholder \in 0..Len(tys)
          /\ tys[i].placeholder # Null =>
               tys[i].kind = "unresolved" /\ tys[tys[i].placeholder].kind # "unresolved"
      BY <1>2, <2>2 DEF ObjectsOK
    <3>2. Among(now[i].parts, now)
      BY <1>3, <3>1
    <3>3. now[i].placeholder # Null => now[now[i].placeholder] = tys[tys[i].placeholder]
      BY <1>1, <1>2, <3>1 DEF Null
    <3> QED
      BY <1>1, <1>2, <3>1, <3>2, <3>3
  <2>3. i = Len(tys) + 1 \/ i \in 1..Len(tys)
    BY <1>1, <1>2, <1>4
  <2> QED
    BY <2>1, <2>2, <2>3
<1>5. ObjectsOK(now)
  BY <1>2, <1>4 DEF ObjectsOK
<1>6. Keeps(tys, now)
  BY <1>1, <1>2 DEF Keeps
<1> QED
  BY <1>1, <1>2, <1>5, <1>6 DEF now

LEMMA KeepsIsTransitive ==
  ASSUME NEW a, NEW b, NEW c, Len(a) \in Nat, Len(b) \in Nat, Len(c) \in Nat,
         Keeps(a, b), Keeps(b, c)
  PROVE  Keeps(a, c)
  BY DEF Keeps

\* A name keeps pointing at an object.
LEMMA NamesStay ==
  ASSUME NEW tys, NEW now, NEW names, NamesOK(tys, names), Keeps(tys, now),
         Len(tys) \in Nat, Len(now) \in Nat
  PROVE  NamesOK(now, names)
  BY DEF NamesOK, Keeps

-------------------------------------------------------------------------------
\* get*Type gives the object of a key and leaves the tables in order.
LEMMA InternedSound ==
  ASSUME Sound(types, interned, named), NEW kind \in Composite, NEW parts,
         Among(parts, types), NEW size \in Nat
  PROVE  LET r == Interned(kind, parts, size) IN
         /\ Sound(r.types, r.interned, named) /\ Keeps(types, r.types)
         /\ r.id \in 1..Len(r.types)
         /\ <<kind, parts>> \in DOMAIN interned =>
              r.types = types /\ r.interned = interned
<1> DEFINE key == <<kind, parts>>
           new == Object(kind, parts, size)
           now == Append(types, new)
           r == Interned(kind, parts, size)
<1>1. ObjectsOK(types) /\ TablesOK(types, interned) /\ NamesOK(types, named)
  BY DEF Sound
<1>2. Len(types) \in Nat
  BY <1>1 DEF ObjectsOK
<1>3. CASE key \in DOMAIN interned
  <2>1. r.types = types /\ r.interned = interned /\ r.id = interned[key]
    BY <1>3 DEF Interned
  <2>2. Keeps(types, types)
    BY <1>2 DEF Keeps
  <2>3. interned[key] \in 1..Len(types)
    BY <1>1, <1>3 DEF TablesOK
  <2> QED
    BY <1>1, <2>1, <2>2, <2>3 DEF Sound
<1>4. CASE key \notin DOMAIN interned
  <2>1. /\ r.types = now /\ r.id = Len(types) + 1
        /\ r.interned = [k \in DOMAIN interned \cup {key} |->
                          IF k = key THEN Len(types) + 1 ELSE interned[k]]
    BY <1>4 DEF Interned
  <2>2. new \in ObjectSet /\ new.kind = kind /\ new.parts = parts /\ new.placeholder = Null
    BY NewObjects DEF Among
  <2> HIDE DEF new
  <2>3. /\ ObjectsOK(now) /\ Keeps(types, now) /\ Len(now) = Len(types) + 1
        /\ now[Len(types) + 1] = new /\ \A i \in 1..Len(types) : now[i] = types[i]
    BY <1>1, <2>2, AppendKeeps
  <2> HIDE DEF now, r
  <2>4. DOMAIN r.interned = DOMAIN interned \cup {key}
    BY <2>1
  <2>5. ASSUME NEW k \in DOMAIN r.interned
        PROVE  /\ r.interned[k] \in 1..Len(now)
               /\ k = <<now[r.interned[k]].kind, now[r.interned[k]].parts>>
    <3>1. CASE k = key
      BY <1>2, <2>1, <2>2, <2>3, <3>1
    <3>2. CASE k # key
      <4>1. k \in DOMAIN interned /\ r.interned[k] = interned[k]
        BY <2>1, <2>4, <3>2
      <4>2. /\ interned[k] \in 1..Len(types)
            /\ k = <<types[interned[k]].kind, types[interned[k]].parts>>
        BY <1>1, <4>1 DEF TablesOK
      <4> QED
        BY <1>2, <2>3, <4>1, <4>2
    <3> QED
      BY <3>1, <3>2
  <2>6. ASSUME NEW i \in 1..Len(now), now[i].kind \in Composite
        PROVE  /\ <<now[i].kind, now[i].parts>> \in DOMAIN r.interned
               /\ r.interned[<<now[i].kind, now[i].parts>>] = i
    <3>1. CASE i = Len(types) + 1
      BY <2>1, <2>2, <2>3, <2>4, <3>1
    <3>2. CASE i \in 1..Len(types)
      <4>1. now[i] = types[i]
        BY <2>3, <3>2
      <4>2. /\ <<types[i].kind, types[i].parts>> \in DOMAIN interned
            /\ interned[<<types[i].kind, types[i].parts>>] = i
        BY <1>1, <2>6, <3>2, <4>1 DEF TablesOK
      <4>3. <<types[i].kind, types[i].parts>> # key
        BY <1>4, <4>2
      <4> QED
        BY <2>1, <2>4, <4>1, <4>2, <4>3
    <3>3. i = Len(types) + 1 \/ i \in 1..Len(types)
      BY <1>2, <2>3
    <3> QED
      BY <3>1, <3>2, <3>3
  <2>7. TablesOK(now, r.interned)
    BY <2>5, <2>6 DEF TablesOK
  <2>8. NamesOK(now, named)
    BY <1>1, <1>2, <2>3, NamesStay
  <2>9. r.id \in 1..Len(now)
    BY <1>2, <2>1, <2>3
  <2> QED
    BY <1>4, <2>1, <2>3, <2>7, <2>8, <2>9 DEF Sound, r
<1> QED
  BY <1>3, <1>4

\* A new wrapper is in no table.
LEMMA WrapperSound ==
  ASSUME Sound(types, interned, named)
  PROVE  LET now == Append(types, Object("unresolved", << >>, Unsized)) IN
         /\ Sound(now, interned, named) /\ Keeps(types, now) /\ Len(now) = Len(types) + 1
         /\ Len(types) \in Nat
<1> DEFINE new == Object("unresolved", << >>, Unsized)
           now == Append(types, new)
<1>1. ObjectsOK(types) /\ TablesOK(types, interned) /\ NamesOK(types, named)
  BY DEF Sound
<1>2. Len(types) \in Nat
  BY <1>1 DEF ObjectsOK
<1>3. Among(<< >>, types)
  BY <1>2, FewParts
<1>4. new \in ObjectSet /\ new.kind = "unresolved" /\ new.parts = << >> /\ new.placeholder = Null
  BY <1>3, NewObjects DEF Among, Unsized
<1> HIDE DEF new
<1>5. /\ ObjectsOK(now) /\ Keeps(types, now) /\ Len(now) = Len(types) + 1
      /\ now[Len(types) + 1] = new /\ \A i \in 1..Len(types) : now[i] = types[i]
  BY <1>1, <1>3, <1>4, AppendKeeps
<1> HIDE DEF now
<1>6. ASSUME NEW key \in DOMAIN interned
      PROVE  /\ interned[key] \in 1..Len(now)
             /\ key = <<now[interned[key]].kind, now[interned[key]].parts>>
  BY <1>1, <1>2, <1>5 DEF TablesOK
<1>7. ASSUME NEW i \in 1..Len(now), now[i].kind \in Composite
      PROVE  /\ <<now[i].kind, now[i].parts>> \in DOMAIN interned
             /\ interned[<<now[i].kind, now[i].parts>>] = i
  <2>1. i # Len(types) + 1
    BY <1>4, <1>5, <1>7 DEF Composite
  <2>2. i \in 1..Len(types) /\ now[i] = types[i]
    BY <1>2, <1>5, <2>1
  <2> QED
    BY <1>1, <1>7, <2>2 DEF TablesOK
<1>8. TablesOK(now, interned)
  BY <1>6, <1>7 DEF TablesOK
<1>9. NamesOK(now, named)
  BY <1>1, <1>2, <1>5, NamesStay
<1> QED
  BY <1>2, <1>5, <1>8, <1>9 DEF Sound, now, new

\* getNamedType gives an object for every name, and the same one from then on.
LEMMA NamedTypeSound ==
  ASSUME Sound(types, interned, named), NEW n \in Names
  PROVE  LET r == NamedType(n) IN
         /\ Sound(r.types, interned, r.named) /\ Keeps(types, r.types)
         /\ KeepsNames(named, r.named) /\ r.id \in 1..Len(r.types)
<1> DEFINE r == NamedType(n)
           now == Append(types, Object("unresolved", << >>, Unsized))
<1>1. NamesOK(types, named) /\ ObjectsOK(types)
  BY DEF Sound
<1>2. CASE n \in DOMAIN named
  <2>1. r.types = types /\ r.named = named /\ r.id = named[n]
    BY <1>2 DEF NamedType
  <2>2. Keeps(types, types)
    BY <1>1 DEF Keeps, ObjectsOK
  <2> QED
    BY <1>1, <1>2, <2>1, <2>2 DEF NamesOK, KeepsNames
<1>3. CASE n \notin DOMAIN named
  <2>1. /\ r.types = now /\ r.id = Len(types) + 1
        /\ r.named = [m \in DOMAIN named \cup {n} |-> IF m = n THEN Len(types) + 1 ELSE named[m]]
    BY <1>3 DEF NamedType
  <2>2. /\ Sound(now, interned, named) /\ Keeps(types, now) /\ Len(now) = Len(types) + 1
        /\ Len(types) \in Nat
    BY WrapperSound
  <2> HIDE DEF now, r
  <2>3. NamesOK(now, named)
    BY <2>2 DEF Sound
  <2>4. NamesOK(now, r.named) /\ KeepsNames(named, r.named)
    BY <1>3, <2>1, <2>2, <2>3 DEF NamesOK, KeepsNames
  <2> QED
    BY <2>1, <2>2, <2>4 DEF Sound, r
<1> QED
  BY <1>2, <1>3

\* Register changes at most one wrapper, which led nowhere until then.
LEMMA RegisterSound ==
  ASSUME NEW tys, NEW tables, NEW names, Sound(tys, tables, names),
         NEW n \in Names, NEW t \in 1..Len(tys)
  PROVE  LET g == Register(tys, names, n, t) IN
         /\ Sound(g.types, tables, g.named) /\ Keeps(tys, g.types) /\ KeepsNames(names, g.named)
         /\ g.status \in {"running", "error", "crashed"}
<1> DEFINE g == Register(tys, names, n, t)
           target == Target(tys, t)
<1>1. ObjectsOK(tys) /\ TablesOK(tys, tables) /\ NamesOK(tys, names)
  BY DEF Sound
<1>2. tys \in Seq(ObjectSet) /\ Len(tys) \in Nat /\ DOMAIN tys = 1..Len(tys)
  BY <1>1 DEF ObjectsOK
<1>3. Keeps(tys, tys) /\ KeepsNames(names, names)
  BY <1>2 DEF Keeps, KeepsNames
<1>4. CASE n \notin DOMAIN names
  <2>1. /\ g.types = tys /\ g.status = "running"
        /\ g.named = [m \in DOMAIN names \cup {n} |-> IF m = n THEN t ELSE names[m]]
    BY <1>4 DEF Register
  <2> HIDE DEF g
  <2>2. NamesOK(tys, g.named) /\ KeepsNames(names, g.named)
    BY <1>1, <1>4, <2>1 DEF NamesOK, KeepsNames
  <2> QED
    BY <1>1, <1>3, <2>1, <2>2 DEF Sound, g
<1>5. CASE n \in DOMAIN names /\ Refused(tys, names, n)
  <2>1. g.types = tys /\ g.status = "error" /\ g.named = names
    BY <1>5 DEF Register
  <2> QED
    BY <1>3, <2>1
<1>6. CASE n \in DOMAIN names /\ ~Refused(tys, names, n) /\ target = Null
  <2>1. g.types = tys /\ g.status = "crashed" /\ g.named = names
    BY <1>6 DEF Register
  <2> QED
    BY <1>3, <2>1
<1>7. CASE n \in DOMAIN names /\ ~Refused(tys, names, n) /\ target # Null
  <2> DEFINE w == names[n]
  <2>1. /\ g.types = [tys EXCEPT ![w].placeholder = target]
        /\ g.status = "running" /\ g.named = names
    BY <1>7 DEF Register
  <2>2. /\ w \in 1..Len(tys) /\ tys[w].kind = "unresolved" /\ tys[w].placeholder = Null
    BY <1>1, <1>7 DEF NamesOK, Refused, IsUnresolved
  <2>3. target \in 1..Len(tys) /\ tys[target].kind # "unresolved"
    BY <1>1, <1>2, <1>7 DEF Target, IsUnresolved, ObjectsOK, Null
  <2> HIDE DEF w, g, target
  <2> DEFINE now == g.types
  <2>4. \A i \in 1..Len(tys) : tys[i] \in ObjectSet
    BY <1>2
  <2>5. /\ now[w] = [tys[w] EXCEPT !.placeholder = target] /\ DOMAIN now = 1..Len(tys)
        /\ \A i \in 1..Len(tys) : i # w => now[i] = tys[i]
    BY <1>2, <2>1, <2>2
  <2>6. now[w] \in ObjectSet /\ now[w].kind = "unresolved" /\ now[w].parts = tys[w].parts
        /\ now[w].placeholder = target
    BY <2>2, <2>3, <2>4, <2>5 DEF ObjectSet
  <2>7. now \in Seq(ObjectSet) /\ Len(now) = Len(tys)
    <3>1. [tys[w] EXCEPT !.placeholder = target] \in ObjectSet
      BY <2>5, <2>6
    <3> QED
      BY <1>2, <2>1, <2>2, <3>1
  <2> HIDE DEF now
  <2>8. \A i \in 1..Len(tys) : /\ now[i].kind = tys[i].kind /\ now[i].parts = tys[i].parts
                               /\ i # w => now[i].placeholder = tys[i].placeholder
    BY <2>2, <2>5, <2>6
  <2>9. ASSUME NEW i \in 1..Len(now)
        PROVE  /\ Among(now[i].parts, now)
               /\ now[i].placeholder \in 0..Len(now)
               /\ now[i].placeholder # Null =>
                    now[i].kind = "unresolved" /\ now[now[i].placeholder].kind # "unresolved"
    <3>1. /\ i \in 1..Len(tys) /\ Among(tys[i].parts, tys) /\ tys[i].placeholder \in 0..Len(tys)
          /\ tys[i].placeholder # Null =>
               tys[i].kind = "unresolved" /\ tys[tys[i].placeholder].kind # "unresolved"
      BY <1>1, <2>7 DEF ObjectsOK
    <3>2. Among(now[i].parts, now)
      BY <2>7, <2>8, <3>1 DEF Among
    <3>3. CASE i = w
      BY <1>2, <2>3, <2>6, <2>7, <2>8, <3>2, <3>3
    <3>4. CASE i # w
      <4>1. now[i].placeholder = tys[i].placeholder /\ now[i].kind = tys[i].kind
        BY <2>8, <3>1, <3>4
      <4>2. tys[i].placeholder # Null => tys[i].placeholder \in 1..Len(tys)
        BY <1>2, <3>1 DEF Null
      <4> QED
        BY <2>7, <2>8, <3>1, <3>2, <4>1, <4>2
    <3> QED
      BY <3>3, <3>4
  <2>10. ObjectsOK(now)
    BY <2>7, <2>9 DEF ObjectsOK
  <2>11. TablesOK(now, tables)
    BY <1>1, <2>7, <2>8 DEF TablesOK
  <2>12. Keeps(tys, now)
    BY <1>2, <2>2, <2>7, <2>8 DEF Keeps
  <2>13. NamesOK(now, names)
    BY <1>1, <1>2, <2>7, <2>12, NamesStay
  <2> QED
    BY <1>3, <2>1, <2>10, <2>11, <2>12, <2>13 DEF Sound, now, g
<1> QED
  BY <1>4, <1>5, <1>6, <1>7

-------------------------------------------------------------------------------
\* What a step leaves in order, and what it keeps.
StepIsSound ==
  /\ Sound(types, interned, named)' /\ status' \in {"running", "error", "crashed"}
  /\ Keeps(types, types') /\ KeepsNames(named, named')

LEMMA DefineIsSound ==
  ASSUME Sound(types, interned, named), NEW n \in Names, NEW kind \in Composite, NEW parts,
         Among(parts, types)
  PROVE  LET r == Interned(kind, parts, Unsized)
             g == Register(r.types, named, n, r.id) IN
         /\ Sound(g.types, r.interned, g.named) /\ Keeps(types, g.types)
         /\ KeepsNames(named, g.named) /\ g.status \in {"running", "error", "crashed"}
         /\ <<kind, parts>> \in DOMAIN interned =>
              r.types = types /\ r.interned = interned
<1> DEFINE r == Interned(kind, parts, Unsized)
           g == Register(r.types, named, n, r.id)
<1>1. Unsized \in Nat
  BY DEF Unsized
<1>2. /\ Sound(r.types, r.interned, named) /\ Keeps(types, r.types)
      /\ r.id \in 1..Len(r.types)
      /\ <<kind, parts>> \in DOMAIN interned => r.types = types /\ r.interned = interned
  BY <1>1, InternedSound
<1> HIDE DEF r
<1>3. /\ Sound(g.types, r.interned, g.named) /\ Keeps(r.types, g.types)
      /\ KeepsNames(named, g.named) /\ g.status \in {"running", "error", "crashed"}
  BY <1>2, RegisterSound
<1> HIDE DEF g
<1>4. Len(types) \in Nat /\ Len(r.types) \in Nat /\ Len(g.types) \in Nat
  BY <1>2, <1>3 DEF Sound, ObjectsOK
<1>5. Keeps(types, g.types)
  BY <1>2, <1>3, <1>4, KeepsIsTransitive
<1> QED
  BY <1>2, <1>3, <1>5 DEF g, r

LEMMA NamedTypeStep ==
  ASSUME IInv, NEW n \in Names, GetNamedType(n)
  PROVE  StepIsSound
<1> DEFINE r == NamedType(n)
<1>1. /\ Sound(r.types, interned, r.named) /\ Keeps(types, r.types) /\ KeepsNames(named, r.named)
  BY NamedTypeSound DEF IInv
<1>2. types' = r.types /\ named' = r.named /\ interned' = interned /\ status' = status
  BY DEF GetNamedType
<1> HIDE DEF r
<1> QED
  BY <1>1, <1>2 DEF StepIsSound, IInv

LEMMA CompositeStep ==
  ASSUME IInv, NEW kind \in Composite, NEW parts, Among(parts, types), NEW size \in Nat,
         GetComposite(kind, parts, size)
  PROVE  StepIsSound
<1> DEFINE r == Interned(kind, parts, size)
<1>1. Sound(r.types, r.interned, named) /\ Keeps(types, r.types)
  BY InternedSound DEF IInv
<1>2. types' = r.types /\ interned' = r.interned /\ named' = named /\ status' = status
  BY DEF GetComposite
<1>3. KeepsNames(named, named)
  BY DEF KeepsNames
<1> HIDE DEF r
<1> QED
  BY <1>1, <1>2, <1>3 DEF StepIsSound, IInv

LEMMA AliasStep ==
  ASSUME IInv, NEW n \in Names, NEW original \in Names, AliasType(n, original)
  PROVE  StepIsSound
<1> DEFINE r == NamedType(original)
           g == Register(r.types, r.named, n, r.id)
<1>1. /\ Sound(r.types, interned, r.named) /\ Keeps(types, r.types)
      /\ KeepsNames(named, r.named) /\ r.id \in 1..Len(r.types)
  BY NamedTypeSound DEF IInv
<1>2. types' = g.types /\ named' = g.named /\ status' = g.status /\ interned' = interned
  BY DEF AliasType
<1> HIDE DEF r
<1>3. /\ Sound(g.types, interned, g.named) /\ Keeps(r.types, g.types)
      /\ KeepsNames(r.named, g.named) /\ g.status \in {"running", "error", "crashed"}
  BY <1>1, RegisterSound
<1> HIDE DEF g
<1>4. Len(types) \in Nat /\ Len(r.types) \in Nat /\ Len(g.types) \in Nat
  BY <1>1, <1>3 DEF IInv, Sound, ObjectsOK
<1>5. Keeps(types, g.types) /\ KeepsNames(named, g.named)
  BY <1>1, <1>3, <1>4, KeepsIsTransitive DEF KeepsNames
<1> QED
  BY <1>2, <1>3, <1>5 DEF StepIsSound

LEMMA DefineCompositeStep ==
  ASSUME IInv, NEW n \in Names, NEW kind \in Composite, NEW parts, Among(parts, types),
         DefineComposite(n, kind, parts)
  PROVE  StepIsSound
<1> DEFINE r == Interned(kind, parts, Unsized)
           g == Register(r.types, named, n, r.id)
<1>1. /\ Sound(g.types, r.interned, g.named) /\ Keeps(types, g.types)
      /\ KeepsNames(named, g.named) /\ g.status \in {"running", "error", "crashed"}
  BY DefineIsSound DEF IInv
<1>2. types' = g.types /\ named' = g.named /\ status' = g.status /\ interned' = r.interned
  BY DEF DefineComposite
<1> HIDE DEF g, r
<1> QED
  BY <1>1, <1>2 DEF StepIsSound

LEMMA DefineObjectStep ==
  ASSUME IInv, NEW n \in Names, NEW members, Among(members, types), DefineObject(n, members)
  PROVE  StepIsSound
<1> DEFINE r == Interned("object", members, Unsized)
           g == Register(r.types, named, n, r.id)
<1>1. /\ Sound(g.types, r.interned, g.named) /\ Keeps(types, g.types)
      /\ KeepsNames(named, g.named) /\ g.status \in {"running", "error", "crashed"}
      /\ <<"object", members>> \in DOMAIN interned => r.interned = interned
  BY DefineIsSound DEF IInv, Composite
<1>2. CASE <<"object", members>> \in DOMAIN interned
  <2>1. types' = types /\ named' = named /\ status' = status /\ interned' = interned
    BY <1>1, <1>2 DEF DefineObject
  <2>2. Keeps(types, types) /\ KeepsNames(named, named)
    BY DEF Keeps, KeepsNames, IInv, Sound, ObjectsOK
  <2> QED
    BY <2>1, <2>2 DEF StepIsSound, IInv
<1>3. CASE <<"object", members>> \notin DOMAIN interned
  <2>1. types' = g.types /\ named' = g.named /\ status' = g.status /\ interned' = r.interned
    BY <1>3 DEF DefineObject
  <2> HIDE DEF g, r
  <2> QED
    BY <1>1, <2>1 DEF StepIsSound
<1> QED
  BY <1>2, <1>3

LEMMA StepPreservesInv ==
  ASSUME IInv, [Next]_vars
  PROVE  StepIsSound
<1>1. Len(types) \in Nat /\ Unsized \in Nat /\ 1 \in Nat
  BY DEF IInv, Sound, ObjectsOK, Unsized
<1>2. /\ \A b \in Ids : Among(<<b>>, types)
      /\ \A sig \in Signatures : Among(sig, types)
      /\ \A members \in Members : Among(members, types)
  BY <1>1, FewParts DEF Ids, Signatures, Members
<1>3. {"array", "pointer", "function"} \subseteq Composite
  BY DEF Composite
<1>4. ASSUME NEW n \in Names, GetNamedType(n) PROVE StepIsSound
  BY <1>4, NamedTypeStep
<1>5. ASSUME NEW b \in Ids, NEW size \in {Unsized, 1}, GetComposite("array", <<b>>, size)
      PROVE  StepIsSound
  BY <1>1, <1>2, <1>3, <1>5, CompositeStep
<1>6. ASSUME NEW b \in Ids, GetComposite("pointer", <<b>>, Unsized) PROVE StepIsSound
  BY <1>1, <1>2, <1>3, <1>6, CompositeStep
<1>7. ASSUME NEW sig \in Signatures, GetComposite("function", sig, Unsized) PROVE StepIsSound
  BY <1>1, <1>2, <1>3, <1>7, CompositeStep
<1>8. CASE GetUnresolvedType
  <2>1. Sound(types, interned, named)
    BY DEF IInv
  <2> DEFINE now == Append(types, Object("unresolved", << >>, Unsized))
  <2>2. Sound(now, interned, named) /\ Keeps(types, now)
    BY <2>1, WrapperSound
  <2>3. types' = now /\ interned' = interned /\ named' = named /\ status' = status
    BY <1>8 DEF GetUnresolvedType
  <2>4. KeepsNames(named, named)
    BY DEF KeepsNames
  <2> HIDE DEF now
  <2> QED
    BY <2>2, <2>3, <2>4 DEF StepIsSound, IInv
<1>9. ASSUME NEW n \in Names, NEW original \in Names, AliasType(n, original)
      PROVE  StepIsSound
  BY <1>9, AliasStep
<1>10. ASSUME NEW n \in Names, NEW b \in Ids, DefineComposite(n, "pointer", <<b>>)
       PROVE  StepIsSound
  BY <1>2, <1>3, <1>10, DefineCompositeStep
<1>11. ASSUME NEW n \in Names, NEW sig \in Signatures, DefineComposite(n, "function", sig)
       PROVE  StepIsSound
  BY <1>2, <1>3, <1>11, DefineCompositeStep
<1>12. ASSUME NEW n \in Names, NEW members \in Members, DefineObject(n, members)
       PROVE  StepIsSound
  BY <1>2, <1>12, DefineObjectStep
<1>13. CASE UNCHANGED vars
  <2>1. Keeps(types, types) /\ KeepsNames(named, named)
    BY <1>1 DEF Keeps, KeepsNames
  <2> QED
    BY <1>13, <2>1 DEF StepIsSound, IInv, vars
<1> QED
  BY <1>4, <1>5, <1>6, <1>7, <1>8, <1>9, <1>10, <1>11, <1>12, <1>13 DEF Next

LEMMA InitIsSound == Init => IInv
<1> SUFFICES ASSUME Init PROVE IInv
  OBVIOUS
<1> DEFINE kinds == <<"int", "str", "undef">>
<1>1. Len(types) = 3 /\ \A i \in 1..3 : types[i] = Object(kinds[i], << >>, Unsized)
  BY DEF Init
<1>2. Among(<< >>, types)
  BY <1>1, FewParts
<1>3. ASSUME NEW i \in 1..3
      PROVE  /\ types[i] \in ObjectSet /\ types[i].parts = << >> /\ types[i].placeholder = Null
             /\ types[i].kind \in Basic /\ types[i].kind \notin Composite
  BY <1>1, <1>2 DEF Object, ObjectSet, Among, Null, Unsized, Basic, Composite
<1>4. types \in Seq(ObjectSet)
  BY <1>1, <1>3 DEF Init
<1>5. ObjectsOK(types)
  BY <1>1, <1>2, <1>3, <1>4 DEF ObjectsOK, Null
<1>6. TablesOK(types, interned)
  BY <1>1, <1>3 DEF TablesOK, Init
<1>7. NamesOK(types, named)
  BY <1>1 DEF NamesOK, Init, Basic, Names
<1> QED
  BY <1>5, <1>6, <1>7 DEF IInv, Sound, Init

\* The tables of the type system and its objects agree, always.
THEOREM TypeSystemInvariant == Spec => []IInv
<1>1. Init => IInv
  BY InitIsSound
<1>2. IInv /\ [Next]_vars => IInv'
  <2> SUFFICES ASSUME IInv, [Next]_vars PROVE IInv'
    OBVIOUS
  <2> QED
    BY StepPreservesInv DEF StepIsSound, IInv
<1> QED
  BY <1>1, <1>2, PTL DEF Spec

\* Every Type* anywhere points at an object there is: the parts of types, the
\* targets of wrappers, the tables of type-system.cc and the registry.
THEOREM TypeSystemTypes == Spec => []TypeOK
<1>1. IInv => TypeOK
  <2> SUFFICES ASSUME IInv PROVE TypeOK
    OBVIOUS
  <2>1. types \in Seq(ObjectSet) /\ Len(types) \in Nat
    BY DEF IInv, Sound, ObjectsOK
  <2>2. ASSUME NEW i \in Ids
        PROVE  /\ types[i].kind \in Basic \cup Composite \cup {"unresolved"}
               /\ \A p \in DOMAIN types[i].parts : types[i].parts[p] \in Ids
               /\ types[i].placeholder \in Ids \cup {Null}
    <3>1. types[i] \in ObjectSet
      BY <2>1 DEF Ids
    <3>2. Among(types[i].parts, types) /\ types[i].placeholder \in 0..Len(types)
      BY DEF IInv, Sound, ObjectsOK, Ids
    <3> QED
      BY <2>1, <3>1, <3>2 DEF ObjectSet, Among, Ids, Null
  <2>3. \A k \in DOMAIN interned : interned[k] \in Ids
    BY DEF IInv, Sound, TablesOK, Ids
  <2>4. named \in [DOMAIN named -> Ids] /\ DOMAIN named \subseteq Names
    BY DEF IInv, Sound, NamesOK, Ids
  <2> QED
    BY <2>2, <2>3, <2>4 DEF TypeOK, IInv
<1> QED
  BY <1>1, TypeSystemInvariant, PTL

\* getArrayType, getPointerType, getObjectType and getFunctionType never make a
\* second object of one kind over the same parts: comparing Type* compares types.
THEOREM OneObjectForEveryShape == Spec => []OneObjectPerShape
<1>1. IInv => OneObjectPerShape
  BY DEF IInv, Sound, TablesOK, OneObjectPerShape, Ids
<1> QED
  BY <1>1, TypeSystemInvariant, PTL

\* UnresolvedType::ResolveTo never makes a wrapper lead to a wrapper, so none leads
\* to itself by any way round.
THEOREM WrappersLeadToTypes == Spec => []PlaceholderIsConcrete
<1>1. IInv => PlaceholderIsConcrete
  BY DEF IInv, Sound, ObjectsOK, PlaceholderIsConcrete, IsUnresolved, Ids
<1> QED
  BY <1>1, TypeSystemInvariant, PTL

\* TypeRegistry::Register never changes what a name or a Type* denotes once it
\* denotes something.
THEOREM DenotationsAreFinal == Spec => DenotationIsFinal
<1> DEFINE Final ==
      /\ \A t \in Ids : Denotes(t) # Null => Denotes(t)' = Denotes(t)
      /\ \A n \in DOMAIN named : n \in DOMAIN named' /\ named'[n] = named[n]
<1>1. IInv /\ [Next]_vars => Final
  <2> SUFFICES ASSUME IInv, [Next]_vars PROVE Final
    OBVIOUS
  <2>1. Keeps(types, types') /\ KeepsNames(named, named')
    BY StepPreservesInv DEF StepIsSound
  <2>2. ASSUME NEW t \in Ids, Denotes(t) # Null PROVE Denotes(t)' = Denotes(t)
    BY <2>1, <2>2 DEF Keeps, Denotes, IsUnresolved, Ids
  <2> QED
    BY <2>1, <2>2 DEF KeepsNames
<1>2. IInv /\ [Next]_vars => [Final]_vars
  BY <1>1
<1> HIDE DEF Final
<1>3. Spec => [][Final]_vars
  BY <1>2, TypeSystemInvariant, PTL DEF Spec
<1> QED
  BY <1>3 DEF Final, DenotationIsFinal
===============================================================================
