------------------------------ MODULE TypeSystem ------------------------------
(***************************************************************************)
(* src/jast/types/type-system.cc and the Unresolved wrapper of type.h: the *)
(* process-wide registry of named types and the tables that intern         *)
(* composite types, as the parser drives them while it reads type          *)
(* expressions and `type` statements.                                      *)
(*                                                                         *)
(* A Type object is a position of the sequence types, a Type* is such a    *)
(* position or Null.  parts are the Type* an object holds: the base of an  *)
(* array or pointer, the members of a struct by field, the return type     *)
(* and the arguments of a function.  An argument of an action is any       *)
(* existing type: the parser holds it from a type expression it has just   *)
(* read, and reading the expression again would give the same object.      *)
(***************************************************************************)
EXTENDS Integers, Sequences

CONSTANTS
  UserNames,  \* identifiers a program may name types with
  Fields,     \* field names of structs, as numbers
  MaxArgs,    \* bound on the arguments of a function type
  MaxTypes    \* bound on Len(types)

ASSUME ConstantsOK ==
  /\ UserNames \cap {"int", "str", "undef"} = {}
  /\ Fields \subseteq Nat
  /\ MaxArgs \in Nat /\ MaxTypes \in Nat

VARIABLES
  types,     \* the Type objects, in order of creation
  interned,  \* the static maps of getArrayType, getPointerType, ...
  named,     \* TypeRegistry::named_types_
  status     \* "running", "error" after a TypeError, "crashed" after nullptr->

vars == <<types, interned, named, status>>

Null == 0
Unsized == 0
Names == UserNames \cup {"int", "str", "undef"}
Basic == {"int", "str", "undef"}
Composite == {"array", "pointer", "object", "function"}

Object(kind, parts, size) ==
  [kind |-> kind, parts |-> parts, size |-> size, placeholder |-> Null]

Ids == 1..Len(types)
IsUnresolved(tys, t) == tys[t].kind = "unresolved"

\* What a Type* is once the Is.../As... delegation of UnresolvedType is followed.
Denotes(t) == IF IsUnresolved(types, t) THEN types[t].placeholder ELSE t

-------------------------------------------------------------------------------
\* get*Type without a name: the interned object of a key, or a new one.  The key
\* of an array is its base alone.
Interned_Fresh(kind, parts, size) ==  \* mutant: the table is not consulted
  [types |-> Append(types, Object(kind, parts, size)),
   interned |-> [k \in DOMAIN interned \cup {<<kind, parts>>} |-> Len(types) + 1],
   id |-> Len(types) + 1]
Interned_Local(kind, parts, size) ==  \* mutant: the table keeps a temporary
  [types |-> types, id |-> Len(types) + 1,
   interned |-> [k \in DOMAIN interned \cup {<<kind, parts>>} |-> Len(types) + 1]]
Interned(kind, parts, size) ==
  LET key == <<kind, parts>>
      new == Len(types) + 1 IN
  IF key \in DOMAIN interned
    THEN [types |-> types, interned |-> interned, id |-> interned[key]]
    ELSE [types |-> Append(types, Object(kind, parts, size)),
          interned |-> [k \in DOMAIN interned \cup {key} |->
                          IF k = key THEN new ELSE interned[k]],
          id |-> new]

\* getNamedType: the registered object, or a new unresolved one for the name.
NamedType(n) ==
  IF n \in DOMAIN named
    THEN [types |-> types, named |-> named, id |-> named[n]]
    ELSE [types |-> Append(types, Object("unresolved", << >>, Unsized)),
          named |-> [m \in DOMAIN named \cup {n} |->
                       IF m = n THEN Len(types) + 1 ELSE named[m]],
          id |-> Len(types) + 1]

\* UnresolvedType::ResolveTo looks through a wrapper it is given; looking through
\* one that is not resolved is a call on a null pointer.
Target_Wrapper(tys, t) == t           \* mutant: the wrapper itself is kept
Target(tys, t) == IF IsUnresolved(tys, t) THEN tys[t].placeholder ELSE t

\* TypeRegistry::Register on what a call has made of types and named so far.
Refused_Never(tys, nm, n) ==          \* mutant: resolved names resolve again
  n \in DOMAIN nm /\ ~IsUnresolved(tys, nm[n])
Refused(tys, nm, n) ==
  /\ n \in DOMAIN nm
  /\ IsUnresolved(tys, nm[n]) => tys[nm[n]].placeholder # Null

Register(tys, nm, n, t) ==
  IF n \notin DOMAIN nm THEN
    [types |-> tys, status |-> "running",
     named |-> [m \in DOMAIN nm \cup {n} |-> IF m = n THEN t ELSE nm[m]]]
  ELSE IF Refused(tys, nm, n) THEN
    [types |-> tys, named |-> nm, status |-> "error"]
  ELSE IF Target(tys, t) = Null THEN
    [types |-> tys, named |-> nm, status |-> "crashed"]
  ELSE
    [types |-> [tys EXCEPT ![nm[n]].placeholder = Target(tys, t)],
     named |-> nm, status |-> "running"]

-------------------------------------------------------------------------------
\* Static initialisation registers the three basic types (type.cc).
Init ==
  /\ types = << Object("int", << >>, Unsized), Object("str", << >>, Unsized),
                Object("undef", << >>, Unsized) >>
  /\ interned = [k \in {} |-> Null]
  /\ named = [n \in Basic |-> CASE n = "int" -> 1 [] n = "str" -> 2 [] n = "undef" -> 3]
  /\ status = "running"

Running == status = "running" /\ Len(types) < MaxTypes

\* A type name in a type expression.
GetNamedType(n) ==
  LET r == NamedType(n) IN
  /\ Running
  /\ types' = r.types /\ named' = r.named
  /\ UNCHANGED <<interned, status>>

\* []T, [size]T, *T and function(A): R in a type expression.
GetComposite(kind, parts, size) ==
  LET r == Interned(kind, parts, size) IN
  /\ Running
  /\ types' = r.types /\ interned' = r.interned
  /\ UNCHANGED <<named, status>>

\* A declaration without a type.
GetUnresolvedType ==
  /\ Running
  /\ types' = Append(types, Object("unresolved", << >>, Unsized))
  /\ UNCHANGED <<interned, named, status>>

\* type n original
AliasType(n, original) ==
  LET r == NamedType(original)
      g == Register(r.types, r.named, n, r.id) IN
  /\ Running
  /\ types' = g.types /\ named' = g.named /\ status' = g.status
  /\ UNCHANGED interned

\* type n *T and type n function(...): intern, then register.
DefineComposite(n, kind, parts) ==
  LET r == Interned(kind, parts, Unsized)
      g == Register(r.types, named, n, r.id) IN
  /\ Running
  /\ types' = g.types /\ named' = g.named /\ status' = g.status
  /\ interned' = r.interned

\* type n { ... }: getObjectType registers the name only with a new struct, and
\* interns the struct before it registers.
DefineObject(n, members) ==
  LET r == Interned("object", members, Unsized)
      g == Register(r.types, named, n, r.id)
      fresh == <<"object", members>> \notin DOMAIN interned IN
  /\ Running
  /\ types' = IF fresh THEN g.types ELSE types
  /\ named' = IF fresh THEN g.named ELSE named
  /\ status' = IF fresh THEN g.status ELSE status
  /\ interned' = r.interned

Members == UNION {[fs -> Ids] : fs \in SUBSET Fields}
Signatures == UNION {[1..k -> Ids] : k \in 1..(MaxArgs + 1)}

Next ==
  \/ \E n \in Names : GetNamedType(n)
  \/ \E b \in Ids, size \in {Unsized, 1} : GetComposite("array", <<b>>, size)
  \/ \E b \in Ids : GetComposite("pointer", <<b>>, Unsized)
  \/ \E sig \in Signatures : GetComposite("function", sig, Unsized)
  \/ GetUnresolvedType
  \/ \E n, original \in Names : AliasType(n, original)
  \/ \E n \in Names, b \in Ids : DefineComposite(n, "pointer", <<b>>)
  \/ \E n \in Names, sig \in Signatures : DefineComposite(n, "function", sig)
  \/ \E n \in Names, members \in Members : DefineObject(n, members)

Spec == Init /\ [][Next]_vars

-------------------------------------------------------------------------------
\* Types of the members; every Type* anywhere points at an existing object.
TypeOK ==
  /\ \A i \in Ids : /\ types[i].kind \in Basic \cup Composite \cup {"unresolved"}
                    /\ \A p \in DOMAIN types[i].parts : types[i].parts[p] \in Ids
                    /\ types[i].placeholder \in Ids \cup {Null}
  /\ \A k \in DOMAIN interned : interned[k] \in Ids
  /\ named \in [DOMAIN named -> Ids] /\ DOMAIN named \subseteq Names
  /\ status \in {"running", "error", "crashed"}

\* Two composite types of one shape over the same Type* are one object, so that
\* comparing Type* is comparing types (what the semantic passes do).
OneObjectPerShape ==
  \A i, j \in Ids :
    types[i].kind \in Composite /\ types[i].kind = types[j].kind
      /\ types[i].parts = types[j].parts => i = j

\* A resolved wrapper leads to a real type in one step: never to a wrapper, so
\* never in a circle and never to nothing.
PlaceholderIsConcrete ==
  \A i \in Ids :
    types[i].placeholder # Null =>
      IsUnresolved(types, i) /\ ~IsUnresolved(types, types[i].placeholder)

\* A name, once it denotes a type, denotes that type for ever, and so does every
\* Type* handed out before: no later statement redefines it.
DenotationIsFinal ==
  [][/\ \A t \in Ids : Denotes(t) # Null => Denotes(t)' = Denotes(t)
     /\ \A n \in DOMAIN named : n \in DOMAIN named' /\ named'[n] = named[n]]_vars

\* The documented promise "every type has only single instance"
\* (type-system.h:13-14): composite types that are equal once names are followed
\* are one object.  A wrapper in a part and its target make two objects of it.
SingleInstance ==
  \A i, j \in Ids :
    (/\ types[i].kind \in Composite /\ types[i].kind = types[j].kind
     /\ DOMAIN types[i].parts = DOMAIN types[j].parts
     /\ \A p \in DOMAIN types[i].parts :
          Denotes(types[i].parts[p]) = Denotes(types[j].parts[p])
     /\ \A p \in DOMAIN types[i].parts : Denotes(types[i].parts[p]) # Null)
    => i = j
===============================================================================
