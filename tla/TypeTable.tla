----------------------------- MODULE TypeTable -----------------------------
(***************************************************************************)
(* The type tables of DesignScanner (design.py): which emitted types exist,*)
(* under which name, and which instances share them.  The last part of     *)
(* _scan_reg and of _scan_group is the same protocol on two dictionaries:  *)
(* look (base, signature) up, append the instance to the type found, or    *)
(* allocate a name and record a new type.  Both are here, indexed by kind. *)
(*                                                                         *)
(* A signature is the digest of what a type renders.  It is abstract here  *)
(* and two signatures are equal exactly when they are the same value: a    *)
(* collision of the 64-bit digest is left out.                             *)
(***************************************************************************)
EXTENDS Identifiers

CONSTANTS
  Bases,       \* unsuffixed type names the scan asks for
  Signatures,  \* digests of rendered content
  Paths        \* instance paths, each scanned once

ASSUME BasesAssumption == Bases \subseteq Name

VARIABLES
  types,         \* _reg_types and _group_types: names in emission order
  index,         \* _reg_index and _group_index: (base, signature) -> name
  byName,        \* _by_name: name -> the type
  typesNs,       \* _types_ns: names taken at package scope
  variantCount,  \* _variant_count: base -> number of the last variant
  calls          \* history: instance path -> what was interned for it

tableVars == <<types, index, byName, typesNs, variantCount, calls>>

Kinds == {"reg", "group"}

Extended(f, key, value) ==
  [k \in DOMAIN f \cup {key} |-> IF k = key THEN value ELSE f[k]]

TableInit ==
  /\ types = [k \in Kinds |-> << >>]
  /\ index = [k \in Kinds |-> << >>]
  /\ byName = << >>
  /\ typesNs = {}
  /\ variantCount = << >>
  /\ calls = << >>

----------------------------------------------------------------------------
\* _allocate_type_name: the base if it is free, else the next free base__vN.
VariantsOf(base) == IF base \in DOMAIN variantCount THEN variantCount[base] ELSE 1

VariantNumber(base) == FreeNumber(base, "__v", VariantsOf(base) + 1, typesNs)

NewTypeNameUnchecked(base) ==  \* mutant: does not look for a free number
  IF base \notin typesNs THEN base ELSE Numbered(base, "__v", VariantsOf(base) + 1)

NewTypeNameSuffixed(base) == Numbered(base, "__v", VariantNumber(base))  \* mutant

NewTypeName(base) ==
  IF base \notin typesNs THEN base ELSE Numbered(base, "__v", VariantNumber(base))

InternedNameUnsuffixed(kind, base, sig) == base  \* mutant: forgets the variant

\* The name the lookup finds for this content, or the one it will emit.
InternedName(kind, base, sig) ==
  IF <<base, sig>> \in DOMAIN index[kind] THEN index[kind][<<base, sig>>]
                                          ELSE NewTypeName(base)

ReuseReplacing(kind, base, sig, path) ==  \* mutant: the list starts over
  /\ <<base, sig>> \in DOMAIN index[kind]
  /\ byName' = [byName EXCEPT ![index[kind][<<base, sig>>]].instances = <<path>>]
  /\ UNCHANGED <<types, index, typesNs, variantCount>>

ReuseByName(kind, base, sig, path) ==  \* mutant: joins the type of the same name
  /\ <<base, sig>> \in DOMAIN index[kind]
  /\ byName' = [byName EXCEPT ![base].instances = Append(@, path)]
  /\ UNCHANGED <<types, index, typesNs, variantCount>>

\* The lookup hits: the instance joins the type it finds.
Reuse(kind, base, sig, path) ==
  /\ <<base, sig>> \in DOMAIN index[kind]
  /\ byName' = [byName EXCEPT ![index[kind][<<base, sig>>]].instances = Append(@, path)]
  /\ UNCHANGED <<types, index, typesNs, variantCount>>

EmitForgetting(kind, base, sig, path) ==  \* mutant: no index entry
  LET name == NewTypeName(base) IN
  /\ <<base, sig>> \notin DOMAIN index[kind]
  /\ typesNs' = typesNs \cup {name}
  /\ types' = [types EXCEPT ![kind] = Append(@, name)]
  /\ byName' = Extended(byName, name,
                 [kind |-> kind, base |-> base, sig |-> sig, instances |-> <<path>>])
  /\ UNCHANGED <<index, variantCount>>

EmitKeySwapped(kind, base, sig, path) ==  \* mutant: the key's parts are swapped
  LET name == NewTypeName(base) IN
  /\ <<base, sig>> \notin DOMAIN index[kind]
  /\ typesNs' = typesNs \cup {name}
  /\ types' = [types EXCEPT ![kind] = Append(@, name)]
  /\ byName' = Extended(byName, name,
                 [kind |-> kind, base |-> base, sig |-> sig, instances |-> <<path>>])
  /\ index' = [index EXCEPT ![kind] = Extended(@, <<sig, base>>, name)]
  /\ UNCHANGED variantCount

EmitPrepended(kind, base, sig, path) ==  \* mutant: the newest type goes first
  LET name == NewTypeName(base) IN
  /\ <<base, sig>> \notin DOMAIN index[kind]
  /\ typesNs' = typesNs \cup {name}
  /\ types' = [types EXCEPT ![kind] = <<name>> \o @]
  /\ index' = [index EXCEPT ![kind] = Extended(@, <<base, sig>>, name)]
  /\ byName' = Extended(byName, name,
                 [kind |-> kind, base |-> base, sig |-> sig, instances |-> <<path>>])
  /\ UNCHANGED variantCount

\* The lookup misses: a new type, under a fresh name, at the end of its list.
Emit(kind, base, sig, path) ==
  LET name == NewTypeName(base) IN
  /\ <<base, sig>> \notin DOMAIN index[kind]
  /\ typesNs' = typesNs \cup {name}
  /\ variantCount' = IF base \in typesNs
                       THEN Extended(variantCount, base, VariantNumber(base))
                       ELSE variantCount
  /\ types' = [types EXCEPT ![kind] = Append(@, name)]
  /\ index' = [index EXCEPT ![kind] = Extended(@, <<base, sig>>, name)]
  /\ byName' = Extended(byName, name,
                 [kind |-> kind, base |-> base, sig |-> sig, instances |-> <<path>>])

Intern(kind, base, sig, path) ==
  /\ Reuse(kind, base, sig, path) \/ Emit(kind, base, sig, path)
  /\ calls' = Extended(calls, path, [kind |-> kind, base |-> base, sig |-> sig])

TableNext ==
  \E kind \in Kinds, base \in Bases, sig \in Signatures, path \in Paths \ DOMAIN calls :
    Intern(kind, base, sig, path)

TableSpec == TableInit /\ [][TableNext]_tableVars

----------------------------------------------------------------------------
TypeRecord == [kind : Kinds, base : Bases, sig : Signatures, instances : Seq(Paths)]

InstancesOf(name) == {byName[name].instances[i] : i \in DOMAIN byName[name].instances}

\* The emitted type an interned instance belongs to.
TypeOf(path) == CHOOSE name \in DOMAIN byName : path \in InstancesOf(name)

\* The tables hold what their Python annotations say.
TableTypeOK ==
  /\ types \in [Kinds -> Seq(Name)]
  /\ DOMAIN index = Kinds
  /\ \A k \in Kinds : index[k] \in [DOMAIN index[k] -> Name]
                      /\ DOMAIN index[k] \subseteq Bases \X Signatures
  /\ byName \in [DOMAIN byName -> TypeRecord]
  /\ DOMAIN byName \subseteq Name
  /\ typesNs \in SUBSET Name
  /\ variantCount \in [DOMAIN variantCount -> Nat \ {0}]
  /\ calls \in [DOMAIN calls -> [kind : Kinds, base : Bases, sig : Signatures]]
  /\ DOMAIN calls \subseteq Paths

\* No two emitted types have the same name, register or group alike, even when
\* a user names a type like a generated variant.
TypeNamesUnique ==
  /\ \A k \in Kinds : \A i, j \in DOMAIN types[k] : i # j => types[k][i] # types[k][j]
  /\ \A i \in DOMAIN types["reg"], j \in DOMAIN types["group"] :
       types["reg"][i] # types["group"][j]

\* Each instance is listed by exactly one emitted type, and that type is of the
\* kind, the base name and the content the instance was scanned with: a lookup
\* never answers with the other dictionary's type.
InstanceInItsType ==
  \A path \in DOMAIN calls :
    \E name \in DOMAIN byName :
      /\ path \in InstancesOf(name)
      /\ byName[name].kind = calls[path].kind
      /\ byName[name].base = calls[path].base
      /\ byName[name].sig  = calls[path].sig
      /\ \A other \in DOMAIN byName \ {name} : path \notin InstancesOf(other)

\* A type carries a suffix only if the plain name went to a different type.
VariantJustified ==
  \A name \in DOMAIN byName :
    byName[name].base # name => byName[name].base \in DOMAIN byName

Continues(longer, shorter) ==
  /\ DOMAIN shorter \subseteq DOMAIN longer
  /\ \A i \in DOMAIN shorter : longer[i] = shorter[i]

\* An emitted type keeps its place, its name and its content; it only gains
\* instances, in the order they are scanned.
EmittedIsStable ==
  /\ \A k \in Kinds : Continues(types'[k], types[k])
  /\ \A name \in DOMAIN byName :
       /\ name \in DOMAIN byName'
       /\ byName'[name].kind = byName[name].kind
       /\ byName'[name].base = byName[name].base
       /\ byName'[name].sig = byName[name].sig
       /\ Continues(byName'[name].instances, byName[name].instances)

NeverRevised == [][EmittedIsStable]_tableVars

\* Interning implements the sharing promise: the described content of an
\* instance is what it was interned with, its type the one that lists it.
Sharing == INSTANCE TypeSharing WITH
             described <- calls,
             typeOf <- [path \in DOMAIN calls |-> TypeOf(path)]

SharesTypes == Sharing!Spec
=============================================================================
