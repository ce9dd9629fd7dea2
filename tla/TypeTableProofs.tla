-------------------------- MODULE TypeTableProofs --------------------------
(***************************************************************************)
(* The type tables keep their promises for every set of base names,        *)
(* signatures and instance paths.  None of the promises is inductive: that *)
(* an instance is in exactly one type holds because the two lookups agree, *)
(* every index entry naming the type recorded for exactly its key          *)
(* (IndexIsRight) and every type being found under its own key             *)
(* (IndexIsComplete), and because a new name is never one in use.          *)
(***************************************************************************)
EXTENDS TypeTable, IdentifiersProofs

\* Every taken name is an emitted type, and there are finitely many.
NamesAreTypes ==
  /\ typesNs = DOMAIN byName
  /\ IsFiniteSet(typesNs)

\* A lookup that hits answers with a type of that kind, base and content.
IndexIsRight ==
  \A k \in Kinds : \A b \in Bases, s \in Signatures :
    <<b, s>> \in DOMAIN index[k] =>
      /\ index[k][<<b, s>>] \in DOMAIN byName
      /\ byName[index[k][<<b, s>>]].kind = k
      /\ byName[index[k][<<b, s>>]].base = b
      /\ byName[index[k][<<b, s>>]].sig = s

\* Every emitted type is found under its own kind, base and content.
IndexIsComplete ==
  \A n \in DOMAIN byName :
    /\ <<byName[n].base, byName[n].sig>> \in DOMAIN index[byName[n].kind]
    /\ index[byName[n].kind][<<byName[n].base, byName[n].sig>>] = n

\* The emission lists hold emitted types of their kind.
ListsAreRight ==
  \A k \in Kinds : \A i \in DOMAIN types[k] :
    /\ types[k][i] \in DOMAIN byName
    /\ byName[types[k][i]].kind = k

\* Every interned instance is listed by the type found under its call.
CallsAreListed ==
  \A p \in DOMAIN calls :
    /\ <<calls[p].base, calls[p].sig>> \in DOMAIN index[calls[p].kind]
    /\ p \in InstancesOf(index[calls[p].kind][<<calls[p].base, calls[p].sig>>])

\* Every listed instance was interned with the content of the type listing it.
ListedAreCalls ==
  \A n \in DOMAIN byName : \A p \in InstancesOf(n) :
    /\ p \in DOMAIN calls
    /\ calls[p].kind = byName[n].kind
    /\ calls[p].base = byName[n].base
    /\ calls[p].sig = byName[n].sig

TableInv == /\ TableTypeOK
            /\ NamesAreTypes
            /\ IndexIsRight
            /\ IndexIsComplete
            /\ ListsAreRight
            /\ TypeNamesUnique
            /\ CallsAreListed
            /\ ListedAreCalls
            /\ VariantJustified

----------------------------------------------------------------------------
\* Extending a function changes it at the key only.
LEMMA ExtendedFacts ==
  ASSUME NEW f, NEW key, NEW value
  PROVE  /\ DOMAIN Extended(f, key, value) = DOMAIN f \cup {key}
         /\ Extended(f, key, value)[key] = value
         /\ \A x \in DOMAIN f : x # key => Extended(f, key, value)[x] = f[x]
BY DEF Extended

\* What appending one element to a sequence does.
LEMMA AppendFacts ==
  ASSUME NEW S, NEW s \in Seq(S), NEW e \in S
  PROVE  /\ Append(s, e) \in Seq(S)
         /\ Len(Append(s, e)) = Len(s) + 1
         /\ DOMAIN Append(s, e) = DOMAIN s \cup {Len(s) + 1}
         /\ Len(s) + 1 \notin DOMAIN s
         /\ \A i \in DOMAIN s : Append(s, e)[i] = s[i]
         /\ Append(s, e)[Len(s) + 1] = e
OBVIOUS

\* A name allocated for a new type is a name no emitted type has, and it is
\* the base itself unless that is taken.
LEMMA FreshTypeName ==
  ASSUME NEW base \in Name, IsFiniteSet(typesNs), VariantsOf(base) \in Nat
  PROVE  /\ NewTypeName(base) \in Name
         /\ NewTypeName(base) \notin typesNs
         /\ NewTypeName(base) # base => base \in typesNs
         /\ VariantNumber(base) \in Nat \ {0}
<1>1. "__v" \in Texts
  BY TextsAssumption
<1> DEFINE from == VariantsOf(base) + 1
<1>2. from \in Nat \ {0}
  OBVIOUS
<1> HIDE DEF from
<1>3. /\ FreeNumber(base, "__v", from, typesNs) \in from .. from + Cardinality(typesNs)
      /\ Numbered(base, "__v", FreeNumber(base, "__v", from, typesNs)) \notin typesNs
  <2>1. from \in Nat
    BY <1>2
  <2> QED
    BY <1>1, <2>1, FreeNumberIsFree, Zenon
<1>4. VariantNumber(base) = FreeNumber(base, "__v", from, typesNs)
  BY DEF VariantNumber, from
<1>5. VariantNumber(base) \in from .. from + Cardinality(typesNs)
  BY <1>3, <1>4, Zenon
<1>6. VariantNumber(base) \in Nat \ {0}
  <2>1. Cardinality(typesNs) \in Nat
    BY <1>1, FS_CardinalityType
  <2> QED
    BY <1>2, <1>5, <2>1
<1>7. /\ Numbered(base, "__v", VariantNumber(base)) \notin typesNs
      /\ Numbered(base, "__v", VariantNumber(base)) \in Name
  <2>1. <<"__v", VariantNumber(base)>> \in Token
    BY <1>1, <1>6, SuffixTokens
  <2>2. Append(base, <<"__v", VariantNumber(base)>>) \in Name
    BY <1>1, <2>1, AppendedToken
  <2> QED
    BY <1>3, <1>4, <2>2, Zenon DEF Numbered
<1> QED
  BY <1>1, <1>6, <1>7 DEF NewTypeName

LEMMA NewTypeNameIsFresh ==
  ASSUME TableInv, NEW base \in Bases
  PROVE  /\ NewTypeName(base) \in Name
         /\ NewTypeName(base) \notin typesNs
         /\ NewTypeName(base) # base => base \in typesNs
         /\ base \in typesNs => VariantNumber(base) \in Nat \ {0}
<1>1. base \in Name /\ IsFiniteSet(typesNs) /\ VariantsOf(base) \in Nat
  BY BasesAssumption DEF TableInv, TableTypeOK, NamesAreTypes, VariantsOf
<1> QED
  BY <1>1, FreshTypeName

\* The type of an interned instance is the one the index finds for its call.
TypesAreIndexed ==
  \A p \in DOMAIN calls :
    /\ TypeOf(p) = index[calls[p].kind][<<calls[p].base, calls[p].sig>>]
    /\ TypeOf(p) \in DOMAIN byName
    /\ p \in InstancesOf(TypeOf(p))
    /\ byName[TypeOf(p)].kind = calls[p].kind
    /\ byName[TypeOf(p)].base = calls[p].base
    /\ byName[TypeOf(p)].sig = calls[p].sig
    /\ \A n \in DOMAIN byName : p \in InstancesOf(n) => n = TypeOf(p)

\* In a state of the invariant, the index and the lists of instances agree.
LEMMA TypeOfIsIndexed == TableInv => TypesAreIndexed
<1> SUFFICES ASSUME TableInv, NEW p \in DOMAIN calls
             PROVE  /\ TypeOf(p) = index[calls[p].kind][<<calls[p].base, calls[p].sig>>]
                    /\ TypeOf(p) \in DOMAIN byName
                    /\ p \in InstancesOf(TypeOf(p))
                    /\ byName[TypeOf(p)].kind = calls[p].kind
                    /\ byName[TypeOf(p)].base = calls[p].base
                    /\ byName[TypeOf(p)].sig = calls[p].sig
                    /\ \A n \in DOMAIN byName : p \in InstancesOf(n) => n = TypeOf(p)
  BY DEF TypesAreIndexed
<1> DEFINE n == index[calls[p].kind][<<calls[p].base, calls[p].sig>>]
<1>1. /\ calls[p].kind \in Kinds
      /\ calls[p].base \in Bases
      /\ calls[p].sig \in Signatures
  BY DEF TableInv, TableTypeOK
<1>2. n \in DOMAIN byName /\ p \in InstancesOf(n)
  BY <1>1 DEF TableInv, CallsAreListed, IndexIsRight
<1>3. ASSUME NEW m \in DOMAIN byName, p \in InstancesOf(m)
      PROVE  m = n
  BY <1>3 DEF TableInv, ListedAreCalls, IndexIsComplete
<1> HIDE DEF n
<1>4. TypeOf(p) = n
  BY <1>2, <1>3 DEF TypeOf
<1>5. /\ byName[n].kind = calls[p].kind
      /\ byName[n].base = calls[p].base
      /\ byName[n].sig = calls[p].sig
  BY <1>2 DEF TableInv, ListedAreCalls
<1> QED
  BY <1>2, <1>3, <1>4, <1>5 DEF n

----------------------------------------------------------------------------
\* A hit in the lookup keeps the invariant: only the list of the type found
\* grows, by the new instance.
LEMMA ReuseStep ==
  ASSUME TableInv, NEW kind \in Kinds, NEW base \in Bases, NEW sig \in Signatures,
         NEW path \in Paths \ DOMAIN calls,
         Reuse(kind, base, sig, path),
         calls' = Extended(calls, path, [kind |-> kind, base |-> base, sig |-> sig])
  PROVE  TableInv'
<1> DEFINE call == [kind |-> kind, base |-> base, sig |-> sig]
<1>0. PICK n0 : n0 = index[kind][<<base, sig>>]
  OBVIOUS
<1>1. /\ n0 \in DOMAIN byName
      /\ byName[n0].kind = kind
      /\ byName[n0].base = base
      /\ byName[n0].sig = sig
  BY <1>0 DEF Reuse, TableInv, IndexIsRight
<1>2. /\ UNCHANGED <<types, index, typesNs, variantCount>>
      /\ byName' = [byName EXCEPT ![n0].instances = Append(@, path)]
      /\ <<base, sig>> \in DOMAIN index[kind]
  BY <1>0 DEF Reuse
<1>3. /\ DOMAIN calls' = DOMAIN calls \cup {path}
      /\ calls'[path] = call
      /\ \A p \in DOMAIN calls : calls'[p] = calls[p]
  BY DEF Extended
<1>4. byName \in [DOMAIN byName -> TypeRecord]
  BY DEF TableInv, TableTypeOK
<1>5. byName[n0].instances \in Seq(Paths)
  BY <1>1, <1>4 DEF TypeRecord
<1>6. /\ DOMAIN byName' = DOMAIN byName
      /\ \A n \in DOMAIN byName : /\ byName'[n].kind = byName[n].kind
                                  /\ byName'[n].base = byName[n].base
                                  /\ byName'[n].sig = byName[n].sig
                                  /\ n # n0 => byName'[n] = byName[n]
      /\ byName'[n0].instances = Append(byName[n0].instances, path)
  BY <1>1, <1>2, <1>4 DEF TypeRecord
<1>7. /\ InstancesOf(n0)' = InstancesOf(n0) \cup {path}
      /\ \A n \in DOMAIN byName : n # n0 => InstancesOf(n)' = InstancesOf(n)
  <2>1. \A n \in DOMAIN byName : n # n0 => InstancesOf(n)' = InstancesOf(n)
    BY <1>6 DEF InstancesOf
  <2>2. InstancesOf(n0)' = InstancesOf(n0) \cup {path}
    BY <1>5, <1>6, AppendFacts DEF InstancesOf
  <2> QED
    BY <2>1, <2>2
<1>8. TableTypeOK'
  <2>1. byName' \in [DOMAIN byName' -> TypeRecord]
    <3>1. Append(byName[n0].instances, path) \in Seq(Paths)
      BY <1>5, AppendFacts
    <3> QED
      BY <1>1, <1>2, <1>4, <3>1 DEF TypeRecord
  <2>2. /\ calls' \in [DOMAIN calls' -> [kind : Kinds, base : Bases, sig : Signatures]]
        /\ DOMAIN calls' \subseteq Paths
    BY <1>3 DEF TableInv, TableTypeOK, Extended
  <2> QED
    BY <1>2, <1>6, <2>1, <2>2 DEF TableInv, TableTypeOK
<1>9. NamesAreTypes' /\ VariantJustified'
  BY <1>2, <1>6 DEF TableInv, NamesAreTypes, VariantJustified
<1>10. IndexIsRight' /\ IndexIsComplete'
  BY <1>2, <1>6 DEF TableInv, IndexIsRight, IndexIsComplete
<1>11. ListsAreRight' /\ TypeNamesUnique'
  BY <1>2, <1>6 DEF TableInv, ListsAreRight, TypeNamesUnique
<1>12. CallsAreListed'
  <2> SUFFICES ASSUME NEW p \in DOMAIN calls'
               PROVE  /\ <<calls'[p].base, calls'[p].sig>> \in DOMAIN index'[calls'[p].kind]
                      /\ p \in InstancesOf(index[calls[p].kind][<<calls[p].base, calls[p].sig>>])'
    BY DEF CallsAreListed
  <2>1. CASE p = path
    BY <1>0, <1>1, <1>2, <1>3, <1>7, <2>1
  <2>2. CASE p \in DOMAIN calls
    <3>0. PICK n : n = index[calls[p].kind][<<calls[p].base, calls[p].sig>>]
      OBVIOUS
    <3>1. /\ <<calls[p].base, calls[p].sig>> \in DOMAIN index[calls[p].kind]
          /\ p \in InstancesOf(n)
          /\ n \in DOMAIN byName
      BY <2>2, <3>0 DEF TableInv, TableTypeOK, CallsAreListed, IndexIsRight
    <3>2. p \in InstancesOf(n)'
      BY <1>7, <3>1
    <3>3. index'[calls'[p].kind][<<calls'[p].base, calls'[p].sig>>] = n
      BY <1>2, <1>3, <2>2, <3>0
    <3> QED
      BY <1>2, <1>3, <2>2, <3>1, <3>2, <3>3
  <2> QED
    BY <1>3, <2>1, <2>2
<1>13. ListedAreCalls'
  BY <1>1, <1>3, <1>6, <1>7 DEF TableInv, ListedAreCalls
<1> QED
  BY <1>8, <1>9, <1>10, <1>11, <1>12, <1>13 DEF TableInv

\* A miss in the lookup keeps the invariant: the new type has a fresh name, and
\* no entry, list or instance of another type is touched.
LEMMA EmitStep ==
  ASSUME TableInv, NEW kind \in Kinds, NEW base \in Bases, NEW sig \in Signatures,
         NEW path \in Paths \ DOMAIN calls,
         Emit(kind, base, sig, path),
         calls' = Extended(calls, path, [kind |-> kind, base |-> base, sig |-> sig])
  PROVE  TableInv'
<1> DEFINE call == [kind |-> kind, base |-> base, sig |-> sig]
           type == [kind |-> kind, base |-> base, sig |-> sig, instances |-> <<path>>]
<1>0. PICK name : name = NewTypeName(base)
  OBVIOUS
<1>1. /\ name \in Name
      /\ name \notin typesNs
      /\ name # base => base \in typesNs
      /\ base \in typesNs => VariantNumber(base) \in Nat \ {0}
  BY <1>0, NewTypeNameIsFresh
<1>2. /\ <<base, sig>> \notin DOMAIN index[kind]
      /\ typesNs' = typesNs \cup {name}
      /\ variantCount' = IF base \in typesNs
                           THEN Extended(variantCount, base, VariantNumber(base))
                           ELSE variantCount
      /\ types' = [types EXCEPT ![kind] = Append(@, name)]
      /\ index' = [index EXCEPT ![kind] = Extended(@, <<base, sig>>, name)]
      /\ byName' = Extended(byName, name, type)
  BY <1>0 DEF Emit
<1>3. /\ DOMAIN calls' = DOMAIN calls \cup {path}
      /\ calls'[path] = call
      /\ \A p \in DOMAIN calls : calls'[p] = calls[p]
  BY DEF Extended
<1>4. name \notin DOMAIN byName
  BY <1>1 DEF TableInv, NamesAreTypes
<1>5. /\ DOMAIN byName' = DOMAIN byName \cup {name}
      /\ byName'[name] = type
      /\ \A n \in DOMAIN byName : byName'[n] = byName[n]
  BY <1>2, <1>4 DEF Extended
<1>6. /\ InstancesOf(name)' = {path}
      /\ \A n \in DOMAIN byName : InstancesOf(n)' = InstancesOf(n)
  BY <1>5 DEF InstancesOf
<1>7. /\ DOMAIN index = Kinds
      /\ DOMAIN index' = Kinds
      /\ DOMAIN index'[kind] = DOMAIN index[kind] \cup {<<base, sig>>}
      /\ index'[kind][<<base, sig>>] = name
      /\ \A key \in DOMAIN index[kind] : index'[kind][key] = index[kind][key]
      /\ \A k \in Kinds : k # kind => index'[k] = index[k]
  BY <1>2 DEF Extended, TableInv, TableTypeOK
<1>8. /\ types' \in [Kinds -> Seq(Name)]
      /\ \A k \in Kinds : k # kind => types'[k] = types[k]
      /\ DOMAIN types'[kind] = DOMAIN types[kind] \cup {Len(types[kind]) + 1}
      /\ Len(types[kind]) + 1 \notin DOMAIN types[kind]
      /\ \A i \in DOMAIN types[kind] : types'[kind][i] = types[kind][i]
      /\ types'[kind][Len(types[kind]) + 1] = name
  <2>1. types \in [Kinds -> Seq(Name)]
    BY DEF TableInv, TableTypeOK
  <2>2. PICK s \in Seq(Name) : s = types[kind]
    BY <2>1
  <2>3. types' = [types EXCEPT ![kind] = Append(s, name)]
    BY <1>2, <2>2
  <2>4. /\ Append(s, name) \in Seq(Name)
        /\ DOMAIN Append(s, name) = DOMAIN s \cup {Len(s) + 1}
        /\ Len(s) + 1 \notin DOMAIN s
        /\ \A i \in DOMAIN s : Append(s, name)[i] = s[i]
        /\ Append(s, name)[Len(s) + 1] = name
    BY <1>1, AppendFacts
  <2> QED
    BY <2>1, <2>2, <2>3, <2>4
<1>9. TableTypeOK'
  <2>1. /\ byName' \in [DOMAIN byName' -> TypeRecord]
        /\ DOMAIN byName' \subseteq Name
    <3>1. type \in TypeRecord
      BY DEF TypeRecord
    <3> HIDE DEF type
    <3> QED
      BY <1>1, <1>2, <1>5, <3>1 DEF TableInv, TableTypeOK, Extended
  <2>2. /\ calls' \in [DOMAIN calls' -> [kind : Kinds, base : Bases, sig : Signatures]]
        /\ DOMAIN calls' \subseteq Paths
    BY <1>3 DEF TableInv, TableTypeOK, Extended
  <2>3. \A k \in Kinds : /\ index'[k] \in [DOMAIN index'[k] -> Name]
                         /\ DOMAIN index'[k] \subseteq Bases \X Signatures
    <3> SUFFICES ASSUME NEW k \in Kinds
                 PROVE  /\ index'[k] \in [DOMAIN index'[k] -> Name]
                        /\ DOMAIN index'[k] \subseteq Bases \X Signatures
      OBVIOUS
    <3>1. CASE k # kind
      BY <1>7, <3>1 DEF TableInv, TableTypeOK
    <3>2. CASE k = kind
      <4>1. index'[kind] = Extended(index[kind], <<base, sig>>, name)
        BY <1>2, <1>7
      <4>2. /\ index[kind] \in [DOMAIN index[kind] -> Name]
            /\ DOMAIN index[kind] \subseteq Bases \X Signatures
        BY DEF TableInv, TableTypeOK
      <4> QED
        BY <1>1, <1>7, <3>2, <4>1, <4>2 DEF Extended
    <3> QED
      BY <3>1, <3>2
  <2>4. variantCount' \in [DOMAIN variantCount' -> Nat \ {0}]
    BY <1>1, <1>2 DEF TableInv, TableTypeOK, Extended
  <2>5. typesNs' \in SUBSET Name
    BY <1>1, <1>2 DEF TableInv, TableTypeOK
  <2> QED
    BY <1>7, <1>8, <2>1, <2>2, <2>3, <2>4, <2>5 DEF TableTypeOK
<1>10. NamesAreTypes'
  BY <1>2, <1>5, FS_AddElement DEF TableInv, NamesAreTypes
<1>11. VariantJustified'
  BY <1>1, <1>5 DEF TableInv, NamesAreTypes, VariantJustified
<1>12. IndexIsRight'
  <2> SUFFICES ASSUME NEW k \in Kinds, NEW b \in Bases, NEW s \in Signatures,
                      <<b, s>> \in DOMAIN index'[k]
               PROVE  /\ index'[k][<<b, s>>] \in DOMAIN byName'
                      /\ byName'[index'[k][<<b, s>>]].kind = k
                      /\ byName'[index'[k][<<b, s>>]].base = b
                      /\ byName'[index'[k][<<b, s>>]].sig = s
    BY DEF IndexIsRight
  <2>1. CASE k = kind /\ b = base /\ s = sig
    BY <1>5, <1>7, <2>1
  <2>2. CASE ~(k = kind /\ b = base /\ s = sig)
    <3>1. <<b, s>> \in DOMAIN index[k] /\ index'[k][<<b, s>>] = index[k][<<b, s>>]
      BY <1>7, <2>2
    <3> QED
      BY <1>5, <3>1 DEF TableInv, IndexIsRight
  <2> QED
    BY <2>1, <2>2
<1>13. IndexIsComplete'
  <2> SUFFICES ASSUME NEW n \in DOMAIN byName'
               PROVE  /\ <<byName'[n].base, byName'[n].sig>> \in DOMAIN index'[byName'[n].kind]
                      /\ index'[byName'[n].kind][<<byName'[n].base, byName'[n].sig>>] = n
    BY DEF IndexIsComplete
  <2>1. CASE n = name
    BY <1>5, <1>7, <2>1
  <2>2. CASE n \in DOMAIN byName
    <3>1. byName'[n] = byName[n] /\ byName[n].kind \in Kinds
      BY <1>5, <2>2 DEF TableInv, TableTypeOK, TypeRecord
    <3> QED
      BY <1>7, <2>2, <3>1 DEF TableInv, IndexIsComplete
  <2> QED
    BY <1>5, <2>1, <2>2
<1>14. \A k \in Kinds : \A i \in DOMAIN types'[k] :
         \/ i \in DOMAIN types[k] /\ types'[k][i] = types[k][i]
         \/ k = kind /\ i = Len(types[kind]) + 1 /\ types'[k][i] = name
  BY <1>8
<1>15. ListsAreRight'
  <2> SUFFICES ASSUME NEW k \in Kinds, NEW i \in DOMAIN types'[k]
               PROVE  types'[k][i] \in DOMAIN byName' /\ byName'[types'[k][i]].kind = k
    BY DEF ListsAreRight
  <2>1. CASE i \in DOMAIN types[k] /\ types'[k][i] = types[k][i]
    <3>1. types[k][i] \in DOMAIN byName /\ byName[types[k][i]].kind = k
      BY <2>1 DEF TableInv, ListsAreRight
    <3> QED
      BY <1>5, <2>1, <3>1
  <2>2. CASE k = kind /\ types'[k][i] = name
    BY <1>5, <2>2
  <2> QED
    BY <1>14, <2>1, <2>2
<1>16. \A k \in Kinds : \A i \in DOMAIN types[k] : types[k][i] # name
  BY <1>4 DEF TableInv, ListsAreRight
<1>17. TypeNamesUnique'
  <2>1. ASSUME NEW k \in Kinds, NEW i \in DOMAIN types'[k], NEW j \in DOMAIN types'[k], i # j
        PROVE  types'[k][i] # types'[k][j]
    BY <1>14, <1>16, <2>1 DEF TableInv, TypeNamesUnique
  <2>2. ASSUME NEW i \in DOMAIN types'["reg"], NEW j \in DOMAIN types'["group"]
        PROVE  types'["reg"][i] # types'["group"][j]
    <3>1. "reg" \in Kinds /\ "group" \in Kinds /\ "reg" # "group"
      BY DEF Kinds
    <3> QED
      BY <1>14, <1>16, <3>1 DEF TableInv, TypeNamesUnique
  <2> QED
    BY <2>1, <2>2 DEF TypeNamesUnique
<1>18. CallsAreListed'
  <2> SUFFICES ASSUME NEW p \in DOMAIN calls'
               PROVE  /\ <<calls'[p].base, calls'[p].sig>> \in DOMAIN index'[calls'[p].kind]
                      /\ p \in InstancesOf(index[calls[p].kind][<<calls[p].base, calls[p].sig>>])'
    BY DEF CallsAreListed
  <2>1. CASE p = path
    BY <1>3, <1>6, <1>7, <2>1
  <2>2. CASE p \in DOMAIN calls
    <3>0. PICK n : n = index[calls[p].kind][<<calls[p].base, calls[p].sig>>]
      OBVIOUS
    <3>1. /\ calls[p].kind \in Kinds
          /\ <<calls[p].base, calls[p].sig>> \in DOMAIN index[calls[p].kind]
          /\ p \in InstancesOf(n)
          /\ n \in DOMAIN byName
      BY <2>2, <3>0 DEF TableInv, TableTypeOK, CallsAreListed, IndexIsRight
    <3>2. p \in InstancesOf(n)'
      BY <1>6, <3>1
    <3>3. /\ <<calls'[p].base, calls'[p].sig>> \in DOMAIN index'[calls'[p].kind]
          /\ index'[calls'[p].kind][<<calls'[p].base, calls'[p].sig>>] = n
      BY <1>3, <1>7, <2>2, <3>0, <3>1
    <3> QED
      BY <3>2, <3>3
  <2> QED
    BY <1>3, <2>1, <2>2
<1>19. ListedAreCalls'
  BY <1>3, <1>5, <1>6 DEF TableInv, ListedAreCalls
<1> QED
  BY <1>9, <1>10, <1>11, <1>12, <1>13, <1>15, <1>17, <1>18, <1>19 DEF TableInv

----------------------------------------------------------------------------
\* Either way of interning keeps the invariant.
LEMMA InternStep ==
  ASSUME TableInv, NEW kind \in Kinds, NEW base \in Bases, NEW sig \in Signatures,
         NEW path \in Paths \ DOMAIN calls,
         Intern(kind, base, sig, path)
  PROVE  TableInv'
BY ReuseStep, EmitStep DEF Intern

\* The tables start in the invariant.
LEMMA TableStart ==
  ASSUME TableInit
  PROVE  TableInv
<1>1. /\ types = [k \in Kinds |-> << >>]
      /\ index = [k \in Kinds |-> << >>]
      /\ byName = << >>
      /\ typesNs = {}
      /\ variantCount = << >>
      /\ calls = << >>
  BY DEF TableInit
<1>2. IsFiniteSet(typesNs)
  BY <1>1, FS_EmptySet
<1>3. TableTypeOK
  BY <1>1 DEF TableTypeOK
<1> QED
  BY <1>1, <1>2, <1>3 DEF TableInv, NamesAreTypes, IndexIsRight, IndexIsComplete,
     ListsAreRight, TypeNamesUnique, CallsAreListed, ListedAreCalls,
     VariantJustified, Kinds

\* The inductive invariant holds in every reachable state of the tables.
THEOREM TableInvariance == TableSpec => []TableInv
<1>1. TableInit => TableInv
  BY TableStart
<1>2. TableInv /\ [TableNext]_tableVars => TableInv'
  <2> SUFFICES ASSUME TableInv, [TableNext]_tableVars PROVE TableInv'
    OBVIOUS
  <2>1. CASE TableNext
    BY <2>1, InternStep DEF TableNext
  <2>2. CASE UNCHANGED tableVars
    <3> USE <2>2 DEF tableVars
    <3>1. TableTypeOK'
      BY DEF TableInv, TableTypeOK
    <3>2. NamesAreTypes' /\ IndexIsRight' /\ IndexIsComplete'
      BY DEF TableInv, NamesAreTypes, IndexIsRight, IndexIsComplete
    <3>3. ListsAreRight' /\ TypeNamesUnique' /\ VariantJustified'
      BY DEF TableInv, ListsAreRight, TypeNamesUnique, VariantJustified
    <3>4. CallsAreListed' /\ ListedAreCalls'
      BY DEF TableInv, CallsAreListed, ListedAreCalls, InstancesOf
    <3> QED
      BY <3>1, <3>2, <3>3, <3>4 DEF TableInv
  <2> QED
    BY <2>1, <2>2
<1> QED
  BY <1>1, <1>2, PTL DEF TableSpec

\* No two emitted types, register or group, ever have the same name.
THEOREM EmittedNamesUnique == TableSpec => []TypeNamesUnique
<1>1. TableInv => TypeNamesUnique
  BY DEF TableInv
<1> QED
  BY <1>1, TableInvariance, PTL

\* The tables always hold what their annotations say.
THEOREM TableTypes == TableSpec => []TableTypeOK
<1>1. TableInv => TableTypeOK
  BY DEF TableInv
<1> QED
  BY <1>1, TableInvariance, PTL

\* Every instance is in exactly one type, of its kind, base and content.
THEOREM EveryInstanceInItsType == TableSpec => []InstanceInItsType
<1>1. TableInv => InstanceInItsType
  <2> SUFFICES ASSUME TableInv, NEW p \in DOMAIN calls
               PROVE  \E n \in DOMAIN byName :
                        /\ p \in InstancesOf(n)
                        /\ byName[n].kind = calls[p].kind
                        /\ byName[n].base = calls[p].base
                        /\ byName[n].sig  = calls[p].sig
                        /\ \A other \in DOMAIN byName \ {n} : p \notin InstancesOf(other)
    BY DEF InstanceInItsType
  <2> QED
    BY TypeOfIsIndexed DEF TypesAreIndexed
<1> QED
  BY <1>1, TableInvariance, PTL

\* A suffixed type implies another type that took the plain name.
THEOREM VariantsJustified == TableSpec => []VariantJustified
<1>1. TableInv => VariantJustified
  BY DEF TableInv
<1> QED
  BY <1>1, TableInvariance, PTL

\* No step renames, moves or changes an emitted type.
THEOREM EmittedStays == TableSpec => NeverRevised
<1>1. TableInv /\ [TableNext]_tableVars => [EmittedIsStable]_tableVars
  <2> SUFFICES ASSUME TableInv, NEW kind \in Kinds, NEW base \in Bases,
                      NEW sig \in Signatures, NEW path \in Paths,
                      Reuse(kind, base, sig, path) \/ Emit(kind, base, sig, path)
               PROVE  EmittedIsStable
    BY DEF TableNext, Intern
  <2>0. /\ byName \in [DOMAIN byName -> TypeRecord]
        /\ types \in [Kinds -> Seq(Name)]
    BY DEF TableInv, TableTypeOK
  <2>1. CASE Reuse(kind, base, sig, path)
    <3>1. PICK n \in DOMAIN byName : n = index[kind][<<base, sig>>]
      BY <2>1 DEF Reuse, TableInv, IndexIsRight
    <3>2. /\ byName' = [byName EXCEPT ![n].instances = Append(@, path)]
          /\ types' = types
      BY <2>1, <3>1 DEF Reuse
    <3>3. byName[n].instances \in Seq(Paths)
      BY <2>0 DEF TypeRecord
    <3>4. Continues(Append(byName[n].instances, path), byName[n].instances)
      BY <3>3, AppendFacts DEF Continues
    <3>5. /\ DOMAIN byName' = DOMAIN byName
          /\ \A m \in DOMAIN byName : /\ byName'[m].kind = byName[m].kind
                                      /\ byName'[m].base = byName[m].base
                                      /\ byName'[m].sig = byName[m].sig
                                      /\ m # n => byName'[m].instances = byName[m].instances
          /\ byName'[n].instances = Append(byName[n].instances, path)
      BY <2>0, <3>2 DEF TypeRecord
    <3>6. \A m \in DOMAIN byName : Continues(byName'[m].instances, byName[m].instances)
      BY <3>4, <3>5 DEF Continues
    <3>7. \A k \in Kinds : Continues(types'[k], types[k])
      BY <3>2 DEF Continues
    <3> QED
      BY <3>5, <3>6, <3>7 DEF EmittedIsStable
  <2>2. CASE Emit(kind, base, sig, path)
    <3>0. PICK name : name = NewTypeName(base)
      OBVIOUS
    <3>1. name \in Name /\ name \notin DOMAIN byName
      BY <3>0, NewTypeNameIsFresh DEF TableInv, NamesAreTypes
    <3>2. \A m \in DOMAIN byName : m \in DOMAIN byName' /\ byName'[m] = byName[m]
      BY <2>2, <3>0, <3>1 DEF Emit, Extended
    <3>3. \A k \in Kinds : Continues(types'[k], types[k])
      <4>1. types' = [types EXCEPT ![kind] = Append(@, name)]
        BY <2>2, <3>0 DEF Emit
      <4>2. PICK s \in Seq(Name) : s = types[kind]
        BY <2>0
      <4>3. Continues(Append(s, name), s)
        BY <3>1, AppendFacts DEF Continues
      <4>4. types'[kind] = Append(s, name) /\ \A k \in Kinds : k # kind => types'[k] = types[k]
        BY <2>0, <4>1, <4>2
      <4> QED
        BY <4>2, <4>3, <4>4 DEF Continues
    <3> QED
      BY <3>2, <3>3 DEF EmittedIsStable, Continues
  <2> QED
    BY <2>1, <2>2
<1> QED
  BY <1>1, TableInvariance, PTL DEF TableSpec, NeverRevised

\* The tables implement the sharing promise: interning gives an instance one
\* type for good, and the same type to exactly the instances with its content.
THEOREM TableShares == TableSpec => SharesTypes
<1>1. TableInit => Sharing!Init
  BY DEF TableInit, Sharing!Init
<1>2. TypesAreIndexed /\ TypesAreIndexed' /\ TableInv /\ [TableNext]_tableVars
        => [Sharing!Next]_Sharing!vars
  <2> SUFFICES ASSUME TypesAreIndexed, TypesAreIndexed', TableInv, [TableNext]_tableVars
               PROVE  [Sharing!Next]_Sharing!vars
    OBVIOUS
  <2>1. CASE UNCHANGED tableVars
    BY <2>1 DEF tableVars, Sharing!vars, TypeOf, InstancesOf
  <2>2. ASSUME NEW kind \in Kinds, NEW base \in Bases, NEW sig \in Signatures,
               NEW path \in Paths \ DOMAIN calls, Intern(kind, base, sig, path)
        PROVE  Sharing!Next
    <3>1. /\ DOMAIN calls' = DOMAIN calls \cup {path}
          /\ \A p \in DOMAIN calls : calls'[p] = calls[p]
      BY <2>2 DEF Intern, Extended
    <3>2. ASSUME NEW q \in DOMAIN calls
          PROVE  TypeOf(q)' = TypeOf(q)
      <4>1. /\ <<calls[q].base, calls[q].sig>> \in DOMAIN index[calls[q].kind]
            /\ calls[q].kind \in Kinds
        BY DEF TableInv, TableTypeOK, CallsAreListed
      <4>2. /\ DOMAIN index = Kinds
            /\ \A k \in Kinds : \A key \in DOMAIN index[k] : index'[k][key] = index[k][key]
        <5>1. DOMAIN index = Kinds
          BY DEF TableInv, TableTypeOK
        <5>2. CASE Reuse(kind, base, sig, path)
          BY <5>1, <5>2 DEF Reuse
        <5>3. CASE Emit(kind, base, sig, path)
          <6>1. PICK name : name = NewTypeName(base)
            OBVIOUS
          <6>2. /\ <<base, sig>> \notin DOMAIN index[kind]
                /\ index' = [index EXCEPT ![kind] = Extended(@, <<base, sig>>, name)]
            BY <5>3, <6>1 DEF Emit
          <6> QED
            BY <5>1, <6>2 DEF Extended
        <5> QED
          BY <2>2, <5>2, <5>3 DEF Intern
      <4>3. TypeOf(q) = index[calls[q].kind][<<calls[q].base, calls[q].sig>>]
        BY DEF TypesAreIndexed
      <4>4. TypeOf(q)' = index'[calls'[q].kind][<<calls'[q].base, calls'[q].sig>>]
        BY <3>1 DEF TypesAreIndexed
      <4> QED
        BY <3>1, <4>1, <4>2, <4>3, <4>4
    <3>3. ASSUME NEW q \in DOMAIN calls
          PROVE  TypeOf(path)' = TypeOf(q)' <=> calls'[path] = calls'[q]
      <4>1. path \in DOMAIN calls' /\ q \in DOMAIN calls'
        BY <3>1
      <4>2. /\ calls'[path] \in [kind : Kinds, base : Bases, sig : Signatures]
            /\ calls'[q] \in [kind : Kinds, base : Bases, sig : Signatures]
        BY <2>2, <3>1 DEF Intern, Extended, TableInv, TableTypeOK
      <4>3. \A p \in {path, q} :
              /\ TypeOf(p)' = index'[calls'[p].kind][<<calls'[p].base, calls'[p].sig>>]
              /\ byName'[TypeOf(p)'].kind = calls'[p].kind
              /\ byName'[TypeOf(p)'].base = calls'[p].base
              /\ byName'[TypeOf(p)'].sig = calls'[p].sig
        BY <4>1 DEF TypesAreIndexed
      <4>4. ASSUME TypeOf(path)' = TypeOf(q)'
            PROVE  calls'[path] = calls'[q]
        <5>1. /\ calls'[path].kind = calls'[q].kind
              /\ calls'[path].base = calls'[q].base
              /\ calls'[path].sig = calls'[q].sig
          BY <4>3, <4>4
        <5> QED
          BY <4>2, <5>1
      <4>5. ASSUME calls'[path] = calls'[q]
            PROVE  TypeOf(path)' = TypeOf(q)'
        BY <4>3, <4>5
      <4> QED
        BY <4>4, <4>5
    <3>4. Sharing!Assign(path)
      BY <3>1, <3>2, <3>3 DEF Sharing!Assign
    <3> QED
      BY <3>1, <3>4 DEF Sharing!Next
  <2> QED
    BY <2>1, <2>2 DEF TableNext
<1> QED
  BY <1>1, <1>2, TypeOfIsIndexed, TableInvariance, PTL
  DEF TableSpec, SharesTypes, Sharing!Spec
=============================================================================
