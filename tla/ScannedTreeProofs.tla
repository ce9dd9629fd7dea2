-------------------------- MODULE ScannedTreeProofs --------------------------
(***************************************************************************)
(* What the finished walk leaves is the tree it walked: the scan of a      *)
(* design implements TypeSharing.                                          *)
(*                                                                         *)
(* The refinement needs that equal signatures mean equal content, and the  *)
(* content of a group is everything below it, while its signature holds    *)
(* only emitted names, digests and types.  No induction over trees is      *)
(* needed: the walk is one, and the invariant carries it.                  *)
(*   FreshInv        a node is described once, after it was met            *)
(*   IndexInv        the two lookups of the tables and the history of      *)
(*                   calls agree, whatever names and signatures are        *)
(*   Formed          the members of a group in progress are a function of  *)
(*                   the rows of its body and the types of its children    *)
(*   Linked          those rows and types are the described children's     *)
(*   DescribedFrom   a described group is what such a call left            *)
(*   SameSignatures  so far, content and signature tell the same apart     *)
(* When a group finishes, a described group of its base name with the same *)
(* content has the same rows, hence children of the same content, hence by *)
(* SameSignatures of the same types and digests, hence the same members,   *)
(* constants and signature; with the same signature it has children of the *)
(* same digests, hence of the same content, hence the same body.           *)
(*                                                                         *)
(* The second part is the account the scan gives of itself: what the log   *)
(* of findings and the rename map say of each node, for three properties.  *)
(*   VariantInv      PSS-I202 is logged at an instance once if it started  *)
(*                   a type whose name was taken, and else never           *)
(*   ErrorInv        a node that was met and is neither described nor in   *)
(*                   progress has one error, and every other node none     *)
(*   MemberInv       a child that was attached is held by its parent, in   *)
(*                   progress or described, and PSS-I201 and the map give  *)
(*                   the name it was attached under; a described node is   *)
(*                   held, or is the child about to be                     *)
(* VariantsReported, RenamesReported and NothingDropped speak of finished  *)
(* groups or a finished scan only, so none of them is inductive.           *)
(***************************************************************************)
EXTENDS DesignScannerProofs

\* Sequences are equal that are equal element by element.
LEMMA SequencesEqual ==
  ASSUME NEW s, NEW t, IsSeq(s), IsSeq(t), DOMAIN s = DOMAIN t,
         \A i \in DOMAIN s : s[i] = t[i]
  PROVE  s = t
<1> DEFINE S == {s[i] : i \in DOMAIN s}
           T == {t[i] : i \in DOMAIN t}
           U == S \cup T
<1>1. s \in Seq(S) /\ t \in Seq(T)
  BY DEF IsSeq
<1>2. S \subseteq U /\ T \subseteq U
  OBVIOUS
<1> HIDE DEF S, T, U
<1>3. s \in Seq(U) /\ t \in Seq(U)
  BY <1>1, <1>2
<1>4. Len(s) = Len(t) /\ DOMAIN s = 1 .. Len(s)
  BY SeqFacts
<1> QED
  BY <1>3, <1>4

\* Two sequences agree up to a position, and each position follows from those
\* before it.
Agree(a, b, n) == \A i \in 1 .. n : a[i] = b[i]
AgreeOn(a, b, n) == \A i \in 1 .. n : Agree(a, b, i - 1) => a[i] = b[i]

\* What each position adds the same way to the same positions before it is the
\* same throughout.
LEMMA SameThroughout ==
  ASSUME NEW n \in Nat, NEW a, NEW b, AgreeOn(a, b, n)
  PROVE  Agree(a, b, n)
<1> DEFINE T == {i \in 1 .. n : a[i] # b[i]}
<1> SUFFICES ASSUME T # {} PROVE FALSE
  BY DEF Agree
<1>1. T \in SUBSET Nat
  OBVIOUS
<1>2. PICK i \in T : \A j \in T : i <= j
  BY <1>1, LeastNatural
<1>3. Agree(a, b, i - 1)
  BY <1>2 DEF Agree
<1> QED
  BY <1>2, <1>3 DEF AgreeOn

\* Two runs from the same start that go on the same way from the same point are
\* the same throughout.
LEMMA SameRun ==
  ASSUME NEW n \in Nat, NEW a, NEW b, a[0] = b[0],
         \A i \in 1 .. n : a[i - 1] = b[i - 1] => a[i] = b[i]
  PROVE  a[n] = b[n]
<1> DEFINE T == {i \in 0 .. n : a[i] # b[i]}
<1> SUFFICES ASSUME T # {} PROVE FALSE
  OBVIOUS
<1>1. T \in SUBSET Nat
  OBVIOUS
<1>2. PICK i \in T : \A j \in T : i <= j
  BY <1>1, LeastNatural
<1>3. i \in 1 .. n
  BY <1>2
<1>4. a[i - 1] = b[i - 1]
  <2>1. i - 1 \in 0 .. n /\ ~(i <= i - 1)
    BY <1>3
  <2> QED
    BY <1>2, <2>1
<1> QED
  BY <1>2, <1>3, <1>4

----------------------------------------------------------------------------
\* A lookup that hits answers with the type of its kind, base and content.
LookupsRight ==
  \A k \in Kinds : \A b, s :
    <<b, s>> \in DOMAIN index[k] =>
      /\ index[k][<<b, s>>] \in DOMAIN byName
      /\ byName[index[k][<<b, s>>]].kind = k
      /\ byName[index[k][<<b, s>>]].base = b
      /\ byName[index[k][<<b, s>>]].sig = s

\* Calls are of the two kinds, and every type lists some instance.
CallsOK ==
  /\ \A p \in DOMAIN calls :
       /\ calls[p].kind \in Kinds
       /\ calls[p] = [kind |-> calls[p].kind, base |-> calls[p].base, sig |-> calls[p].sig]
  /\ \A n \in DOMAIN byName : /\ byName[n].kind \in Kinds
                              /\ IsSeq(byName[n].instances)
                              /\ byName[n].instances # << >>

\* The two lookups and the lists of instances agree, whatever the names and the
\* signatures are.
IndexInv ==
  /\ LookupsRight
  /\ IndexIsComplete
  /\ CallsAreListed
  /\ ListedAreCalls
  /\ CallsOK

\* The type an instance was interned as.
TypeAt(p) == index[calls[p].kind][<<calls[p].base, calls[p].sig>>]

\* In a state of the invariant the emitted type of an instance is the one its
\* call finds, and it determines the call.
LEMMA TypeOfIsTypeAt ==
  ASSUME IndexInv
  PROVE  /\ TypesAreIndexed
         /\ \A p \in DOMAIN calls : TypeOf(p) = TypeAt(p)
         /\ \A p, q \in DOMAIN calls :
              TypeAt(p) = TypeAt(q) <=> calls[p] = calls[q]
<1>1. ASSUME NEW p \in DOMAIN calls
      PROVE  /\ TypeOf(p) = TypeAt(p)
             /\ TypeOf(p) \in DOMAIN byName
             /\ p \in InstancesOf(TypeOf(p))
             /\ byName[TypeOf(p)].kind = calls[p].kind
             /\ byName[TypeOf(p)].base = calls[p].base
             /\ byName[TypeOf(p)].sig = calls[p].sig
             /\ \A n \in DOMAIN byName : p \in InstancesOf(n) => n = TypeOf(p)
  <2> DEFINE n == TypeAt(p)
  <2>1. /\ n \in DOMAIN byName /\ p \in InstancesOf(n)
        /\ byName[n].kind = calls[p].kind
        /\ byName[n].base = calls[p].base
        /\ byName[n].sig = calls[p].sig
    BY DEF IndexInv, CallsOK, CallsAreListed, LookupsRight, TypeAt
  <2>2. ASSUME NEW m \in DOMAIN byName, p \in InstancesOf(m)
        PROVE  m = n
    BY <2>2 DEF IndexInv, ListedAreCalls, IndexIsComplete, TypeAt
  <2> HIDE DEF n
  <2>3. TypeOf(p) = n
    BY <2>1, <2>2 DEF TypeOf
  <2> QED
    BY <2>1, <2>2, <2>3 DEF n
<1>2. TypesAreIndexed
  BY <1>1 DEF TypesAreIndexed, TypeAt
<1>3. ASSUME NEW p \in DOMAIN calls, NEW q \in DOMAIN calls, TypeAt(p) = TypeAt(q)
      PROVE  calls[p] = calls[q]
  <2>1. /\ calls[p].kind = calls[q].kind
        /\ calls[p].base = calls[q].base
        /\ calls[p].sig = calls[q].sig
    BY <1>1, <1>3
  <2>2. /\ calls[p] = [kind |-> calls[p].kind, base |-> calls[p].base, sig |-> calls[p].sig]
        /\ calls[q] = [kind |-> calls[q].kind, base |-> calls[q].base, sig |-> calls[q].sig]
    BY DEF IndexInv, CallsOK
  <2> QED
    BY <2>1, <2>2, Zenon
<1>4. ASSUME NEW p \in DOMAIN calls, NEW q \in DOMAIN calls, calls[p] = calls[q]
      PROVE  TypeAt(p) = TypeAt(q)
  BY <1>4 DEF TypeAt
<1>5. \A p, q \in DOMAIN calls : TypeAt(p) = TypeAt(q) <=> calls[p] = calls[q]
  BY <1>3, <1>4, Zenon
<1>6. \A p \in DOMAIN calls : TypeOf(p) = TypeAt(p)
  BY <1>1
<1> QED
  BY <1>2, <1>5, <1>6, Zenon

\* What interning an instance leaves: types and the types of other instances
\* are as they were, and the instance has the type the lookup named.
Interned(kind, base, sig, path) ==
  /\ DOMAIN calls' = DOMAIN calls \cup {path}
  /\ calls'[path] = [kind |-> kind, base |-> base, sig |-> sig]
  /\ TypeAt(path)' = InternedName(kind, base, sig)
  /\ \A p \in DOMAIN calls : calls'[p] = calls[p] /\ TypeAt(p)' = TypeAt(p)
  /\ \A n \in DOMAIN byName : /\ n \in DOMAIN byName'
                              /\ byName'[n].base = byName[n].base
                              /\ byName'[n].sig = byName[n].sig
                              /\ byName'[n].instances[1] = byName[n].instances[1]

\* The history of calls gains one.
LEMMA CallAdded ==
  ASSUME NEW path, path \notin DOMAIN calls, NEW call, calls' = Extended(calls, path, call)
  PROVE  /\ DOMAIN calls' = DOMAIN calls \cup {path}
         /\ calls'[path] = call
         /\ \A p \in DOMAIN calls : calls'[p] = calls[p]
BY DEF Extended

\* An instance joins the type its lookup finds.
LEMMA ReuseIndexed ==
  ASSUME TablesInv, IndexInv, NEW kind \in Kinds, NEW base, NEW sig,
         NEW path, path \notin DOMAIN calls,
         Reuse(kind, base, sig, path),
         calls' = Extended(calls, path, [kind |-> kind, base |-> base, sig |-> sig])
  PROVE  IndexInv' /\ Interned(kind, base, sig, path)
<1> DEFINE call == [kind |-> kind, base |-> base, sig |-> sig]
<1>1. PICK n0 : n0 = index[kind][<<base, sig>>]
  OBVIOUS
<1>2. /\ <<base, sig>> \in DOMAIN index[kind]
      /\ n0 \in DOMAIN byName
      /\ byName[n0].kind = kind /\ byName[n0].base = base /\ byName[n0].sig = sig
      /\ index' = index
      /\ byName' = [byName EXCEPT ![n0].instances = Append(@, path)]
      /\ InternedName(kind, base, sig) = n0
  BY <1>1 DEF Reuse, IndexInv, LookupsRight, InternedName
<1>3. /\ DOMAIN calls' = DOMAIN calls \cup {path}
      /\ calls'[path] = call
      /\ \A p \in DOMAIN calls : calls'[p] = calls[p]
  BY CallAdded
<1>4. /\ DOMAIN byName' = DOMAIN byName
      /\ \A n \in DOMAIN byName : /\ byName'[n].kind = byName[n].kind
                                  /\ byName'[n].base = byName[n].base
                                  /\ byName'[n].sig = byName[n].sig
                                  /\ n # n0 => byName'[n] = byName[n]
      /\ byName'[n0].instances = Append(byName[n0].instances, path)
  BY <1>2 DEF TablesInv
<1>5. IsSeq(byName[n0].instances) /\ byName[n0].instances # << >>
  BY <1>2 DEF IndexInv, CallsOK
<1>6. /\ IsSeq(byName'[n0].instances) /\ byName'[n0].instances # << >>
      /\ byName'[n0].instances[1] = byName[n0].instances[1]
      /\ InstancesOf(n0)' = InstancesOf(n0) \cup {path}
      /\ \A n \in DOMAIN byName : n # n0 => InstancesOf(n)' = InstancesOf(n)
  <2> DEFINE old == byName[n0].instances
  <2>1. /\ IsSeq(Append(old, path)) /\ Append(old, path) # << >>
        /\ DOMAIN Append(old, path) = DOMAIN old \cup {Len(old) + 1}
        /\ \A i \in DOMAIN old : Append(old, path)[i] = old[i]
        /\ Append(old, path)[Len(old) + 1] = path
    BY <1>5, Pushed
  <2>2. 1 \in DOMAIN old
    BY <1>5, SeqFacts
  <2>3. \A n \in DOMAIN byName : n # n0 => InstancesOf(n)' = InstancesOf(n)
    BY <1>4 DEF InstancesOf
  <2> QED
    BY <1>4, <2>1, <2>2, <2>3 DEF InstancesOf
<1>7. index' = index
  BY <1>2
<1>8. LookupsRight'
  BY <1>4, <1>7 DEF IndexInv, LookupsRight
<1>9. LookupsRight' /\ IndexIsComplete'
  <2>1. ASSUME NEW n \in DOMAIN byName'
        PROVE  /\ <<byName'[n].base, byName'[n].sig>> \in DOMAIN index'[byName'[n].kind]
               /\ index'[byName'[n].kind][<<byName'[n].base, byName'[n].sig>>] = n
    <3>1. /\ <<byName[n].base, byName[n].sig>> \in DOMAIN index[byName[n].kind]
          /\ index[byName[n].kind][<<byName[n].base, byName[n].sig>>] = n
      BY <1>4 DEF IndexInv, IndexIsComplete
    <3>2. /\ byName'[n].kind = byName[n].kind
          /\ byName'[n].base = byName[n].base
          /\ byName'[n].sig = byName[n].sig
      BY <1>4
    <3> QED
      BY <1>7, <3>1, <3>2
  <2>2. IndexIsComplete'
    BY <2>1 DEF IndexIsComplete
  <2> QED
    BY <1>8, <2>2
<1>10. CallsOK'
  <2>1. \A p \in DOMAIN calls' :
          /\ calls'[p].kind \in Kinds
          /\ calls'[p] = [kind |-> calls'[p].kind, base |-> calls'[p].base, sig |-> calls'[p].sig]
    BY <1>3 DEF IndexInv, CallsOK
  <2>2. ASSUME NEW n \in DOMAIN byName'
        PROVE  /\ byName'[n].kind \in Kinds
               /\ IsSeq(byName'[n].instances)
               /\ byName'[n].instances # << >>
    <3>1. CASE n = n0
      BY <1>2, <1>4, <1>6, <3>1
    <3>2. CASE n # n0
      BY <1>4, <2>2, <3>2 DEF IndexInv, CallsOK
    <3> QED
      BY <3>1, <3>2
  <2> QED
    BY <2>1, <2>2 DEF CallsOK
<1>11. ASSUME NEW p \in DOMAIN calls PROVE TypeAt(p)' = TypeAt(p)
  BY <1>2, <1>3 DEF TypeAt
<1>12. TypeAt(path)' = n0
  BY <1>1, <1>2, <1>3 DEF TypeAt
<1>13. CallsAreListed'
  <2> SUFFICES ASSUME NEW p \in DOMAIN calls'
               PROVE  /\ <<calls'[p].base, calls'[p].sig>> \in DOMAIN index'[calls'[p].kind]
                      /\ p \in InstancesOf(TypeAt(p))'
    BY DEF CallsAreListed, TypeAt
  <2>1. CASE p = path
    BY <1>2, <1>3, <1>6, <1>12, <2>1
  <2>2. CASE p \in DOMAIN calls
    <3>1. PICK n : n = TypeAt(p)
      OBVIOUS
    <3>2. /\ <<calls[p].base, calls[p].sig>> \in DOMAIN index[calls[p].kind]
          /\ p \in InstancesOf(n) /\ n \in DOMAIN byName
      BY <2>2, <3>1 DEF IndexInv, CallsOK, CallsAreListed, LookupsRight, TypeAt
    <3>3. p \in InstancesOf(n)'
      BY <1>6, <3>2
    <3>4. TypeAt(p)' = n
      BY <1>11, <2>2, <3>1
    <3> QED
      BY <1>2, <1>3, <2>2, <3>2, <3>3, <3>4
  <2> QED
    BY <1>3, <2>1, <2>2
<1>14. ListedAreCalls'
  <2> SUFFICES ASSUME NEW n \in DOMAIN byName', NEW p \in InstancesOf(n)'
               PROVE  /\ p \in DOMAIN calls'
                      /\ calls'[p].kind = byName'[n].kind
                      /\ calls'[p].base = byName'[n].base
                      /\ calls'[p].sig = byName'[n].sig
    BY DEF ListedAreCalls, InstancesOf
  <2>1. CASE p \in InstancesOf(n)
    BY <1>3, <1>4, <2>1 DEF IndexInv, ListedAreCalls
  <2>2. CASE p \notin InstancesOf(n)
    BY <1>2, <1>3, <1>4, <1>6, <2>2
  <2> QED
    BY <2>1, <2>2
<1>15. Interned(kind, base, sig, path)
  BY <1>2, <1>3, <1>4, <1>6, <1>11, <1>12 DEF Interned
<1> QED
  BY <1>9, <1>10, <1>13, <1>14, <1>15 DEF IndexInv

\* An instance starts a type of its own.
LEMMA EmitIndexed ==
  ASSUME TablesInv, IndexInv, NEW kind \in Kinds, NEW base \in Name, NEW sig,
         NEW path, path \notin DOMAIN calls,
         Emit(kind, base, sig, path),
         calls' = Extended(calls, path, [kind |-> kind, base |-> base, sig |-> sig])
  PROVE  IndexInv' /\ Interned(kind, base, sig, path)
<1> DEFINE call == [kind |-> kind, base |-> base, sig |-> sig]
           type == [kind |-> kind, base |-> base, sig |-> sig, instances |-> <<path>>]
<1>1. PICK name : name = NewTypeName(base)
  OBVIOUS
<1>2. /\ <<base, sig>> \notin DOMAIN index[kind]
      /\ index' = [index EXCEPT ![kind] = Extended(@, <<base, sig>>, name)]
      /\ byName' = Extended(byName, name, type)
      /\ InternedName(kind, base, sig) = name
  BY <1>1 DEF Emit, InternedName
<1>3. /\ DOMAIN calls' = DOMAIN calls \cup {path}
      /\ calls'[path] = call
      /\ \A p \in DOMAIN calls : calls'[p] = calls[p]
  BY CallAdded
<1>4. name \notin DOMAIN byName
  <2>1. VariantsOf(base) \in Nat /\ IsFiniteSet(typesNs)
    BY DEF VariantsOf, TablesInv
  <2> QED
    BY <1>1, <2>1, FreshTypeName DEF TablesInv
<1>5. /\ type.kind = kind /\ type.base = base /\ type.sig = sig
      /\ IsSeq(type.instances) /\ type.instances # << >>
      /\ {type.instances[i] : i \in DOMAIN type.instances} = {path}
  BY DEF IsSeq
<1> HIDE DEF type
<1>6. /\ DOMAIN byName' = DOMAIN byName \cup {name}
      /\ byName'[name] = type
      /\ \A n \in DOMAIN byName : byName'[n] = byName[n]
  BY <1>2, <1>4 DEF Extended
<1>7. /\ InstancesOf(name)' = {path}
      /\ \A n \in DOMAIN byName : InstancesOf(n)' = InstancesOf(n)
  BY <1>5, <1>6 DEF InstancesOf
<1>8. /\ DOMAIN index = Kinds
      /\ DOMAIN index' = Kinds
      /\ DOMAIN index'[kind] = DOMAIN index[kind] \cup {<<base, sig>>}
      /\ index'[kind][<<base, sig>>] = name
      /\ \A key \in DOMAIN index[kind] : index'[kind][key] = index[kind][key]
      /\ \A k \in Kinds : k # kind => index'[k] = index[k]
  BY <1>2 DEF Extended, TablesInv
<1>9. LookupsRight'
  <2> SUFFICES ASSUME NEW k \in Kinds, NEW b, NEW s, <<b, s>> \in DOMAIN index'[k]
               PROVE  /\ index'[k][<<b, s>>] \in DOMAIN byName'
                      /\ byName'[index'[k][<<b, s>>]].kind = k
                      /\ byName'[index'[k][<<b, s>>]].base = b
                      /\ byName'[index'[k][<<b, s>>]].sig = s
    BY DEF LookupsRight
  <2>1. CASE k = kind /\ b = base /\ s = sig
    BY <1>5, <1>6, <1>8, <2>1
  <2>2. CASE ~(k = kind /\ b = base /\ s = sig)
    <3>1. <<b, s>> \in DOMAIN index[k] /\ index'[k][<<b, s>>] = index[k][<<b, s>>]
      BY <1>8, <2>2
    <3> QED
      BY <1>6, <3>1 DEF IndexInv, LookupsRight
  <2> QED
    BY <2>1, <2>2
<1>10. IndexIsComplete'
  <2> SUFFICES ASSUME NEW n \in DOMAIN byName'
               PROVE  /\ <<byName'[n].base, byName'[n].sig>> \in DOMAIN index'[byName'[n].kind]
                      /\ index'[byName'[n].kind][<<byName'[n].base, byName'[n].sig>>] = n
    BY DEF IndexIsComplete
  <2>1. CASE n = name
    BY <1>5, <1>6, <1>8, <2>1
  <2>2. CASE n \in DOMAIN byName
    <3>1. byName'[n] = byName[n] /\ byName[n].kind \in Kinds
      BY <1>6, <2>2 DEF IndexInv, CallsOK
    <3> QED
      BY <1>8, <2>2, <3>1 DEF IndexInv, IndexIsComplete
  <2> QED
    BY <1>6, <2>1, <2>2
<1>11. CallsOK'
  BY <1>3, <1>5, <1>6 DEF IndexInv, CallsOK
<1>12. ASSUME NEW p \in DOMAIN calls PROVE TypeAt(p)' = TypeAt(p)
  <2>1. /\ <<calls[p].base, calls[p].sig>> \in DOMAIN index[calls[p].kind]
        /\ calls[p].kind \in Kinds /\ calls'[p] = calls[p]
    BY <1>3 DEF IndexInv, CallsOK, CallsAreListed
  <2> QED
    BY <1>8, <2>1 DEF TypeAt
<1>13. TypeAt(path)' = name
  BY <1>3, <1>8 DEF TypeAt
<1>14. CallsAreListed'
  <2> SUFFICES ASSUME NEW p \in DOMAIN calls'
               PROVE  /\ <<calls'[p].base, calls'[p].sig>> \in DOMAIN index'[calls'[p].kind]
                      /\ p \in InstancesOf(TypeAt(p))'
    BY DEF CallsAreListed, TypeAt
  <2>1. CASE p = path
    BY <1>3, <1>7, <1>8, <1>13, <2>1
  <2>2. CASE p \in DOMAIN calls
    <3>1. PICK n : n = TypeAt(p)
      OBVIOUS
    <3>2. /\ <<calls[p].base, calls[p].sig>> \in DOMAIN index[calls[p].kind]
          /\ p \in InstancesOf(n) /\ n \in DOMAIN byName /\ calls[p].kind \in Kinds
      BY <2>2, <3>1 DEF IndexInv, CallsOK, CallsAreListed, LookupsRight, TypeAt
    <3>3. p \in InstancesOf(n)'
      BY <1>7, <3>2
    <3>4. TypeAt(p)' = n
      BY <1>12, <2>2, <3>1
    <3>5. <<calls'[p].base, calls'[p].sig>> \in DOMAIN index'[calls'[p].kind]
      BY <1>3, <1>8, <2>2, <3>2
    <3> QED
      BY <3>3, <3>4, <3>5
  <2> QED
    BY <1>3, <2>1, <2>2
<1>15. ListedAreCalls'
  BY <1>3, <1>5, <1>6, <1>7 DEF IndexInv, ListedAreCalls
<1>16. Interned(kind, base, sig, path)
  BY <1>2, <1>3, <1>6, <1>12, <1>13 DEF Interned
<1> QED
  BY <1>9, <1>10, <1>11, <1>14, <1>15, <1>16 DEF IndexInv

\* Either way the tables agree afterwards.
LEMMA InternIndexed ==
  ASSUME TablesInv, IndexInv, NEW kind \in Kinds, NEW base \in Name, NEW sig,
         NEW path, path \notin DOMAIN calls, Intern(kind, base, sig, path)
  PROVE  IndexInv' /\ Interned(kind, base, sig, path)
BY ReuseIndexed, EmitIndexed DEF Intern
----------------------------------------------------------------------------
\* The names of the members before position i.
InstsBefore(children, i) == {children[j].inst : j \in 1 .. i - 1}
ConstsBefore(consts, k) == {consts[j].name : j \in 1 .. k - 1}

\* Each child's row in the component is determined by its row in the body, its
\* kind and its type, and by the rows before it.
ChildrenFormed(children, body) ==
  /\ IsSeq(children) /\ IsSeq(body)
  /\ DOMAIN body = DOMAIN children
  /\ \A i \in DOMAIN children :
       /\ children[i] = [inst |-> Mangle(body[i].name, InstsBefore(children, i)),
                         rdl |-> body[i].name, type |-> children[i].type,
                         kind |-> children[i].kind, place |-> body[i].place]
       /\ body[i] = [name |-> body[i].name, place |-> body[i].place,
                     base |-> body[i].base, content |-> body[i].content]

\* Whether a child defers a reset constant, and which.
Defers(child, row) == EmitResetConsts /\ child.kind = "reg" /\ row.content.reset # NoReset
DeferredConst(child, row) ==
  [inst |-> child.inst, width |-> row.content.regwidth, value |-> row.content.reset]

\* The constants deferred by the rows, in their order: run is what had been
\* deferred after each row.
DeferredBy(children, body, pending) ==
  \E run : /\ run[0] = << >>
           /\ \A i \in DOMAIN children :
                run[i] = IF Defers(children[i], body[i])
                           THEN Append(run[i - 1], DeferredConst(children[i], body[i]))
                           ELSE run[i - 1]
           /\ run[Len(children)] = pending

\* The constants named so far, each after what took its name before it.
ConstsFormed(children, pending, consts) ==
  /\ IsSeq(pending) /\ IsSeq(consts)
  /\ Len(consts) <= Len(pending)
  /\ \A k \in DOMAIN consts :
       consts[k] = [name |-> ConstName(pending[k].inst,
                               InstsBefore(children, Len(children) + 1)
                                 \cup ConstsBefore(consts, k)),
                    width |-> pending[k].width, value |-> pending[k].value]

\* What the members of a component come from.
Formed(f) ==
  /\ ChildrenFormed(f.children, f.body)
  /\ IsSeq(f.sigs) /\ DOMAIN f.sigs = DOMAIN f.children
  /\ DeferredBy(f.children, f.body, f.pending)
  /\ ConstsFormed(f.children, f.pending, f.consts)
  /\ f.taken = InstsBefore(f.children, Len(f.children) + 1)
                 \cup ConstsBefore(f.consts, Len(f.consts) + 1)

\* The children of a group are the instances described below it.
Linked(f) ==
  \A i \in DOMAIN f.children :
    LET c == Append(f.path, f.body[i].name) IN
    /\ c \in DOMAIN described
    /\ described[c].kind = f.children[i].kind
    /\ described[c].base = f.body[i].base
    /\ described[c].content = f.body[i].content
    /\ calls[c].sig = f.sigs[i]
    /\ TypeAt(c) = f.children[i].type

\* A described instance was interned with its kind and base name.
CallsMatch ==
  /\ DOMAIN calls = DOMAIN described
  /\ \A p \in DOMAIN described : /\ calls[p].kind = described[p].kind
                                 /\ calls[p].base = described[p].base
                                 /\ described[p].kind \in Kinds

\* The content of a register and of a group are of different forms.
ContentsOK ==
  \A p \in DOMAIN described :
    IF described[p].kind = "reg" THEN "text" \in DOMAIN described[p].content
                                 ELSE "text" \notin DOMAIN described[p].content

\* Instances of the same kind and base name have the same signature exactly when
\* they have the same content.
SameSignatures ==
  \A p, q \in DOMAIN described :
    described[p].kind = described[q].kind /\ described[p].base = described[q].base
      => (calls[p].sig = calls[q].sig <=> described[p].content = described[q].content)

\* Equal rows describe equal instances, which have equal types.
LEMMA SameRows ==
  ASSUME IndexInv, CallsMatch, ContentsOK, SameSignatures,
         NEW c \in DOMAIN described, NEW d \in DOMAIN described
  PROVE  /\ described[c].base = described[d].base /\ described[c].content = described[d].content
              => /\ described[c].kind = described[d].kind
                 /\ calls[c].sig = calls[d].sig
                 /\ TypeAt(c) = TypeAt(d)
         /\ TypeAt(c) = TypeAt(d)
              => /\ described[c].kind = described[d].kind
                 /\ described[c].base = described[d].base
                 /\ described[c].content = described[d].content
                 /\ calls[c].sig = calls[d].sig
<1>1. c \in DOMAIN calls /\ d \in DOMAIN calls
  BY DEF CallsMatch
<1>2. TypeAt(c) = TypeAt(d) <=> calls[c] = calls[d]
  BY <1>1, TypeOfIsTypeAt
<1>3. calls[c] = calls[d] <=> /\ calls[c].kind = calls[d].kind
                              /\ calls[c].base = calls[d].base
                              /\ calls[c].sig = calls[d].sig
  <2>1. /\ calls[c] = [kind |-> calls[c].kind, base |-> calls[c].base, sig |-> calls[c].sig]
        /\ calls[d] = [kind |-> calls[d].kind, base |-> calls[d].base, sig |-> calls[d].sig]
    BY <1>1 DEF IndexInv, CallsOK
  <2> QED
    BY <2>1, Zenon
<1>4. /\ calls[c].kind = described[c].kind /\ calls[c].base = described[c].base
      /\ calls[d].kind = described[d].kind /\ calls[d].base = described[d].base
      /\ described[c].kind \in Kinds /\ described[d].kind \in Kinds
  BY DEF CallsMatch
<1>5. described[c].content = described[d].content => described[c].kind = described[d].kind
  BY <1>4 DEF ContentsOK, Kinds
<1>6. described[c].kind = described[d].kind /\ described[c].base = described[d].base
        => (calls[c].sig = calls[d].sig <=> described[c].content = described[d].content)
  BY DEF SameSignatures
<1> QED
  BY <1>2, <1>3, <1>4, <1>5, <1>6, Zenon

\* Groups with the same rows have the same children, as far as they are attached.
LEMMA SameChildren ==
  ASSUME IndexInv, CallsMatch, ContentsOK, SameSignatures,
         NEW f, NEW g, Formed(f), Formed(g), Linked(f), Linked(g), f.body = g.body
  PROVE  f.children = g.children /\ f.sigs = g.sigs
<1>1. /\ IsSeq(f.children) /\ IsSeq(g.children) /\ IsSeq(f.sigs) /\ IsSeq(g.sigs)
      /\ DOMAIN f.children = DOMAIN g.children
      /\ DOMAIN f.sigs = DOMAIN f.children /\ DOMAIN g.sigs = DOMAIN g.children
  BY DEF Formed, ChildrenFormed
<1>2. DOMAIN f.children = 1 .. Len(f.children) /\ Len(f.children) \in Nat
  BY <1>1, SeqFacts
<1>3. ASSUME NEW i \in DOMAIN f.children
      PROVE  /\ f.children[i].kind = g.children[i].kind
             /\ f.children[i].type = g.children[i].type
             /\ f.sigs[i] = g.sigs[i]
  <2> DEFINE c == Append(f.path, f.body[i].name)
             d == Append(g.path, g.body[i].name)
  <2>1. /\ c \in DOMAIN described
        /\ described[c].kind = f.children[i].kind
        /\ described[c].base = f.body[i].base
        /\ described[c].content = f.body[i].content
        /\ calls[c].sig = f.sigs[i]
        /\ TypeAt(c) = f.children[i].type
    BY DEF Linked
  <2>2. /\ d \in DOMAIN described
        /\ described[d].kind = g.children[i].kind
        /\ described[d].base = g.body[i].base
        /\ described[d].content = g.body[i].content
        /\ calls[d].sig = g.sigs[i]
        /\ TypeAt(d) = g.children[i].type
    BY <1>1 DEF Linked
  <2> HIDE DEF c, d
  <2>3. described[c].base = described[d].base /\ described[c].content = described[d].content
    BY <2>1, <2>2
  <2>4. /\ described[c].kind = described[d].kind
        /\ calls[c].sig = calls[d].sig /\ TypeAt(c) = TypeAt(d)
    BY <2>1, <2>2, <2>3, SameRows
  <2> QED
    BY <2>1, <2>2, <2>4
<1>4. ASSUME NEW i \in 1 .. Len(f.children),
             Agree(f.children, g.children, i - 1)
      PROVE  f.children[i] = g.children[i]
  <2>1. InstsBefore(f.children, i) = InstsBefore(g.children, i)
    BY <1>4 DEF InstsBefore, Agree
  <2>2. /\ f.children[i] = [inst |-> Mangle(f.body[i].name, InstsBefore(f.children, i)),
                            rdl |-> f.body[i].name, type |-> f.children[i].type,
                            kind |-> f.children[i].kind, place |-> f.body[i].place]
        /\ g.children[i] = [inst |-> Mangle(g.body[i].name, InstsBefore(g.children, i)),
                            rdl |-> g.body[i].name, type |-> g.children[i].type,
                            kind |-> g.children[i].kind, place |-> g.body[i].place]
    BY <1>1, <1>2, Zenon DEF Formed, ChildrenFormed
  <2>3. f.children[i].kind = g.children[i].kind /\ f.children[i].type = g.children[i].type
    BY <1>2, <1>3
  <2> QED
    BY <2>1, <2>2, <2>3, Zenon
<1>5. \A i \in 1 .. Len(f.children) : f.children[i] = g.children[i]
  <2>1. AgreeOn(f.children, g.children, Len(f.children))
    BY <1>4 DEF AgreeOn
  <2> QED
    BY <1>2, <2>1, SameThroughout DEF Agree
<1>6. f.children = g.children
  BY <1>1, <1>2, <1>5, SequencesEqual
<1>7. f.sigs = g.sigs
  BY <1>1, <1>3, SequencesEqual
<1> QED
  BY <1>6, <1>7

\* Groups with the same children have the same rows.
LEMMA SameBodies ==
  ASSUME IndexInv, CallsMatch, ContentsOK, SameSignatures,
         NEW f, NEW g, Formed(f), Formed(g), Linked(f), Linked(g), f.children = g.children
  PROVE  f.body = g.body
<1>1. /\ IsSeq(f.body) /\ IsSeq(g.body) /\ DOMAIN f.body = DOMAIN g.body
      /\ DOMAIN f.body = DOMAIN f.children /\ DOMAIN g.body = DOMAIN g.children
  BY DEF Formed, ChildrenFormed
<1>2. ASSUME NEW i \in DOMAIN f.body
      PROVE  f.body[i] = g.body[i]
  <2> DEFINE c == Append(f.path, f.body[i].name)
             d == Append(g.path, g.body[i].name)
  <2>1. /\ c \in DOMAIN described
        /\ described[c].base = f.body[i].base
        /\ described[c].content = f.body[i].content
        /\ TypeAt(c) = f.children[i].type
    BY <1>1 DEF Linked
  <2>2. /\ d \in DOMAIN described
        /\ described[d].base = g.body[i].base
        /\ described[d].content = g.body[i].content
        /\ TypeAt(d) = g.children[i].type
    BY <1>1 DEF Linked
  <2> HIDE DEF c, d
  <2>3. TypeAt(c) = TypeAt(d)
    BY <2>1, <2>2
  <2>4. f.body[i].base = g.body[i].base /\ f.body[i].content = g.body[i].content
    BY <2>1, <2>2, <2>3, SameRows
  <2>5. /\ f.children[i].rdl = f.body[i].name /\ f.children[i].place = f.body[i].place
        /\ g.children[i].rdl = g.body[i].name /\ g.children[i].place = g.body[i].place
    <3>1. i \in DOMAIN f.children /\ i \in DOMAIN g.children
      BY <1>1
    <3>2. /\ f.children[i] = [inst |-> Mangle(f.body[i].name, InstsBefore(f.children, i)),
                              rdl |-> f.body[i].name, type |-> f.children[i].type,
                              kind |-> f.children[i].kind, place |-> f.body[i].place]
          /\ g.children[i] = [inst |-> Mangle(g.body[i].name, InstsBefore(g.children, i)),
                              rdl |-> g.body[i].name, type |-> g.children[i].type,
                              kind |-> g.children[i].kind, place |-> g.body[i].place]
      BY <3>1, Zenon DEF Formed, ChildrenFormed
    <3> QED
      BY <3>2
  <2>6. f.body[i].name = g.body[i].name /\ f.body[i].place = g.body[i].place
    BY <2>5
  <2>7. /\ f.body[i] = [name |-> f.body[i].name, place |-> f.body[i].place,
                        base |-> f.body[i].base, content |-> f.body[i].content]
        /\ g.body[i] = [name |-> g.body[i].name, place |-> g.body[i].place,
                        base |-> g.body[i].base, content |-> g.body[i].content]
    BY <1>1, Zenon DEF Formed, ChildrenFormed
  <2> QED
    BY <2>4, <2>6, <2>7, Zenon
<1> QED
  BY <1>1, <1>2, SequencesEqual

\* The same children and rows defer the same constants.
LEMMA SamePending ==
  ASSUME NEW children, NEW body, IsSeq(children), NEW one, NEW other,
         DeferredBy(children, body, one), DeferredBy(children, body, other)
  PROVE  one = other
<1>1. PICK a : /\ a[0] = << >>
               /\ \A i \in DOMAIN children :
                    a[i] = IF Defers(children[i], body[i])
                             THEN Append(a[i - 1], DeferredConst(children[i], body[i]))
                             ELSE a[i - 1]
               /\ a[Len(children)] = one
  BY DEF DeferredBy
<1>2. PICK b : /\ b[0] = << >>
               /\ \A i \in DOMAIN children :
                    b[i] = IF Defers(children[i], body[i])
                             THEN Append(b[i - 1], DeferredConst(children[i], body[i]))
                             ELSE b[i - 1]
               /\ b[Len(children)] = other
  BY DEF DeferredBy
<1>3. Len(children) \in Nat /\ DOMAIN children = 1 .. Len(children)
  BY SeqFacts
<1>4. a[0] = b[0]
  BY <1>1, <1>2
<1>5. \A i \in 1 .. Len(children) : a[i - 1] = b[i - 1] => a[i] = b[i]
  BY <1>1, <1>2, <1>3, Zenon
<1>6. a[Len(children)] = b[Len(children)]
  BY <1>3, <1>4, <1>5, SameRun
<1> QED
  BY <1>1, <1>2, <1>6

\* The same deferred constants get the same names.
LEMMA SameConsts ==
  ASSUME NEW children, NEW pending, NEW a, NEW b,
         ConstsFormed(children, pending, a), ConstsFormed(children, pending, b),
         Len(a) = Len(b)
  PROVE  a = b
<1>1. /\ IsSeq(a) /\ IsSeq(b) /\ DOMAIN a = 1 .. Len(a) /\ DOMAIN b = 1 .. Len(a)
      /\ Len(a) \in Nat
  BY SeqFacts DEF ConstsFormed
<1>2. ASSUME NEW k \in 1 .. Len(a), Agree(a, b, k - 1)
      PROVE  a[k] = b[k]
  <2>1. ConstsBefore(a, k) = ConstsBefore(b, k)
    BY <1>2 DEF ConstsBefore, Agree
  <2> QED
    BY <1>1, <2>1, Zenon DEF ConstsFormed
<1>3. \A k \in 1 .. Len(a) : a[k] = b[k]
  <2>1. AgreeOn(a, b, Len(a))
    BY <1>2 DEF AgreeOn
  <2> QED
    BY <1>1, <2>1, SameThroughout DEF Agree
<1> QED
  BY <1>1, <1>3, SequencesEqual

----------------------------------------------------------------------------
\* Only what was met is described, what is in progress is not, and below a group
\* in progress only the names it visited have been met.
FreshInv ==
  /\ \A p \in met : p \in Seq(Name) /\ Len(p) >= 2
  /\ DOMAIN described \subseteq met \cup {<<TopName>>}
  /\ \A i \in DOMAIN stack : stack[i].path \notin DOMAIN described
  /\ \A i \in DOMAIN stack : \A n \in Name :
       Append(stack[i].path, n) \in met => n \in stack[i].visited
  /\ status = "idle" => described = << >> /\ met = {}

\* A described group has the components of a finished call.
IsFinished(p, f) ==
  /\ f.path = p /\ Formed(f) /\ Linked(f)
  /\ Len(f.consts) = Len(f.pending)
  /\ calls[p].sig = GroupSignature(calls[p].base, f.children, f.sigs, f.consts)
  /\ described[p].content = [body |-> f.body]

\* What a description and a call hold of an instance, of either kind.
DescribedFrom ==
  \A p \in DOMAIN described :
    /\ described[p].kind = "reg" =>
         calls[p].sig = [type |-> described[p].base, content |-> described[p].content]
    /\ described[p].kind = "group" => \E f : IsFinished(p, f)

\* The child that was returned is described below the innermost call.
ReturnLinked ==
  ret # NoReturn =>
    LET c == PathOf(ret.name) IN
    /\ c \in DOMAIN described
    /\ described[c].kind = ret.kind
    /\ described[c].base = ret.base
    /\ described[c].content = ret.content
    /\ calls[c].sig = ret.sig
    /\ TypeAt(c) = ret.type

FramesFormed == \A i \in DOMAIN stack : Formed(stack[i]) /\ Linked(stack[i])

----------------------------------------------------------------------------
\* The innermost call of a scan in progress.
LEMMA InnermostFacts ==
  ASSUME ScannerInv, stack # << >>
  PROVE  /\ IsSeq(stack) /\ Len(stack) \in Nat
         /\ DOMAIN stack = 1 .. Len(stack) /\ Len(stack) \in DOMAIN stack
         /\ Innermost = stack[Len(stack)] /\ FrameOK(Innermost)
BY SeqFacts DEF ScannerInv, FramesOK, Innermost

\* t is the stack with g as its innermost call.
TopIs(t, g) ==
  /\ t # << >> /\ Len(t) = Len(stack) /\ DOMAIN t = DOMAIN stack
  /\ t[Len(stack)] = g
  /\ \A i \in DOMAIN stack : i # Len(stack) => t[i] = stack[i]

\* A call differs from what it was in these fields only.
ChangedIn(g, f, fields) == \A x \in FrameFields \ fields : g[x] = f[x]

\* Replacing the innermost call.
LEMMA TopReplaced ==
  ASSUME ScannerInv, stack # << >>, NEW g
  PROVE  TopIs(WithLast(stack, g), g)
<1> DEFINE t == WithLast(stack, g)
<1>1. t = [stack EXCEPT ![Len(stack)] = g]
  BY DEF WithLast
<1> HIDE DEF t
<1>2. IsSeq(stack)
  BY InnermostFacts
<1> QED
  BY <1>1, <1>2, LastReplaced DEF TopIs, t

\* What marking a child as met does to the stack.
LEMMA MarkedTop ==
  ASSUME ScannerInv, stack # << >>, NEW name
  PROVE  \E g : /\ TopIs(Marked(name), g)
                /\ g.visited = Innermost.visited \cup {name}
                /\ ChangedIn(g, Innermost, {"visited"})
<1> DEFINE f == stack[Len(stack)]
           g == [f EXCEPT !.visited = @ \cup {name}]
<1>1. FrameOK(f) /\ f = Innermost
  BY InnermostFacts
<1>2. Marked(name) = WithLast(stack, g)
  BY DEF Marked, WithLast
<1> HIDE DEF f
<1>3. g.visited = f.visited \cup {name} /\ ChangedIn(g, f, {"visited"})
  BY <1>1 DEF FrameOK, FrameFields, ChangedIn
<1> HIDE DEF g
<1> QED
  BY <1>1, <1>2, <1>3, TopReplaced

\* What attaching a child does to the stack.
LEMMA AttachTop ==
  ASSUME ScannerInv, Attach
  PROVE  \E child, row, g :
           /\ stack # << >> /\ Innermost.consts = << >> /\ ret.name \in Name
           /\ ret # NoReturn /\ ret' = NoReturn
           /\ child = [inst |-> Mangle(ret.name, Innermost.taken), rdl |-> ret.name,
                       type |-> ret.type, kind |-> ret.kind, place |-> ret.place]
           /\ row = [name |-> ret.name, place |-> ret.place,
                     base |-> ret.base, content |-> ret.content]
           /\ TopIs(stack', g)
           /\ ChangedIn(g, Innermost, {"taken", "children", "sigs", "pending", "body"})
           /\ g.taken = Innermost.taken \cup {child.inst}
           /\ g.children = Append(Innermost.children, child)
           /\ g.sigs = Append(Innermost.sigs, ret.sig)
           /\ g.body = Append(Innermost.body, row)
           /\ g.pending = IF Defers(child, row)
                            THEN Append(Innermost.pending, DeferredConst(child, row))
                            ELSE Innermost.pending
<1> DEFINE f == Innermost
           inst == Mangle(ret.name, f.taken)
           child == [inst |-> inst, rdl |-> ret.name, type |-> ret.type,
                     kind |-> ret.kind, place |-> ret.place]
           const == [inst |-> inst, width |-> ret.content.regwidth,
                     value |-> ret.content.reset]
           row == [name |-> ret.name, place |-> ret.place,
                   base |-> ret.base, content |-> ret.content]
           g == [f EXCEPT
             !.taken = Claimed(@, inst),
             !.children = Append(@, child),
             !.sigs = Append(@, ret.sig),
             !.pending = IF EmitResetConsts /\ ret.kind = "reg" /\ ret.content.reset # NoReset
                           THEN Append(@, const) ELSE @,
             !.body = Append(@, row)]
<1>1. stack' = WithLast(stack, g)
  BY Zenon DEF Attach, WithLast
<1>2. /\ stack # << >> /\ f.consts = << >> /\ ret.name \in Name
      /\ ret # NoReturn /\ ret' = NoReturn
  BY DEF ScannerInv, ReturnOK, Attach
<1>3. FrameOK(f)
  BY <1>2, InnermostFacts
<1>4. /\ child.inst = inst
      /\ Defers(child, row) <=> EmitResetConsts /\ ret.kind = "reg" /\ ret.content.reset # NoReset
      /\ DeferredConst(child, row) = const
  BY DEF Defers, DeferredConst
<1>5. /\ child = [inst |-> Mangle(ret.name, Innermost.taken), rdl |-> ret.name,
                  type |-> ret.type, kind |-> ret.kind, place |-> ret.place]
      /\ row = [name |-> ret.name, place |-> ret.place,
                base |-> ret.base, content |-> ret.content]
  OBVIOUS
<1> HIDE DEF f, inst, child, const, row
<1>6. /\ ChangedIn(g, f, {"taken", "children", "sigs", "pending", "body"})
      /\ g.taken = f.taken \cup {inst}
      /\ g.children = Append(f.children, child)
      /\ g.sigs = Append(f.sigs, ret.sig)
      /\ g.body = Append(f.body, row)
      /\ g.pending = IF EmitResetConsts /\ ret.kind = "reg" /\ ret.content.reset # NoReset
                       THEN Append(f.pending, const) ELSE f.pending
  BY <1>3 DEF FrameOK, FrameFields, ChangedIn, Claimed
<1> HIDE DEF g
<1>7. TopIs(stack', g)
  BY <1>1, <1>2, TopReplaced DEF TopIs
<1>8. /\ ChangedIn(g, Innermost, {"taken", "children", "sigs", "pending", "body"})
      /\ g.taken = Innermost.taken \cup {child.inst}
      /\ g.children = Append(Innermost.children, child)
      /\ g.sigs = Append(Innermost.sigs, ret.sig)
      /\ g.body = Append(Innermost.body, row)
  BY <1>4, <1>6 DEF f
<1>9. g.pending = IF Defers(child, row)
                    THEN Append(Innermost.pending, DeferredConst(child, row))
                    ELSE Innermost.pending
  BY <1>4, <1>6 DEF f
<1>10. Innermost.consts = << >>
  BY <1>2 DEF f
<1> QED
  BY <1>2, <1>5, <1>7, <1>8, <1>9, <1>10, Zenon

\* What naming a constant does to the stack.
LEMMA NameConstTop ==
  ASSUME ScannerInv, NameConst
  PROVE  \E k, const, g :
           /\ stack # << >> /\ ret' = NoReturn
           /\ k = Len(Innermost.consts) + 1 /\ k \in DOMAIN Innermost.pending
           /\ const = [name |-> ConstName(Innermost.pending[k].inst, Innermost.taken),
                       width |-> Innermost.pending[k].width,
                       value |-> Innermost.pending[k].value]
           /\ TopIs(stack', g)
           /\ ChangedIn(g, Innermost, {"taken", "consts"})
           /\ g.taken = Innermost.taken \cup {const.name}
           /\ g.consts = Append(Innermost.consts, const)
<1> DEFINE f == Innermost
           of == f.pending[Len(f.consts) + 1]
           name == ConstName(of.inst, f.taken)
           const == [name |-> name, width |-> of.width, value |-> of.value]
           g == [f EXCEPT !.taken = @ \cup {name}, !.consts = Append(@, const)]
<1>1. stack' = WithLast(stack, g)
  BY Zenon DEF NameConst, WithLast
<1>2. /\ stack # << >> /\ ret' = NoReturn /\ Len(f.consts) < Len(f.pending)
  BY DEF NameConst
<1>3. FrameOK(f)
  BY <1>2, InnermostFacts
<1>4. const.name = name
  OBVIOUS
<1>5. Len(f.consts) + 1 \in DOMAIN f.pending
  <2>1. /\ Len(f.consts) \in Nat /\ Len(f.pending) \in Nat
        /\ DOMAIN f.pending = 1 .. Len(f.pending)
    BY <1>3, SeqFacts DEF FrameOK, MembersOK
  <2> QED
    BY <1>2, <2>1
<1>6. const = [name |-> ConstName(Innermost.pending[Len(Innermost.consts) + 1].inst,
                                  Innermost.taken),
               width |-> Innermost.pending[Len(Innermost.consts) + 1].width,
               value |-> Innermost.pending[Len(Innermost.consts) + 1].value]
  OBVIOUS
<1> HIDE DEF f, of, name, const
<1>7. /\ ChangedIn(g, f, {"taken", "consts"})
      /\ g.taken = f.taken \cup {name}
      /\ g.consts = Append(f.consts, const)
  BY <1>3 DEF FrameOK, FrameFields, ChangedIn
<1> HIDE DEF g
<1>8. TopIs(stack', g)
  BY <1>1, <1>2, TopReplaced DEF TopIs
<1>9. /\ ChangedIn(g, Innermost, {"taken", "consts"})
      /\ g.taken = Innermost.taken \cup {const.name}
      /\ g.consts = Append(Innermost.consts, const)
      /\ Len(Innermost.consts) + 1 \in DOMAIN Innermost.pending
  BY <1>4, <1>5, <1>7 DEF f
<1> QED
  BY <1>2, <1>6, <1>8, <1>9, Zenon

\* What entering a nested group does to the stack.
LEMMA EnterTop ==
  ASSUME ScannerInv, NEW name \in InstNames, NEW place, NEW type,
         EnterGroup(name, place, type)
  PROVE  \E g : /\ stack # << >> /\ ret = NoReturn /\ ret' = NoReturn /\ name \in Name
                /\ stack' # << >> /\ Len(stack') = Len(stack) + 1
                /\ DOMAIN stack' = 1 .. Len(stack) + 1
                /\ stack'[Len(stack) + 1] =
                     Frame(name, PathOf(name), Joined(Innermost.joined, name), type, place)
                /\ stack'[Len(stack)] = g
                /\ \A i \in DOMAIN stack : i # Len(stack) => stack'[i] = stack[i]
                /\ g.visited = Innermost.visited \cup {name}
                /\ ChangedIn(g, Innermost, {"visited"})
<1> DEFINE s == Marked(name)
           new == Frame(name, PathOf(name), Joined(Innermost.joined, name), type, place)
<1>1. /\ stack # << >> /\ stack' = Append(s, new) /\ ret = NoReturn /\ ret' = NoReturn
      /\ name \in Name
  BY TreeAssumption DEF EnterGroup, Meets
<1>2. PICK g : /\ TopIs(s, g)
               /\ g.visited = Innermost.visited \cup {name}
               /\ ChangedIn(g, Innermost, {"visited"})
  BY <1>1, MarkedTop
<1>3. IsSeq(s)
  BY <1>1, MarkedKeeps DEF ScannerInv, FramesOK
<1> HIDE DEF s, new
<1>4. /\ Append(s, new) # << >> /\ Len(Append(s, new)) = Len(s) + 1
      /\ DOMAIN Append(s, new) = DOMAIN s \cup {Len(s) + 1}
      /\ \A i \in DOMAIN s : Append(s, new)[i] = s[i]
      /\ Append(s, new)[Len(s) + 1] = new
  BY <1>3, Pushed, Zenon
<1>5. /\ stack' # << >> /\ Len(stack') = Len(s) + 1
      /\ DOMAIN stack' = DOMAIN s \cup {Len(s) + 1}
      /\ \A i \in DOMAIN s : stack'[i] = s[i]
      /\ stack'[Len(s) + 1] = new
  BY <1>1, <1>4, Zenon
<1>6. /\ Len(stack) \in Nat /\ DOMAIN stack = 1 .. Len(stack) /\ Len(stack) \in DOMAIN stack
  BY <1>1, InnermostFacts
<1>7. /\ Len(s) = Len(stack) /\ DOMAIN s = DOMAIN stack /\ s[Len(stack)] = g
      /\ \A i \in DOMAIN stack : i # Len(stack) => s[i] = stack[i]
  BY <1>2 DEF TopIs
<1>8. /\ stack' # << >> /\ Len(stack') = Len(stack) + 1
      /\ DOMAIN stack' = 1 .. Len(stack) + 1
      /\ stack'[Len(stack) + 1] = new
      /\ stack'[Len(stack)] = g
      /\ \A i \in DOMAIN stack : i # Len(stack) => stack'[i] = stack[i]
  BY <1>6, <1>7, <1>5
<1>9. stack'[Len(stack) + 1] =
        Frame(name, PathOf(name), Joined(Innermost.joined, name), type, place)
  BY <1>8 DEF new
<1> QED
  BY <1>1, <1>2, <1>8, <1>9, Zenon

\* What the end of a call does to the stack.
LEMMA FinishTop ==
  ASSUME ScannerInv, FinishGroup
  PROVE  /\ stack # << >> /\ ret = NoReturn
         /\ DOMAIN stack' = 1 .. Len(stack) - 1
         /\ \A i \in DOMAIN stack' : i \in DOMAIN stack /\ stack'[i] = stack[i]
         /\ Len(stack) # 1 => stack' # << >> /\ Len(stack') = Len(stack) - 1
<1> DEFINE t == SubSeq(stack, 1, Len(stack) - 1)
<1>1. stack # << >> /\ ret = NoReturn /\ stack' = t
  BY DEF FinishGroup
<1>2. /\ IsSeq(stack) /\ Len(stack) \in Nat /\ DOMAIN stack = 1 .. Len(stack)
  BY <1>1, InnermostFacts
<1>3. /\ IsSeq(t) /\ Len(t) = Len(stack) - 1
      /\ DOMAIN t = 1 .. Len(stack) - 1
      /\ \A i \in 1 .. Len(stack) - 1 : t[i] = stack[i]
  BY <1>1, <1>2, Popped
<1> HIDE DEF t
<1>4. Len(stack) # 1 => t # << >>
  <2>1. t = << >> <=> Len(t) = 0
    BY <1>3, SeqFacts
  <2> QED
    BY <1>2, <1>3, <2>1
<1> QED
  BY <1>1, <1>2, <1>3, <1>4

----------------------------------------------------------------------------
\* A path made by appending a name, and what it was made from.
LEMMA AppendedPath ==
  ASSUME NEW s \in Seq(Name), NEW n \in Name
  PROVE  /\ Append(s, n) \in Seq(Name) /\ Len(Append(s, n)) = Len(s) + 1
         /\ Front(Append(s, n)) = s
         /\ \A t \in Seq(Name), m \in Name : Append(s, n) = Append(t, m) => s = t /\ n = m
<1>1. /\ Append(s, n) \in Seq(Name) /\ Len(Append(s, n)) = Len(s) + 1
      /\ Append(s, n)[Len(s) + 1] = n
  OBVIOUS
<1>2. Front(Append(s, n)) = s
  BY FrontOfAppended
<1>3. ASSUME NEW t \in Seq(Name), NEW m \in Name, Append(s, n) = Append(t, m)
      PROVE  s = t /\ n = m
  <2>1. Front(Append(t, m)) = t
    BY FrontOfAppended
  <2>2. s = t
    BY <1>2, <1>3, <2>1
  <2>3. Append(t, m)[Len(t) + 1] = m
    OBVIOUS
  <2> QED
    BY <1>1, <1>3, <2>2, <2>3
<1> QED
  BY <1>1, <1>2, <1>3

\* A child the loop reaches is a node that was not met.
LEMMA PathIsNew ==
  ASSUME ScannerInv, PathInv, FreshInv, NEW name \in Name, Meets(name)
  PROVE  /\ PathOf(name) \in Seq(Name) /\ Len(PathOf(name)) = Len(stack) + 1
         /\ Len(PathOf(name)) >= 2
         /\ PathOf(name) \notin met /\ PathOf(name) \notin DOMAIN described
         /\ \A i \in DOMAIN stack : stack[i].path # PathOf(name)
         /\ \A i \in DOMAIN stack : \A n \in Name :
              Append(stack[i].path, n) = PathOf(name) => i = Len(stack) /\ n = name
<1>1. /\ stack # << >> /\ name \notin Innermost.visited
  BY DEF Meets
<1>2. /\ Len(stack) \in Nat /\ DOMAIN stack = 1 .. Len(stack) /\ Len(stack) \in DOMAIN stack
      /\ Innermost = stack[Len(stack)]
  BY <1>1, InnermostFacts
<1>3. /\ Innermost.path \in Seq(Name) /\ Len(Innermost.path) = Len(stack)
      /\ \A i \in DOMAIN stack : stack[i].path \in Seq(Name) /\ Len(stack[i].path) = i
  BY <1>2 DEF PathInv, PathsOK
<1>4. /\ PathOf(name) \in Seq(Name) /\ Len(PathOf(name)) = Len(stack) + 1
      /\ \A t \in Seq(Name), m \in Name :
           PathOf(name) = Append(t, m) => Innermost.path = t /\ name = m
  BY <1>3, AppendedPath DEF PathOf
<1>5. Len(PathOf(name)) >= 2
  BY <1>2, <1>4
<1>6. PathOf(name) \notin met
  BY <1>1, <1>2 DEF FreshInv, PathOf
<1>7. PathOf(name) # <<TopName>>
  <2>1. Len(PathOf(name)) # Len(<<TopName>>)
    BY <1>2, <1>4
  <2> QED
    BY <2>1, Zenon
<1>8. PathOf(name) \notin DOMAIN described
  BY <1>6, <1>7 DEF FreshInv
<1>9. \A i \in DOMAIN stack : stack[i].path # PathOf(name)
  BY <1>2, <1>3, <1>4
<1>10. ASSUME NEW i \in DOMAIN stack, NEW n \in Name, Append(stack[i].path, n) = PathOf(name)
       PROVE  i = Len(stack) /\ n = name
  <2>1. stack[i].path \in Seq(Name) /\ Len(stack[i].path) = i
    BY <1>3
  <2>2. Innermost.path = stack[i].path /\ name = n
    BY <1>4, <1>10, <2>1
  <2> QED
    BY <1>3, <2>1, <2>2
<1> QED
  BY <1>4, <1>5, <1>6, <1>8, <1>9, <1>10

\* What holds of the visited children of every call, when one more is marked.
LEMMA StillVisited ==
  ASSUME ScannerInv, PathInv, FreshInv, NEW name \in Name, Meets(name),
         met' = met \cup {PathOf(name)},
         NEW g, g.path = Innermost.path, g.visited = Innermost.visited \cup {name},
         stack'[Len(stack)] = g,
         \A i \in DOMAIN stack : i # Len(stack) => stack'[i] = stack[i]
  PROVE  \A i \in DOMAIN stack :
           /\ stack'[i].path = stack[i].path
           /\ \A n \in Name : Append(stack'[i].path, n) \in met' => n \in stack'[i].visited
<1>1. /\ Len(stack) \in DOMAIN stack /\ Innermost = stack[Len(stack)]
  BY InnermostFacts DEF Meets
<1> SUFFICES ASSUME NEW i \in DOMAIN stack
             PROVE  /\ stack'[i].path = stack[i].path
                    /\ \A n \in Name : Append(stack'[i].path, n) \in met'
                                         => n \in stack'[i].visited
  OBVIOUS
<1>2. /\ stack'[i].path = stack[i].path
      /\ stack[i].visited \subseteq stack'[i].visited
      /\ i = Len(stack) => name \in stack'[i].visited
  <2>1. CASE i = Len(stack)
    BY <1>1, <2>1
  <2>2. CASE i # Len(stack)
    BY <2>2
  <2> QED
    BY <2>1, <2>2
<1>3. ASSUME NEW n \in Name, Append(stack[i].path, n) \in met'
      PROVE  n \in stack'[i].visited
  <2>1. CASE Append(stack[i].path, n) \in met
    BY <1>2, <2>1 DEF FreshInv
  <2>2. CASE Append(stack[i].path, n) = PathOf(name)
    <3>1. i = Len(stack) /\ n = name
      BY <2>2, PathIsNew
    <3> QED
      BY <1>2, <3>1
  <2> QED
    BY <1>3, <2>1, <2>2
<1> QED
  BY <1>2, <1>3

\* A node is met and at most it is described: SkipMem, RejectReg, ScanReg.
LEMMA MeetFresh ==
  ASSUME ScannerInv, PathInv, FreshInv, NEW name \in Name, Meets(name),
         stack' = Marked(name), met' = met \cup {PathOf(name)}, status' = status,
         DOMAIN described' \subseteq DOMAIN described \cup {PathOf(name)}
  PROVE  FreshInv'
<1>1. stack # << >> /\ status = "scanning"
  BY DEF Meets
<1>2. PICK g : /\ TopIs(stack', g)
               /\ g.visited = Innermost.visited \cup {name}
               /\ ChangedIn(g, Innermost, {"visited"})
  BY <1>1, MarkedTop
<1>3. g.path = Innermost.path
  BY <1>2 DEF ChangedIn, FrameFields
<1>4. /\ DOMAIN stack' = DOMAIN stack
      /\ \A i \in DOMAIN stack :
           /\ stack'[i].path = stack[i].path
           /\ \A n \in Name : Append(stack'[i].path, n) \in met' => n \in stack'[i].visited
  BY <1>2, <1>3, StillVisited DEF TopIs
<1>5. \A p \in met' : p \in Seq(Name) /\ Len(p) >= 2
  BY PathIsNew DEF FreshInv
<1>6. \A i \in DOMAIN stack : stack[i].path \notin DOMAIN described'
  BY PathIsNew DEF FreshInv
<1>7. DOMAIN described' \subseteq met' \cup {<<TopName>>}
  BY DEF FreshInv
<1> QED
  BY <1>1, <1>4, <1>5, <1>6, <1>7 DEF FreshInv

\* Nothing is met below a group before it is entered.
LEMMA EnterFresh ==
  ASSUME ScannerInv, PathInv, FreshInv, NEW name \in InstNames, NEW place, NEW type,
         EnterGroup(name, place, type)
  PROVE  FreshInv'
<1>1. /\ Meets(name) /\ met' = met \cup {PathOf(name)} /\ status' = status
      /\ described' = described /\ name \in Name /\ status = "scanning"
  BY TreeAssumption DEF EnterGroup, Meets
<1>2. PICK g : /\ stack # << >>
               /\ DOMAIN stack' = 1 .. Len(stack) + 1
               /\ stack'[Len(stack) + 1] =
                    Frame(name, PathOf(name), Joined(Innermost.joined, name), type, place)
               /\ stack'[Len(stack)] = g
               /\ \A i \in DOMAIN stack : i # Len(stack) => stack'[i] = stack[i]
               /\ g.visited = Innermost.visited \cup {name}
               /\ ChangedIn(g, Innermost, {"visited"})
  BY EnterTop
<1>3. g.path = Innermost.path
  BY <1>2 DEF ChangedIn, FrameFields
<1>4. \A i \in DOMAIN stack :
        /\ stack'[i].path = stack[i].path
        /\ \A n \in Name : Append(stack'[i].path, n) \in met' => n \in stack'[i].visited
  BY <1>1, <1>2, <1>3, StillVisited
<1>5. DOMAIN stack = 1 .. Len(stack) /\ Len(stack) \in Nat
  BY <1>2, InnermostFacts
<1>6. /\ PathOf(name) \in Seq(Name) /\ Len(PathOf(name)) >= 2
      /\ PathOf(name) \notin met /\ PathOf(name) \notin DOMAIN described
      /\ \A i \in DOMAIN stack : stack[i].path # PathOf(name)
  BY <1>1, PathIsNew
<1>7. stack'[Len(stack) + 1].path = PathOf(name)
  BY <1>2 DEF Frame
<1>8. ASSUME NEW n \in Name, Append(PathOf(name), n) \in met'
      PROVE  FALSE
  <2>1. /\ Front(Append(PathOf(name), n)) = PathOf(name)
        /\ Len(Append(PathOf(name), n)) = Len(PathOf(name)) + 1
    BY <1>6, AppendedPath
  <2>2. CASE Append(PathOf(name), n) = PathOf(name)
    BY <1>6, <2>1, <2>2
  <2>3. CASE Append(PathOf(name), n) \in met
    <3>1. PathOf(name) \in met \cup {<<TopName>>}
      BY <2>1, <2>3 DEF PathInv, MetOK
    <3>2. Len(<<TopName>>) = 1
      OBVIOUS
    <3> QED
      BY <1>6, <3>1, <3>2
  <2> QED
    BY <1>1, <1>8, <2>2, <2>3
<1>9. \A i \in DOMAIN stack' : \A n \in Name :
        Append(stack'[i].path, n) \in met' => n \in stack'[i].visited
  BY <1>2, <1>4, <1>5, <1>7, <1>8
<1>10. \A i \in DOMAIN stack' : stack'[i].path \notin DOMAIN described'
  BY <1>1, <1>2, <1>4, <1>5, <1>6, <1>7 DEF FreshInv
<1>11. /\ \A p \in met' : p \in Seq(Name) /\ Len(p) >= 2
       /\ DOMAIN described' \subseteq met' \cup {<<TopName>>}
  BY <1>1, <1>6 DEF FreshInv
<1> QED
  BY <1>1, <1>9, <1>10, <1>11 DEF FreshInv

\* The innermost call changes and nothing is met: Attach, NameConst.
LEMMA TopFresh ==
  ASSUME ScannerInv, FreshInv, NEW g, TopIs(stack', g), stack # << >>,
         g.path = Innermost.path, g.visited = Innermost.visited,
         UNCHANGED <<status, described, met>>
  PROVE  FreshInv'
<1>1. Innermost = stack[Len(stack)]
  BY DEF Innermost
<1>2. DOMAIN stack' = DOMAIN stack
  BY DEF TopIs
<1>3. ASSUME NEW i \in DOMAIN stack
      PROVE  stack'[i].path = stack[i].path /\ stack'[i].visited = stack[i].visited
  <2>1. CASE i = Len(stack)
    BY <1>1, <2>1 DEF TopIs
  <2>2. CASE i # Len(stack)
    BY <2>2 DEF TopIs
  <2> QED
    BY <2>1, <2>2
<1> QED
  BY <1>2, <1>3 DEF FreshInv

\* A finished group is described, and no longer in progress.
LEMMA FinishFresh ==
  ASSUME ScannerInv, PathInv, FreshInv, FinishGroup
  PROVE  FreshInv'
<1>1. /\ met' = met /\ DOMAIN described' = DOMAIN described \cup {Innermost.path}
      /\ status' # "idle"
  BY DEF FinishGroup, Extended
<1>2. /\ stack # << >>
      /\ DOMAIN stack' = 1 .. Len(stack) - 1
      /\ \A i \in DOMAIN stack' : i \in DOMAIN stack /\ stack'[i] = stack[i]
  BY FinishTop
<1>3. Len(stack) \in Nat /\ Len(stack) \in DOMAIN stack /\ Innermost = stack[Len(stack)]
  BY <1>2, InnermostFacts
<1>4. \A i \in DOMAIN stack : Len(stack[i].path) = i
  BY DEF PathInv, PathsOK
<1>5. \A i \in DOMAIN stack' : stack'[i].path # Innermost.path
  BY <1>2, <1>3, <1>4
<1>6. Innermost.path \in met \cup {<<TopName>>}
  BY <1>3 DEF PathInv, PathsOK
<1> QED
  BY <1>1, <1>2, <1>5, <1>6 DEF FreshInv

\* No instance is described twice.
THEOREM Freshness == Spec => []FreshInv
<1>1. Init => FreshInv
  <2> SUFFICES ASSUME Init PROVE FreshInv
    OBVIOUS
  <2>1. stack = << >> /\ described = << >> /\ met = {}
    BY DEF Init
  <2>2. DOMAIN stack = {} /\ DOMAIN described = {}
    BY <2>1, EmptyIsSeq
  <2> QED
    BY <2>1, <2>2 DEF FreshInv
<1>2. ScannerInv /\ PathInv /\ FreshInv /\ [Next]_vars => FreshInv'
  <2> SUFFICES ASSUME ScannerInv, PathInv, FreshInv, [Next]_vars
               PROVE  FreshInv'
    OBVIOUS
  <2>1. CASE RefuseBridge
    BY <2>1 DEF RefuseBridge, FreshInv
  <2>2. ASSUME NEW type \in GroupTypes, Start(type)
        PROVE  FreshInv'
    <3>1. /\ stack' = <<Frame(TopName, <<TopName>>, TopName, type, NoReturn)>>
          /\ status' = "scanning" /\ described' = described /\ met' = met
          /\ described = << >> /\ met = {}
      BY <2>2 DEF Start, FreshInv
    <3>2. DOMAIN described' = {} /\ met' = {}
      BY <3>1, EmptyIsSeq
    <3> QED
      BY <3>1, <3>2 DEF FreshInv
  <2>3. ASSUME NEW name \in InstNames, SkipMem(name)
        PROVE  FreshInv'
    BY <2>3, MeetFresh, TreeAssumption DEF SkipMem
  <2>4. ASSUME NEW name \in InstNames, NEW d \in RegDescs, RejectReg(name, d)
        PROVE  FreshInv'
    BY <2>4, MeetFresh, TreeAssumption DEF RejectReg
  <2>5. ASSUME NEW name \in InstNames, NEW place \in Places, NEW d \in RegDescs,
               ScanReg(name, place, d)
        PROVE  FreshInv'
    <3>1. DOMAIN described' = DOMAIN described \cup {PathOf(name)}
      BY <2>5 DEF ScanReg, Extended
    <3>2. /\ Meets(name) /\ stack' = Marked(name) /\ status' = status
          /\ met' = met \cup {PathOf(name)} /\ name \in Name
      BY <2>5, TreeAssumption DEF ScanReg
    <3> QED
      BY <3>1, <3>2, MeetFresh
  <2>6. ASSUME NEW name \in InstNames, NEW place \in Places, NEW type \in GroupTypes,
               EnterGroup(name, place, type)
        PROVE  FreshInv'
    BY <2>6, EnterFresh
  <2>7. CASE Attach
    <3>1. PICK g : /\ stack # << >> /\ TopIs(stack', g)
                   /\ ChangedIn(g, Innermost, {"taken", "children", "sigs", "pending", "body"})
      BY <2>7, AttachTop, Zenon
    <3>2. g.path = Innermost.path /\ g.visited = Innermost.visited
      BY <3>1 DEF ChangedIn, FrameFields
    <3>3. UNCHANGED <<status, described, met>>
      BY <2>7 DEF Attach
    <3> QED
      BY <3>1, <3>2, <3>3, TopFresh
  <2>8. CASE NameConst
    <3>1. PICK g : /\ stack # << >> /\ TopIs(stack', g)
                   /\ ChangedIn(g, Innermost, {"taken", "consts"})
      BY <2>8, NameConstTop, Zenon
    <3>2. g.path = Innermost.path /\ g.visited = Innermost.visited
      BY <3>1 DEF ChangedIn, FrameFields
    <3>3. UNCHANGED <<status, described, met>>
      BY <2>8 DEF NameConst
    <3> QED
      BY <3>1, <3>2, <3>3, TopFresh
  <2>9. CASE FinishGroup
    BY <2>9, FinishFresh
  <2>10. CASE UNCHANGED vars
    BY <2>10 DEF vars, scanVars, FreshInv
  <2> QED
    BY <2>1, <2>2, <2>3, <2>4, <2>5, <2>6, <2>7, <2>8, <2>9, <2>10 DEF Next
<1> QED
  BY <1>1, <1>2, ScannerInvariance, PathInvariance, PTL DEF Spec

----------------------------------------------------------------------------
\* A call starts with nothing attached.
LEMMA NewFormed ==
  ASSUME NEW name, NEW path, NEW joined, NEW type, NEW place
  PROVE  /\ Formed(Frame(name, path, joined, type, place))
         /\ Linked(Frame(name, path, joined, type, place))
<1> DEFINE f == Frame(name, path, joined, type, place)
<1>1. /\ f.children = << >> /\ f.sigs = << >> /\ f.body = << >>
      /\ f.pending = << >> /\ f.consts = << >> /\ f.taken = {}
  BY DEF Frame
<1> HIDE DEF f
<1>2. ChildrenFormed(f.children, f.body) /\ IsSeq(f.sigs) /\ DOMAIN f.sigs = DOMAIN f.children
  BY <1>1, EmptyIsSeq DEF ChildrenFormed
<1>3. DeferredBy(f.children, f.body, f.pending)
  <2> DEFINE run == [i \in {0} |-> << >>]
  <2>1. DOMAIN f.children = {} /\ Len(f.children) = 0 /\ f.pending = << >>
    BY <1>1, EmptyIsSeq
  <2>2. run[0] = << >>
    OBVIOUS
  <2> HIDE DEF run
  <2> QED
    BY <2>1, <2>2 DEF DeferredBy
<1>4. ConstsFormed(f.children, f.pending, f.consts)
  BY <1>1, EmptyIsSeq DEF ConstsFormed
<1>5. InstsBefore(f.children, Len(f.children) + 1) = {}
      /\ ConstsBefore(f.consts, Len(f.consts) + 1) = {}
  BY <1>1, EmptyIsSeq DEF InstsBefore, ConstsBefore
<1>6. Linked(f)
  BY <1>1, EmptyIsSeq DEF Linked
<1> QED
  BY <1>1, <1>2, <1>3, <1>4, <1>5, <1>6 DEF Formed, f

\* Attaching a child leaves the members as its rows say.
LEMMA AttachFormed ==
  ASSUME NEW f, Formed(f), f.consts = << >>, NEW child, NEW row, NEW sig,
         child = [inst |-> Mangle(row.name, f.taken), rdl |-> row.name, type |-> child.type,
                  kind |-> child.kind, place |-> row.place],
         row = [name |-> row.name, place |-> row.place, base |-> row.base,
                content |-> row.content],
         NEW g, g.consts = f.consts,
         g.taken = f.taken \cup {child.inst},
         g.children = Append(f.children, child),
         g.sigs = Append(f.sigs, sig),
         g.body = Append(f.body, row),
         g.pending = IF Defers(child, row) THEN Append(f.pending, DeferredConst(child, row))
                                           ELSE f.pending
  PROVE  Formed(g)
<1> DEFINE last == Len(f.children) + 1
<1>1. /\ IsSeq(f.children) /\ IsSeq(f.body) /\ IsSeq(f.sigs) /\ IsSeq(f.pending)
      /\ DOMAIN f.body = DOMAIN f.children /\ DOMAIN f.sigs = DOMAIN f.children
  BY DEF Formed, ChildrenFormed, ConstsFormed
<1>2. /\ Len(f.children) \in Nat /\ DOMAIN f.children = 1 .. Len(f.children)
      /\ Len(f.body) = Len(f.children) /\ Len(f.sigs) = Len(f.children)
  <2>1. /\ Len(f.children) \in Nat /\ DOMAIN f.children = 1 .. Len(f.children)
        /\ Len(f.body) \in Nat /\ DOMAIN f.body = 1 .. Len(f.body)
        /\ Len(f.sigs) \in Nat /\ DOMAIN f.sigs = 1 .. Len(f.sigs)
    BY <1>1, SeqFacts
  <2> QED
    BY <1>1, <2>1
<1>3. /\ IsSeq(g.children) /\ Len(g.children) = last
      /\ DOMAIN g.children = DOMAIN f.children \cup {last}
      /\ \A i \in DOMAIN f.children : g.children[i] = f.children[i]
      /\ g.children[last] = child
  BY <1>1, Pushed
<1>4. /\ IsSeq(g.body) /\ DOMAIN g.body = DOMAIN f.children \cup {last}
      /\ \A i \in DOMAIN f.children : g.body[i] = f.body[i]
      /\ g.body[last] = row
  BY <1>1, <1>2, Pushed
<1>5. IsSeq(g.sigs) /\ DOMAIN g.sigs = DOMAIN f.children \cup {last}
  BY <1>1, <1>2, Pushed
<1>6. f.taken = InstsBefore(f.children, last)
  <2>1. ConstsBefore(f.consts, Len(f.consts) + 1) = {}
    BY EmptyIsSeq DEF ConstsBefore
  <2> QED
    BY <2>1 DEF Formed
<1> HIDE DEF last
<1>7. last \in Nat /\ DOMAIN f.children = 1 .. last - 1
  BY <1>2 DEF last
<1>8. \A i \in DOMAIN f.children \cup {last} :
        InstsBefore(g.children, i) = InstsBefore(f.children, i)
  BY <1>3, <1>7 DEF InstsBefore
<1>9. ChildrenFormed(g.children, g.body)
  <2>1. ASSUME NEW i \in DOMAIN g.children
        PROVE  /\ g.children[i] = [inst |-> Mangle(g.body[i].name, InstsBefore(g.children, i)),
                                   rdl |-> g.body[i].name, type |-> g.children[i].type,
                                   kind |-> g.children[i].kind, place |-> g.body[i].place]
               /\ g.body[i] = [name |-> g.body[i].name, place |-> g.body[i].place,
                               base |-> g.body[i].base, content |-> g.body[i].content]
    <3>1. CASE i = last
      <4>1. /\ g.children[i] = child /\ g.body[i] = row
            /\ InstsBefore(g.children, i) = f.taken
        BY <1>3, <1>4, <1>6, <1>8, <3>1
      <4> QED
        BY <4>1, Zenon
    <3>2. CASE i \in DOMAIN f.children
      <4>1. /\ g.children[i] = f.children[i] /\ g.body[i] = f.body[i]
            /\ InstsBefore(g.children, i) = InstsBefore(f.children, i)
        BY <1>3, <1>4, <1>8, <3>2
      <4>2. /\ f.children[i] = [inst |-> Mangle(f.body[i].name, InstsBefore(f.children, i)),
                                rdl |-> f.body[i].name, type |-> f.children[i].type,
                                kind |-> f.children[i].kind, place |-> f.body[i].place]
            /\ f.body[i] = [name |-> f.body[i].name, place |-> f.body[i].place,
                            base |-> f.body[i].base, content |-> f.body[i].content]
        BY <3>2, Zenon DEF Formed, ChildrenFormed
      <4> QED
        BY <4>1, <4>2, Zenon
    <3> QED
      BY <1>3, <2>1, <3>1, <3>2
  <2> QED
    BY <1>3, <1>4, <2>1, Zenon DEF ChildrenFormed
<1>10. DeferredBy(g.children, g.body, g.pending)
  <2>1. PICK run : /\ run[0] = << >>
                   /\ \A i \in DOMAIN f.children :
                        run[i] = IF Defers(f.children[i], f.body[i])
                                   THEN Append(run[i - 1],
                                               DeferredConst(f.children[i], f.body[i]))
                                   ELSE run[i - 1]
                   /\ run[Len(f.children)] = f.pending
    BY DEF Formed, DeferredBy
  <2> DEFINE more == [i \in 0 .. last |-> IF i = last THEN g.pending ELSE run[i]]
  <2>2. /\ more[last] = g.pending
        /\ \A i \in 0 .. last - 1 : more[i] = run[i]
    BY <1>7
  <2> HIDE DEF more
  <2>3. last - 1 = Len(f.children) /\ 0 \in 0 .. last - 1 /\ last - 1 \in 0 .. last - 1
    BY <1>2, <1>7 DEF last
  <2>4. ASSUME NEW i \in DOMAIN g.children
        PROVE  more[i] = IF Defers(g.children[i], g.body[i])
                           THEN Append(more[i - 1], DeferredConst(g.children[i], g.body[i]))
                           ELSE more[i - 1]
    <3>1. CASE i = last
      <4>1. /\ g.children[i] = child /\ g.body[i] = row
            /\ more[i] = g.pending /\ more[i - 1] = f.pending
        BY <1>3, <1>4, <2>1, <2>2, <2>3, <3>1
      <4> QED
        BY <4>1, Zenon
    <3>2. CASE i \in DOMAIN f.children
      <4>1. i \in 0 .. last - 1 /\ i - 1 \in 0 .. last - 1
        BY <1>7, <3>2
      <4>2. /\ g.children[i] = f.children[i] /\ g.body[i] = f.body[i]
            /\ more[i] = run[i] /\ more[i - 1] = run[i - 1]
        BY <1>3, <1>4, <2>2, <3>2, <4>1
      <4>3. run[i] = IF Defers(f.children[i], f.body[i])
                       THEN Append(run[i - 1], DeferredConst(f.children[i], f.body[i]))
                       ELSE run[i - 1]
        BY <2>1, <3>2
      <4> QED
        BY <4>2, <4>3, Zenon
    <3> QED
      BY <1>3, <2>4, <3>1, <3>2
  <2>5. more[0] = << >>
    BY <2>1, <2>2, <2>3
  <2>6. more[Len(g.children)] = g.pending
    BY <1>3, <2>2
  <2> QED
    BY <2>4, <2>5, <2>6, Zenon DEF DeferredBy
<1>11. ConstsFormed(g.children, g.pending, g.consts)
  <2>1. IsSeq(g.pending)
    BY <1>1, Pushed
  <2>2. Len(g.pending) \in Nat
    BY <2>1, SeqFacts
  <2>3. g.consts = << >> /\ IsSeq(g.consts) /\ Len(g.consts) = 0 /\ DOMAIN g.consts = {}
    BY EmptyIsSeq
  <2> QED
    BY <2>1, <2>2, <2>3 DEF ConstsFormed
<1>12. g.taken = InstsBefore(g.children, Len(g.children) + 1)
                   \cup ConstsBefore(g.consts, Len(g.consts) + 1)
  <2>1. ConstsBefore(g.consts, Len(g.consts) + 1) = {}
    BY EmptyIsSeq DEF ConstsBefore
  <2>2. InstsBefore(g.children, Len(g.children) + 1)
          = InstsBefore(f.children, last) \cup {child.inst}
    BY <1>3, <1>7 DEF InstsBefore
  <2> QED
    BY <1>6, <2>1, <2>2
<1> QED
  BY <1>3, <1>5, <1>9, <1>10, <1>11, <1>12 DEF Formed

\* Naming a constant leaves the members as the rows say.
LEMMA ConstFormed ==
  ASSUME NEW f, Formed(f), NEW k, k = Len(f.consts) + 1, k \in DOMAIN f.pending, NEW const,
         const = [name |-> ConstName(f.pending[k].inst, f.taken),
                  width |-> f.pending[k].width, value |-> f.pending[k].value],
         NEW g, g.children = f.children, g.sigs = f.sigs, g.body = f.body,
         g.pending = f.pending,
         g.taken = f.taken \cup {const.name},
         g.consts = Append(f.consts, const)
  PROVE  Formed(g)
<1>1. IsSeq(f.pending) /\ IsSeq(f.consts)
  BY DEF Formed, ConstsFormed
<1>2. /\ Len(f.consts) \in Nat /\ DOMAIN f.consts = 1 .. k - 1
      /\ Len(f.pending) \in Nat /\ k \in 1 .. Len(f.pending)
  <2>1. /\ Len(f.consts) \in Nat /\ DOMAIN f.consts = 1 .. Len(f.consts)
        /\ Len(f.pending) \in Nat /\ DOMAIN f.pending = 1 .. Len(f.pending)
    BY <1>1, SeqFacts
  <2> QED
    BY <2>1
<1>3. /\ IsSeq(g.consts) /\ Len(g.consts) = k
      /\ DOMAIN g.consts = DOMAIN f.consts \cup {k}
      /\ \A i \in DOMAIN f.consts : g.consts[i] = f.consts[i]
      /\ g.consts[k] = const
  BY <1>1, Pushed
<1>4. f.taken = InstsBefore(f.children, Len(f.children) + 1) \cup ConstsBefore(f.consts, k)
  BY DEF Formed
<1>5. \A i \in DOMAIN f.consts \cup {k} :
        ConstsBefore(g.consts, i) = ConstsBefore(f.consts, i)
  BY <1>2, <1>3 DEF ConstsBefore
<1>6. ASSUME NEW i \in DOMAIN g.consts
      PROVE  g.consts[i] =
               [name |-> ConstName(g.pending[i].inst,
                           InstsBefore(g.children, Len(g.children) + 1)
                             \cup ConstsBefore(g.consts, i)),
                width |-> g.pending[i].width, value |-> g.pending[i].value]
  <2>1. CASE i = k
    <3>1. /\ g.consts[i] = const /\ g.pending[i] = f.pending[k]
          /\ InstsBefore(g.children, Len(g.children) + 1) \cup ConstsBefore(g.consts, i)
               = f.taken
      BY <1>3, <1>4, <1>5, <2>1
    <3> QED
      BY <3>1, Zenon
  <2>2. CASE i \in DOMAIN f.consts
    <3>1. /\ g.consts[i] = f.consts[i] /\ g.pending[i] = f.pending[i]
          /\ InstsBefore(g.children, Len(g.children) + 1) \cup ConstsBefore(g.consts, i)
               = InstsBefore(f.children, Len(f.children) + 1) \cup ConstsBefore(f.consts, i)
      BY <1>3, <1>5, <2>2
    <3>2. f.consts[i] = [name |-> ConstName(f.pending[i].inst,
                                    InstsBefore(f.children, Len(f.children) + 1)
                                      \cup ConstsBefore(f.consts, i)),
                         width |-> f.pending[i].width, value |-> f.pending[i].value]
      BY <2>2, Zenon DEF Formed, ConstsFormed
    <3> QED
      BY <3>1, <3>2, Zenon
  <2> QED
    BY <1>3, <1>6, <2>1, <2>2
<1>7. IsSeq(g.pending) /\ Len(g.consts) <= Len(g.pending)
  BY <1>1, <1>2, <1>3
<1>8. ConstsFormed(g.children, g.pending, g.consts)
  BY <1>3, <1>6, <1>7, Zenon DEF ConstsFormed
<1>9. g.taken = InstsBefore(g.children, Len(g.children) + 1)
                  \cup ConstsBefore(g.consts, Len(g.consts) + 1)
  <2>1. ConstsBefore(g.consts, Len(g.consts) + 1) = ConstsBefore(f.consts, k) \cup {const.name}
    BY <1>2, <1>3 DEF ConstsBefore
  <2> QED
    BY <1>4, <2>1
<1> QED
  BY <1>8, <1>9 DEF Formed

----------------------------------------------------------------------------
\* What was described stays described, with the type it has.
Grown ==
  \A p \in DOMAIN described : /\ p \in DOMAIN described'
                              /\ described'[p] = described[p]
                              /\ calls'[p] = calls[p]
                              /\ TypeAt(p)' = TypeAt(p)

\* The children of a group stay what they were.
LEMMA LinkedStays ==
  ASSUME Grown, NEW f, Linked(f)
  PROVE  Linked(f)'
BY DEF Grown, Linked

\* So does what a description was made from.
LEMMA FinishedStays ==
  ASSUME Grown, NEW p \in DOMAIN described, NEW f, IsFinished(p, f)
  PROVE  IsFinished(p, f)'
<1>1. Linked(f)'
  BY LinkedStays DEF IsFinished
<1>2. described'[p] = described[p] /\ calls'[p] = calls[p]
  BY DEF Grown
<1> QED
  BY <1>1, <1>2 DEF IsFinished

\* What the tree and the tables agree on, calls in progress aside.
NodesInv == /\ IndexInv /\ CallsMatch /\ ContentsOK /\ SameSignatures
            /\ DescribedFrom

\* A step that neither interns nor describes leaves the agreement.
LEMMA NodesStay ==
  ASSUME NodesInv, UNCHANGED <<tableVars, described>>
  PROVE  NodesInv' /\ Grown
<1>1. Grown
  BY DEF Grown, TypeAt, tableVars
<1>2. IndexInv'
  BY DEF NodesInv, IndexInv, LookupsRight, IndexIsComplete, CallsAreListed, ListedAreCalls,
         CallsOK, InstancesOf, tableVars
<1>3. CallsMatch' /\ ContentsOK' /\ SameSignatures'
  BY DEF NodesInv, CallsMatch, ContentsOK, SameSignatures, tableVars
<1>4. DescribedFrom'
  <2> SUFFICES ASSUME NEW p \in DOMAIN described'
               PROVE  /\ described'[p].kind = "reg" =>
                           calls'[p].sig = [type |-> described'[p].base,
                                            content |-> described'[p].content]
                      /\ described'[p].kind = "group" => \E f : IsFinished(p, f)'
    BY DEF DescribedFrom
  <2>1. p \in DOMAIN described /\ described'[p] = described[p] /\ calls'[p] = calls[p]
    BY DEF tableVars
  <2>2. ASSUME described[p].kind = "group"
        PROVE  \E f : IsFinished(p, f)'
    <3>1. PICK f : IsFinished(p, f)
      BY <2>1, <2>2 DEF NodesInv, DescribedFrom
    <3> QED
      BY <1>1, <2>1, <3>1, FinishedStays
  <2> QED
    BY <2>1, <2>2 DEF NodesInv, DescribedFrom
<1> QED
  BY <1>1, <1>2, <1>3, <1>4 DEF NodesInv

\* The content of a new instance is that of another of its kind and base name
\* exactly when their signatures are the same.
SignatureTells(path, kind, base, sig, content) ==
  \A q \in DOMAIN described :
    described[q].kind = kind /\ described[q].base = base
      => (sig = calls[q].sig <=> content = described[q].content)

\* What a new instance's signature and content come from.
ReadFrom(path, kind, base, sig, content) ==
  \/ /\ kind = "reg"
     /\ sig = [type |-> base, content |-> content]
     /\ "text" \in DOMAIN content
  \/ /\ kind = "group"
     /\ "text" \notin DOMAIN content
     /\ \E f : /\ f.path = path /\ Formed(f) /\ Linked(f)
               /\ Len(f.consts) = Len(f.pending)
               /\ sig = GroupSignature(base, f.children, f.sigs, f.consts)
               /\ content = [body |-> f.body]

\* An instance is interned and described.
AddsNode(path, kind, base, sig, content, encode) ==
  /\ Intern(kind, base, sig, path)
  /\ described' = Extended(described, path, [kind |-> kind, base |-> base,
                                             content |-> content, encode |-> encode])

\* What is known of it afterwards.
NodeIs(path, kind, base, sig, content) ==
  /\ DOMAIN described' = DOMAIN described \cup {path}
  /\ described'[path].kind = kind /\ described'[path].base = base
  /\ described'[path].content = content
  /\ calls'[path].sig = sig
  /\ TypeAt(path)' = InternedName(kind, base, sig)

\* One more instance is interned and described.
LEMMA NodeAdded ==
  ASSUME TablesInv, NodesInv, NEW kind \in Kinds, NEW base \in Name, NEW sig,
         NEW path, path \notin DOMAIN described, NEW content, NEW encode,
         AddsNode(path, kind, base, sig, content, encode),
         SignatureTells(path, kind, base, sig, content),
         ReadFrom(path, kind, base, sig, content)
  PROVE  /\ NodesInv' /\ Grown
         /\ NodeIs(path, kind, base, sig, content)
<1> USE DEF AddsNode
<1>1. path \notin DOMAIN calls
  BY DEF NodesInv, CallsMatch
<1>2. IndexInv' /\ Interned(kind, base, sig, path)
  BY <1>1, InternIndexed DEF NodesInv
<1>3. /\ DOMAIN calls' = DOMAIN calls \cup {path}
      /\ calls'[path].kind = kind /\ calls'[path].base = base /\ calls'[path].sig = sig
      /\ TypeAt(path)' = InternedName(kind, base, sig)
      /\ \A p \in DOMAIN calls : calls'[p] = calls[p] /\ TypeAt(p)' = TypeAt(p)
  BY <1>2 DEF Interned
<1>4. /\ DOMAIN described' = DOMAIN described \cup {path}
      /\ described'[path].kind = kind /\ described'[path].base = base
      /\ described'[path].content = content
      /\ \A p \in DOMAIN described : described'[p] = described[p]
  BY DEF Extended
<1>5. Grown
  BY <1>3, <1>4 DEF Grown, NodesInv, CallsMatch
<1>6. CallsMatch'
  BY <1>3, <1>4 DEF NodesInv, CallsMatch
<1>7. ContentsOK'
  BY <1>4 DEF NodesInv, ContentsOK, ReadFrom
<1>8. SameSignatures'
  <2> SUFFICES ASSUME NEW p \in DOMAIN described', NEW q \in DOMAIN described',
                      described'[p].kind = described'[q].kind,
                      described'[p].base = described'[q].base
               PROVE  calls'[p].sig = calls'[q].sig
                        <=> described'[p].content = described'[q].content
    BY DEF SameSignatures
  <2>1. CASE p \in DOMAIN described /\ q \in DOMAIN described
    <3>1. /\ described'[p] = described[p] /\ described'[q] = described[q]
          /\ calls'[p] = calls[p] /\ calls'[q] = calls[q]
      BY <1>5, <2>1 DEF Grown
    <3> QED
      BY <2>1, <3>1 DEF NodesInv, SameSignatures
  <2>2. CASE p = path /\ q = path
    BY <2>2
  <2>3. CASE p = path /\ q \in DOMAIN described
    <3>1. described'[q] = described[q] /\ calls'[q] = calls[q]
      BY <1>5, <2>3 DEF Grown
    <3> QED
      BY <1>3, <1>4, <2>3, <3>1 DEF SignatureTells
  <2>4. CASE p \in DOMAIN described /\ q = path
    <3>1. described'[p] = described[p] /\ calls'[p] = calls[p]
      BY <1>5, <2>4 DEF Grown
    <3> QED
      BY <1>3, <1>4, <2>4, <3>1 DEF SignatureTells
  <2> QED
    BY <1>4, <2>1, <2>2, <2>3, <2>4
<1>9. DescribedFrom'
  <2> SUFFICES ASSUME NEW p \in DOMAIN described'
               PROVE  /\ described'[p].kind = "reg" =>
                           calls'[p].sig = [type |-> described'[p].base,
                                            content |-> described'[p].content]
                      /\ described'[p].kind = "group" => \E f : IsFinished(p, f)'
    BY DEF DescribedFrom
  <2>1. CASE p \in DOMAIN described
    <3>1. described'[p] = described[p] /\ calls'[p] = calls[p]
      BY <1>5, <2>1 DEF Grown
    <3>2. ASSUME described[p].kind = "group"
          PROVE  \E f : IsFinished(p, f)'
      <4>1. PICK f : IsFinished(p, f)
        BY <2>1, <3>2 DEF NodesInv, DescribedFrom
      <4> QED
        BY <1>5, <2>1, <4>1, FinishedStays
    <3> QED
      BY <2>1, <3>1, <3>2 DEF NodesInv, DescribedFrom
  <2>2. CASE p = path
    <3>1. ASSUME kind = "group"
          PROVE  \E f : IsFinished(p, f)'
      <4>1. PICK f : /\ f.path = path /\ Formed(f) /\ Linked(f)
                     /\ Len(f.consts) = Len(f.pending)
                     /\ sig = GroupSignature(base, f.children, f.sigs, f.consts)
                     /\ content = [body |-> f.body]
        BY <3>1 DEF ReadFrom
      <4>2. Linked(f)'
        BY <1>5, <4>1, LinkedStays
      <4>3. IsFinished(p, f)'
        BY <1>3, <1>4, <2>2, <4>1, <4>2 DEF IsFinished
      <4> QED
        BY <4>3
    <3> QED
      BY <1>3, <1>4, <2>2, <3>1 DEF ReadFrom
  <2> QED
    BY <1>4, <2>1, <2>2
<1> QED
  BY <1>2, <1>3, <1>4, <1>5, <1>6, <1>7, <1>8, <1>9 DEF NodesInv, NodeIs

\* The tree scanned so far and the tables agree.
TreeInv == NodesInv /\ FramesFormed /\ ReturnLinked

\* Marking a child as met leaves what each call has attached.
LEMMA MarkedFormed ==
  ASSUME ScannerInv, FramesFormed, Grown, stack # << >>, NEW name, stack' = Marked(name)
  PROVE  /\ FramesFormed'
         /\ stack' # << >> /\ Innermost'.path = Innermost.path
<1>1. PICK g : TopIs(stack', g) /\ ChangedIn(g, Innermost, {"visited"})
  BY MarkedTop
<1>2. /\ Len(stack) \in DOMAIN stack /\ Innermost = stack[Len(stack)]
  BY InnermostFacts
<1>3. /\ stack' # << >> /\ Len(stack') = Len(stack) /\ DOMAIN stack' = DOMAIN stack
      /\ stack'[Len(stack)] = g
      /\ \A i \in DOMAIN stack : i # Len(stack) => stack'[i] = stack[i]
  BY <1>1 DEF TopIs
<1>4. /\ g.path = Innermost.path /\ g.taken = Innermost.taken
      /\ g.children = Innermost.children /\ g.sigs = Innermost.sigs
      /\ g.body = Innermost.body /\ g.pending = Innermost.pending
      /\ g.consts = Innermost.consts
  BY <1>1 DEF ChangedIn, FrameFields
<1>5. Formed(g) /\ Linked(g)
  <2>1. Formed(Innermost) /\ Linked(Innermost)
    BY <1>2 DEF FramesFormed
  <2>2. PICK f : f = Innermost
    OBVIOUS
  <2> QED
    BY <1>4, <2>1, <2>2 DEF Formed, Linked
<1>6. ASSUME NEW i \in DOMAIN stack'
      PROVE  Formed(stack'[i]) /\ Linked(stack[i])'
  <2>1. PICK f : f = stack'[i] /\ Formed(f) /\ Linked(f)
    BY <1>3, <1>5 DEF FramesFormed
  <2>2. Linked(f)'
    BY <2>1, LinkedStays
  <2> QED
    BY <2>1, <2>2 DEF Linked
<1>7. FramesFormed'
  BY <1>6 DEF FramesFormed, Formed
<1>8. Innermost'.path = Innermost.path
  BY <1>3, <1>4 DEF Innermost
<1> QED
  BY <1>3, <1>7, <1>8

\* A register is interned and described as it was read.
LEMMA ScanRegTree ==
  ASSUME ScannerInv, PathInv, FreshInv, TreeInv,
         NEW name \in InstNames, NEW place \in Places, NEW d \in RegDescs,
         ScanReg(name, place, d)
  PROVE  TreeInv' /\ Grown
<1>1. PICK path : path = PathOf(name)
  OBVIOUS
<1> DEFINE base == BaseTypeName(d.type, Joined(Innermost.joined, name))
           content == RegContent(d)
           sig == RegSignature(base, d)
<1>2. /\ Meets(name) /\ stack' = Marked(name) /\ name \in Name /\ stack # << >>
      /\ Intern("reg", base, sig, path)
      /\ ret' = [name |-> name, place |-> place, kind |-> "reg", base |-> base, sig |-> sig,
                 type |-> InternedName("reg", base, sig), content |-> content]
      /\ described' = Extended(described, path, [kind |-> "reg", base |-> base,
                                                 content |-> content, encode |-> d.encode])
  BY <1>1, TreeAssumption DEF ScanReg, Meets
<1>3. base \in Name
  <2>1. FrameOK(Innermost)
    BY <1>2, InnermostFacts
  <2>2. Joined(Innermost.joined, name) \in Name
    BY <1>2, <2>1, JoinedIsName DEF FrameOK
  <2> QED
    BY <2>2, BaseTypeNameIsName, TreeAssumption
<1>4. path \notin DOMAIN described
  BY <1>1, <1>2, PathIsNew
<1>5. sig = [type |-> base, content |-> content] /\ "text" \in DOMAIN content
  BY DEF RegSignature, RegContent
<1> HIDE DEF base, content, sig
<1>6. SignatureTells(path, "reg", base, sig, content)
  <2> SUFFICES ASSUME NEW q \in DOMAIN described,
                      described[q].kind = "reg", described[q].base = base
               PROVE  sig = calls[q].sig <=> content = described[q].content
    BY DEF SignatureTells
  <2>1. calls[q].sig = [type |-> base, content |-> described[q].content]
    BY DEF TreeInv, NodesInv, DescribedFrom
  <2> QED
    BY <1>5, <2>1
<1>7. /\ NodesInv' /\ Grown
      /\ path \in DOMAIN described'
      /\ described'[path].kind = "reg" /\ described'[path].base = base
      /\ described'[path].content = content
      /\ calls'[path].sig = sig
      /\ TypeAt(path)' = InternedName("reg", base, sig)
  <2>1. TablesInv /\ NodesInv /\ "reg" \in Kinds /\ ReadFrom(path, "reg", base, sig, content)
    BY <1>5 DEF TreeInv, ScannerInv, Kinds, ReadFrom
  <2>2. AddsNode(path, "reg", base, sig, content, d.encode)
    BY <1>2 DEF AddsNode
  <2>3. NodesInv' /\ Grown /\ NodeIs(path, "reg", base, sig, content)
    BY <1>3, <1>4, <1>6, <2>1, <2>2, NodeAdded
  <2> QED
    BY <2>3 DEF NodeIs
<1>8. FramesFormed' /\ Innermost'.path = Innermost.path
  BY <1>2, <1>7, MarkedFormed DEF TreeInv
<1>9. ReturnLinked'
  <2>1. PathOf(ret.name)' = path
    BY <1>1, <1>2, <1>8 DEF PathOf
  <2>2. TypeAt(PathOf(ret.name))' = TypeAt(path)'
    BY <2>1 DEF TypeAt
  <2>3. /\ ret'.kind = "reg" /\ ret'.base = base /\ ret'.content = content
        /\ ret'.sig = sig /\ ret'.type = InternedName("reg", base, sig)
    BY <1>2
  <2> QED
    BY <1>7, <2>1, <2>2, <2>3 DEF ReturnLinked
<1> QED
  BY <1>7, <1>8, <1>9 DEF TreeInv

\* A group in progress is entered below one.
LEMMA EnterTree ==
  ASSUME ScannerInv, TreeInv, NEW name \in InstNames, NEW place, NEW type,
         EnterGroup(name, place, type)
  PROVE  TreeInv' /\ Grown
<1>1. PICK g : /\ stack # << >> /\ ret' = NoReturn
               /\ DOMAIN stack' = 1 .. Len(stack) + 1
               /\ stack'[Len(stack) + 1] =
                    Frame(name, PathOf(name), Joined(Innermost.joined, name), type, place)
               /\ stack'[Len(stack)] = g
               /\ \A i \in DOMAIN stack : i # Len(stack) => stack'[i] = stack[i]
               /\ ChangedIn(g, Innermost, {"visited"})
  BY EnterTop
<1>2. NodesInv' /\ Grown
  BY NodesStay DEF TreeInv, EnterGroup
<1>3. /\ Len(stack) \in DOMAIN stack /\ Innermost = stack[Len(stack)]
      /\ DOMAIN stack = 1 .. Len(stack) /\ Len(stack) \in Nat
  BY <1>1, InnermostFacts
<1>4. /\ g.path = Innermost.path /\ g.taken = Innermost.taken
      /\ g.children = Innermost.children /\ g.sigs = Innermost.sigs
      /\ g.body = Innermost.body /\ g.pending = Innermost.pending
      /\ g.consts = Innermost.consts
  BY <1>1 DEF ChangedIn, FrameFields
<1>5. Formed(g) /\ Linked(g)
  <2>1. Formed(Innermost) /\ Linked(Innermost)
    BY <1>3 DEF TreeInv, FramesFormed
  <2>2. PICK f : f = Innermost
    OBVIOUS
  <2> QED
    BY <1>4, <2>1, <2>2 DEF Formed, Linked
<1>6. PICK new : /\ new = Frame(name, PathOf(name), Joined(Innermost.joined, name), type, place)
                 /\ Formed(new) /\ Linked(new)
  BY NewFormed
<1>7. ASSUME NEW i \in DOMAIN stack'
      PROVE  Formed(stack'[i]) /\ Linked(stack[i])'
  <2>1. PICK f : f = stack'[i] /\ Formed(f) /\ Linked(f)
    <3>1. CASE i = Len(stack) + 1
      BY <1>1, <1>6, <3>1
    <3>2. CASE i = Len(stack)
      BY <1>1, <1>5, <3>2
    <3>3. CASE i \in DOMAIN stack /\ i # Len(stack)
      BY <1>1, <3>3 DEF TreeInv, FramesFormed
    <3> QED
      BY <1>1, <1>3, <1>7, <3>1, <3>2, <3>3
  <2>2. Linked(f)'
    BY <1>2, <2>1, LinkedStays
  <2> QED
    BY <2>1, <2>2 DEF Linked
<1>8. FramesFormed'
  BY <1>7 DEF FramesFormed, Formed
<1>9. ReturnLinked'
  BY <1>1 DEF ReturnLinked
<1> QED
  BY <1>2, <1>8, <1>9 DEF TreeInv

\* The innermost call changes and nothing is interned: Attach, NameConst.
LEMMA TopTree ==
  ASSUME ScannerInv, TreeInv, UNCHANGED <<tableVars, described>>, stack # << >>,
         NEW g, TopIs(stack', g), Formed(g), Linked(g), ret' = NoReturn
  PROVE  TreeInv' /\ Grown
<1>1. NodesInv' /\ Grown
  BY NodesStay DEF TreeInv
<1>2. ASSUME NEW i \in DOMAIN stack'
      PROVE  Formed(stack'[i]) /\ Linked(stack[i])'
  <2>1. PICK f : f = stack'[i] /\ Formed(f) /\ Linked(f)
    BY DEF TopIs, TreeInv, FramesFormed
  <2>2. Linked(f)'
    BY <1>1, <2>1, LinkedStays
  <2> QED
    BY <2>1, <2>2 DEF Linked
<1>3. FramesFormed'
  BY <1>2 DEF FramesFormed, Formed
<1>4. ReturnLinked'
  BY DEF ReturnLinked
<1> QED
  BY <1>1, <1>3, <1>4 DEF TreeInv

\* The child that is attached is the one that was returned.
LEMMA AttachTree ==
  ASSUME ScannerInv, TreeInv, Attach
  PROVE  TreeInv' /\ Grown
<1>1. PICK child, row, g :
           /\ stack # << >> /\ Innermost.consts = << >> /\ ret.name \in Name
           /\ ret # NoReturn /\ ret' = NoReturn
           /\ child = [inst |-> Mangle(ret.name, Innermost.taken), rdl |-> ret.name,
                       type |-> ret.type, kind |-> ret.kind, place |-> ret.place]
           /\ row = [name |-> ret.name, place |-> ret.place,
                     base |-> ret.base, content |-> ret.content]
           /\ TopIs(stack', g)
           /\ ChangedIn(g, Innermost, {"taken", "children", "sigs", "pending", "body"})
           /\ g.taken = Innermost.taken \cup {child.inst}
           /\ g.children = Append(Innermost.children, child)
           /\ g.sigs = Append(Innermost.sigs, ret.sig)
           /\ g.body = Append(Innermost.body, row)
           /\ g.pending = IF Defers(child, row)
                            THEN Append(Innermost.pending, DeferredConst(child, row))
                            ELSE Innermost.pending
  BY AttachTop
<1>2. PICK f : f = Innermost /\ Formed(f) /\ Linked(f)
  BY <1>1, InnermostFacts DEF TreeInv, FramesFormed
<1>3. g.consts = f.consts /\ g.path = f.path
  BY <1>1, <1>2 DEF ChangedIn, FrameFields
<1>4. /\ child.type = ret.type /\ child.kind = ret.kind
      /\ row.name = ret.name /\ row.base = ret.base /\ row.content = ret.content
      /\ row.place = ret.place
  BY <1>1
<1>5. Formed(g)
  <2>1. child = [inst |-> Mangle(row.name, f.taken), rdl |-> row.name, type |-> child.type,
                 kind |-> child.kind, place |-> row.place]
    BY <1>1, <1>2, <1>4, Zenon
  <2>2. row = [name |-> row.name, place |-> row.place, base |-> row.base,
               content |-> row.content]
    BY <1>1, <1>4, Zenon
  <2>3. /\ g.taken = f.taken \cup {child.inst}
        /\ g.children = Append(f.children, child)
        /\ g.sigs = Append(f.sigs, ret.sig)
        /\ g.body = Append(f.body, row)
        /\ g.pending = IF Defers(child, row) THEN Append(f.pending, DeferredConst(child, row))
                                             ELSE f.pending
    BY <1>1, <1>2, Zenon
  <2>4. f.consts = << >>
    BY <1>1, <1>2
  <2> QED
    BY <1>2, <1>3, <2>1, <2>2, <2>3, <2>4, AttachFormed, Zenon
<1>6. Linked(g)
  <2> DEFINE last == Len(f.children) + 1
  <2>1. /\ IsSeq(f.children) /\ IsSeq(f.body) /\ IsSeq(f.sigs)
        /\ DOMAIN f.body = DOMAIN f.children /\ DOMAIN f.sigs = DOMAIN f.children
    BY <1>2 DEF Formed, ChildrenFormed
  <2>2. Len(f.body) = Len(f.children) /\ Len(f.sigs) = Len(f.children)
    <3>1. /\ Len(f.children) \in Nat /\ DOMAIN f.children = 1 .. Len(f.children)
          /\ Len(f.body) \in Nat /\ DOMAIN f.body = 1 .. Len(f.body)
          /\ Len(f.sigs) \in Nat /\ DOMAIN f.sigs = 1 .. Len(f.sigs)
      BY <2>1, SeqFacts
    <3> QED
      BY <2>1, <3>1
  <2>3. /\ DOMAIN g.children = DOMAIN f.children \cup {last}
        /\ \A i \in DOMAIN f.children : g.children[i] = f.children[i]
        /\ g.children[last] = child
    BY <1>1, <1>2, <2>1, Pushed
  <2>4. /\ \A i \in DOMAIN f.children : g.body[i] = f.body[i]
        /\ g.body[last] = row
    BY <1>1, <1>2, <2>1, <2>2, Pushed
  <2>5. /\ \A i \in DOMAIN f.children : g.sigs[i] = f.sigs[i]
        /\ g.sigs[last] = ret.sig
    BY <1>1, <1>2, <2>1, <2>2, Pushed
  <2> HIDE DEF last
  <2>6. /\ PathOf(ret.name) = Append(g.path, row.name)
        /\ PathOf(ret.name) \in DOMAIN described
        /\ described[PathOf(ret.name)].kind = child.kind
        /\ described[PathOf(ret.name)].base = row.base
        /\ described[PathOf(ret.name)].content = row.content
        /\ calls[PathOf(ret.name)].sig = ret.sig
        /\ TypeAt(PathOf(ret.name)) = child.type
    <3>1. PathOf(ret.name) = Append(g.path, row.name)
      BY <1>2, <1>3, <1>4 DEF PathOf
    <3> QED
      BY <1>1, <1>4, <3>1 DEF TreeInv, ReturnLinked
  <2>7. ASSUME NEW i \in DOMAIN g.children
        PROVE  LET c == Append(g.path, g.body[i].name) IN
               /\ c \in DOMAIN described
               /\ described[c].kind = g.children[i].kind
               /\ described[c].base = g.body[i].base
               /\ described[c].content = g.body[i].content
               /\ calls[c].sig = g.sigs[i]
               /\ TypeAt(c) = g.children[i].type
    <3>1. CASE i = last
      <4>1. g.children[i] = child /\ g.body[i] = row /\ g.sigs[i] = ret.sig
        BY <2>3, <2>4, <2>5, <3>1
      <4> QED
        BY <2>6, <4>1, Zenon
    <3>2. CASE i \in DOMAIN f.children
      <4>1. /\ g.children[i] = f.children[i] /\ g.body[i] = f.body[i]
            /\ g.sigs[i] = f.sigs[i]
        BY <2>3, <2>4, <2>5, <3>2
      <4> QED
        BY <1>2, <1>3, <3>2, <4>1 DEF Linked
    <3> QED
      BY <2>3, <2>7, <3>1, <3>2
  <2> QED
    BY <2>7, Zenon DEF Linked
<1> QED
  BY <1>1, <1>5, <1>6, TopTree DEF Attach

\* A constant is named and the children stay.
LEMMA NameConstTree ==
  ASSUME ScannerInv, TreeInv, NameConst
  PROVE  TreeInv' /\ Grown
<1>1. PICK k, const, g :
           /\ stack # << >> /\ ret' = NoReturn
           /\ k = Len(Innermost.consts) + 1 /\ k \in DOMAIN Innermost.pending
           /\ const = [name |-> ConstName(Innermost.pending[k].inst, Innermost.taken),
                       width |-> Innermost.pending[k].width,
                       value |-> Innermost.pending[k].value]
           /\ TopIs(stack', g)
           /\ ChangedIn(g, Innermost, {"taken", "consts"})
           /\ g.taken = Innermost.taken \cup {const.name}
           /\ g.consts = Append(Innermost.consts, const)
  BY NameConstTop
<1>2. PICK f : f = Innermost /\ Formed(f) /\ Linked(f)
  BY <1>1, InnermostFacts DEF TreeInv, FramesFormed
<1>3. /\ g.path = f.path /\ g.children = f.children /\ g.sigs = f.sigs
      /\ g.body = f.body /\ g.pending = f.pending
  BY <1>1, <1>2 DEF ChangedIn, FrameFields
<1>4. Formed(g)
  <2>1. /\ k = Len(f.consts) + 1 /\ k \in DOMAIN f.pending
        /\ const = [name |-> ConstName(f.pending[k].inst, f.taken),
                    width |-> f.pending[k].width, value |-> f.pending[k].value]
        /\ g.taken = f.taken \cup {const.name}
        /\ g.consts = Append(f.consts, const)
    BY <1>1, <1>2, Zenon
  <2> QED
    BY <1>2, <1>3, <2>1, ConstFormed, Zenon
<1>5. Linked(g)
  BY <1>2, <1>3 DEF Linked
<1> QED
  BY <1>1, <1>4, <1>5, TopTree DEF NameConst

\* A finished group's signature tells its content from those of other groups.
LEMMA GroupTells ==
  ASSUME NodesInv, NEW f, Formed(f), Linked(f), Len(f.consts) = Len(f.pending), NEW base
  PROVE  SignatureTells(f.path, "group", base,
                        GroupSignature(base, f.children, f.sigs, f.consts),
                        [body |-> f.body])
<1> DEFINE sig == GroupSignature(base, f.children, f.sigs, f.consts)
           content == [body |-> f.body]
<1> SUFFICES ASSUME NEW q \in DOMAIN described,
                    described[q].kind = "group", described[q].base = base
             PROVE  sig = calls[q].sig <=> content = described[q].content
  BY DEF SignatureTells
<1>1. PICK g : IsFinished(q, g)
  BY DEF NodesInv, DescribedFrom
<1>2. /\ Formed(g) /\ Linked(g) /\ Len(g.consts) = Len(g.pending)
      /\ calls[q].sig = GroupSignature(base, g.children, g.sigs, g.consts)
      /\ described[q].content = [body |-> g.body]
  BY <1>1 DEF IsFinished, NodesInv, CallsMatch
<1>3. ASSUME sig = calls[q].sig
      PROVE  content = described[q].content
  <2>1. f.children = g.children
    BY <1>2, <1>3 DEF GroupSignature
  <2>2. f.body = g.body
    BY <1>2, <2>1, SameBodies DEF NodesInv
  <2> QED
    BY <1>2, <2>2
<1>4. ASSUME content = described[q].content
      PROVE  sig = calls[q].sig
  <2>1. f.body = g.body
    BY <1>2, <1>4
  <2>2. f.children = g.children /\ f.sigs = g.sigs
    BY <1>2, <2>1, SameChildren DEF NodesInv
  <2>3. f.pending = g.pending
    <3>1. /\ DeferredBy(f.children, f.body, f.pending)
          /\ DeferredBy(f.children, f.body, g.pending)
          /\ IsSeq(f.children)
      BY <1>2, <2>1, <2>2 DEF Formed, ChildrenFormed
    <3> QED
      BY <3>1, SamePending
  <2>4. f.consts = g.consts
    <3>1. /\ ConstsFormed(f.children, f.pending, f.consts)
          /\ ConstsFormed(f.children, f.pending, g.consts)
          /\ Len(f.consts) = Len(g.consts)
      BY <1>2, <2>2, <2>3 DEF Formed
    <3> QED
      BY <3>1, SameConsts
  <2> QED
    BY <1>2, <2>2, <2>4
<1> QED
  BY <1>3, <1>4

\* A group is interned and described when it is complete.
LEMMA FinishTree ==
  ASSUME ScannerInv, PathInv, FreshInv, TreeInv, FinishGroup
  PROVE  TreeInv' /\ Grown
<1>1. PICK f : f = Innermost
  OBVIOUS
<1> DEFINE base == BaseTypeName(f.type, f.joined)
           sig == GroupSignature(base, f.children, f.sigs, f.consts)
           content == [body |-> f.body]
<1>2. /\ stack # << >> /\ Len(f.consts) = Len(f.pending)
      /\ Intern("group", base, sig, f.path)
      /\ described' = Extended(described, f.path, [kind |-> "group", base |-> base,
                                                   content |-> content, encode |-> NoEncode])
  BY <1>1 DEF FinishGroup
<1>3. \/ ret' = NoReturn
      \/ /\ Len(stack) # 1
         /\ ret' = [name |-> f.name, place |-> f.place, kind |-> "group",
                    base |-> base, sig |-> sig,
                    type |-> InternedName("group", base, sig), content |-> content]
  BY <1>1 DEF FinishGroup
<1>4. /\ Len(stack) \in Nat /\ Len(stack) \in DOMAIN stack /\ f = stack[Len(stack)]
      /\ FrameOK(f)
  BY <1>1, <1>2, InnermostFacts
<1>5. Formed(f) /\ Linked(f) /\ f.path \notin DOMAIN described
  BY <1>4 DEF TreeInv, FramesFormed, FreshInv
<1>6. base \in Name
  BY <1>4, BaseTypeNameIsName DEF FrameOK
<1>7. /\ sig = GroupSignature(base, f.children, f.sigs, f.consts)
      /\ content = [body |-> f.body] /\ "text" \notin DOMAIN content
  OBVIOUS
<1>8. SignatureTells(f.path, "group", base, sig, content)
  BY <1>2, <1>5, GroupTells DEF TreeInv
<1> HIDE DEF base, sig, content
<1>9. /\ NodesInv' /\ Grown
      /\ f.path \in DOMAIN described'
      /\ described'[f.path].kind = "group" /\ described'[f.path].base = base
      /\ described'[f.path].content = content
      /\ calls'[f.path].sig = sig
      /\ TypeAt(f.path)' = InternedName("group", base, sig)
  <2>1. \E h : /\ h.path = f.path /\ Formed(h) /\ Linked(h)
               /\ Len(h.consts) = Len(h.pending)
               /\ sig = GroupSignature(base, h.children, h.sigs, h.consts)
               /\ content = [body |-> h.body]
    BY <1>2, <1>5, <1>7
  <2> QED
    <3>1. TablesInv /\ NodesInv /\ "group" \in Kinds
      BY DEF TreeInv, ScannerInv, Kinds
    <3>2. ReadFrom(f.path, "group", base, sig, content)
      BY <1>7, <2>1 DEF ReadFrom
    <3>3. AddsNode(f.path, "group", base, sig, content, NoEncode)
      BY <1>2 DEF AddsNode
    <3>4. NodesInv' /\ Grown /\ NodeIs(f.path, "group", base, sig, content)
      BY <1>5, <1>6, <1>8, <3>1, <3>2, <3>3, NodeAdded
    <3> QED
      BY <3>4 DEF NodeIs
<1>10. /\ DOMAIN stack' = 1 .. Len(stack) - 1
       /\ \A i \in DOMAIN stack' : i \in DOMAIN stack /\ stack'[i] = stack[i]
       /\ Len(stack) # 1 => stack' # << >> /\ Len(stack') = Len(stack) - 1
  BY FinishTop
<1>11. FramesFormed'
  <2>1. ASSUME NEW i \in DOMAIN stack'
        PROVE  Formed(stack'[i]) /\ Linked(stack[i])'
    <3>1. PICK h : h = stack'[i] /\ Formed(h) /\ Linked(h)
      BY <1>10, <2>1 DEF TreeInv, FramesFormed
    <3>2. Linked(h)'
      BY <1>9, <3>1, LinkedStays
    <3> QED
      BY <3>1, <3>2 DEF Linked
  <2> QED
    BY <2>1 DEF FramesFormed, Formed
<1>12. ReturnLinked'
  <2>1. CASE ret' = NoReturn
    BY <2>1 DEF ReturnLinked
  <2>2. CASE ret' # NoReturn
    <3>1. /\ Len(stack) # 1 /\ ret'.name = f.name
          /\ ret'.kind = "group" /\ ret'.base = base /\ ret'.content = content
          /\ ret'.sig = sig /\ ret'.type = InternedName("group", base, sig)
      BY <1>3, <2>2
    <3>2. Innermost' = stack[Len(stack) - 1]
      BY <1>4, <1>10, <3>1 DEF Innermost
    <3>3. PathOf(ret.name)' = f.path
      BY <1>4, <3>1, <3>2 DEF PathOf, PathInv, PathsOK
    <3>4. TypeAt(PathOf(ret.name))' = TypeAt(f.path)'
      BY <3>3 DEF TypeAt
    <3> QED
      BY <1>9, <3>1, <3>3, <3>4 DEF ReturnLinked
  <2> QED
    BY <2>1, <2>2
<1> QED
  BY <1>9, <1>11, <1>12 DEF TreeInv

\* The tables agree with the tree, call by call, in every reachable state.
LEMMA TreeStep ==
  ASSUME ScannerInv, IdleOK, PathInv, FreshInv, TreeInv, [Next]_vars
  PROVE  TreeInv' /\ Grown
<1>1. ASSUME UNCHANGED <<tableVars, described>>, stack' = stack, ret' = ret
      PROVE  TreeInv' /\ Grown
  <2>1. NodesInv' /\ Grown
    BY <1>1, NodesStay DEF TreeInv
  <2>2. FramesFormed'
    BY <1>1 DEF TreeInv, FramesFormed, Formed, Linked, TypeAt, tableVars
  <2>3. ReturnLinked'
    BY <1>1 DEF TreeInv, ReturnLinked, PathOf, Innermost, TypeAt, tableVars
  <2> QED
    BY <2>1, <2>2, <2>3 DEF TreeInv
<1>2. ASSUME NEW name \in Name, stack # << >>, stack' = Marked(name), ret' = NoReturn,
             UNCHANGED <<tableVars, described>>
      PROVE  TreeInv' /\ Grown
  <2>1. NodesInv' /\ Grown
    BY <1>2, NodesStay DEF TreeInv
  <2>2. FramesFormed'
    BY <1>2, <2>1, MarkedFormed DEF TreeInv
  <2>3. ReturnLinked'
    BY <1>2 DEF ReturnLinked
  <2> QED
    BY <2>1, <2>2, <2>3 DEF TreeInv
<1>3. CASE RefuseBridge
  BY <1>1, <1>3 DEF RefuseBridge
<1>4. ASSUME NEW type \in GroupTypes, Start(type)
      PROVE  TreeInv' /\ Grown
  <2>1. PICK f : f = Frame(TopName, <<TopName>>, TopName, type, NoReturn)
                 /\ Formed(f) /\ Linked(f)
    BY NewFormed
  <2>2. NodesInv' /\ Grown
    BY <1>4, NodesStay DEF TreeInv, Start
  <2>3. Linked(f)'
    BY <2>1, <2>2, LinkedStays
  <2>4. DOMAIN stack' = {1} /\ stack'[1] = f /\ ret' = NoReturn
    BY <1>4, <2>1 DEF Start, IdleOK
  <2>5. FramesFormed'
    <3> SUFFICES ASSUME NEW i \in DOMAIN stack'
                 PROVE  Formed(stack'[i]) /\ Linked(stack[i])'
      BY DEF FramesFormed, Formed
    <3>1. i = 1 /\ stack'[i] = f
      BY <2>4
    <3> QED
      BY <2>1, <2>3, <3>1 DEF Linked
  <2>6. ReturnLinked'
    BY <2>4 DEF ReturnLinked
  <2> QED
    BY <2>2, <2>5, <2>6 DEF TreeInv
<1>5. ASSUME NEW name \in InstNames, SkipMem(name)
      PROVE  TreeInv' /\ Grown
  BY <1>2, <1>5, TreeAssumption DEF SkipMem, Meets
<1>6. ASSUME NEW name \in InstNames, NEW d \in RegDescs, RejectReg(name, d)
      PROVE  TreeInv' /\ Grown
  BY <1>2, <1>6, TreeAssumption DEF RejectReg, Meets
<1>7. ASSUME NEW name \in InstNames, NEW place \in Places, NEW d \in RegDescs,
             ScanReg(name, place, d)
      PROVE  TreeInv' /\ Grown
  BY <1>7, ScanRegTree
<1>8. ASSUME NEW name \in InstNames, NEW place \in Places, NEW type \in GroupTypes,
             EnterGroup(name, place, type)
      PROVE  TreeInv' /\ Grown
  BY <1>8, EnterTree
<1>9. CASE Attach
  BY <1>9, AttachTree
<1>10. CASE NameConst
  BY <1>10, NameConstTree
<1>11. CASE FinishGroup
  BY <1>11, FinishTree
<1>12. CASE UNCHANGED vars
  BY <1>1, <1>12 DEF vars, scanVars
<1> QED
  BY <1>3, <1>4, <1>5, <1>6, <1>7, <1>8, <1>9, <1>10, <1>11, <1>12 DEF Next

\* The scan starts with nothing described.
LEMMA TreeStart ==
  ASSUME Init
  PROVE  TreeInv
<1>1. /\ index = [k \in Kinds |-> << >>] /\ byName = << >> /\ calls = << >>
      /\ described = << >> /\ stack = << >> /\ ret = NoReturn
  BY DEF Init, TableInit
<1>2. /\ \A k \in Kinds : DOMAIN index[k] = {}
      /\ DOMAIN byName = {} /\ DOMAIN calls = {} /\ DOMAIN described = {} /\ DOMAIN stack = {}
  BY <1>1, EmptyIsSeq
<1>3. IndexInv
  BY <1>2 DEF IndexInv, LookupsRight, IndexIsComplete, CallsAreListed, ListedAreCalls, CallsOK
<1>4. CallsMatch /\ ContentsOK /\ SameSignatures /\ DescribedFrom
  BY <1>2 DEF CallsMatch, ContentsOK, SameSignatures, DescribedFrom
<1>5. FramesFormed /\ ReturnLinked
  BY <1>1, <1>2 DEF FramesFormed, ReturnLinked
<1> QED
  BY <1>3, <1>4, <1>5 DEF TreeInv, NodesInv

\* What was scanned and what the tables say of it agree in every reachable state.
THEOREM TreeInvariance == Spec => []TreeInv
<1>1. Init => TreeInv
  BY TreeStart
<1>2. ScannerInv /\ IdleOK /\ PathInv /\ FreshInv /\ TreeInv /\ [Next]_vars => TreeInv'
  BY TreeStep
<1> QED
  BY <1>1, <1>2, ScannerInvariance, PathInvariance, Freshness, PTL DEF Spec

----------------------------------------------------------------------------
\* The type of an instance is the one its call finds.
TypesKnown == \A p \in DOMAIN calls : TypeOf(p) = TypeAt(p)

\* Two instances have the same type exactly when they are described the same.
TypesTell ==
  \A p, q \in DOMAIN described :
    TypeAt(p) = TypeAt(q) <=> /\ described[p].kind = described[q].kind
                              /\ described[p].base = described[q].base
                              /\ described[p].content = described[q].content

\* Both follow from the invariant.
LEMMA TreeTypes == NodesInv => TypesKnown /\ TypesTell
<1> SUFFICES ASSUME NodesInv PROVE TypesKnown /\ TypesTell
  OBVIOUS
<1>1. TypesKnown
  BY TypeOfIsTypeAt DEF NodesInv, TypesKnown
<1>2. TypesTell
  BY SameRows DEF NodesInv, TypesTell
<1> QED
  BY <1>1, <1>2

\* One more instance described is one more given a type, its equals' or a new one.
LEMMA AddedIsAssigned ==
  ASSUME NodesInv, NodesInv', TypesKnown, TypesKnown', Grown,
         TypesTell', NEW path, path \notin DOMAIN described,
         DOMAIN described' = DOMAIN described \cup {path}
  PROVE  ScannedSharing!Next
<1> DEFINE d == [p \in DOMAIN described |-> [kind |-> described[p].kind,
                                            base |-> described[p].base,
                                            content |-> described[p].content]]
           t == [p \in DOMAIN calls |-> TypeOf(p)]
<1>1. DOMAIN calls = DOMAIN described /\ DOMAIN calls' = DOMAIN described'
  BY DEF NodesInv, CallsMatch
<1>2. path \in DOMAIN described' /\ \A q \in DOMAIN described : q \in DOMAIN described'
  OBVIOUS
<1>3. /\ DOMAIN d = DOMAIN described /\ DOMAIN d' = DOMAIN described'
      /\ DOMAIN t = DOMAIN described /\ DOMAIN t' = DOMAIN described'
  BY <1>1
<1>4. ASSUME NEW q \in DOMAIN described
      PROVE  /\ d'[q] = d[q]
             /\ t'[q] = t[q]
             /\ t'[path] = t[q] <=> d'[path] = d[q]
  <2>1. /\ described'[q] = described[q] /\ TypeAt(q)' = TypeAt(q)
    BY DEF Grown
  <2>2. d'[q] = d[q]
    BY <1>2, <2>1
  <2>3. /\ t[q] = TypeAt(q) /\ t'[q] = TypeAt(q)' /\ t'[path] = TypeAt(path)'
    BY <1>1, <1>2 DEF TypesKnown
  <2>4. d'[path] = d'[q] <=> /\ described'[path].kind = described'[q].kind
                             /\ described'[path].base = described'[q].base
                             /\ described'[path].content = described'[q].content
    BY <1>2
  <2>5. TypeAt(path)' = TypeAt(q)' <=> d'[path] = d'[q]
    BY <1>2, <2>4 DEF TypesTell
  <2> QED
    BY <2>1, <2>2, <2>3, <2>5
<1>5. ScannedSharing!Assign(path)
  BY <1>3, <1>4 DEF ScannedSharing!Assign
<1> QED
  BY <1>2, <1>3, <1>5 DEF ScannedSharing!Next

\* A step that describes nothing is a stutter of the sharing promise.
LEMMA UnchangedSharing ==
  ASSUME TypesKnown, TypesKnown', Grown, UNCHANGED <<described, calls>>,
         DOMAIN calls = DOMAIN described
  PROVE  UNCHANGED ScannedSharing!vars
<1>1. ASSUME NEW p \in DOMAIN calls
      PROVE  TypeOf(p)' = TypeOf(p)
  <2>1. TypeOf(p) = TypeAt(p) /\ TypeOf(p)' = TypeAt(p)'
    BY DEF TypesKnown
  <2> QED
    BY <2>1 DEF Grown
<1> QED
  BY <1>1 DEF ScannedSharing!vars

\* The scan gives two instances one emitted type exactly when their type names
\* and all that is below them are the same, and never takes a type back: it
\* implements the sharing promise.
THEOREM ScanShares == Spec => ScannerSharesTypes
<1>1. Init => ScannedSharing!Init
  BY DEF Init, TableInit, ScannedSharing!Init
<1>2. ScannerInv /\ IdleOK /\ PathInv /\ FreshInv /\ TreeInv /\ TreeInv'
        /\ TypesKnown /\ TypesKnown' /\ TypesTell' /\ [Next]_vars
        => [ScannedSharing!Next]_ScannedSharing!vars
  <2> SUFFICES ASSUME ScannerInv, IdleOK, PathInv, FreshInv, TreeInv, TreeInv',
                      TypesKnown, TypesKnown', TypesTell', [Next]_vars
               PROVE  [ScannedSharing!Next]_ScannedSharing!vars
    OBVIOUS
  <2>1. Grown /\ NodesInv /\ NodesInv' /\ DOMAIN calls = DOMAIN described
    BY TreeStep DEF TreeInv, NodesInv, CallsMatch
  <2>2. CASE UNCHANGED <<described, calls>>
    BY <2>1, <2>2, UnchangedSharing
  <2>3. ASSUME NEW name \in InstNames, NEW place \in Places, NEW d \in RegDescs,
               ScanReg(name, place, d)
        PROVE  ScannedSharing!Next
    <3>1. PathOf(name) \notin DOMAIN described
      BY <2>3, PathIsNew, TreeAssumption DEF ScanReg
    <3>2. DOMAIN described' = DOMAIN described \cup {PathOf(name)}
      BY <2>3 DEF ScanReg, Extended
    <3>3. PICK path : path = PathOf(name)
      OBVIOUS
    <3> QED
      BY <2>1, <3>1, <3>2, <3>3, AddedIsAssigned
  <2>4. CASE FinishGroup
    <3>1. PICK path : path = Innermost.path
      OBVIOUS
    <3>2. path \notin DOMAIN described
      BY <2>4, <3>1, FinishTop, InnermostFacts DEF FreshInv
    <3>3. DOMAIN described' = DOMAIN described \cup {path}
      BY <2>4, <3>1 DEF FinishGroup, Extended
    <3> QED
      BY <2>1, <3>2, <3>3, AddedIsAssigned
  <2>5. \/ UNCHANGED <<described, calls>>
        \/ \E name \in InstNames, place \in Places, d \in RegDescs : ScanReg(name, place, d)
        \/ FinishGroup
    BY DEF Next, RefuseBridge, Start, SkipMem, RejectReg, EnterGroup, Attach, NameConst,
           vars, scanVars, tableVars
  <2> QED
    BY <2>2, <2>3, <2>4, <2>5
<1>3. TreeInv => TypesKnown /\ TypesTell
  BY TreeTypes DEF TreeInv
<1> QED
  BY <1>1, <1>2, <1>3, ScannerInvariance, PathInvariance, Freshness, TreeInvariance, PTL
     DEF Spec, ScannerSharesTypes, ScannedSharing!Spec

----------------------------------------------------------------------------
\* How often x occurs in s.
Occurs(s, x) == Cardinality({i \in DOMAIN s : s[i] = x})

\* Appending counts one more occurrence of what was appended.
LEMMA OccursAppended ==
  ASSUME NEW s, IsSeq(s), NEW y, NEW x
  PROVE  /\ Occurs(s, x) \in Nat
         /\ Occurs(Append(s, y), x) = Occurs(s, x) + (IF y = x THEN 1 ELSE 0)
<1> DEFINE A == {i \in DOMAIN s : s[i] = x}
           t == Append(s, y)
           last == Len(s) + 1
<1>1. DOMAIN s = 1 .. Len(s) /\ Len(s) \in Nat
  BY SeqFacts
<1>2. IsFiniteSet(A) /\ last \notin A
  <2>1. IsFiniteSet(1 .. Len(s))
    BY <1>1, FS_Interval
  <2>2. A \subseteq 1 .. Len(s)
    BY <1>1
  <2>3. IsFiniteSet(A)
    BY <2>1, <2>2, FS_Subset
  <2> QED
    BY <1>1, <2>2, <2>3
<1>3. /\ DOMAIN t = DOMAIN s \cup {last}
      /\ \A i \in DOMAIN s : t[i] = s[i]
      /\ t[last] = y /\ last \notin DOMAIN s
  BY Pushed
<1>4. Cardinality(A) \in Nat
  BY <1>2, FS_CardinalityType
<1> HIDE DEF t, last
<1>5. CASE y = x
  <2>1. {i \in DOMAIN t : t[i] = x} = A \cup {last}
    BY <1>3, <1>5
  <2>2. Cardinality(A \cup {last}) = Cardinality(A) + 1
    BY <1>2, FS_AddElement
  <2> QED
    <3>1. Occurs(s, x) = Cardinality(A) /\ Occurs(t, x) = Cardinality(A) + 1
      BY <2>1, <2>2 DEF Occurs
    <3> QED
      BY <1>4, <1>5, <3>1 DEF t
<1>6. CASE y # x
  <2>1. {i \in DOMAIN t : t[i] = x} = A
    BY <1>3, <1>6
  <2> QED
    <3>1. Occurs(s, x) = Cardinality(A) /\ Occurs(t, x) = Cardinality(A)
      BY <2>1 DEF Occurs
    <3> QED
      BY <1>4, <1>6, <3>1 DEF t
<1> QED
  BY <1>4, <1>5, <1>6 DEF Occurs

\* Joining a sequence that x is not in counts nothing.
LEMMA OccursJoined ==
  ASSUME NEW s, IsSeq(s), NEW t, IsSeq(t), NEW x, \A i \in DOMAIN t : t[i] # x
  PROVE  Occurs(s \o t, x) = Occurs(s, x)
<1>1. DOMAIN s = 1 .. Len(s) /\ Len(s) \in Nat /\ DOMAIN t = 1 .. Len(t) /\ Len(t) \in Nat
  BY SeqFacts
<1>2. /\ DOMAIN (s \o t) = 1 .. Len(s) + Len(t)
      /\ \A i \in 1 .. Len(s) + Len(t) :
           (s \o t)[i] = IF i <= Len(s) THEN s[i] ELSE t[i - Len(s)]
  <2> DEFINE S == {s[i] : i \in DOMAIN s} \cup {t[i] : i \in DOMAIN t}
  <2>1. s \in Seq(S) /\ t \in Seq(S)
    BY DEF IsSeq
  <2> HIDE DEF S
  <2> QED
    BY <1>1, <2>1
<1>3. ASSUME NEW i \in DOMAIN (s \o t), (s \o t)[i] = x
      PROVE  i \in DOMAIN s /\ s[i] = x
  <2>1. CASE i <= Len(s)
    BY <1>1, <1>2, <1>3, <2>1
  <2>2. CASE ~(i <= Len(s))
    <3>1. i - Len(s) \in DOMAIN t /\ t[i - Len(s)] = x
      BY <1>1, <1>2, <1>3, <2>2
    <3> QED
      BY <3>1
  <2> QED
    BY <2>1, <2>2
<1>4. \A i \in DOMAIN s : i \in DOMAIN (s \o t) /\ (s \o t)[i] = s[i]
  BY <1>1, <1>2
<1>5. {i \in DOMAIN (s \o t) : (s \o t)[i] = x} = {i \in DOMAIN s : s[i] = x}
  BY <1>3, <1>4
<1> QED
  BY <1>5 DEF Occurs

\* Sequences joined are a sequence.
LEMMA JoinedIsSeq ==
  ASSUME NEW s, IsSeq(s), NEW t, IsSeq(t)
  PROVE  IsSeq(s \o t)
<1> DEFINE S == {s[i] : i \in DOMAIN s} \cup {t[i] : i \in DOMAIN t}
<1>1. s \in Seq(S) /\ t \in Seq(S)
  BY DEF IsSeq
<1> HIDE DEF S
<1>2. s \o t \in Seq(S)
  BY <1>1
<1> QED
  BY <1>2, SeqIsSeq

\* Joining nothing, and joining one element.
LEMMA JoinedShort ==
  ASSUME NEW s, IsSeq(s)
  PROVE  /\ s \o << >> = s
         /\ \A y : s \o <<y>> = Append(s, y)
<1> DEFINE S == {s[i] : i \in DOMAIN s}
<1>1. s \in Seq(S)
  BY DEF IsSeq
<1> HIDE DEF S
<1>2. s \o << >> = s
  BY <1>1
<1>3. ASSUME NEW y
      PROVE  s \o <<y>> = Append(s, y)
  <2> DEFINE T == S \cup {y}
  <2>1. s \in Seq(T) /\ y \in T
    BY <1>1
  <2> HIDE DEF T
  <2> QED
    BY <2>1
<1> QED
  BY <1>2, <1>3

\* A function of the elements of a sequence is a sequence.
LEMMA MappedIsSeq ==
  ASSUME NEW S, NEW s \in Seq(S), NEW t, DOMAIN t = DOMAIN s,
         t = [i \in DOMAIN s |-> t[i]]
  PROVE  IsSeq(t)
<1>1. DOMAIN s = 1 .. Len(s) /\ Len(s) \in Nat
  OBVIOUS
<1>2. t \in [1 .. Len(s) -> {t[i] : i \in DOMAIN t}]
  BY <1>1
<1> QED
  <2> DEFINE T == {t[i] : i \in DOMAIN t}
  <2>1. t \in [1 .. Len(s) -> T] /\ Len(s) \in Nat
    BY <1>1, <1>2
  <2> HIDE DEF T
  <2>2. t \in Seq(T)
    BY <2>1
  <2> QED
    BY <2>2 DEF IsSeq, T

----------------------------------------------------------------------------
\* The findings the properties count.
Tracked == Errors \cup {"I201", "I202"}

\* The log is a sequence.
LogOK == IsSeq(findings)

\* s is the log with one more finding for each of ids at p, others not counted.
CountsAs(s, p, ids) ==
  /\ IsSeq(s)
  /\ \A id \in Tracked : \A q :
       Occurs(s, Finding(id, q)) = Count(id, q) + (IF q = p /\ id \in ids THEN 1 ELSE 0)

\* Nothing of t is counted.
Uncounted(t) ==
  /\ IsSeq(t)
  /\ \A i \in DOMAIN t : \A id \in Tracked : \A q : t[i] # Finding(id, q)

\* Findings are the same when their identifiers and paths are.
LEMMA SameFinding ==
  ASSUME NEW id, NEW p, NEW e, NEW q
  PROVE  Finding(id, p) = Finding(e, q) <=> id = e /\ p = q
BY DEF Finding

\* The log counts as itself.
LEMMA LogCounts ==
  ASSUME LogOK, NEW p
  PROVE  /\ CountsAs(findings, p, {})
         /\ \A id, q : Count(id, q) \in Nat
<1>1. ASSUME NEW id, NEW q
      PROVE  Count(id, q) \in Nat /\ Count(id, q) = Occurs(findings, Finding(id, q))
  <2>1. Count(id, q) = Occurs(findings, Finding(id, q))
    BY DEF Count, Occurs
  <2> QED
    BY <2>1, OccursAppended DEF LogOK
<1>2. ASSUME NEW id \in Tracked, NEW q
      PROVE  Occurs(findings, Finding(id, q))
               = Count(id, q) + (IF q = p /\ id \in {} THEN 1 ELSE 0)
  BY <1>1
<1> QED
  BY <1>1, <1>2 DEF CountsAs, LogOK

\* Joining findings that are not counted.
LEMMA UncountedJoined ==
  ASSUME NEW s, NEW p, NEW ids, CountsAs(s, p, ids), NEW t, Uncounted(t)
  PROVE  CountsAs(s \o t, p, ids)
<1>1. IsSeq(s) /\ IsSeq(t)
  BY DEF CountsAs, Uncounted
<1>2. ASSUME NEW id \in Tracked, NEW q
      PROVE  Occurs(s \o t, Finding(id, q)) = Occurs(s, Finding(id, q))
  <2>1. \A i \in DOMAIN t : t[i] # Finding(id, q)
    BY DEF Uncounted
  <2> QED
    BY <1>1, <2>1, OccursJoined
<1>3. IsSeq(s \o t)
  BY <1>1, JoinedIsSeq
<1> QED
  BY <1>2, <1>3, Zenon DEF CountsAs

\* Joining one that is.
LEMMA CountedJoined ==
  ASSUME LogOK, NEW s, NEW p, CountsAs(s, p, {}), NEW e
  PROVE  CountsAs(s \o <<Finding(e, p)>>, p, {e})
<1>1. IsSeq(s)
  BY DEF CountsAs
<1>2. s \o <<Finding(e, p)>> = Append(s, Finding(e, p))
  BY <1>1, JoinedShort
<1>3. IsSeq(Append(s, Finding(e, p)))
  BY <1>1, Pushed
<1>4. ASSUME NEW id \in Tracked, NEW q
      PROVE  Occurs(Append(s, Finding(e, p)), Finding(id, q))
               = Count(id, q) + (IF q = p /\ id \in {e} THEN 1 ELSE 0)
  <2>1. /\ Occurs(s, Finding(id, q)) = Count(id, q) + 0
        /\ Count(id, q) \in Nat
    <3>1. Occurs(s, Finding(id, q))
            = Count(id, q) + (IF q = p /\ id \in {} THEN 1 ELSE 0)
      BY DEF CountsAs
    <3> QED
      BY <3>1, LogCounts
  <2>2. Occurs(Append(s, Finding(e, p)), Finding(id, q))
          = Occurs(s, Finding(id, q)) + (IF Finding(e, p) = Finding(id, q) THEN 1 ELSE 0)
    BY <1>1, OccursAppended
  <2>3. Finding(e, p) = Finding(id, q) <=> q = p /\ id \in {e}
    BY SameFinding
  <2> QED
    BY <2>1, <2>2, <2>3
<1> QED
  BY <1>2, <1>3, <1>4 DEF CountsAs

\* An empty note, and notes about what is not tracked.
LEMMA UncountedNotes ==
  /\ Uncounted(<< >>)
  /\ \A e, p : e \notin Tracked => Uncounted(<<Finding(e, p)>>)
<1>1. Uncounted(<< >>)
  BY EmptyIsSeq DEF Uncounted
<1>2. ASSUME NEW e, NEW p, e \notin Tracked
      PROVE  Uncounted(<<Finding(e, p)>>)
  <2> DEFINE t == <<Finding(e, p)>>
  <2>1. IsSeq(t) /\ DOMAIN t = {1} /\ t[1] = Finding(e, p)
    <3>1. PICK f : f = Finding(e, p)
      OBVIOUS
    <3>2. <<f>> \in Seq({f})
      OBVIOUS
    <3>3. IsSeq(<<f>>)
      BY <3>2, SeqIsSeq
    <3> QED
      BY <3>1, <3>3
  <2> HIDE DEF t
  <2>2. ASSUME NEW i \in DOMAIN t, NEW id \in Tracked, NEW q
        PROVE  t[i] # Finding(id, q)
    BY <1>2, <2>1, SameFinding
  <2>3. Uncounted(t)
    BY <2>1, <2>2 DEF Uncounted
  <2> QED
    BY <2>3 DEF t
<1> QED
  BY <1>1, <1>2

\* What a register's rows and access report is not tracked.
LEMMA RowNotesUncounted ==
  ASSUME NEW d \in RegDescs, NEW p
  PROVE  Uncounted([i \in DOMAIN d.notes |-> Finding(d.notes[i], p)])
<1> DEFINE t == [i \in DOMAIN d.notes |-> Finding(d.notes[i], p)]
<1>1. d.notes \in Seq(RegNotes)
  BY TreeAssumption
<1>2. DOMAIN t = DOMAIN d.notes /\ \A i \in DOMAIN t : t[i] = Finding(d.notes[i], p)
  OBVIOUS
<1>3. t = [i \in DOMAIN d.notes |-> t[i]]
  BY <1>2, Zenon
<1> HIDE DEF t
<1>4. IsSeq(t)
  BY <1>1, <1>2, <1>3, MappedIsSeq
<1>5. \A i \in DOMAIN d.notes : d.notes[i] \notin Tracked
  BY <1>1 DEF RegNotes, Tracked, Errors
<1>6. ASSUME NEW i \in DOMAIN t, NEW id \in Tracked, NEW q
      PROVE  t[i] # Finding(id, q)
  BY <1>2, <1>5, SameFinding
<1>7. Uncounted(t)
  BY <1>4, <1>6 DEF Uncounted
<1> QED
  BY <1>7 DEF t

\* A finding that is made in one of two cases.
LEMMA CountedIf ==
  ASSUME LogOK, NEW s, NEW p, CountsAs(s, p, {}), NEW e, NEW c \in BOOLEAN,
         NEW t, t = IF c THEN <<Finding(e, p)>> ELSE << >>
  PROVE  CountsAs(s \o t, p, IF c THEN {e} ELSE {})
<1>1. CASE c
  BY <1>1, CountedJoined
<1>2. CASE ~c
  BY <1>2, UncountedJoined, UncountedNotes
<1> QED
  BY <1>1, <1>2

\* An alias and an unaligned register are noted under other identifiers.
LEMMA OtherNotes ==
  ASSUME NEW p
  PROVE  /\ \A d : Uncounted(AliasNote(d, p))
         /\ \A c : Uncounted(IF c THEN <<Finding("W106", p)>> ELSE << >>)
<1>1. "I203" \notin Tracked /\ "W106" \notin Tracked
  BY DEF Tracked, Errors
<1>2. Uncounted(<<Finding("I203", p)>>) /\ Uncounted(<<Finding("W106", p)>>)
      /\ Uncounted(<< >>)
  BY <1>1, UncountedNotes
<1> QED
  BY <1>2 DEF AliasNote

\* Whether interning an instance makes a variant, and what is then reported.
MakesVariant(kind, base, sig) ==
  <<base, sig>> \notin DOMAIN index[kind] /\ NewTypeName(base) # base

VariantIds(kind, base, sig) == IF MakesVariant(kind, base, sig) THEN {"I202"} ELSE {}

\* A variant is noted if there is one.
LEMMA VariantNoteCounts ==
  ASSUME LogOK, NEW s, NEW p, CountsAs(s, p, {}), NEW kind, NEW base, NEW sig
  PROVE  CountsAs(s \o VariantNote(kind, base, sig, p), p, VariantIds(kind, base, sig))
BY CountedIf DEF VariantNote, VariantIds, MakesVariant

\* A skipped memory reports one error (_scan_group's early continue).
LEMMA SkipLogs ==
  ASSUME LogOK, NEW name, SkipMem(name)
  PROVE  CountsAs(findings', PathOf(name), {"E004"})
<1>1. PICK p : p = PathOf(name)
  OBVIOUS
<1>2. findings' = Append(findings, Finding("E004", p))
  BY <1>1 DEF SkipMem
<1>3. findings \o <<Finding("E004", p)>> = Append(findings, Finding("E004", p))
  BY JoinedShort DEF LogOK
<1>4. CountsAs(findings \o <<Finding("E004", p)>>, p, {"E004"})
  BY LogCounts, CountedJoined
<1> QED
  BY <1>1, <1>2, <1>3, <1>4

\* A rejected register reports one error (_scan_reg's early returns).
LEMMA RejectLogs ==
  ASSUME LogOK, NEW name, NEW d, RejectReg(name, d)
  PROVE  \E e \in Errors : CountsAs(findings', PathOf(name), {e})
<1>1. PICK p : p = PathOf(name)
  OBVIOUS
<1>2. PICK e \in Errors : Refusal(d) = <<e>>
  BY DEF RejectReg, Refusal, Errors
<1>3. [i \in DOMAIN Refusal(d) |-> Finding(Refusal(d)[i], p)] = <<Finding(e, p)>>
  BY <1>2
<1>4. findings' = findings \o AliasNote(d, p) \o <<Finding(e, p)>>
  BY <1>1, <1>3, Zenon DEF RejectReg
<1>5. CountsAs(findings \o AliasNote(d, p), p, {})
  BY LogCounts, OtherNotes, UncountedJoined
<1>6. CountsAs(findings', p, {e})
  BY <1>4, <1>5, CountedJoined
<1> QED
  BY <1>1, <1>6

\* A scanned register reports at most a variant (_scan_reg).
LEMMA ScanLogs ==
  ASSUME LogOK, NEW name, NEW place, NEW d \in RegDescs, ScanReg(name, place, d),
         NEW base, base = BaseTypeName(d.type, Joined(Innermost.joined, name))
  PROVE  CountsAs(findings', PathOf(name), VariantIds("reg", base, RegSignature(base, d)))
<1>1. PICK p : p = PathOf(name)
  OBVIOUS
<1> DEFINE rows == [i \in DOMAIN d.notes |-> Finding(d.notes[i], p)]
           s == findings \o AliasNote(d, p) \o rows
<1>2. findings' = s \o VariantNote("reg", base, RegSignature(base, d), p)
  BY <1>1 DEF ScanReg
<1>3. Uncounted(rows)
  BY RowNotesUncounted
<1> HIDE DEF rows
<1>4. CountsAs(findings \o AliasNote(d, p), p, {})
  BY LogCounts, OtherNotes, UncountedJoined
<1>5. CountsAs(s, p, {})
  BY <1>3, <1>4, UncountedJoined
<1> HIDE DEF s
<1> QED
  BY <1>1, <1>2, <1>5, VariantNoteCounts

\* An attached child reports a rename if it was renamed (_scan_group).
LEMMA AttachLogs ==
  ASSUME LogOK, Attach, NEW inst, inst = Mangle(ret.name, Innermost.taken)
  PROVE  CountsAs(findings', PathOf(ret.name), IF inst # ret.name THEN {"I201"} ELSE {})
<1>1. PICK p, n : p = PathOf(ret.name) /\ n = ret.name
  OBVIOUS
<1>2. PICK c : findings' = findings \o RenameNote(n, inst, p)
                             \o (IF c THEN <<Finding("W106", p)>> ELSE << >>)
  BY <1>1 DEF Attach
<1>3. CountsAs(findings \o RenameNote(n, inst, p), p, IF inst # n THEN {"I201"} ELSE {})
  BY LogCounts, CountedIf DEF RenameNote
<1>4. CountsAs(findings', p, IF inst # n THEN {"I201"} ELSE {})
  BY <1>2, <1>3, OtherNotes, UncountedJoined
<1> QED
  BY <1>1, <1>4

\* A finished group reports at most a variant (_scan_group).
LEMMA FinishLogs ==
  ASSUME LogOK, FinishGroup, NEW f, f = Innermost,
         NEW base, base = BaseTypeName(f.type, f.joined),
         NEW sig, sig = GroupSignature(base, f.children, f.sigs, f.consts)
  PROVE  CountsAs(findings', f.path, VariantIds("group", base, sig))
<1>1. findings' = findings \o VariantNote("group", base, sig, f.path)
  BY DEF FinishGroup
<1> QED
  BY <1>1, LogCounts, VariantNoteCounts

\* After a step the log is a sequence, and what is counted is what was reported.
LEMMA Logged ==
  ASSUME NEW p, NEW ids, CountsAs(findings', p, ids)
  PROVE  /\ LogOK'
         /\ \A id \in Tracked : \A q :
              Count(id, q)' = Count(id, q) + (IF q = p /\ id \in ids THEN 1 ELSE 0)
<1>1. \A id, q : Count(id, q)' = Occurs(findings', Finding(id, q))
  BY DEF Count, Occurs
<1> QED
  BY <1>1 DEF CountsAs, LogOK

----------------------------------------------------------------------------
\* The instance that starts a type is the first in its list, and the only one
\* of its base name to be so.
LEMMA FirstOfType ==
  ASSUME IndexInv, NEW kind \in Kinds, NEW base \in Name, NEW sig,
         NEW path, path \notin DOMAIN calls, Intern(kind, base, sig, path),
         NEW n, n = InternedName(kind, base, sig), byName'[n].base = base,
         \A m \in DOMAIN byName : byName'[m].instances[1] = byName[m].instances[1]
  PROVE  byName'[n].instances[1] = path <=> <<base, sig>> \notin DOMAIN index[kind]
<1>1. CASE <<base, sig>> \in DOMAIN index[kind]
  <2>1. n = index[kind][<<base, sig>>] /\ n \in DOMAIN byName
    BY <1>1 DEF InternedName, IndexInv, LookupsRight
  <2>2. 1 \in DOMAIN byName[n].instances
    <3>1. IsSeq(byName[n].instances) /\ byName[n].instances # << >>
      BY <2>1 DEF IndexInv, CallsOK
    <3> QED
      BY <3>1, SeqFacts
  <2>3. byName[n].instances[1] \in DOMAIN calls
    BY <2>1, <2>2 DEF IndexInv, ListedAreCalls, InstancesOf
  <2> QED
    BY <1>1, <2>1, <2>3
<1>2. CASE <<base, sig>> \notin DOMAIN index[kind]
  <2>1. n = NewTypeName(base) /\ Emit(kind, base, sig, path)
    BY <1>2 DEF InternedName, Intern, Reuse
  <2>2. byName' = Extended(byName, n, [kind |-> kind, base |-> base, sig |-> sig,
                                       instances |-> <<path>>])
    BY <2>1 DEF Emit
  <2>3. byName'[n].instances = <<path>>
    BY <2>2 DEF Extended
  <2> QED
    BY <1>2, <2>3
<1> QED
  BY <1>1, <1>2

\* An instance whose type carries a suffix, and that made it necessary.
StartsVariant(p) ==
  /\ p \in DOMAIN described
  /\ TypeAt(p) # byName[TypeAt(p)].base
  /\ byName[TypeAt(p)].instances[1] = p

\* Variants are reported once, where they started, and nowhere else.
VariantsCounted ==
  \A p : Count("I202", p) = IF StartsVariant(p) THEN 1 ELSE 0

VariantInv == LogOK /\ VariantsCounted

\* A step that interns nothing and reports no variant.
LEMMA VariantsStay ==
  ASSUME VariantInv, UNCHANGED <<tableVars, described>>,
         NEW p, NEW ids, CountsAs(findings', p, ids), "I202" \notin ids
  PROVE  VariantInv'
<1>1. ASSUME NEW q
      PROVE  Count("I202", q)' = Count("I202", q)
  <2>1. Count("I202", q)' = Count("I202", q) + (IF q = p /\ "I202" \in ids THEN 1 ELSE 0)
    BY Logged DEF Tracked
  <2>2. Count("I202", q) \in Nat
    BY LogCounts DEF VariantInv
  <2> QED
    BY <2>1, <2>2
<1>2. \A q : StartsVariant(q)' <=> StartsVariant(q)
  BY DEF StartsVariant, TypeAt, tableVars
<1>3. LogOK'
  BY Logged
<1> QED
  BY <1>1, <1>2, <1>3 DEF VariantInv, VariantsCounted

\* A step that interns an instance and reports whether it makes a variant.
LEMMA VariantAdded ==
  ASSUME TablesInv, NodesInv, VariantInv, NEW kind \in Kinds, NEW base \in Name, NEW sig,
         NEW path, path \notin DOMAIN described, Intern(kind, base, sig, path),
         DOMAIN described' = DOMAIN described \cup {path},
         CountsAs(findings', path, VariantIds(kind, base, sig))
  PROVE  VariantInv'
<1>1. /\ DOMAIN calls = DOMAIN described /\ IndexInv
  BY DEF NodesInv, CallsMatch
<1>2. IndexInv' /\ Interned(kind, base, sig, path)
  BY <1>1, InternIndexed
<1>3. PICK n : n = InternedName(kind, base, sig)
  OBVIOUS
<1>4. /\ TypeAt(path)' = n
      /\ byName'[n].base = base
      /\ \A m \in DOMAIN byName : /\ byName'[m].base = byName[m].base
                                  /\ byName'[m].instances[1] = byName[m].instances[1]
  <2>1. TypeAt(path)' = n
    BY <1>2, <1>3 DEF Interned
  <2>2. /\ path \in DOMAIN calls' /\ calls'[path].base = base
    BY <1>2 DEF Interned
  <2>3. byName'[TypeAt(path)'].base = calls'[path].base
    BY <1>2, <2>2 DEF IndexInv, CallsOK, CallsAreListed, LookupsRight, TypeAt
  <2> QED
    BY <1>2, <2>1, <2>2, <2>3 DEF Interned
<1>5. StartsVariant(path)' <=> MakesVariant(kind, base, sig)
  <2>1. byName'[n].instances[1] = path <=> <<base, sig>> \notin DOMAIN index[kind]
    BY <1>1, <1>3, <1>4, FirstOfType
  <2>2. <<base, sig>> \notin DOMAIN index[kind] => n = NewTypeName(base)
    BY <1>3 DEF InternedName
  <2> QED
    BY <1>4, <2>1, <2>2 DEF StartsVariant, MakesVariant
<1>6. ASSUME NEW q \in DOMAIN described
      PROVE  StartsVariant(q)' <=> StartsVariant(q)
  <2>1. TypeAt(q)' = TypeAt(q) /\ TypeAt(q) \in DOMAIN byName
    <3>1. TypeAt(q) \in DOMAIN byName
      BY <1>1 DEF IndexInv, CallsOK, CallsAreListed, LookupsRight, TypeAt
    <3> QED
      BY <1>1, <1>2, <3>1 DEF Interned
  <2> QED
    BY <1>4, <2>1 DEF StartsVariant
<1>7. ASSUME NEW q
      PROVE  Count("I202", q)' = IF StartsVariant(q)' THEN 1 ELSE 0
  <2>1. /\ Count("I202", q)' = Count("I202", q)
             + (IF q = path /\ "I202" \in VariantIds(kind, base, sig) THEN 1 ELSE 0)
        /\ Count("I202", q) = IF StartsVariant(q) THEN 1 ELSE 0
    BY Logged DEF Tracked, VariantInv, VariantsCounted
  <2>2. "I202" \in VariantIds(kind, base, sig) <=> MakesVariant(kind, base, sig)
    BY DEF VariantIds
  <2>3. CASE q = path
    <3>1. ~StartsVariant(path)
      BY DEF StartsVariant
    <3> QED
      BY <1>5, <2>1, <2>2, <2>3, <3>1
  <2>4. CASE q # path
    <3>1. StartsVariant(q)' <=> StartsVariant(q)
      <4>1. CASE q \in DOMAIN described
        BY <1>6, <4>1
      <4>2. CASE q \notin DOMAIN described
        BY <2>4, <4>2 DEF StartsVariant
      <4> QED
        BY <4>1, <4>2
    <3> QED
      BY <2>1, <2>4, <3>1
  <2> QED
    BY <2>3, <2>4
<1>8. LogOK'
  BY Logged
<1> QED
  BY <1>7, <1>8 DEF VariantInv, VariantsCounted

\* A scanned register: its path is new and its base name a name.
LEMMA ScannedFacts ==
  ASSUME ScannerInv, PathInv, FreshInv,
         NEW name \in InstNames, NEW place, NEW d \in RegDescs, ScanReg(name, place, d)
  PROVE  /\ PathOf(name) \notin DOMAIN described
         /\ DOMAIN described' = DOMAIN described \cup {PathOf(name)}
         /\ BaseTypeName(d.type, Joined(Innermost.joined, name)) \in Name
<1>1. name \in Name /\ Meets(name) /\ stack # << >>
  BY TreeAssumption DEF ScanReg, Meets
<1>2. PathOf(name) \notin DOMAIN described
  BY <1>1, PathIsNew
<1>3. FrameOK(Innermost)
  BY <1>1, InnermostFacts
<1>4. Joined(Innermost.joined, name) \in Name
  BY <1>1, <1>3, JoinedIsName DEF FrameOK
<1>5. DOMAIN described' = DOMAIN described \cup {PathOf(name)}
  BY DEF ScanReg, Extended
<1> QED
  BY <1>2, <1>4, <1>5, BaseTypeNameIsName, TreeAssumption

\* A finished group: likewise.
LEMMA FinishedFacts ==
  ASSUME ScannerInv, FreshInv, FinishGroup
  PROVE  /\ Innermost.path \notin DOMAIN described
         /\ DOMAIN described' = DOMAIN described \cup {Innermost.path}
         /\ BaseTypeName(Innermost.type, Innermost.joined) \in Name
<1>1. /\ Len(stack) \in DOMAIN stack /\ Innermost = stack[Len(stack)] /\ FrameOK(Innermost)
  BY FinishTop, InnermostFacts
<1>2. Innermost.path \notin DOMAIN described
  BY <1>1 DEF FreshInv
<1>3. DOMAIN described' = DOMAIN described \cup {Innermost.path}
  BY DEF FinishGroup, Extended
<1> QED
  BY <1>1, <1>2, <1>3, BaseTypeNameIsName DEF FrameOK

\* Every step keeps the account of variants.
LEMMA VariantStep ==
  ASSUME ScannerInv, PathInv, FreshInv, TreeInv, VariantInv, [Next]_vars
  PROVE  VariantInv'
<1>1. LogOK /\ TablesInv /\ NodesInv
  BY DEF VariantInv, ScannerInv, TreeInv
<1>2. ASSUME UNCHANGED <<tableVars, described, findings>>
      PROVE  VariantInv'
  <2>1. PICK p : p = TopName
    OBVIOUS
  <2>2. CountsAs(findings', p, {})
    BY <1>1, <1>2, LogCounts
  <2> QED
    BY <1>2, <2>2, VariantsStay
<1>3. CASE RefuseBridge
  <2>1. findings' = findings \o <<Finding("E003", <<TopName>>)>>
    BY <1>1, <1>3, JoinedShort DEF RefuseBridge, LogOK
  <2>2. CountsAs(findings', <<TopName>>, {"E003"})
    BY <1>1, <2>1, LogCounts, CountedJoined
  <2> QED
    BY <1>3, <2>2, VariantsStay DEF RefuseBridge
<1>4. ASSUME NEW type \in GroupTypes, Start(type)
      PROVE  VariantInv'
  BY <1>2, <1>4 DEF Start
<1>5. ASSUME NEW name \in InstNames, SkipMem(name)
      PROVE  VariantInv'
  <2>1. PICK p : CountsAs(findings', p, {"E004"})
    BY <1>1, <1>5, SkipLogs
  <2> QED
    BY <1>5, <2>1, VariantsStay DEF SkipMem
<1>6. ASSUME NEW name \in InstNames, NEW d \in RegDescs, RejectReg(name, d)
      PROVE  VariantInv'
  <2>1. PICK p, e : e \in Errors /\ CountsAs(findings', p, {e})
    BY <1>1, <1>6, RejectLogs
  <2>2. "I202" \notin {e}
    BY <2>1 DEF Errors
  <2> QED
    BY <1>6, <2>1, <2>2, VariantsStay DEF RejectReg
<1>7. ASSUME NEW name \in InstNames, NEW place \in Places, NEW d \in RegDescs,
             ScanReg(name, place, d)
      PROVE  VariantInv'
  <2>1. PICK path, base : /\ path = PathOf(name)
                          /\ base = BaseTypeName(d.type, Joined(Innermost.joined, name))
    OBVIOUS
  <2>2. PICK sig : sig = RegSignature(base, d)
    OBVIOUS
  <2>3. /\ path \notin DOMAIN described /\ base \in Name
        /\ DOMAIN described' = DOMAIN described \cup {path}
    BY <1>7, <2>1, ScannedFacts
  <2>4. CountsAs(findings', path, VariantIds("reg", base, sig))
    BY <1>1, <1>7, <2>1, <2>2, ScanLogs
  <2>5. Intern("reg", base, sig, path) /\ "reg" \in Kinds
    BY <1>7, <2>1, <2>2 DEF ScanReg, Kinds
  <2> QED
    BY <1>1, <2>3, <2>4, <2>5, VariantAdded
<1>8. ASSUME NEW name \in InstNames, NEW place \in Places, NEW type \in GroupTypes,
             EnterGroup(name, place, type)
      PROVE  VariantInv'
  BY <1>2, <1>8 DEF EnterGroup
<1>9. CASE Attach
  <2>1. PICK p, ids : CountsAs(findings', p, ids) /\ "I202" \notin ids
    <3>1. PICK inst : inst = Mangle(ret.name, Innermost.taken)
      OBVIOUS
    <3>2. CountsAs(findings', PathOf(ret.name), IF inst # ret.name THEN {"I201"} ELSE {})
      BY <1>1, <1>9, <3>1, AttachLogs
    <3>3. "I202" \notin IF inst # ret.name THEN {"I201"} ELSE {}
      OBVIOUS
    <3> QED
      BY <3>2, <3>3
  <2> QED
    BY <1>9, <2>1, VariantsStay DEF Attach
<1>10. CASE NameConst
  BY <1>2, <1>10 DEF NameConst
<1>11. CASE FinishGroup
  <2>1. PICK f : f = Innermost
    OBVIOUS
  <2>2. PICK base : base = BaseTypeName(f.type, f.joined)
    OBVIOUS
  <2>3. PICK sig : sig = GroupSignature(base, f.children, f.sigs, f.consts)
    OBVIOUS
  <2>4. /\ f.path \notin DOMAIN described /\ base \in Name
        /\ DOMAIN described' = DOMAIN described \cup {f.path}
    BY <1>11, <2>1, <2>2, FinishedFacts
  <2>5. CountsAs(findings', f.path, VariantIds("group", base, sig))
    BY <1>1, <1>11, <2>1, <2>2, <2>3, FinishLogs
  <2>6. Intern("group", base, sig, f.path) /\ "group" \in Kinds
    BY <1>11, <2>1, <2>2, <2>3 DEF FinishGroup, Kinds
  <2>7. PICK path : path = f.path
    OBVIOUS
  <2> QED
    BY <1>1, <2>4, <2>5, <2>6, <2>7, VariantAdded
<1>12. CASE UNCHANGED vars
  BY <1>2, <1>12 DEF vars, scanVars
<1> QED
  BY <1>3, <1>4, <1>5, <1>6, <1>7, <1>8, <1>9, <1>10, <1>11, <1>12 DEF Next

\* Nothing is reported before the scan.
LEMMA NothingLogged ==
  ASSUME Init
  PROVE  LogOK /\ \A id, p : Count(id, p) = 0
<1>1. findings = << >> /\ DOMAIN findings = {}
  BY EmptyIsSeq DEF Init
<1>2. ASSUME NEW id, NEW p
      PROVE  Count(id, p) = 0
  <2>1. {i \in DOMAIN findings : findings[i] = Finding(id, p)} = {}
    BY <1>1
  <2> QED
    BY <2>1, FS_EmptySet DEF Count
<1> QED
  BY <1>1, <1>2, EmptyIsSeq DEF LogOK

\* In every reachable state the log holds one PSS-I202 for each instance that
\* started a type under a suffixed name, and no other.
THEOREM VariantInvariance == Spec => []VariantInv
<1>1. Init => VariantInv
  <2> SUFFICES ASSUME Init PROVE VariantInv
    OBVIOUS
  <2>1. DOMAIN described = {}
    BY EmptyIsSeq DEF Init
  <2> QED
    BY <2>1, NothingLogged DEF VariantInv, VariantsCounted, StartsVariant
<1>2. ScannerInv /\ PathInv /\ FreshInv /\ TreeInv /\ VariantInv /\ [Next]_vars
        => VariantInv'
  BY VariantStep
<1> QED
  BY <1>1, <1>2, ScannerInvariance, PathInvariance, Freshness, TreeInvariance, PTL DEF Spec

\* A suffixed type is reported once, at the instance that made it necessary; an
\* instance that joins an emitted type reports nothing (_scan_reg, _scan_group).
THEOREM VariantsAreReported == Spec => []VariantsReported
<1>1. TreeInv /\ VariantInv => VariantsReported
  <2> SUFFICES ASSUME TreeInv, VariantInv, NEW p \in DOMAIN described
               PROVE  Count("I202", p) =
                        IF /\ TypeOf(p) # byName[TypeOf(p)].base
                           /\ byName[TypeOf(p)].instances[1] = p THEN 1 ELSE 0
    BY DEF VariantsReported
  <2>1. TypeOf(p) = TypeAt(p)
    BY TreeTypes DEF TreeInv, TypesKnown, NodesInv, CallsMatch
  <2> QED
    BY <2>1 DEF VariantInv, VariantsCounted, StartsVariant
<1> QED
  BY <1>1, TreeInvariance, VariantInvariance, PTL

----------------------------------------------------------------------------
\* A group whose call has not returned.
InProgress(p) == \E i \in DOMAIN stack : stack[i].path = p

\* A node that was met and is neither described nor being scanned.
Refused(p) == p \in met /\ p \notin DOMAIN described /\ ~InProgress(p)

NoError(p) == \A id \in Errors : Count(id, p) = 0
OneError(p) == \E e \in Errors : \A id \in Errors : Count(id, p) = IF id = e THEN 1 ELSE 0

\* Below the root, exactly the refused nodes have an error, and each has one.
ErrorsCounted ==
  \A p : p # <<TopName>> => IF Refused(p) THEN OneError(p) ELSE NoError(p)

ErrorInv == LogOK /\ ErrorsCounted

\* A step that reports no error below the root and refuses nothing.
LEMMA ErrorsStay ==
  ASSUME ErrorInv, NEW p, NEW ids, CountsAs(findings', p, ids),
         p = <<TopName>> \/ ids \cap Errors = {},
         \A q : q # <<TopName>> => (Refused(q)' <=> Refused(q))
  PROVE  ErrorInv'
<1>1. ASSUME NEW q, q # <<TopName>>, NEW id \in Errors
      PROVE  Count(id, q)' = Count(id, q)
  <2>1. Count(id, q)' = Count(id, q) + (IF q = p /\ id \in ids THEN 1 ELSE 0)
    BY Logged DEF Tracked
  <2>2. ~(q = p /\ id \in ids) /\ Count(id, q) \in Nat
    BY <1>1, LogCounts DEF ErrorInv
  <2> QED
    BY <2>1, <2>2
<1>2. ASSUME NEW q, q # <<TopName>>
      PROVE  IF Refused(q)' THEN OneError(q)' ELSE NoError(q)'
  <2>1. IF Refused(q) THEN OneError(q) ELSE NoError(q)
    BY <1>2 DEF ErrorInv, ErrorsCounted
  <2>2. (OneError(q) => OneError(q)') /\ (NoError(q) => NoError(q)')
    BY <1>1, <1>2 DEF OneError, NoError
  <2>3. Refused(q)' <=> Refused(q)
    BY <1>2
  <2> QED
    BY <2>1, <2>2, <2>3
<1>3. LogOK'
  BY Logged
<1> QED
  BY <1>2, <1>3 DEF ErrorInv, ErrorsCounted

\* A step that refuses one node, for one error.
LEMMA ErrorAdded ==
  ASSUME ErrorInv, NEW p, p # <<TopName>>, NEW e \in Errors, CountsAs(findings', p, {e}),
         ~Refused(p), Refused(p)',
         \A q : q # p => (Refused(q)' <=> Refused(q))
  PROVE  ErrorInv'
<1>1. ASSUME NEW q, NEW id \in Errors
      PROVE  /\ Count(id, q)' = Count(id, q) + (IF q = p /\ id \in {e} THEN 1 ELSE 0)
             /\ Count(id, q) \in Nat
  BY Logged, LogCounts DEF Tracked, ErrorInv
<1>2. ASSUME NEW q, q # <<TopName>>, q # p
      PROVE  IF Refused(q)' THEN OneError(q)' ELSE NoError(q)'
  <2>1. IF Refused(q) THEN OneError(q) ELSE NoError(q)
    BY <1>2 DEF ErrorInv, ErrorsCounted
  <2>2. \A id \in Errors : Count(id, q)' = Count(id, q)
    BY <1>1, <1>2
  <2>3. (OneError(q) => OneError(q)') /\ (NoError(q) => NoError(q)')
    BY <2>2 DEF OneError, NoError
  <2>4. Refused(q)' <=> Refused(q)
    BY <1>2
  <2> QED
    BY <2>1, <2>3, <2>4
<1>3. OneError(p)'
  <2>1. NoError(p)
    BY DEF ErrorInv, ErrorsCounted
  <2>2. \A id \in Errors : Count(id, p)' = IF id = e THEN 1 ELSE 0
    BY <1>1, <2>1 DEF NoError
  <2> QED
    BY <2>2 DEF OneError
<1>4. LogOK'
  BY Logged
<1> QED
  BY <1>2, <1>3, <1>4 DEF ErrorInv, ErrorsCounted

\* The innermost call changes and stays the same group.
LEMMA TopInProgress ==
  ASSUME NEW g, TopIs(stack', g), stack # << >>, Len(stack) \in DOMAIN stack,
         g.path = Innermost.path
  PROVE  \A p : InProgress(p)' <=> InProgress(p)
<1>1. DOMAIN stack' = DOMAIN stack
  BY DEF TopIs
<1>2. \A i \in DOMAIN stack : stack'[i].path = stack[i].path
  BY DEF TopIs, Innermost
<1> QED
  BY <1>1, <1>2 DEF InProgress

\* The loop reaches one more child and calls no other group.
LEMMA MarkedInProgress ==
  ASSUME ScannerInv, NEW name, Meets(name), stack' = Marked(name)
  PROVE  \A p : InProgress(p)' <=> InProgress(p)
<1>1. stack # << >> /\ Len(stack) \in DOMAIN stack
  BY InnermostFacts DEF Meets
<1>2. PICK g : /\ TopIs(stack', g)
               /\ ChangedIn(g, Innermost, {"visited"})
  BY <1>1, MarkedTop
<1>3. g.path = Innermost.path
  BY <1>2 DEF ChangedIn, FrameFields
<1> QED
  BY <1>1, <1>2, <1>3, TopInProgress

\* A child the loop reaches was not met, and is not the root.
LEMMA MeetsNew ==
  ASSUME ScannerInv, PathInv, FreshInv, NEW name \in InstNames, Meets(name)
  PROVE  /\ PathOf(name) # <<TopName>> /\ PathOf(name) \notin met
         /\ PathOf(name) \notin DOMAIN described /\ ~InProgress(PathOf(name))
<1>1. name \in Name
  BY TreeAssumption
<1>2. /\ PathOf(name) \in Seq(Name) /\ Len(PathOf(name)) >= 2
      /\ PathOf(name) \notin met /\ PathOf(name) \notin DOMAIN described
      /\ \A i \in DOMAIN stack : stack[i].path # PathOf(name)
  BY <1>1, PathIsNew
<1>3. PICK root : root = <<TopName>> /\ Len(root) = 1
  <2>1. Len(<<TopName>>) = 1
    OBVIOUS
  <2> QED
    BY <2>1, Zenon
<1>4. PathOf(name) # root
  <2>1. ~(1 >= 2)
    OBVIOUS
  <2> QED
    BY <1>2, <1>3, <2>1, Zenon
<1> QED
  BY <1>2, <1>3, <1>4 DEF InProgress

\* Every step keeps the account of errors.
LEMMA ErrorStep ==
  ASSUME ScannerInv, PathInv, FreshInv, ErrorInv, [Next]_vars
  PROVE  ErrorInv'
<1>1. LogOK
  BY DEF ErrorInv
<1>2. ASSUME NEW name \in InstNames, Meets(name), stack' = Marked(name),
             met' = met \cup {PathOf(name)}, described' = described,
             NEW e \in Errors, CountsAs(findings', PathOf(name), {e})
      PROVE  ErrorInv'
  <2>1. PICK p : p = PathOf(name)
    OBVIOUS
  <2>2. \A q : InProgress(q)' <=> InProgress(q)
    BY <1>2, MarkedInProgress
  <2>3. p # <<TopName>> /\ p \notin met /\ p \notin DOMAIN described /\ ~InProgress(p)
    BY <1>2, <2>1, MeetsNew
  <2>4. ~Refused(p) /\ Refused(p)' /\ \A q : q # p => (Refused(q)' <=> Refused(q))
    BY <1>2, <2>1, <2>2, <2>3 DEF Refused
  <2> QED
    BY <1>2, <2>1, <2>3, <2>4, ErrorAdded
<1>3. ASSUME \A q : InProgress(q)' <=> InProgress(q), UNCHANGED <<met, described>>,
             NEW p, NEW ids, CountsAs(findings', p, ids),
             p = <<TopName>> \/ ids \cap Errors = {}
      PROVE  ErrorInv'
  <2>1. \A q : Refused(q)' <=> Refused(q)
    BY <1>3 DEF Refused
  <2> QED
    BY <1>3, <2>1, ErrorsStay
<1>4. CountsAs(findings, TopName, {})
  BY <1>1, LogCounts
<1>5. CASE RefuseBridge
  <2>1. findings' = findings \o <<Finding("E003", <<TopName>>)>>
    BY <1>1, <1>5, JoinedShort DEF RefuseBridge, LogOK
  <2>2. CountsAs(findings', <<TopName>>, {"E003"})
    BY <1>1, <2>1, LogCounts, CountedJoined
  <2>3. \A q : InProgress(q)' <=> InProgress(q)
    BY <1>5 DEF RefuseBridge, InProgress
  <2> QED
    BY <1>3, <1>5, <2>2, <2>3 DEF RefuseBridge
<1>6. ASSUME NEW type \in GroupTypes, Start(type)
      PROVE  ErrorInv'
  <2>1. /\ stack' = <<Frame(TopName, <<TopName>>, TopName, type, NoReturn)>>
        /\ UNCHANGED <<findings, met, described>> /\ status = "idle"
    BY <1>6 DEF Start
  <2>2. DOMAIN stack = {}
    BY <2>1, EmptyIsSeq DEF PathInv
  <2>3. \A q : q # <<TopName>> => (Refused(q)' <=> Refused(q))
    <3>1. DOMAIN stack' = {1} /\ stack'[1].path = <<TopName>>
      BY <2>1 DEF Frame
    <3> QED
      BY <2>1, <2>2, <3>1 DEF Refused, InProgress
  <2> QED
    BY <1>4, <2>1, <2>3, ErrorsStay
<1>7. ASSUME NEW name \in InstNames, SkipMem(name)
      PROVE  ErrorInv'
  <2>1. CountsAs(findings', PathOf(name), {"E004"}) /\ "E004" \in Errors
    BY <1>1, <1>7, SkipLogs DEF Errors
  <2> QED
    BY <1>2, <1>7, <2>1 DEF SkipMem
<1>8. ASSUME NEW name \in InstNames, NEW d \in RegDescs, RejectReg(name, d)
      PROVE  ErrorInv'
  <2>1. PICK e \in Errors : CountsAs(findings', PathOf(name), {e})
    BY <1>1, <1>8, RejectLogs
  <2> QED
    BY <1>2, <1>8, <2>1 DEF RejectReg
<1>9. ASSUME NEW name \in InstNames, NEW place \in Places, NEW d \in RegDescs,
             ScanReg(name, place, d)
      PROVE  ErrorInv'
  <2>1. PICK path, base : /\ path = PathOf(name)
                          /\ base = BaseTypeName(d.type, Joined(Innermost.joined, name))
    OBVIOUS
  <2>2. PICK ids : ids = VariantIds("reg", base, RegSignature(base, d))
    OBVIOUS
  <2>3. CountsAs(findings', path, ids)
    BY <1>1, <1>9, <2>1, <2>2, ScanLogs
  <2>4. ids \cap Errors = {}
    BY <2>2 DEF VariantIds, Errors
  <2>5. /\ Meets(name) /\ stack' = Marked(name) /\ met' = met \cup {path}
        /\ DOMAIN described' = DOMAIN described \cup {path}
    BY <1>9, <2>1 DEF ScanReg, Extended
  <2>6. path \notin met
    BY <2>1, <2>5, MeetsNew
  <2>7. \A q : InProgress(q)' <=> InProgress(q)
    BY <2>5, MarkedInProgress
  <2>8. \A q : Refused(q)' <=> Refused(q)
    BY <2>5, <2>6, <2>7 DEF Refused
  <2> QED
    BY <2>3, <2>4, <2>8, ErrorsStay
<1>10. ASSUME NEW name \in InstNames, NEW place \in Places, NEW type \in GroupTypes,
              EnterGroup(name, place, type)
       PROVE  ErrorInv'
  <2>1. PICK path : path = PathOf(name)
    OBVIOUS
  <2>2. /\ Meets(name) /\ met' = met \cup {path} /\ UNCHANGED <<findings, described>>
    BY <1>10, <2>1 DEF EnterGroup
  <2>3. path \notin met
    BY <2>1, <2>2, MeetsNew
  <2>4. PICK g : /\ stack # << >>
                 /\ DOMAIN stack' = 1 .. Len(stack) + 1
                 /\ stack'[Len(stack) + 1] =
                      Frame(name, path, Joined(Innermost.joined, name), type, place)
                 /\ stack'[Len(stack)] = g
                 /\ \A i \in DOMAIN stack : i # Len(stack) => stack'[i] = stack[i]
                 /\ ChangedIn(g, Innermost, {"visited"})
    BY <1>10, <2>1, EnterTop
  <2>5. /\ Len(stack) \in Nat /\ DOMAIN stack = 1 .. Len(stack)
        /\ Len(stack) \in DOMAIN stack /\ Innermost = stack[Len(stack)]
    BY <2>4, InnermostFacts
  <2>6. stack'[Len(stack) + 1].path = path /\ g.path = Innermost.path
    BY <2>4 DEF Frame, ChangedIn, FrameFields
  <2>7. /\ \A i \in DOMAIN stack : i \in DOMAIN stack' /\ stack'[i].path = stack[i].path
        /\ \A i \in DOMAIN stack' : i \in DOMAIN stack \/ i = Len(stack) + 1
        /\ Len(stack) + 1 \in DOMAIN stack'
    BY <2>4, <2>5, <2>6
  <2>8. \A q : InProgress(q)' <=> InProgress(q) \/ q = path
    BY <2>6, <2>7 DEF InProgress
  <2>9. \A q : Refused(q)' <=> Refused(q)
    BY <2>2, <2>3, <2>8 DEF Refused
  <2> QED
    BY <1>4, <2>2, <2>9, ErrorsStay
<1>11. CASE Attach
  <2>1. PICK inst : inst = Mangle(ret.name, Innermost.taken)
    OBVIOUS
  <2>2. PICK ids : ids = IF inst # ret.name THEN {"I201"} ELSE {}
    OBVIOUS
  <2>3. CountsAs(findings', PathOf(ret.name), ids) /\ ids \cap Errors = {}
    BY <1>1, <1>11, <2>1, <2>2, AttachLogs DEF Errors
  <2>4. PICK g : /\ stack # << >> /\ TopIs(stack', g)
                 /\ ChangedIn(g, Innermost, {"taken", "children", "sigs", "pending", "body"})
    BY <1>11, AttachTop, Zenon
  <2>5. g.path = Innermost.path /\ Len(stack) \in DOMAIN stack
    BY <2>4, InnermostFacts DEF ChangedIn, FrameFields
  <2>6. \A q : InProgress(q)' <=> InProgress(q)
    BY <2>4, <2>5, TopInProgress
  <2> QED
    BY <1>3, <1>11, <2>3, <2>6 DEF Attach
<1>12. CASE NameConst
  <2>1. PICK g : /\ stack # << >> /\ TopIs(stack', g)
                 /\ ChangedIn(g, Innermost, {"taken", "consts"})
    BY <1>12, NameConstTop, Zenon
  <2>2. g.path = Innermost.path /\ Len(stack) \in DOMAIN stack
    BY <2>1, InnermostFacts DEF ChangedIn, FrameFields
  <2>3. \A q : InProgress(q)' <=> InProgress(q)
    BY <2>1, <2>2, TopInProgress
  <2> QED
    BY <1>3, <1>4, <1>12, <2>3 DEF NameConst
<1>13. CASE FinishGroup
  <2>1. PICK f : f = Innermost
    OBVIOUS
  <2>2. PICK base : base = BaseTypeName(f.type, f.joined)
    OBVIOUS
  <2>3. PICK ids : ids = VariantIds("group", base,
                           GroupSignature(base, f.children, f.sigs, f.consts))
    OBVIOUS
  <2>4. CountsAs(findings', f.path, ids) /\ ids \cap Errors = {}
    BY <1>1, <1>13, <2>1, <2>2, <2>3, FinishLogs DEF VariantIds, Errors
  <2>5. /\ DOMAIN described' = DOMAIN described \cup {f.path} /\ met' = met
        /\ DOMAIN stack' = 1 .. Len(stack) - 1
        /\ \A i \in DOMAIN stack' : i \in DOMAIN stack /\ stack'[i] = stack[i]
    BY <1>13, <2>1, FinishedFacts, FinishTop DEF FinishGroup
  <2>6. /\ Len(stack) \in Nat /\ DOMAIN stack = 1 .. Len(stack)
        /\ Len(stack) \in DOMAIN stack /\ f = stack[Len(stack)]
    BY <1>13, <2>1, FinishTop, InnermostFacts
  <2>7. \A q : q # f.path => (InProgress(q)' <=> InProgress(q))
    <3>1. \A i \in DOMAIN stack : i \in DOMAIN stack' \/ i = Len(stack)
      BY <2>5, <2>6
    <3> QED
      BY <2>5, <2>6, <3>1 DEF InProgress
  <2>8. InProgress(f.path)
    BY <2>6 DEF InProgress
  <2>9. \A q : Refused(q)' <=> Refused(q)
    BY <2>5, <2>7, <2>8 DEF Refused
  <2> QED
    BY <2>4, <2>9, ErrorsStay
<1>14. CASE UNCHANGED vars
  <2>1. \A q : InProgress(q)' <=> InProgress(q)
    BY <1>14 DEF vars, scanVars, InProgress
  <2> QED
    BY <1>3, <1>4, <1>14, <2>1 DEF vars, scanVars
<1> QED
  BY <1>5, <1>6, <1>7, <1>8, <1>9, <1>10, <1>11, <1>12, <1>13, <1>14 DEF Next

\* In every reachable state the log holds one error for each node that was turned
\* away, and none for a node that is described or in progress.
THEOREM ErrorInvariance == Spec => []ErrorInv
<1>1. Init => ErrorInv
  <2> SUFFICES ASSUME Init PROVE ErrorInv
    OBVIOUS
  <2>1. \A p : ~Refused(p)
    BY DEF Init, Refused
  <2> QED
    BY <2>1, NothingLogged DEF ErrorInv, ErrorsCounted, NoError
<1>2. ScannerInv /\ PathInv /\ FreshInv /\ ErrorInv /\ [Next]_vars => ErrorInv'
  BY ErrorStep
<1> QED
  BY <1>1, <1>2, ScannerInvariance, PathInvariance, Freshness, PTL DEF Spec

----------------------------------------------------------------------------
\* A group in progress at g has attached c.
InFrame(g, c) ==
  \E i \in DOMAIN stack : /\ stack[i].path = g
                          /\ \E j \in DOMAIN stack[i].children : c = stack[i].children[j]

\* A group described at g was interned with c.
InGroup(g, c) ==
  /\ g \in DOMAIN described /\ described[g].kind = "group"
  /\ \E j \in DOMAIN calls[g].sig.children : c = calls[g].sig.children[j]

\* c is a member of the group at g, finished or not.
Holds(g, c) == InFrame(g, c) \/ InGroup(g, c)

NamesOf(f) == {f.children[j].rdl : j \in DOMAIN f.children}

\* What a loop has attached it has visited; the group or the child it is at is
\* not attached yet.
NamesFresh ==
  /\ \A i \in DOMAIN stack : NamesOf(stack[i]) \subseteq stack[i].visited
  /\ \A i \in DOMAIN stack : i # 1 => stack[i].name \notin NamesOf(stack[i - 1])
  /\ ret # NoReturn => ret.name \notin NamesOf(Innermost)

\* The rename of a member is on record, and only if it was renamed.
Recorded(g, c) ==
  LET at == Append(g, c.rdl) IN
  IF c.inst # c.rdl
    THEN /\ Count("I201", at) = 1
         /\ <<"path", at>> \in DOMAIN mangleMap
         /\ mangleMap[<<"path", at>>] = c.inst
    ELSE Count("I201", at) = 0

Unrecorded(at) == Count("I201", at) = 0 /\ <<"path", at>> \notin DOMAIN mangleMap

RenamesCounted == \A g, c : Holds(g, c) => Recorded(g, c)

\* Where no member of that name is held nothing is on record.
OthersUnrecorded ==
  \A g \in Seq(Name) : \A n : (\A c : Holds(g, c) => c.rdl # n) => Unrecorded(Append(g, n))

\* Below the root, what is described is held by its parent or about to be.
Placed ==
  \A p \in DOMAIN described : p # <<TopName>> =>
    \/ ret # NoReturn /\ p = PathOf(ret.name)
    \/ \E g, c : Holds(g, c) /\ p = Append(g, c.rdl)

MemberInv == LogOK /\ NamesFresh /\ RenamesCounted /\ OthersUnrecorded /\ Placed

\* Paths made by appending are the same when their parts are.
LEMMA AppendTells ==
  ASSUME NEW s \in Seq(Name), NEW t \in Seq(Name), NEW n, NEW m, Append(s, n) = Append(t, m)
  PROVE  s = t /\ n = m
<1> DEFINE S == Name \cup {n, m}
<1>1. s \in Seq(S) /\ t \in Seq(S) /\ n \in S /\ m \in S
  OBVIOUS
<1> HIDE DEF S
<1>2. Front(Append(s, n)) = s /\ Front(Append(t, m)) = t
  BY <1>1, FrontOfAppended
<1>3. s = t
  BY <1>2
<1>4. Append(s, n)[Len(s) + 1] = n /\ Append(s, m)[Len(s) + 1] = m
  BY <1>1
<1> QED
  BY <1>3, <1>4

\* Paths made by appending are apart when their parts are.
LEMMA AppendsApart ==
  ASSUME NEW s \in Seq(Name), NEW t \in Seq(Name), NEW n, NEW m, ~(s = t /\ n = m)
  PROVE  Append(s, n) # Append(t, m)
BY AppendTells

\* Where a member is held.
LEMMA HoldersKnown ==
  ASSUME ScannerInv, PathInv, FreshInv
  PROVE  /\ \A i \in DOMAIN stack : stack[i].path \in Seq(Name) /\ Len(stack[i].path) = i
         /\ \A g, c : Holds(g, c) => g \in Seq(Name)
<1>1. \A i \in DOMAIN stack : stack[i].path \in Seq(Name) /\ Len(stack[i].path) = i
  BY DEF PathInv, PathsOK
<1>2. <<TopName>> \in Seq(Name)
  BY TreeAssumption
<1>3. \A g \in DOMAIN described : g \in Seq(Name)
  BY <1>2 DEF FreshInv
<1> QED
  BY <1>1, <1>3 DEF Holds, InFrame, InGroup

\* The innermost group in progress holds its children only.
LEMMA InnermostHolds ==
  ASSUME ScannerInv, PathInv, FreshInv, stack # << >>
  PROVE  \A c : Holds(Innermost.path, c)
                 <=> \E j \in DOMAIN Innermost.children : c = Innermost.children[j]
<1>1. /\ Len(stack) \in DOMAIN stack /\ Innermost = stack[Len(stack)]
  BY InnermostFacts
<1>2. \A i \in DOMAIN stack : stack[i].path = Innermost.path => i = Len(stack)
  BY <1>1, HoldersKnown
<1>3. Innermost.path \notin DOMAIN described
  BY <1>1 DEF FreshInv
<1> QED
  BY <1>1, <1>2, <1>3 DEF Holds, InFrame, InGroup

\* Calls whose group and children are the same hold the same.
LEMMA FramesHold ==
  ASSUME DOMAIN stack' = DOMAIN stack,
         \A i \in DOMAIN stack : /\ stack'[i].path = stack[i].path
                                 /\ stack'[i].children = stack[i].children
  PROVE  \A g, c : InFrame(g, c)' <=> InFrame(g, c)
BY DEF InFrame

\* Described groups hold what they held when none is added or changed.
LEMMA GroupsHold ==
  ASSUME UNCHANGED <<described, calls>>
  PROVE  \A g, c : InGroup(g, c)' <=> InGroup(g, c)
BY DEF InGroup

\* Two maps agree on the renamed members.
SamePathEntries(map, other) ==
  \A at : /\ <<"path", at>> \in DOMAIN map <=> <<"path", at>> \in DOMAIN other
          /\ <<"path", at>> \in DOMAIN other => map[<<"path", at>>] = other[<<"path", at>>]

\* The renames of types and encodings are apart from those of members.
LEMMA TypeRenamesApart ==
  ASSUME NEW map, NEW raw, NEW name
  PROVE  SamePathEntries(NoteRename(map, raw, name), map)
<1>1. \A at : <<"path", at>> # <<"name", raw>>
  OBVIOUS
<1>2. CASE NoteRename(map, raw, name) = map
  BY <1>2 DEF SamePathEntries
<1>3. CASE NoteRename(map, raw, name) = Extended(map, <<"name", raw>>, name)
  BY <1>1, <1>3 DEF SamePathEntries, Extended
<1> QED
  BY <1>2, <1>3 DEF NoteRename, SetDefault

\* A step that attaches nothing, reports no rename and enters none in the map.
LEMMA RenamesStay ==
  ASSUME MemberInv, \A g, c : Holds(g, c)' <=> Holds(g, c),
         NEW p, NEW ids, CountsAs(findings', p, ids), "I201" \notin ids,
         SamePathEntries(mangleMap', mangleMap)
  PROVE  RenamesCounted' /\ OthersUnrecorded' /\ LogOK'
<1>1. ASSUME NEW at
      PROVE  Count("I201", at)' = Count("I201", at)
  <2>1. Count("I201", at)' = Count("I201", at) + (IF at = p /\ "I201" \in ids THEN 1 ELSE 0)
    BY Logged DEF Tracked
  <2>2. Count("I201", at) \in Nat
    BY LogCounts DEF MemberInv
  <2> QED
    BY <2>1, <2>2
<1>2. \A g, c : Recorded(g, c) => Recorded(g, c)'
  BY <1>1 DEF Recorded, SamePathEntries
<1>3. \A at : Unrecorded(at) => Unrecorded(at)'
  BY <1>1 DEF Unrecorded, SamePathEntries
<1>4. RenamesCounted'
  BY <1>2 DEF MemberInv, RenamesCounted
<1>5. OthersUnrecorded'
  BY <1>3 DEF MemberInv, OthersUnrecorded
<1> QED
  BY <1>4, <1>5, Logged

\* The loop reaches one more child, and attaches none.
LEMMA MarkedMembers ==
  ASSUME ScannerInv, NEW name, Meets(name), stack' = Marked(name)
  PROVE  /\ DOMAIN stack' = DOMAIN stack /\ Len(stack') = Len(stack)
         /\ stack' # << >> /\ Len(stack) \in DOMAIN stack
         /\ \A i \in DOMAIN stack : /\ stack'[i].path = stack[i].path
                                    /\ stack'[i].name = stack[i].name
                                    /\ stack'[i].children = stack[i].children
                                    /\ stack[i].visited \subseteq stack'[i].visited
<1>1. stack # << >> /\ Len(stack) \in DOMAIN stack /\ Innermost = stack[Len(stack)]
  BY InnermostFacts DEF Meets
<1>2. PICK g : /\ TopIs(stack', g)
               /\ g.visited = Innermost.visited \cup {name}
               /\ ChangedIn(g, Innermost, {"visited"})
  BY <1>1, MarkedTop
<1>3. /\ g.path = Innermost.path /\ g.name = Innermost.name
      /\ g.children = Innermost.children
  BY <1>2 DEF ChangedIn, FrameFields
<1> QED
  BY <1>1, <1>2, <1>3 DEF TopIs

\* A child is met, and neither described nor entered: SkipMem, RejectReg.
LEMMA SkipMembers ==
  ASSUME ScannerInv, PathInv, MemberInv, NEW name, Meets(name), stack' = Marked(name),
         ret' = ret, UNCHANGED <<tableVars, described, mangleMap>>,
         NEW p, NEW e \in Errors, CountsAs(findings', p, {e})
  PROVE  MemberInv'
<1>1. /\ DOMAIN stack' = DOMAIN stack
      /\ \A i \in DOMAIN stack : /\ stack'[i].path = stack[i].path
                                 /\ stack'[i].name = stack[i].name
                                 /\ stack'[i].children = stack[i].children
                                 /\ stack[i].visited \subseteq stack'[i].visited
  BY MarkedMembers
<1>2. ret = NoReturn
  BY DEF Meets
<1>3. \A g, c : Holds(g, c)' <=> Holds(g, c)
  BY <1>1, FramesHold, GroupsHold DEF Holds, tableVars
<1>4. RenamesCounted' /\ OthersUnrecorded' /\ LogOK'
  <2>1. "I201" \notin {e}
    BY DEF Errors
  <2> QED
    BY <1>3, <2>1, RenamesStay DEF SamePathEntries
<1>5. \A i \in DOMAIN stack : i # 1 => i - 1 \in DOMAIN stack
  BY InnermostFacts DEF Meets
<1>6. NamesFresh'
  BY <1>1, <1>2, <1>5 DEF MemberInv, NamesFresh, NamesOf
<1>7. Placed'
  BY <1>2, <1>3 DEF MemberInv, Placed
<1> QED
  BY <1>4, <1>6, <1>7 DEF MemberInv

\* A child the loop reaches has a name that no child attached has.
LEMMA NewNameFresh ==
  ASSUME NamesFresh, ScannerInv, NEW name, Meets(name)
  PROVE  name \notin NamesOf(Innermost)
BY InnermostFacts DEF NamesFresh, Meets

\* A register is described and returned.
LEMMA ScanMembers ==
  ASSUME ScannerInv, PathInv, FreshInv, TreeInv, TreeInv', Grown, MemberInv,
         NEW name \in InstNames, NEW place \in Places, NEW d \in RegDescs,
         ScanReg(name, place, d)
  PROVE  MemberInv'
<1>1. PICK path, base : /\ path = PathOf(name)
                        /\ base = BaseTypeName(d.type, Joined(Innermost.joined, name))
  OBVIOUS
<1>2. PICK ids : ids = VariantIds("reg", base, RegSignature(base, d))
  OBVIOUS
<1>3. CountsAs(findings', path, ids) /\ "I201" \notin ids
  BY <1>1, <1>2, ScanLogs DEF VariantIds, MemberInv
<1>4. /\ Meets(name) /\ stack' = Marked(name) /\ ret = NoReturn /\ ret'.name = name
      /\ described' = Extended(described, path, [kind |-> "reg", base |-> base,
                                  content |-> RegContent(d), encode |-> d.encode])
  BY <1>1 DEF ScanReg, Meets
<1>5. path \notin DOMAIN described
  BY <1>1, ScannedFacts
<1>6. /\ DOMAIN described' = DOMAIN described \cup {path}
      /\ described'[path].kind = "reg"
      /\ \A q \in DOMAIN described : described'[q] = described[q] /\ calls'[q] = calls[q]
  BY <1>4, <1>5 DEF Extended, Grown
<1>7. /\ DOMAIN stack' = DOMAIN stack /\ Len(stack') = Len(stack)
      /\ Len(stack) \in DOMAIN stack
      /\ \A i \in DOMAIN stack : /\ stack'[i].path = stack[i].path
                                 /\ stack'[i].name = stack[i].name
                                 /\ stack'[i].children = stack[i].children
                                 /\ stack[i].visited \subseteq stack'[i].visited
  BY <1>4, MarkedMembers
<1>8. \A g, c : InGroup(g, c)' <=> InGroup(g, c)
  BY <1>5, <1>6 DEF InGroup
<1>9. \A g, c : Holds(g, c)' <=> Holds(g, c)
  BY <1>7, <1>8, FramesHold DEF Holds
<1>10. SamePathEntries(mangleMap', mangleMap)
  <2>1. PICK raw, to, was, at :
          /\ mangleMap' = NoteRename(was, raw, base)
          /\ was = mangleMap \/ was = NoteRename(mangleMap, at, to)
    BY <1>1 DEF ScanReg
  <2>2. SamePathEntries(mangleMap', was)
    BY <2>1, TypeRenamesApart
  <2>3. SamePathEntries(was, mangleMap)
    <3>1. CASE was = mangleMap
      BY <3>1 DEF SamePathEntries
    <3>2. CASE was = NoteRename(mangleMap, at, to)
      BY <3>2, TypeRenamesApart
    <3> QED
      BY <2>1, <3>1, <3>2
  <2> QED
    BY <2>2, <2>3 DEF SamePathEntries
<1>11. RenamesCounted' /\ OthersUnrecorded' /\ LogOK'
  BY <1>3, <1>9, <1>10, RenamesStay
<1>12. \A i \in DOMAIN stack : i # 1 => i - 1 \in DOMAIN stack
  BY <1>4, InnermostFacts DEF Meets
<1>13. name \notin NamesOf(Innermost')
  <2>1. name \notin NamesOf(Innermost)
    BY <1>4, NewNameFresh DEF MemberInv
  <2>2. Innermost'.children = Innermost.children
    BY <1>7 DEF Innermost
  <2> QED
    BY <2>1, <2>2 DEF NamesOf
<1>14. NamesFresh'
  <2>1. NamesOf(Innermost)' = NamesOf(Innermost')
    BY DEF NamesOf
  <2> QED
    BY <1>4, <1>7, <1>12, <1>13, <2>1 DEF MemberInv, NamesFresh, NamesOf
<1>15. ret' # NoReturn /\ PathOf(ret.name)' = path
  <2>1. Innermost'.path = Innermost.path
    BY <1>7 DEF Innermost
  <2>2. ret' # NoReturn
    <3>1. "name" \in DOMAIN ret'
      BY DEF ScanReg
    <3> QED
      BY <3>1, EmptyIsSeq DEF NoReturn
  <2> QED
    BY <1>1, <1>4, <2>1, <2>2 DEF PathOf
<1>16. Placed'
  BY <1>4, <1>6, <1>9, <1>15 DEF MemberInv, Placed
<1> QED
  BY <1>11, <1>14, <1>16 DEF MemberInv

\* A nested group is entered, with nothing attached.
LEMMA EnterMembers ==
  ASSUME ScannerInv, PathInv, FreshInv, MemberInv,
         NEW name \in InstNames, NEW place, NEW type, EnterGroup(name, place, type)
  PROVE  MemberInv'
<1>1. /\ Meets(name) /\ ret = NoReturn /\ ret' = NoReturn
      /\ UNCHANGED <<findings, mangleMap, described, tableVars>>
  BY DEF EnterGroup, Meets
<1>2. PICK g : /\ stack # << >>
               /\ DOMAIN stack' = 1 .. Len(stack) + 1
               /\ stack'[Len(stack) + 1] =
                    Frame(name, PathOf(name), Joined(Innermost.joined, name), type, place)
               /\ stack'[Len(stack)] = g
               /\ \A i \in DOMAIN stack : i # Len(stack) => stack'[i] = stack[i]
               /\ g.visited = Innermost.visited \cup {name}
               /\ ChangedIn(g, Innermost, {"visited"})
  BY EnterTop
<1>3. /\ Len(stack) \in Nat /\ DOMAIN stack = 1 .. Len(stack)
      /\ Len(stack) \in DOMAIN stack /\ Innermost = stack[Len(stack)]
  BY <1>2, InnermostFacts
<1>4. /\ g.path = Innermost.path /\ g.name = Innermost.name
      /\ g.children = Innermost.children
  BY <1>2 DEF ChangedIn, FrameFields
<1>5. /\ DOMAIN stack' = DOMAIN stack \cup {Len(stack) + 1}
      /\ \A i \in DOMAIN stack : /\ stack'[i].path = stack[i].path
                                 /\ stack'[i].name = stack[i].name
                                 /\ stack'[i].children = stack[i].children
                                 /\ stack[i].visited \subseteq stack'[i].visited
  <2>1. DOMAIN stack' = DOMAIN stack \cup {Len(stack) + 1}
    BY <1>2, <1>3
  <2> QED
    BY <1>2, <1>3, <1>4, <2>1
<1>6. /\ stack'[Len(stack) + 1].name = name
      /\ DOMAIN stack'[Len(stack) + 1].children = {}
  BY <1>2, EmptyIsSeq DEF Frame
<1>7. \A h, c : InFrame(h, c)' <=> InFrame(h, c)
  BY <1>5, <1>6 DEF InFrame
<1>8. \A h, c : Holds(h, c)' <=> Holds(h, c)
  BY <1>1, <1>7, GroupsHold DEF Holds, tableVars
<1>9. RenamesCounted' /\ OthersUnrecorded' /\ LogOK'
  <2>1. CountsAs(findings', TopName, {})
    BY <1>1, LogCounts DEF MemberInv
  <2> QED
    BY <1>1, <1>8, <2>1, RenamesStay DEF SamePathEntries
<1>10. NamesFresh'
  <2>1. ASSUME NEW i \in DOMAIN stack'
        PROVE  /\ NamesOf(stack'[i]) \subseteq stack'[i].visited
               /\ i # 1 => stack'[i].name \notin NamesOf(stack'[i - 1])
    <3>1. CASE i \in DOMAIN stack
      <4>1. i # 1 => i - 1 \in DOMAIN stack
        BY <1>3, <3>1
      <4> QED
        BY <1>5, <3>1, <4>1 DEF MemberInv, NamesFresh, NamesOf
    <3>2. CASE i = Len(stack) + 1
      <4>1. stack'[i - 1].children = Innermost.children /\ stack'[i].name = name
        BY <1>3, <1>5, <1>6, <3>2
      <4>2. name \notin NamesOf(Innermost)
        BY <1>1, NewNameFresh DEF MemberInv
      <4> QED
        BY <1>6, <3>2, <4>1, <4>2 DEF NamesOf
    <3> QED
      BY <1>5, <3>1, <3>2
  <2> QED
    BY <1>1, <2>1 DEF NamesFresh, NamesOf
<1>11. Placed'
  BY <1>1, <1>8 DEF MemberInv, Placed
<1> QED
  BY <1>9, <1>10, <1>11 DEF MemberInv

\* A constant is named.
LEMMA NameConstMembers ==
  ASSUME ScannerInv, MemberInv, NameConst
  PROVE  MemberInv'
<1>1. PICK g : /\ stack # << >> /\ TopIs(stack', g)
               /\ ChangedIn(g, Innermost, {"taken", "consts"})
  BY NameConstTop, Zenon
<1>2. /\ Len(stack) \in Nat /\ DOMAIN stack = 1 .. Len(stack)
      /\ Len(stack) \in DOMAIN stack /\ Innermost = stack[Len(stack)]
  BY <1>1, InnermostFacts
<1>3. /\ g.path = Innermost.path /\ g.name = Innermost.name
      /\ g.children = Innermost.children /\ g.visited = Innermost.visited
  BY <1>1 DEF ChangedIn, FrameFields
<1>4. /\ DOMAIN stack' = DOMAIN stack
      /\ \A i \in DOMAIN stack : /\ stack'[i].path = stack[i].path
                                 /\ stack'[i].name = stack[i].name
                                 /\ stack'[i].children = stack[i].children
                                 /\ stack'[i].visited = stack[i].visited
  BY <1>1, <1>2, <1>3 DEF TopIs
<1>5. /\ ret = NoReturn /\ ret' = NoReturn
      /\ UNCHANGED <<findings, mangleMap, described, tableVars>>
  BY DEF NameConst
<1>6. \A h, c : Holds(h, c)' <=> Holds(h, c)
  BY <1>4, <1>5, FramesHold, GroupsHold DEF Holds, tableVars
<1>7. RenamesCounted' /\ OthersUnrecorded' /\ LogOK'
  <2>1. CountsAs(findings', TopName, {})
    BY <1>5, LogCounts DEF MemberInv
  <2> QED
    BY <1>5, <1>6, <2>1, RenamesStay DEF SamePathEntries
<1>8. \A i \in DOMAIN stack : i # 1 => i - 1 \in DOMAIN stack
  BY <1>2
<1>9. NamesFresh'
  BY <1>4, <1>5, <1>8 DEF MemberInv, NamesFresh, NamesOf
<1>10. Placed'
  BY <1>5, <1>6 DEF MemberInv, Placed
<1> QED
  BY <1>7, <1>9, <1>10 DEF MemberInv

\* What attaching a child adds to the innermost group, and nowhere else.
LEMMA AttachHolds ==
  ASSUME ScannerInv, PathInv, Attach
  PROVE  \E c : /\ c.rdl = ret.name /\ c.inst = Mangle(ret.name, Innermost.taken)
                /\ \A g, x : Holds(g, x)' <=> Holds(g, x) \/ (g = Innermost.path /\ x = c)
                /\ stack # << >> /\ ret # NoReturn /\ ret' = NoReturn /\ ret.name \in Name
                /\ DOMAIN stack' = DOMAIN stack
                /\ \A i \in DOMAIN stack :
                     /\ stack'[i].name = stack[i].name
                     /\ stack'[i].visited = stack[i].visited
                     /\ NamesOf(stack'[i]) = IF i = Len(stack)
                          THEN NamesOf(stack[i]) \cup {ret.name} ELSE NamesOf(stack[i])
<1>1. PICK child, g :
        /\ stack # << >> /\ ret.name \in Name /\ ret # NoReturn /\ ret' = NoReturn
        /\ child = [inst |-> Mangle(ret.name, Innermost.taken), rdl |-> ret.name,
                    type |-> ret.type, kind |-> ret.kind, place |-> ret.place]
        /\ TopIs(stack', g)
        /\ ChangedIn(g, Innermost, {"taken", "children", "sigs", "pending", "body"})
        /\ g.children = Append(Innermost.children, child)
  BY AttachTop, Zenon
<1>2. child.rdl = ret.name /\ child.inst = Mangle(ret.name, Innermost.taken)
  BY <1>1
<1>3. /\ Len(stack) \in DOMAIN stack /\ Innermost = stack[Len(stack)]
      /\ IsSeq(Innermost.children)
  BY <1>1, InnermostFacts DEF FrameOK, MembersOK
<1>4. /\ g.path = Innermost.path /\ g.name = Innermost.name
      /\ g.visited = Innermost.visited
  BY <1>1 DEF ChangedIn, FrameFields
<1>5. PICK last : /\ DOMAIN g.children = DOMAIN Innermost.children \cup {last}
                  /\ \A j \in DOMAIN Innermost.children :
                       g.children[j] = Innermost.children[j]
                  /\ g.children[last] = child
  BY <1>1, <1>3, Pushed
<1>6. /\ DOMAIN stack' = DOMAIN stack
      /\ stack'[Len(stack)] = g
      /\ \A i \in DOMAIN stack : i # Len(stack) => stack'[i] = stack[i]
  BY <1>1 DEF TopIs
<1>7. ASSUME NEW i \in DOMAIN stack
      PROVE  /\ stack'[i].name = stack[i].name
             /\ stack'[i].visited = stack[i].visited
             /\ NamesOf(stack'[i]) = IF i = Len(stack)
                  THEN NamesOf(stack[i]) \cup {ret.name} ELSE NamesOf(stack[i])
  <2>1. NamesOf(g) = NamesOf(Innermost) \cup {ret.name}
    BY <1>2, <1>5 DEF NamesOf
  <2> QED
    BY <1>3, <1>4, <1>6, <2>1
<1>8. ASSUME NEW h, NEW x
      PROVE  Holds(h, x)' <=> Holds(h, x) \/ (h = Innermost.path /\ x = child)
  <2>1. InGroup(h, x)' <=> InGroup(h, x)
    BY GroupsHold DEF Attach, tableVars
  <2>2. (\E j \in DOMAIN g.children : x = g.children[j])
          <=> (\E j \in DOMAIN Innermost.children : x = Innermost.children[j]) \/ x = child
    BY <1>5
  <2>3. InFrame(h, x)' <=> InFrame(h, x) \/ (h = Innermost.path /\ x = child)
    BY <1>3, <1>4, <1>6, <2>2 DEF InFrame
  <2> QED
    BY <2>1, <2>3 DEF Holds
<1> QED
  BY <1>1, <1>2, <1>6, <1>7, <1>8, Zenon

\* A child is attached, under a name that is put on record if it is not its own.
LEMMA AttachMembers ==
  ASSUME ScannerInv, PathInv, FreshInv, MemberInv, Attach
  PROVE  MemberInv'
<1>1. PICK path, n : path = PathOf(ret.name) /\ n = ret.name
  OBVIOUS
<1>2. PICK c : /\ c.rdl = n /\ c.inst = Mangle(n, Innermost.taken)
               /\ \A g, x : Holds(g, x)' <=> Holds(g, x) \/ (g = Innermost.path /\ x = c)
               /\ stack # << >> /\ ret # NoReturn /\ ret' = NoReturn /\ n \in Name
               /\ DOMAIN stack' = DOMAIN stack
               /\ \A i \in DOMAIN stack :
                    /\ stack'[i].name = stack[i].name
                    /\ stack'[i].visited = stack[i].visited
                    /\ NamesOf(stack'[i]) = IF i = Len(stack)
                         THEN NamesOf(stack[i]) \cup {n} ELSE NamesOf(stack[i])
  BY <1>1, AttachHolds
<1>3. /\ Len(stack) \in Nat /\ DOMAIN stack = 1 .. Len(stack)
      /\ Len(stack) \in DOMAIN stack /\ Innermost = stack[Len(stack)]
  BY <1>2, InnermostFacts
<1>4. PICK home : home = Innermost.path /\ home \in Seq(Name) /\ Len(home) = Len(stack)
  BY <1>3, HoldersKnown
<1>5. path = Append(home, n)
  BY <1>1, <1>4 DEF PathOf
<1>6. \A x : Holds(home, x) => x.rdl # n
  <2>1. n \notin NamesOf(Innermost)
    BY <1>1, <1>2 DEF MemberInv, NamesFresh
  <2> QED
    BY <1>2, <1>4, <2>1, InnermostHolds DEF NamesOf
<1>7. Unrecorded(path)
  BY <1>4, <1>5, <1>6 DEF MemberInv, OthersUnrecorded
<1>8. PICK ids : ids = IF c.inst # n THEN {"I201"} ELSE {}
  OBVIOUS
<1>9. CountsAs(findings', path, ids)
  BY <1>1, <1>2, <1>8, AttachLogs DEF MemberInv
<1>10. ASSUME NEW at
       PROVE  Count("I201", at)' =
                IF at = path /\ c.inst # n THEN Count("I201", at) + 1 ELSE Count("I201", at)
  <2>1. Count("I201", at)' = Count("I201", at) + (IF at = path /\ "I201" \in ids THEN 1 ELSE 0)
    BY <1>9, Logged DEF Tracked
  <2>2. Count("I201", at) \in Nat
    BY LogCounts DEF MemberInv
  <2>3. "I201" \in ids <=> c.inst # n
    BY <1>8
  <2> QED
    BY <2>1, <2>2, <2>3
<1>11. mangleMap' = IF c.inst # n THEN SetDefault(mangleMap, <<"path", path>>, c.inst)
                                  ELSE mangleMap
  BY <1>1, <1>2 DEF Attach
<1>12. Recorded(home, c)'
  <2>1. CASE c.inst # n
    <3>1. Count("I201", path)' = 1
      BY <1>7, <1>10, <2>1 DEF Unrecorded
    <3>2. mangleMap' = Extended(mangleMap, <<"path", path>>, c.inst)
      BY <1>7, <1>11, <2>1 DEF Unrecorded, SetDefault
    <3>3. <<"path", path>> \in DOMAIN mangleMap' /\ mangleMap'[<<"path", path>>] = c.inst
      BY <3>2 DEF Extended
    <3> QED
      BY <1>2, <1>5, <2>1, <3>1, <3>3 DEF Recorded
  <2>2. CASE c.inst = n
    <3>1. Count("I201", path)' = 0
      BY <1>7, <1>10, <2>2 DEF Unrecorded
    <3> QED
      BY <1>2, <1>5, <2>2, <3>1 DEF Recorded
  <2> QED
    BY <2>1, <2>2
<1>13. ASSUME NEW at, at # path
       PROVE  /\ Count("I201", at)' = Count("I201", at)
              /\ <<"path", at>> \in DOMAIN mangleMap' <=> <<"path", at>> \in DOMAIN mangleMap
              /\ <<"path", at>> \in DOMAIN mangleMap =>
                   mangleMap'[<<"path", at>>] = mangleMap[<<"path", at>>]
  <2>1. Count("I201", at)' = Count("I201", at)
    BY <1>10, <1>13
  <2>2. <<"path", at>> # <<"path", path>>
    BY <1>13
  <2> QED
    BY <1>11, <2>1, <2>2 DEF SetDefault, Extended
<1>14. RenamesCounted'
  <2> SUFFICES ASSUME NEW g, NEW x, Holds(g, x)'
               PROVE  Recorded(g, x)'
    BY DEF RenamesCounted
  <2>1. CASE g = home /\ x = c
    BY <1>12, <2>1
  <2>2. CASE ~(g = home /\ x = c)
    <3>1. Holds(g, x) /\ g \in Seq(Name)
      BY <1>2, <1>4, <2>2, HoldersKnown
    <3>2. ~(g = home /\ x.rdl = n)
      BY <1>6, <3>1
    <3>3. home \in Seq(Name) /\ path = Append(home, n)
      BY <1>4, <1>5
    <3>4. Append(g, x.rdl) # Append(home, n)
      BY <3>1, <3>2, <3>3, AppendsApart
    <3>5. Append(g, x.rdl) # path
      BY <3>3, <3>4
    <3>6. Recorded(g, x)
      BY <3>1 DEF MemberInv, RenamesCounted
    <3> QED
      BY <1>13, <3>5, <3>6 DEF Recorded
  <2> QED
    BY <2>1, <2>2
<1>15. OthersUnrecorded'
  <2> SUFFICES ASSUME NEW g \in Seq(Name), NEW m, \A x : Holds(g, x)' => x.rdl # m
               PROVE  Unrecorded(Append(g, m))'
    BY DEF OthersUnrecorded
  <2>1. Append(g, m) # path
    <3>1. Holds(home, c)'
      BY <1>2, <1>4
    <3>2. ~(g = home /\ m = n)
      BY <1>2, <3>1
    <3>3. home \in Seq(Name) /\ path = Append(home, n)
      BY <1>4, <1>5
    <3>4. Append(g, m) # Append(home, n)
      BY <3>2, <3>3, AppendsApart
    <3> QED
      BY <3>3, <3>4
  <2>2. Unrecorded(Append(g, m))
    BY <1>2 DEF MemberInv, OthersUnrecorded
  <2> QED
    BY <1>13, <2>1, <2>2 DEF Unrecorded
<1>16. n \in Innermost.visited
  <2>1. path \in DOMAIN described
    BY <1>1, <1>2 DEF PathInv
  <2>2. PICK root : root = <<TopName>> /\ Len(root) = 1
    <3>1. Len(<<TopName>>) = 1
      OBVIOUS
    <3> QED
      BY <3>1, Zenon
  <2>3. Len(path) = Len(stack) + 1 /\ Len(stack) # 0
    BY <1>2, <1>3, <1>4, <1>5
  <2>4. path # root
    BY <1>3, <2>2, <2>3
  <2>5. path \in met
    BY <2>1, <2>2, <2>4 DEF FreshInv
  <2> QED
    BY <1>2, <1>3, <1>4, <1>5, <2>5 DEF FreshInv
<1>17. NamesFresh'
  <2>1. ASSUME NEW i \in DOMAIN stack'
        PROVE  /\ NamesOf(stack'[i]) \subseteq stack'[i].visited
               /\ i # 1 => stack'[i].name \notin NamesOf(stack'[i - 1])
    <3>1. i \in DOMAIN stack /\ (i # 1 => i - 1 \in DOMAIN stack /\ i - 1 # Len(stack))
      BY <1>2, <1>3
    <3> QED
      BY <1>2, <1>3, <1>16, <3>1 DEF MemberInv, NamesFresh
  <2> QED
    BY <1>2, <2>1 DEF NamesFresh, NamesOf
<1>18. Placed'
  <2>1. described' = described
    BY DEF Attach
  <2> SUFFICES ASSUME NEW p \in DOMAIN described, p # <<TopName>>
               PROVE  \E g, x : Holds(g, x)' /\ p = Append(g, x.rdl)
    BY <2>1 DEF Placed
  <2>2. CASE p = path
    BY <1>2, <1>4, <1>5, <2>2
  <2>3. CASE p # path
    BY <1>1, <1>2, <2>3 DEF MemberInv, Placed
  <2> QED
    BY <2>2, <2>3
<1>19. LogOK'
  BY <1>9, Logged
<1> QED
  BY <1>14, <1>15, <1>17, <1>18, <1>19 DEF MemberInv

\* A group that finishes holds what its call held, and is returned.
LEMMA FinishHolds ==
  ASSUME ScannerInv, PathInv, FreshInv, TreeInv, TreeInv', Grown, FinishGroup
  PROVE  \A g, c : Holds(g, c)' <=> Holds(g, c)
<1>1. PICK f, path, base, sig :
        /\ f = Innermost /\ path = f.path /\ base = BaseTypeName(f.type, f.joined)
        /\ sig = GroupSignature(base, f.children, f.sigs, f.consts)
  OBVIOUS
<1>2. /\ stack # << >> /\ DOMAIN stack' = 1 .. Len(stack) - 1
      /\ \A i \in DOMAIN stack' : i \in DOMAIN stack /\ stack'[i] = stack[i]
  BY FinishTop
<1>3. /\ Len(stack) \in Nat /\ DOMAIN stack = 1 .. Len(stack)
      /\ Len(stack) \in DOMAIN stack /\ f = stack[Len(stack)]
  BY <1>1, <1>2, InnermostFacts
<1>4. \A i \in DOMAIN stack : i \in DOMAIN stack' \/ i = Len(stack)
  BY <1>2, <1>3
<1>5. path \notin DOMAIN described
  BY <1>1, FinishedFacts
<1>6. /\ described' = Extended(described, path, [kind |-> "group", base |-> base,
                                 content |-> [body |-> f.body], encode |-> NoEncode])
      /\ calls' = Extended(calls, path, [kind |-> "group", base |-> base, sig |-> sig])
  BY <1>1 DEF FinishGroup, Intern
<1>7. /\ DOMAIN described' = DOMAIN described \cup {path}
      /\ described'[path].kind = "group"
      /\ calls'[path].sig.children = f.children
  <2>1. sig.children = f.children
    BY <1>1 DEF GroupSignature
  <2> QED
    BY <1>6, <2>1 DEF Extended
<1>8. \A q \in DOMAIN described : described'[q] = described[q] /\ calls'[q] = calls[q]
  BY DEF Grown
<1>9. ASSUME NEW g, NEW c
      PROVE  Holds(g, c)' <=> Holds(g, c)
  <2> DEFINE new == g = path /\ \E j \in DOMAIN f.children : c = f.children[j]
  <2>1. InFrame(g, c) <=> InFrame(g, c)' \/ new
    BY <1>1, <1>2, <1>3, <1>4 DEF InFrame
  <2>2. InGroup(g, c)' <=> InGroup(g, c) \/ new
    BY <1>5, <1>7, <1>8 DEF InGroup
  <2> QED
    BY <2>1, <2>2 DEF Holds
<1> QED
  BY <1>9

\* A group that finishes is described, and returned to its parent if it has one.
LEMMA FinishMembers ==
  ASSUME ScannerInv, PathInv, FreshInv, TreeInv, TreeInv', Grown, MemberInv, FinishGroup
  PROVE  MemberInv'
<1>1. PICK f, path, base, sig :
        /\ f = Innermost /\ path = f.path /\ base = BaseTypeName(f.type, f.joined)
        /\ sig = GroupSignature(base, f.children, f.sigs, f.consts)
  OBVIOUS
<1>2. /\ stack # << >> /\ ret = NoReturn /\ DOMAIN stack' = 1 .. Len(stack) - 1
      /\ \A i \in DOMAIN stack' : i \in DOMAIN stack /\ stack'[i] = stack[i]
      /\ Len(stack) # 1 => stack' # << >> /\ Len(stack') = Len(stack) - 1
  BY FinishTop
<1>3. /\ Len(stack) \in Nat /\ DOMAIN stack = 1 .. Len(stack)
      /\ Len(stack) \in DOMAIN stack /\ f = stack[Len(stack)]
  BY <1>1, <1>2, InnermostFacts
<1>4. \A g, c : Holds(g, c)' <=> Holds(g, c)
  BY FinishHolds
<1>5. PICK ids : ids = VariantIds("group", base, sig)
  OBVIOUS
<1>6. CountsAs(findings', path, ids) /\ "I201" \notin ids
  BY <1>1, <1>5, FinishLogs DEF VariantIds, MemberInv
<1>7. SamePathEntries(mangleMap', mangleMap)
  <2>1. PICK raw : mangleMap' = NoteRename(mangleMap, raw, base)
    BY <1>1 DEF FinishGroup
  <2> QED
    BY <2>1, TypeRenamesApart
<1>8. RenamesCounted' /\ OthersUnrecorded' /\ LogOK'
  BY <1>4, <1>6, <1>7, RenamesStay
<1>9. CASE Len(stack) = 1
  <2>1. ret' = NoReturn /\ stack' = << >>
    <3>1. ret' = NoReturn
      BY <1>2, <1>9 DEF FinishGroup
    <3> QED
      BY <1>3, <1>9, <3>1 DEF FinishGroup
  <2>2. NamesFresh'
    BY <2>1, EmptyIsSeq DEF NamesFresh
  <2>3. path = <<TopName>>
    <3>1. path \in met \cup {<<TopName>>} /\ Len(path) = 1
      BY <1>1, <1>3, <1>9 DEF PathInv, PathsOK
    <3>2. path \notin met
      <4>1. \A p \in met : Len(p) >= 2
        BY DEF FreshInv
      <4>2. ~(1 >= 2)
        OBVIOUS
      <4> QED
        BY <3>1, <4>1, <4>2, Zenon
    <3> QED
      BY <3>1, <3>2
  <2>4. DOMAIN described' = DOMAIN described \cup {path}
    BY <1>1, FinishedFacts
  <2>5. Placed'
    BY <1>2, <1>4, <2>3, <2>4 DEF MemberInv, Placed
  <2> QED
    BY <1>8, <2>2, <2>5 DEF MemberInv
<1>10. CASE Len(stack) # 1
  <2>1. ret'.name = f.name /\ "name" \in DOMAIN ret'
    BY <1>1, <1>10 DEF FinishGroup
  <2>2. ret' # NoReturn
    BY <2>1, EmptyIsSeq DEF NoReturn
  <2>3. /\ Innermost' = stack[Len(stack) - 1] /\ Len(stack) - 1 \in DOMAIN stack
    BY <1>2, <1>3, <1>10 DEF Innermost
  <2>4. path = Append(stack[Len(stack) - 1].path, f.name)
    BY <1>1, <1>3, <1>10 DEF PathInv, PathsOK
  <2>5. PathOf(ret.name)' = path
    BY <2>1, <2>3, <2>4 DEF PathOf
  <2>6. DOMAIN described' = DOMAIN described \cup {path}
    BY <1>1, FinishedFacts
  <2>7. Placed'
    <3> SUFFICES ASSUME NEW p \in DOMAIN described', p # <<TopName>>, p # path
                 PROVE  \E g, c : Holds(g, c)' /\ p = Append(g, c.rdl)
      BY <2>2, <2>5 DEF Placed
    <3>1. PICK g, c : Holds(g, c) /\ p = Append(g, c.rdl)
      BY <1>2, <2>6 DEF MemberInv, Placed
    <3> QED
      BY <1>4, <3>1
  <2>8. f.name \notin NamesOf(stack[Len(stack) - 1])
    BY <1>3, <1>10 DEF MemberInv, NamesFresh
  <2>9. \A i \in DOMAIN stack' : i # 1 => i - 1 \in DOMAIN stack'
    <3>1. PICK n : n = Len(stack) /\ n \in Nat
      BY <1>3
    <3> QED
      BY <1>2, <3>1
  <2>10. NamesFresh'
    BY <1>2, <2>1, <2>3, <2>8, <2>9 DEF MemberInv, NamesFresh, NamesOf
  <2> QED
    BY <1>8, <2>7, <2>10 DEF MemberInv
<1> QED
  BY <1>9, <1>10

\* A step that leaves calls and members alone.
LEMMA OtherMembers ==
  ASSUME MemberInv, UNCHANGED <<tableVars, described, mangleMap, stack, ret>>,
         NEW p, NEW ids, CountsAs(findings', p, ids), "I201" \notin ids
  PROVE  MemberInv'
<1>1. \A g, c : Holds(g, c)' <=> Holds(g, c)
  BY FramesHold, GroupsHold DEF Holds, tableVars
<1>2. RenamesCounted' /\ OthersUnrecorded' /\ LogOK'
  BY <1>1, RenamesStay DEF SamePathEntries
<1>3. NamesFresh'
  BY DEF MemberInv, NamesFresh, NamesOf, Innermost
<1>4. Placed'
  <2>1. PathOf(ret.name)' = PathOf(ret.name)
    BY DEF PathOf, Innermost
  <2> QED
    BY <1>1, <2>1 DEF MemberInv, Placed
<1> QED
  BY <1>2, <1>3, <1>4 DEF MemberInv

\* The walk begins with the root, which holds nothing.
LEMMA StartMembers ==
  ASSUME PathInv, FreshInv, MemberInv, IdleOK, NEW type, Start(type)
  PROVE  MemberInv'
<1>1. /\ stack' = <<Frame(TopName, <<TopName>>, TopName, type, NoReturn)>>
      /\ UNCHANGED <<findings, mangleMap, described, tableVars, ret>> /\ status = "idle"
  BY DEF Start
<1>2. DOMAIN stack = {} /\ ret = NoReturn
  BY <1>1, EmptyIsSeq DEF PathInv, IdleOK
<1>3. DOMAIN stack' = {1} /\ DOMAIN stack'[1].children = {}
  BY <1>1, EmptyIsSeq DEF Frame
<1>4. \A g, c : Holds(g, c)' <=> Holds(g, c)
  <2>1. \A g, c : ~InFrame(g, c) /\ ~InFrame(g, c)'
    BY <1>2, <1>3 DEF InFrame
  <2> QED
    BY <1>1, <2>1, GroupsHold DEF Holds, tableVars
<1>5. RenamesCounted' /\ OthersUnrecorded' /\ LogOK'
  <2>1. CountsAs(findings', TopName, {})
    BY <1>1, LogCounts DEF MemberInv
  <2> QED
    BY <1>1, <1>4, <2>1, RenamesStay DEF SamePathEntries
<1>6. NamesFresh'
  BY <1>1, <1>2, <1>3 DEF NamesFresh, NamesOf
<1>7. Placed'
  BY <1>1, <1>2, <1>4 DEF MemberInv, Placed
<1> QED
  BY <1>5, <1>6, <1>7 DEF MemberInv

\* Every step keeps the account of members.
LEMMA MemberStep ==
  ASSUME ScannerInv, IdleOK, PathInv, FreshInv, TreeInv, MemberInv, [Next]_vars
  PROVE  MemberInv'
<1>1. LogOK /\ TreeInv' /\ Grown
  BY TreeStep DEF MemberInv
<1>2. ASSUME UNCHANGED <<tableVars, described, mangleMap, stack, ret, findings>>
      PROVE  MemberInv'
  <2>1. CountsAs(findings', TopName, {})
    BY <1>1, <1>2, LogCounts
  <2> QED
    BY <1>2, <2>1, OtherMembers
<1>3. CASE RefuseBridge
  <2>1. findings' = findings \o <<Finding("E003", <<TopName>>)>>
    BY <1>1, <1>3, JoinedShort DEF RefuseBridge, LogOK
  <2>2. CountsAs(findings', <<TopName>>, {"E003"})
    BY <1>1, <2>1, LogCounts, CountedJoined
  <2> QED
    BY <1>3, <2>2, OtherMembers DEF RefuseBridge
<1>4. ASSUME NEW type \in GroupTypes, Start(type)
      PROVE  MemberInv'
  BY <1>4, StartMembers
<1>5. ASSUME NEW name \in InstNames, SkipMem(name)
      PROVE  MemberInv'
  <2>1. CountsAs(findings', PathOf(name), {"E004"}) /\ "E004" \in Errors
    BY <1>1, <1>5, SkipLogs DEF Errors
  <2> QED
    BY <1>5, <2>1, SkipMembers DEF SkipMem
<1>6. ASSUME NEW name \in InstNames, NEW d \in RegDescs, RejectReg(name, d)
      PROVE  MemberInv'
  <2>1. PICK e \in Errors : CountsAs(findings', PathOf(name), {e})
    BY <1>1, <1>6, RejectLogs
  <2> QED
    BY <1>6, <2>1, SkipMembers DEF RejectReg
<1>7. ASSUME NEW name \in InstNames, NEW place \in Places, NEW d \in RegDescs,
             ScanReg(name, place, d)
      PROVE  MemberInv'
  BY <1>1, <1>7, ScanMembers
<1>8. ASSUME NEW name \in InstNames, NEW place \in Places, NEW type \in GroupTypes,
             EnterGroup(name, place, type)
      PROVE  MemberInv'
  BY <1>8, EnterMembers
<1>9. CASE Attach
  BY <1>9, AttachMembers
<1>10. CASE NameConst
  BY <1>10, NameConstMembers
<1>11. CASE FinishGroup
  BY <1>1, <1>11, FinishMembers
<1>12. CASE UNCHANGED vars
  BY <1>2, <1>12 DEF vars, scanVars
<1> QED
  BY <1>3, <1>4, <1>5, <1>6, <1>7, <1>8, <1>9, <1>10, <1>11, <1>12 DEF Next

\* In every reachable state each described node is held by its parent or about to
\* be, and the log and the map have the name it is held under.
THEOREM MemberInvariance == Spec => []MemberInv
<1>1. Init => MemberInv
  <2> SUFFICES ASSUME Init PROVE MemberInv
    OBVIOUS
  <2>1. /\ DOMAIN stack = {} /\ DOMAIN described = {} /\ DOMAIN mangleMap = {}
        /\ ret = NoReturn
    BY EmptyIsSeq DEF Init
  <2>2. NamesFresh /\ Placed
    BY <2>1 DEF NamesFresh, Placed
  <2>3. \A g, c : ~Holds(g, c)
    BY <2>1 DEF Holds, InFrame, InGroup
  <2> QED
    BY <2>1, <2>2, <2>3, NothingLogged
       DEF MemberInv, RenamesCounted, OthersUnrecorded, Unrecorded
<1>2. ScannerInv /\ IdleOK /\ PathInv /\ FreshInv /\ TreeInv /\ MemberInv /\ [Next]_vars
        => MemberInv'
  BY MemberStep
<1> QED
  BY <1>1, <1>2, ScannerInvariance, PathInvariance, Freshness, TreeInvariance, PTL DEF Spec

----------------------------------------------------------------------------
\* The members of a described group are those of its emitted component.
LEMMA ComponentMembers ==
  ASSUME NodesInv, NEW p \in DOMAIN described
  PROVE  ChildrenOf(TypeOf(p)) = calls[p].sig.children
<1>1. IndexInv /\ p \in DOMAIN calls
  BY DEF NodesInv, CallsMatch
<1>2. byName[TypeOf(p)].sig = calls[p].sig
  BY <1>1, TypeOfIsTypeAt DEF TypesAreIndexed
<1> QED
  BY <1>2 DEF ChildrenOf

\* Every renamed member is reported at every instance path that has it, and the
\* rename map gives its emitted name there (_scan_group).
THEOREM RenamesAreReported == Spec => []RenamesReported
<1>1. TreeInv /\ MemberInv => RenamesReported
  <2> SUFFICES ASSUME TreeInv, MemberInv, NEW p \in DescribedGroups,
                      NEW i \in DOMAIN ChildrenOf(TypeOf(p))
               PROVE  Recorded(p, ChildrenOf(TypeOf(p))[i])
    BY DEF RenamesReported, Recorded
  <2>1. p \in DOMAIN described /\ described[p].kind = "group"
    BY DEF DescribedGroups
  <2>2. ChildrenOf(TypeOf(p)) = calls[p].sig.children
    BY <2>1, ComponentMembers DEF TreeInv
  <2>3. Holds(p, ChildrenOf(TypeOf(p))[i])
    BY <2>1, <2>2 DEF Holds, InGroup
  <2> QED
    BY <2>3 DEF MemberInv, RenamesCounted
<1> QED
  BY <1>1, TreeInvariance, MemberInvariance, PTL

\* At the end of a scan no node is left in progress and no child unattached.
LEMMA DoneIsEmpty ==
  ASSUME PathInv, ScannerInv, status = "done"
  PROVE  stack = << >> /\ DOMAIN stack = {} /\ ret = NoReturn
<1>1. stack = << >>
  BY DEF PathInv
<1>2. ret = NoReturn
  BY <1>1 DEF ScannerInv, ReturnOK
<1> QED
  BY <1>1, <1>2, EmptyIsSeq

\* A node met is not dropped: it is a child of its parent's component, of the kind
\* and the type it was given, or it is the subject of exactly one error.
THEOREM NothingIsDropped == Spec => []NothingDropped
<1>1. ScannerInv /\ PathInv /\ FreshInv /\ TreeInv /\ ErrorInv /\ MemberInv => NothingDropped
  <2> SUFFICES ASSUME ScannerInv, PathInv, FreshInv, TreeInv, ErrorInv, MemberInv,
                      status = "done", NEW p \in met
               PROVE  IF p \in DOMAIN described
                        THEN /\ \A id \in Errors : Count(id, p) = 0
                             /\ Front(p) \in DOMAIN described
                             /\ \E i \in DOMAIN ChildrenOf(TypeOf(Front(p))) :
                                  LET child == ChildrenOf(TypeOf(Front(p)))[i] IN
                                  /\ child.rdl = Last(p)
                                  /\ child.kind = described[p].kind
                                  /\ child.type = TypeOf(p)
                        ELSE Cardinality({id \in Errors : Count(id, p) = 1}) = 1
    BY DEF NothingDropped
  <2>1. stack = << >> /\ DOMAIN stack = {} /\ ret = NoReturn
    BY DoneIsEmpty
  <2>2. p \in Seq(Name) /\ Len(p) >= 2
    BY DEF FreshInv
  <2>3. p # <<TopName>>
    <3>1. PICK root : root = <<TopName>> /\ Len(root) = 1
      <4>1. Len(<<TopName>>) = 1
        OBVIOUS
      <4> QED
        BY <4>1, Zenon
    <3>2. ~(1 >= 2)
      OBVIOUS
    <3>3. p # root
      BY <2>2, <3>1, <3>2, Zenon
    <3> QED
      BY <3>1, <3>3
  <2>4. CASE p \in DOMAIN described
    <3>1. NoError(p)
      BY <2>3, <2>4 DEF ErrorInv, ErrorsCounted, Refused
    <3>2. PICK g, c : Holds(g, c) /\ p = Append(g, c.rdl)
      BY <2>1, <2>3, <2>4 DEF MemberInv, Placed
    <3>3. g \in Seq(Name) /\ Front(p) = g /\ Last(p) = c.rdl
      <4>1. g \in Seq(Name) /\ g \in Seq(Name \cup {c.rdl}) /\ c.rdl \in Name \cup {c.rdl}
        BY <3>2, HoldersKnown
      <4>2. Front(Append(g, c.rdl)) = g
        BY <4>1, FrontOfAppended
      <4>3. Last(Append(g, c.rdl)) = c.rdl
        BY <4>1 DEF Last
      <4> QED
        BY <3>2, <4>1, <4>2, <4>3
    <3>4. /\ g \in DOMAIN described /\ described[g].kind = "group"
          /\ \E j \in DOMAIN calls[g].sig.children : c = calls[g].sig.children[j]
      BY <2>1, <3>2 DEF Holds, InFrame, InGroup
    <3>5. PICK f : IsFinished(g, f)
      BY <3>4 DEF TreeInv, NodesInv, DescribedFrom
    <3>6. calls[g].sig.children = f.children
      BY <3>5 DEF IsFinished, GroupSignature
    <3>7. PICK j \in DOMAIN f.children : c = f.children[j]
      BY <3>4, <3>6
    <3>8. c.rdl = f.body[j].name
      <4>1. PICK row : row = [inst |-> Mangle(f.body[j].name, InstsBefore(f.children, j)),
                              rdl |-> f.body[j].name, type |-> f.children[j].type,
                              kind |-> f.children[j].kind, place |-> f.body[j].place]
        OBVIOUS
      <4>2. f.children[j] = row
        BY <3>5, <3>7, <4>1 DEF IsFinished, Formed, ChildrenFormed
      <4>3. row.rdl = f.body[j].name
        BY <4>1
      <4> QED
        BY <3>7, <4>2, <4>3
    <3>9. described[p].kind = c.kind /\ TypeAt(p) = c.type
      BY <3>2, <3>5, <3>7, <3>8 DEF IsFinished, Linked
    <3>10. TypeOf(p) = TypeAt(p)
      BY <2>4, TreeTypes DEF TreeInv, TypesKnown, NodesInv, CallsMatch
    <3>11. ChildrenOf(TypeOf(g)) = f.children
      BY <3>4, <3>6, ComponentMembers DEF TreeInv
    <3> QED
      BY <2>4, <3>1, <3>3, <3>4, <3>7, <3>9, <3>10, <3>11 DEF NoError
  <2>5. CASE p \notin DOMAIN described
    <3>1. Refused(p)
      BY <2>1, <2>5 DEF Refused, InProgress
    <3>2. PICK e \in Errors : \A id \in Errors : Count(id, p) = IF id = e THEN 1 ELSE 0
      BY <2>3, <3>1 DEF ErrorInv, ErrorsCounted, OneError
    <3>3. {id \in Errors : Count(id, p) = 1} = {e}
      BY <3>2
    <3>4. Cardinality({e}) = 1
      BY FS_Singleton
    <3> QED
      BY <2>5, <3>3, <3>4
  <2> QED
    BY <2>4, <2>5
<1> QED
  BY <1>1, ScannerInvariance, PathInvariance, Freshness, TreeInvariance, ErrorInvariance,
     MemberInvariance, PTL
=============================================================================
