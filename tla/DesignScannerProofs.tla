------------------------ MODULE DesignScannerProofs ------------------------
(***************************************************************************)
(* What every scan guarantees of the package it leaves, for every design:  *)
(* members of a component are distinct and legal, instance names win over  *)
(* generated constants, and a component comes after those it instantiates. *)
(*                                                                         *)
(* None of the three is inductive.  Names are claimed frame by frame, well *)
(* before a component exists, so the invariant speaks of calls in progress:*)
(* the namespace of a call in its first pass is exactly the names of its   *)
(* children (FrameOK), only the innermost call has begun its second pass   *)
(* (FramesOK), and a child that was returned or attached is emitted        *)
(* (ReturnOK, AllBuildable).  Of the type tables it needs TablesInv: what  *)
(* the lookups answer is emitted, what is emitted has a taken name.        *)
(* PathInv adds, for ScannerTypeOK, where in the tree each call is.        *)
(***************************************************************************)
EXTENDS DesignScanner, TypeTableProofs

\* A sequence, of whatever.
IsSeq(s) == s \in Seq({s[i] : i \in DOMAIN s})

\* A sequence over a set is one over its own elements.
LEMMA SeqIsSeq ==
  ASSUME NEW S, NEW s \in Seq(S)
  PROVE  /\ IsSeq(s)
         /\ Len(s) \in Nat
         /\ DOMAIN s = 1 .. Len(s)
         /\ \A i \in DOMAIN s : s[i] \in S
BY DEF IsSeq

\* The empty sequence.
LEMMA EmptyIsSeq ==
  IsSeq(<< >>) /\ Len(<< >>) = 0 /\ DOMAIN << >> = {}
BY DEF IsSeq

\* What being a sequence means for length and domain.
LEMMA SeqFacts ==
  ASSUME NEW s, IsSeq(s)
  PROVE  /\ Len(s) \in Nat
         /\ DOMAIN s = 1 .. Len(s)
         /\ s = << >> <=> Len(s) = 0
         /\ s # << >> => Len(s) \in DOMAIN s
BY DEF IsSeq

\* What appending to a sequence does.
LEMMA Pushed ==
  ASSUME NEW s, IsSeq(s), NEW x
  PROVE  /\ IsSeq(Append(s, x))
         /\ Len(Append(s, x)) = Len(s) + 1
         /\ DOMAIN Append(s, x) = DOMAIN s \cup {Len(s) + 1}
         /\ Len(s) + 1 \notin DOMAIN s
         /\ \A i \in DOMAIN s : Append(s, x)[i] = s[i]
         /\ Append(s, x)[Len(s) + 1] = x
         /\ Append(s, x) # << >>
<1> DEFINE S == {s[i] : i \in DOMAIN s} \cup {x}
<1>1. s \in Seq(S)
  BY DEF IsSeq
<1> HIDE DEF S
<1>2. x \in S
  BY DEF S
<1>3. /\ Append(s, x) \in Seq(S)
      /\ Len(Append(s, x)) = Len(s) + 1
      /\ DOMAIN Append(s, x) = DOMAIN s \cup {Len(s) + 1}
      /\ Len(s) + 1 \notin DOMAIN s
      /\ \A i \in DOMAIN s : Append(s, x)[i] = s[i]
      /\ Append(s, x)[Len(s) + 1] = x
  BY <1>1, <1>2, AppendFacts
<1>4. IsSeq(Append(s, x))
  BY <1>3, SeqIsSeq
<1>5. Append(s, x) # << >>
  BY <1>1, <1>3, <1>4, SeqFacts
<1> QED
  BY <1>3, <1>4, <1>5

\* What dropping the last element of a sequence does.
LEMMA Popped ==
  ASSUME NEW s, IsSeq(s), s # << >>
  PROVE  /\ IsSeq(SubSeq(s, 1, Len(s) - 1))
         /\ Len(SubSeq(s, 1, Len(s) - 1)) = Len(s) - 1
         /\ DOMAIN SubSeq(s, 1, Len(s) - 1) = 1 .. Len(s) - 1
         /\ \A i \in 1 .. Len(s) - 1 : SubSeq(s, 1, Len(s) - 1)[i] = s[i]
<1> DEFINE S == {s[i] : i \in DOMAIN s}
           t == SubSeq(s, 1, Len(s) - 1)
<1>1. s \in Seq(S) /\ Len(s) \in Nat \ {0} /\ DOMAIN s = 1 .. Len(s)
  BY SeqFacts DEF IsSeq
<1> HIDE DEF S
<1>2. /\ t \in Seq(S)
      /\ Len(t) = Len(s) - 1
      /\ \A i \in 1 .. Len(s) - 1 : t[i] = s[i]
  BY <1>1
<1> QED
  BY <1>1, <1>2, SeqIsSeq

\* What replacing the last element of a sequence does.
LEMMA LastReplaced ==
  ASSUME NEW s, IsSeq(s), s # << >>, NEW x, NEW t, t = [s EXCEPT ![Len(s)] = x]
  PROVE  /\ IsSeq(t)
         /\ Len(t) = Len(s)
         /\ DOMAIN t = DOMAIN s
         /\ t[Len(s)] = x
         /\ \A i \in DOMAIN s : i # Len(s) => t[i] = s[i]
         /\ t # << >>
<1> DEFINE S == {s[i] : i \in DOMAIN s} \cup {x}
<1>1. s \in Seq(S) /\ Len(s) \in Nat \ {0} /\ DOMAIN s = 1 .. Len(s)
  BY SeqFacts DEF IsSeq
<1>2. x \in S
  OBVIOUS
<1> HIDE DEF S
<1>3. t \in Seq(S) /\ Len(t) = Len(s)
  BY <1>1, <1>2
<1>4. /\ t[Len(s)] = x
      /\ \A i \in DOMAIN s : i # Len(s) => t[i] = s[i]
  BY <1>1
<1>5. /\ IsSeq(t) /\ DOMAIN t = 1 .. Len(t)
  BY <1>3, SeqIsSeq
<1> QED
  BY <1>1, <1>3, <1>4, <1>5, SeqFacts

----------------------------------------------------------------------------
\* The members of a component: instances, then constants, each with a name of
\* its own, and an instance renamed only for a cause of its own.
MembersOK(children, consts) ==
  /\ IsSeq(children) /\ IsSeq(consts)
  /\ \A i \in DOMAIN children : /\ children[i].inst \in Name \ Reserved
                                /\ children[i].kind \in Kinds
  /\ \A i, j \in DOMAIN children : i # j => children[i].inst # children[j].inst
  /\ \A i \in DOMAIN children : children[i].inst # children[i].rdl =>
       \/ Sanitize(children[i].rdl) # children[i].rdl
       \/ children[i].rdl \in Reserved
       \/ \E j \in 1 .. i - 1 : children[j].inst = children[i].rdl
  /\ \A i \in DOMAIN consts : consts[i].name \in Name \ Reserved
  /\ \A i, j \in DOMAIN consts : i # j => consts[i].name # consts[j].name
  /\ \A i \in DOMAIN children, j \in DOMAIN consts : children[i].inst # consts[j].name

FrameFields == {"name", "path", "joined", "type", "place", "visited", "taken", "children",
                "sigs", "pending", "consts", "body"}

\* A call of _scan_group: its namespace holds the names of its members and, in
\* the first pass, nothing else.
FrameOK(f) ==
  /\ DOMAIN f = FrameFields
  /\ f.name \in Name /\ f.joined \in Name /\ f.type \in Name \cup {NoType}
  /\ IsFiniteSet(f.taken)
  /\ MembersOK(f.children, f.consts)
  /\ IsSeq(f.pending)
  /\ \A i \in DOMAIN f.pending : f.pending[i].inst \in Name
  /\ \A i \in DOMAIN f.children : f.children[i].inst \in f.taken
  /\ \A i \in DOMAIN f.consts : f.consts[i].name \in f.taken
  /\ f.consts = << >> =>
       \A n \in f.taken : \E i \in DOMAIN f.children : f.children[i].inst = n

\* Frames are compared by what the invariant looks at.
SameFrame(f, g) ==
  /\ DOMAIN g = FrameFields
  /\ g.name = f.name /\ g.joined = f.joined /\ g.type = f.type

\* A child attached in the first pass.
LEMMA ChildNamed ==
  ASSUME NEW f, FrameOK(f), f.consts = << >>,
         NEW child, child.rdl \in Name, child.kind \in Kinds,
         child.inst = Mangle(child.rdl, f.taken),
         NEW g, SameFrame(f, g),
         g.taken = Claimed(f.taken, child.inst),
         g.children = Append(f.children, child),
         g.consts = f.consts,
         IsSeq(g.pending), \A i \in DOMAIN g.pending : g.pending[i].inst \in Name
  PROVE  FrameOK(g)
<1> DEFINE last == Len(f.children) + 1
<1>1. child.inst \in Name \ Reserved /\ child.inst \notin f.taken
  BY MangleFresh DEF FrameOK
<1>2. /\ IsSeq(g.children)
      /\ DOMAIN g.children = DOMAIN f.children \cup {last}
      /\ last \notin DOMAIN f.children
      /\ \A i \in DOMAIN f.children : g.children[i] = f.children[i]
      /\ g.children[last] = child
  BY Pushed DEF FrameOK, MembersOK
<1>3. DOMAIN f.children = 1 .. last - 1 /\ last \in Nat
  BY SeqFacts DEF FrameOK, MembersOK
<1> HIDE DEF last
<1>4. IsSeq(g.consts) /\ DOMAIN g.consts = {}
  BY EmptyIsSeq
<1>5. \A i, j \in DOMAIN g.children : i # j => g.children[i].inst # g.children[j].inst
  BY <1>1, <1>2 DEF FrameOK, MembersOK
<1>6. ASSUME NEW i \in DOMAIN g.children, g.children[i].inst # g.children[i].rdl
      PROVE  \/ Sanitize(g.children[i].rdl) # g.children[i].rdl
             \/ g.children[i].rdl \in Reserved
             \/ \E j \in 1 .. i - 1 : g.children[j].inst = g.children[i].rdl
  <2>1. CASE i \in DOMAIN f.children
    <3>1. \A j \in 1 .. i - 1 : j \in DOMAIN f.children
      BY <1>3, <2>1
    <3> QED
      BY <1>2, <1>6, <2>1, <3>1 DEF FrameOK, MembersOK
  <2>2. CASE i = last
    <3>1. \/ Sanitize(child.rdl) # child.rdl
          \/ child.rdl \in Reserved
          \/ child.rdl \in f.taken
      BY <1>2, <1>6, <2>2, MangleKeeps
    <3>2. child.rdl \in f.taken => \E j \in DOMAIN f.children : f.children[j].inst = child.rdl
      BY DEF FrameOK
    <3> QED
      BY <1>2, <1>3, <2>2, <3>1, <3>2
  <2> QED
    BY <1>2, <2>1, <2>2
<1>7. MembersOK(g.children, g.consts)
  BY <1>1, <1>2, <1>4, <1>5, <1>6 DEF FrameOK, MembersOK
<1>8. IsFiniteSet(g.taken)
  BY FS_AddElement DEF FrameOK, Claimed
<1>9. /\ \A i \in DOMAIN g.children : g.children[i].inst \in g.taken
      /\ \A n \in g.taken : \E i \in DOMAIN g.children : g.children[i].inst = n
  BY <1>2 DEF FrameOK, Claimed
<1> QED
  BY <1>4, <1>7, <1>8, <1>9 DEF FrameOK, SameFrame

\* A constant named in the second pass.
LEMMA ConstNamed ==
  ASSUME NEW f, FrameOK(f), NEW k \in DOMAIN f.pending,
         NEW const, const.name = ConstName(f.pending[k].inst, f.taken),
         NEW g, SameFrame(f, g),
         g.taken = f.taken \cup {const.name},
         g.children = f.children,
         g.consts = Append(f.consts, const),
         g.pending = f.pending
  PROVE  FrameOK(g)
<1> DEFINE last == Len(f.consts) + 1
<1>1. const.name \in Name \ Reserved /\ const.name \notin f.taken
  <2>1. W("_reset") \in Token
    BY TextsAssumption DEF Token, W
  <2>2. Append(f.pending[k].inst, W("_reset")) \in Name
    BY <2>1, AppendedToken DEF FrameOK
  <2> QED
    BY <2>2, MangleFresh DEF ConstName, FrameOK
<1>2. /\ IsSeq(g.consts)
      /\ DOMAIN g.consts = DOMAIN f.consts \cup {last}
      /\ last \notin DOMAIN f.consts
      /\ \A i \in DOMAIN f.consts : g.consts[i] = f.consts[i]
      /\ g.consts[last] = const
      /\ g.consts # << >>
  BY Pushed DEF FrameOK, MembersOK
<1> HIDE DEF last
<1>3. MembersOK(g.children, g.consts)
  <2>1. \A i, j \in DOMAIN g.consts : i # j => g.consts[i].name # g.consts[j].name
    BY <1>1, <1>2 DEF FrameOK, MembersOK
  <2>2. \A i \in DOMAIN g.children, j \in DOMAIN g.consts :
          g.children[i].inst # g.consts[j].name
    BY <1>1, <1>2 DEF FrameOK, MembersOK
  <2> QED
    BY <1>1, <1>2, <2>1, <2>2 DEF FrameOK, MembersOK
<1>4. IsFiniteSet(g.taken)
  BY FS_AddElement DEF FrameOK
<1>5. /\ \A i \in DOMAIN g.children : g.children[i].inst \in g.taken
      /\ \A i \in DOMAIN g.consts : g.consts[i].name \in g.taken
  BY <1>2 DEF FrameOK
<1> QED
  BY <1>2, <1>3, <1>4, <1>5 DEF FrameOK, SameFrame

----------------------------------------------------------------------------
Listed(k) == {types[k][i] : i \in DOMAIN types[k]}

\* Lookups answer with emitted types, and what is emitted has a taken name.
TablesInv ==
  /\ DOMAIN types = Kinds /\ \A k \in Kinds : IsSeq(types[k])
  /\ DOMAIN index = Kinds
  /\ \A k \in Kinds : \A key \in DOMAIN index[k] : index[k][key] \in Listed(k)
  /\ \A k \in Kinds : \A n \in Listed(k) : n \in DOMAIN byName /\ byName[n].kind = k
  /\ \A n \in DOMAIN byName : /\ n \in typesNs
                              /\ DOMAIN byName[n] = {"kind", "base", "sig", "instances"}
  /\ IsFiniteSet(typesNs)
  /\ \A b \in DOMAIN variantCount : variantCount[b] \in Nat
  /\ TypeNamesUnique

\* The children of a component are emitted before it.
ComponentsInv ==
  /\ \A n \in DOMAIN byName :
       byName[n].kind = "group" => MembersOK(ChildrenOf(n), ConstsOf(n))
  /\ DefinedBeforeUsed

\* A component whose children are all emitted.
Buildable(children) ==
  \A c \in DOMAIN children : children[c].type \in Listed(children[c].kind)

\* An instance that joins a type changes neither names nor components.
LEMMA ReuseKeeps ==
  ASSUME TablesInv, ComponentsInv, NEW kind \in Kinds, NEW base, NEW sig, NEW path,
         Reuse(kind, base, sig, path)
  PROVE  /\ TablesInv' /\ ComponentsInv'
         /\ \A k \in Kinds : Listed(k) = Listed(k)'
         /\ InternedName(kind, base, sig) \in Listed(kind)'
<1> DEFINE n0 == index[kind][<<base, sig>>]
<1>1. /\ <<base, sig>> \in DOMAIN index[kind]
      /\ byName' = [byName EXCEPT ![n0].instances = Append(@, path)]
      /\ types' = types /\ index' = index
      /\ typesNs' = typesNs /\ variantCount' = variantCount
  BY DEF Reuse
<1>2. n0 \in Listed(kind) /\ n0 = InternedName(kind, base, sig)
  BY <1>1 DEF TablesInv, InternedName
<1> HIDE DEF n0
<1>3. \A k \in Kinds : Listed(k) = Listed(k)'
  BY <1>1 DEF Listed
<1>4. DOMAIN byName' = DOMAIN byName
  BY <1>1
<1>5. \A n \in DOMAIN byName :
        /\ DOMAIN byName'[n] = DOMAIN byName[n]
        /\ byName'[n].kind = byName[n].kind
        /\ byName'[n].sig = byName[n].sig
  BY <1>1 DEF TablesInv
<1>6. TypeNamesUnique'
  BY <1>1 DEF TablesInv, TypeNamesUnique
<1>7. TablesInv'
  BY <1>1, <1>3, <1>4, <1>5, <1>6 DEF TablesInv
<1>8. \A i \in DOMAIN types["group"] :
        /\ types["group"][i] \in DOMAIN byName
        /\ ChildrenOf(types["group"][i])' = ChildrenOf(types["group"][i])
  BY <1>1, <1>5 DEF TablesInv, Kinds, Listed, ChildrenOf
<1>9. DefinedBeforeUsed'
  BY <1>1, <1>8 DEF ComponentsInv, DefinedBeforeUsed
<1>10. ComponentsInv'
  BY <1>4, <1>5, <1>9 DEF ComponentsInv, ChildrenOf, ConstsOf
<1> QED
  BY <1>2, <1>3, <1>7, <1>10

\* A new type comes after the types of its children, under a name of its own.
LEMMA EmitKeeps ==
  ASSUME TablesInv, ComponentsInv, NEW kind \in Kinds, NEW base \in Name, NEW sig, NEW path,
         Emit(kind, base, sig, path),
         kind = "group" => MembersOK(sig.children, sig.consts) /\ Buildable(sig.children)
  PROVE  /\ TablesInv' /\ ComponentsInv'
         /\ \A k \in Kinds : Listed(k) \subseteq Listed(k)'
         /\ InternedName(kind, base, sig) \in Listed(kind)'
<1> DEFINE name == NewTypeName(base)
           type == [kind |-> kind, base |-> base, sig |-> sig, instances |-> <<path>>]
           last == Len(types[kind]) + 1
<1>1. /\ <<base, sig>> \notin DOMAIN index[kind]
      /\ typesNs' = typesNs \cup {name}
      /\ variantCount' = IF base \in typesNs
                           THEN Extended(variantCount, base, VariantNumber(base))
                           ELSE variantCount
      /\ types' = [types EXCEPT ![kind] = Append(@, name)]
      /\ index' = [index EXCEPT ![kind] = Extended(@, <<base, sig>>, name)]
      /\ byName' = Extended(byName, name, type)
  BY DEF Emit
<1>2. /\ name \notin typesNs
      /\ VariantNumber(base) \in Nat
  <2>1. VariantsOf(base) \in Nat /\ IsFiniteSet(typesNs)
    BY DEF VariantsOf, TablesInv
  <2> QED
    BY <2>1, FreshTypeName
<1>3. InternedName(kind, base, sig) = name
  BY <1>1 DEF InternedName
<1>4. /\ type.kind = kind /\ type.sig = sig
      /\ DOMAIN type = {"kind", "base", "sig", "instances"}
  OBVIOUS
<1> HIDE DEF name, type
<1>5. name \notin DOMAIN byName /\ \A k \in Kinds : name \notin Listed(k)
  BY <1>2 DEF TablesInv
<1>6. /\ DOMAIN byName' = DOMAIN byName \cup {name}
      /\ byName'[name] = type
      /\ \A n \in DOMAIN byName : byName'[n] = byName[n]
  <2>1. byName' = Extended(byName, name, type)
    BY <1>1
  <2> QED
    BY <1>5, <2>1 DEF Extended
<1>7. /\ DOMAIN types' = Kinds
      /\ \A k \in Kinds : k # kind => types'[k] = types[k]
      /\ types'[kind] = Append(types[kind], name)
      /\ IsSeq(types[kind])
  BY <1>1 DEF TablesInv
<1>8. /\ IsSeq(types'[kind])
      /\ DOMAIN types'[kind] = DOMAIN types[kind] \cup {last}
      /\ DOMAIN types[kind] = 1 .. last - 1 /\ last \in Nat
      /\ \A i \in DOMAIN types[kind] : types'[kind][i] = types[kind][i]
      /\ types'[kind][last] = name
  BY <1>7, Pushed, SeqFacts
<1> HIDE DEF last
<1>9. /\ Listed(kind)' = Listed(kind) \cup {name}
      /\ \A k \in Kinds : k # kind => Listed(k)' = Listed(k)
  BY <1>7, <1>8 DEF Listed
<1>10. /\ DOMAIN index' = Kinds
       /\ \A k \in Kinds : \A key \in DOMAIN index'[k] : index'[k][key] \in Listed(k)'
  <2>1. /\ DOMAIN index' = Kinds
        /\ \A k \in Kinds : k # kind => index'[k] = index[k]
        /\ index'[kind] = Extended(index[kind], <<base, sig>>, name)
    BY <1>1 DEF TablesInv
  <2>2. /\ DOMAIN index'[kind] = DOMAIN index[kind] \cup {<<base, sig>>}
        /\ index'[kind][<<base, sig>>] = name
        /\ \A key \in DOMAIN index[kind] : index'[kind][key] = index[kind][key]
    <3>1. <<base, sig>> \notin DOMAIN index[kind]
      BY <1>1
    <3> QED
      BY <2>1, <3>1 DEF Extended
  <2> QED
    BY <1>9, <2>1, <2>2 DEF TablesInv
<1>11. \A b \in DOMAIN variantCount' : variantCount'[b] \in Nat
  <2>1. CASE base \in typesNs
    <3>1. variantCount' = Extended(variantCount, base, VariantNumber(base))
      BY <1>1, <2>1
    <3>2. \A b \in DOMAIN variantCount : variantCount[b] \in Nat
      BY DEF TablesInv
    <3> QED
      BY <1>2, <3>1, <3>2 DEF Extended
  <2>2. CASE base \notin typesNs
    BY <1>1, <2>2 DEF TablesInv
  <2> QED
    BY <2>1, <2>2
<1>12. TypeNamesUnique'
  <2>1. ASSUME NEW k \in Kinds, NEW i \in DOMAIN types'[k], NEW j \in DOMAIN types'[k], i # j
        PROVE  types'[k][i] # types'[k][j]
    BY <1>5, <1>7, <1>8, <2>1 DEF TablesInv, TypeNamesUnique, Listed
  <2>2. ASSUME NEW i \in DOMAIN types'["reg"], NEW j \in DOMAIN types'["group"]
        PROVE  types'["reg"][i] # types'["group"][j]
    BY <1>5, <1>7, <1>8 DEF TablesInv, TypeNamesUnique, Listed, Kinds
  <2> QED
    BY <2>1, <2>2 DEF TypeNamesUnique
<1>13. TablesInv'
  <2>1. \A k \in Kinds : IsSeq(types'[k])
    BY <1>7, <1>8 DEF TablesInv
  <2>2. \A k \in Kinds : \A n \in Listed(k)' : n \in DOMAIN byName' /\ byName'[n].kind = k
    BY <1>4, <1>6, <1>9 DEF TablesInv
  <2>3. \A n \in DOMAIN byName' : /\ n \in typesNs'
                                  /\ DOMAIN byName'[n] = {"kind", "base", "sig", "instances"}
    BY <1>1, <1>4, <1>6 DEF TablesInv
  <2>4. IsFiniteSet(typesNs')
    BY <1>1, FS_AddElement DEF TablesInv
  <2> QED
    BY <1>7, <1>10, <1>11, <1>12, <2>1, <2>2, <2>3, <2>4 DEF TablesInv
<1>14. ASSUME NEW i \in DOMAIN types'["group"],
              NEW c \in DOMAIN ChildrenOf(types["group"][i])'
       PROVE  LET child == ChildrenOf(types["group"][i])'[c] IN
              \E j \in DOMAIN types'[child.kind] :
                /\ types'[child.kind][j] = child.type
                /\ child.kind = "group" => j < i
  <2> DEFINE child == ChildrenOf(types["group"][i])'[c]
  <2>1. CASE i \in DOMAIN types["group"]
    <3>1. /\ types'["group"][i] = types["group"][i]
          /\ types["group"][i] \in DOMAIN byName
      BY <1>7, <1>8, <2>1 DEF TablesInv, Listed, Kinds
    <3>2. ChildrenOf(types["group"][i])' = ChildrenOf(types["group"][i])
      BY <1>6, <3>1 DEF ChildrenOf
    <3>3. PICK j \in DOMAIN types[child.kind] :
            /\ types[child.kind][j] = child.type
            /\ child.kind = "group" => j < i
      BY <1>14, <2>1, <3>2 DEF ComponentsInv, DefinedBeforeUsed
    <3>4. child.kind \in Kinds
      <4>1. MembersOK(ChildrenOf(types["group"][i]), ConstsOf(types["group"][i]))
        BY <2>1, <3>1 DEF ComponentsInv, TablesInv, Listed, Kinds
      <4> QED
        BY <1>14, <3>2, <4>1 DEF MembersOK
    <3> QED
      BY <1>7, <1>8, <3>3, <3>4
  <2>2. CASE i \notin DOMAIN types["group"]
    <3>1. kind = "group" /\ i = last
      BY <1>7, <1>8, <2>2 DEF Kinds
    <3>2. ChildrenOf(types["group"][i])' = sig.children
      BY <1>4, <1>6, <1>8, <3>1 DEF ChildrenOf
    <3>3. /\ child.kind \in Kinds
          /\ child.type \in Listed(child.kind)
      BY <1>14, <3>1, <3>2 DEF Buildable, MembersOK
    <3>4. PICK j \in DOMAIN types[child.kind] : types[child.kind][j] = child.type
      BY <3>3 DEF Listed
    <3>5. /\ j \in DOMAIN types'[child.kind]
          /\ types'[child.kind][j] = child.type
      BY <1>7, <1>8, <3>1, <3>3, <3>4
    <3>6. child.kind = "group" => j < i
      <4>1. child.kind = "group" => j \in 1 .. last - 1
        BY <1>8, <3>1, <3>4
      <4> QED
        BY <1>8, <3>1, <4>1
    <3> QED
      BY <3>5, <3>6
  <2> QED
    BY <2>1, <2>2
<1>15. DefinedBeforeUsed'
  BY <1>14 DEF DefinedBeforeUsed
<1>16. ComponentsInv'
  <2>1. ASSUME NEW n \in DOMAIN byName', byName'[n].kind = "group"
        PROVE  MembersOK(ChildrenOf(n)', ConstsOf(n)')
    BY <1>4, <1>6, <2>1 DEF ComponentsInv, ChildrenOf, ConstsOf
  <2> QED
    BY <1>15, <2>1 DEF ComponentsInv
<1> QED
  BY <1>3, <1>9, <1>13, <1>16

----------------------------------------------------------------------------
\* The calls in progress: a caller is still in its first pass.
FramesOK(s) ==
  /\ IsSeq(s)
  /\ \A i \in DOMAIN s : FrameOK(s[i])
  /\ \A i \in 1 .. Len(s) - 1 : s[i].consts = << >>

\* What the groups in progress have attached is emitted.
AllBuildable == \A i \in DOMAIN stack : Buildable(stack[i].children)

\* A returned child has an emitted type and a caller in its first pass.
ReturnOK ==
  ret # NoReturn =>
    /\ stack # << >>
    /\ Innermost.consts = << >>
    /\ ret.name \in Name
    /\ ret.kind \in Kinds
    /\ ret.type \in Listed(ret.kind)

ScannerInv == /\ TablesInv
              /\ ComponentsInv
              /\ FramesOK(stack)
              /\ AllBuildable
              /\ ReturnOK

WithLast(s, g) == [s EXCEPT ![Len(s)] = g]

\* The innermost call changes.
LEMMA FrameReplaced ==
  ASSUME NEW s, FramesOK(s), s # << >>, NEW g, FrameOK(g)
  PROVE  /\ FramesOK(WithLast(s, g))
         /\ WithLast(s, g) # << >>
         /\ Len(WithLast(s, g)) = Len(s) /\ DOMAIN WithLast(s, g) = DOMAIN s
         /\ WithLast(s, g)[Len(s)] = g
         /\ \A i \in DOMAIN s : i # Len(s) => WithLast(s, g)[i] = s[i]
<1> DEFINE t == WithLast(s, g)
<1>0. t = [s EXCEPT ![Len(s)] = g]
  BY DEF WithLast
<1> HIDE DEF t
<1>1. /\ IsSeq(t) /\ t # << >> /\ Len(t) = Len(s) /\ DOMAIN t = DOMAIN s
      /\ t[Len(s)] = g
      /\ \A i \in DOMAIN s : i # Len(s) => t[i] = s[i]
  BY <1>0, LastReplaced DEF FramesOK
<1>2. \A i \in DOMAIN t : FrameOK(t[i])
  BY <1>1 DEF FramesOK
<1>3. Len(s) \in Nat /\ DOMAIN s = 1 .. Len(s)
  BY SeqFacts DEF FramesOK
<1>4. \A i \in 1 .. Len(t) - 1 : t[i].consts = << >>
  BY <1>1, <1>3 DEF FramesOK
<1>5. FramesOK(t)
  BY <1>1, <1>2, <1>4 DEF FramesOK
<1> QED
  BY <1>1, <1>5 DEF t

\* A call is made.
LEMMA FramePushed ==
  ASSUME NEW s, FramesOK(s), s # << >> => s[Len(s)].consts = << >>, NEW g, FrameOK(g)
  PROVE  /\ FramesOK(Append(s, g))
         /\ DOMAIN Append(s, g) = DOMAIN s \cup {Len(s) + 1}
         /\ Append(s, g)[Len(s) + 1] = g
         /\ \A i \in DOMAIN s : Append(s, g)[i] = s[i]
<1> DEFINE t == Append(s, g)
<1>1. /\ IsSeq(t) /\ Len(t) = Len(s) + 1
      /\ DOMAIN t = DOMAIN s \cup {Len(s) + 1}
      /\ Len(s) + 1 \notin DOMAIN s
      /\ \A i \in DOMAIN s : t[i] = s[i]
      /\ t[Len(s) + 1] = g
  BY Pushed DEF FramesOK
<1>2. Len(s) \in Nat /\ DOMAIN s = 1 .. Len(s) /\ (s = << >> <=> Len(s) = 0)
  BY SeqFacts DEF FramesOK
<1> HIDE DEF t
<1>3. \A i \in DOMAIN t : FrameOK(t[i])
  BY <1>1 DEF FramesOK
<1>4. \A i \in 1 .. Len(t) - 1 : t[i].consts = << >>
  BY <1>1, <1>2 DEF FramesOK
<1>5. FramesOK(t)
  BY <1>1, <1>3, <1>4 DEF FramesOK
<1> QED
  BY <1>1, <1>5 DEF t

\* A call returns.
LEMMA FramePopped ==
  ASSUME NEW s, FramesOK(s), s # << >>, NEW t, t = SubSeq(s, 1, Len(s) - 1)
  PROVE  /\ FramesOK(t)
         /\ Len(s) \in Nat
         /\ DOMAIN t = 1 .. Len(s) - 1
         /\ DOMAIN s = 1 .. Len(s)
         /\ \A i \in DOMAIN t : t[i] = s[i]
         /\ Len(s) # 1 => t # << >> /\ t[Len(t)].consts = << >>
<1>1. /\ IsSeq(t) /\ Len(t) = Len(s) - 1
      /\ DOMAIN t = 1 .. Len(s) - 1
      /\ \A i \in 1 .. Len(s) - 1 : t[i] = s[i]
  BY Popped DEF FramesOK
<1>2. Len(s) \in Nat /\ DOMAIN s = 1 .. Len(s) /\ Len(s) # 0
  BY SeqFacts DEF FramesOK
<1>3. \A i \in DOMAIN t : FrameOK(t[i])
  BY <1>1, <1>2 DEF FramesOK
<1>4. \A i \in DOMAIN t : t[i].consts = << >>
  BY <1>1 DEF FramesOK
<1>5. FramesOK(t)
  BY <1>1, <1>2, <1>3, <1>4 DEF FramesOK
<1>6. Len(s) # 1 => t # << >> /\ Len(t) \in DOMAIN t
  <2>1. /\ t = << >> <=> Len(t) = 0
        /\ t # << >> => Len(t) \in DOMAIN t
    BY <1>1, SeqFacts
  <2> QED
    BY <1>1, <1>2, <2>1
<1> QED
  BY <1>1, <1>2, <1>4, <1>5, <1>6

\* A call starts with an empty namespace and no members.
LEMMA NewFrame ==
  ASSUME NEW name \in Name, NEW joined \in Name, NEW type \in Name \cup {NoType},
         NEW path, NEW place
  PROVE  /\ FrameOK(Frame(name, path, joined, type, place))
         /\ Frame(name, path, joined, type, place).children = << >>
<1> DEFINE f == Frame(name, path, joined, type, place)
<1>1. /\ DOMAIN f = FrameFields
      /\ f.name = name /\ f.joined = joined /\ f.type = type
      /\ f.taken = {} /\ f.children = << >> /\ f.consts = << >> /\ f.pending = << >>
  BY DEF Frame, FrameFields
<1> HIDE DEF f
<1>2. IsFiniteSet({})
  BY FS_EmptySet
<1>3. MembersOK(f.children, f.consts)
  BY <1>1, EmptyIsSeq DEF MembersOK
<1>4. FrameOK(f)
  BY <1>1, <1>2, <1>3, EmptyIsSeq DEF FrameOK
<1> QED
  BY <1>1, <1>4 DEF f

\* A joined instance path is a name.
LEMMA JoinedIsName ==
  ASSUME NEW parent \in Name, NEW name \in Name
  PROVE  Joined(parent, name) \in Name
<1>1. W("__") \in Token
  BY TextsAssumption DEF Token, W
<1> QED
  BY <1>1 DEF Joined, Name

\* The name a type asks for is a name.
LEMMA BaseTypeNameIsName ==
  ASSUME NEW type \in Name \cup {NoType}, NEW joined \in Name
  PROVE  BaseTypeName(type, joined) \in Name
<1>1. W("anon__") \in Token
  BY TextsAssumption DEF Token, W
<1>2. <<W("anon__")>> \o joined \in Name
  BY <1>1 DEF Name
<1>3. RawTypeName(type, joined) \in Name
  BY <1>2 DEF RawTypeName
<1>4. IsFiniteSet({})
  BY FS_EmptySet
<1> QED
  BY <1>3, <1>4, MangleFresh DEF BaseTypeName

----------------------------------------------------------------------------
\* A step that interns nothing keeps the tables.
LEMMA TablesStay ==
  ASSUME TablesInv, ComponentsInv, UNCHANGED tableVars
  PROVE  /\ TablesInv' /\ ComponentsInv'
         /\ \A k \in Kinds : Listed(k)' = Listed(k)
<1> USE DEF tableVars
<1>1. \A k \in Kinds : Listed(k)' = Listed(k)
  BY DEF Listed
<1>2. TablesInv'
  BY <1>1 DEF TablesInv, TypeNamesUnique
<1>3. ComponentsInv'
  BY DEF ComponentsInv, DefinedBeforeUsed, ChildrenOf, ConstsOf
<1> QED
  BY <1>1, <1>2, <1>3

\* Interning keeps the tables and what they list.
LEMMA InternKeeps ==
  ASSUME TablesInv, ComponentsInv, NEW kind \in Kinds, NEW base \in Name, NEW sig, NEW path,
         Intern(kind, base, sig, path),
         kind = "group" => MembersOK(sig.children, sig.consts) /\ Buildable(sig.children)
  PROVE  /\ TablesInv' /\ ComponentsInv'
         /\ \A k \in Kinds : Listed(k) \subseteq Listed(k)'
         /\ InternedName(kind, base, sig) \in Listed(kind)'
BY ReuseKeeps, EmitKeeps, Zenon DEF Intern

----------------------------------------------------------------------------
\* One more child of the innermost group is marked as met.
LEMMA MarkedKeeps ==
  ASSUME FramesOK(stack), stack # << >>, NEW name
  PROVE  /\ FramesOK(Marked(name))
         /\ Marked(name) # << >> /\ DOMAIN Marked(name) = DOMAIN stack
         /\ Len(Marked(name)) = Len(stack)
         /\ \A i \in DOMAIN stack : /\ Marked(name)[i].children = stack[i].children
                                    /\ Marked(name)[i].consts = stack[i].consts
<1> DEFINE f == stack[Len(stack)]
           g == [f EXCEPT !.visited = @ \cup {name}]
           t == Marked(name)
<1>1. Len(stack) \in DOMAIN stack
  BY SeqFacts DEF FramesOK
<1>2. FrameOK(f)
  BY <1>1 DEF FramesOK
<1>3. t = WithLast(stack, g)
  BY DEF Marked, WithLast
<1> HIDE DEF f, t
<1>4. /\ DOMAIN g = FrameFields
      /\ \A x \in FrameFields : x # "visited" => g[x] = f[x]
  BY <1>2 DEF FrameOK
<1> HIDE DEF g
<1>5. /\ g.name = f.name /\ g.joined = f.joined /\ g.type = f.type
      /\ g.taken = f.taken /\ g.children = f.children
      /\ g.consts = f.consts /\ g.pending = f.pending
  BY <1>4 DEF FrameFields
<1>6. FrameOK(g)
  BY <1>2, <1>4, <1>5 DEF FrameOK
<1>7. /\ FramesOK(t)
      /\ t # << >> /\ Len(t) = Len(stack) /\ DOMAIN t = DOMAIN stack
      /\ t[Len(t)] = g
      /\ \A i \in DOMAIN stack : i # Len(stack) => t[i] = stack[i]
  BY <1>3, <1>6, FrameReplaced
<1>8. ASSUME NEW i \in DOMAIN stack
      PROVE  t[i].children = stack[i].children /\ t[i].consts = stack[i].consts
  <2>1. CASE i = Len(stack)
    BY <1>5, <1>7, <2>1 DEF f
  <2> QED
    BY <1>7, <2>1
<1> QED
  BY <1>7, <1>8 DEF t

\* What a group in progress has attached is emitted after the step too.
StayListed ==
  \A i \in DOMAIN stack : \A c \in DOMAIN stack[i].children :
    /\ stack[i].children[c].kind \in Kinds
    /\ \A k \in Kinds : stack[i].children[c].kind = k =>
         stack[i].children[c].type \in Listed(k)'

\* A step that drops no type from the lists leaves attached children emitted.
LEMMA StillBuildable ==
  ASSUME FramesOK(stack), AllBuildable, \A k \in Kinds : Listed(k) \subseteq Listed(k)'
  PROVE  StayListed
<1> SUFFICES ASSUME NEW i \in DOMAIN stack, NEW c \in DOMAIN stack[i].children
             PROVE  /\ stack[i].children[c].kind \in Kinds
                    /\ \A k \in Kinds : stack[i].children[c].kind = k =>
                         stack[i].children[c].type \in Listed(k)'
  BY DEF StayListed
<1>1. stack[i].children[c].kind \in Kinds
  BY DEF FramesOK, FrameOK, MembersOK
<1>2. stack[i].children[c].type \in Listed(stack[i].children[c].kind)
  BY DEF AllBuildable, Buildable
<1> QED
  BY <1>1, <1>2

\* A child is met and nothing is interned: SkipMem, RejectReg.
LEMMA MeetStep ==
  ASSUME ScannerInv, NEW name \in Name, Meets(name),
         stack' = Marked(name), ret' = ret, UNCHANGED tableVars
  PROVE  ScannerInv'
<1>1. /\ TablesInv' /\ ComponentsInv'
      /\ \A k \in Kinds : Listed(k)' = Listed(k)
  BY TablesStay DEF ScannerInv
<1>2. /\ FramesOK(stack')
      /\ DOMAIN stack' = DOMAIN stack
      /\ \A i \in DOMAIN stack : stack'[i].children = stack[i].children
  BY MarkedKeeps DEF ScannerInv, Meets
<1>3. AllBuildable'
  <2>1. StayListed
    BY <1>1, StillBuildable DEF ScannerInv
  <2> QED
    BY <1>2, <2>1 DEF AllBuildable, Buildable, StayListed
<1>4. ReturnOK'
  BY DEF ReturnOK, Meets
<1>5. FramesOK(stack)'
  BY <1>2 DEF FramesOK
<1> QED
  BY <1>1, <1>3, <1>4, <1>5 DEF ScannerInv

\* The root's call starts.
LEMMA StartStep ==
  ASSUME ScannerInv, ret = NoReturn, NEW type \in GroupTypes, Start(type)
  PROVE  ScannerInv'
<1> DEFINE g == Frame(TopName, <<TopName>>, TopName, type, NoReturn)
<1>1. /\ TablesInv' /\ ComponentsInv'
      /\ \A k \in Kinds : Listed(k)' = Listed(k)
  BY TablesStay DEF ScannerInv, Start
<1>2. FrameOK(g) /\ g.children = << >>
  BY TreeAssumption, NewFrame
<1>3. stack' = <<g>>
  BY DEF Start
<1> HIDE DEF g
<1>4. IsSeq(<<g>>) /\ DOMAIN <<g>> = {1} /\ Len(<<g>>) = 1 /\ <<g>>[1] = g
  BY DEF IsSeq
<1>5. FramesOK(<<g>>)
  BY <1>2, <1>4 DEF FramesOK
<1>6. FramesOK(stack)'
  BY <1>3, <1>5 DEF FramesOK
<1>7. AllBuildable'
  BY <1>2, <1>3, <1>4 DEF AllBuildable, Buildable
<1>8. ReturnOK'
  BY DEF ReturnOK, Start
<1> QED
  BY <1>1, <1>6, <1>7, <1>8 DEF ScannerInv

\* A register is scanned and returned.
LEMMA ScanRegStep ==
  ASSUME ScannerInv, NEW name \in InstNames, NEW place, NEW d \in RegDescs,
         ScanReg(name, place, d)
  PROVE  ScannerInv'
<1> DEFINE base == BaseTypeName(d.type, Joined(Innermost.joined, name))
           sig  == RegSignature(base, d)
           type == InternedName("reg", base, sig)
<1>1. name \in Name /\ d.type \in Name \cup {NoType}
  BY TreeAssumption
<1>2. /\ stack # << >> /\ Innermost.consts = << >>
      /\ stack' = Marked(name)
      /\ Intern("reg", base, sig, PathOf(name))
      /\ ret'.name = name /\ ret'.kind = "reg" /\ ret'.type = type
  BY DEF ScanReg, Meets
<1>3. Len(stack) \in DOMAIN stack
  BY <1>2, SeqFacts DEF ScannerInv, FramesOK
<1>4. base \in Name
  <2>1. Innermost.joined \in Name
    BY <1>3 DEF ScannerInv, FramesOK, FrameOK, Innermost
  <2> QED
    BY <1>1, <2>1, JoinedIsName, BaseTypeNameIsName
<1> HIDE DEF base, sig
<1>5. "reg" \in Kinds
  BY DEF Kinds
<1>6. /\ TablesInv' /\ ComponentsInv'
      /\ \A k \in Kinds : Listed(k) \subseteq Listed(k)'
      /\ type \in Listed("reg")'
  BY <1>2, <1>4, <1>5, InternKeeps DEF ScannerInv
<1> HIDE DEF type
<1>7. /\ FramesOK(Marked(name))
      /\ Marked(name) # << >> /\ DOMAIN Marked(name) = DOMAIN stack
      /\ Len(Marked(name)) = Len(stack)
      /\ \A i \in DOMAIN stack : /\ Marked(name)[i].children = stack[i].children
                                 /\ Marked(name)[i].consts = stack[i].consts
  BY <1>2, MarkedKeeps DEF ScannerInv
<1>8. FramesOK(stack)'
  BY <1>2, <1>7 DEF FramesOK
<1>9. AllBuildable'
  <2>1. StayListed
    BY <1>6, StillBuildable DEF ScannerInv
  <2> QED
    BY <1>2, <1>7, <2>1 DEF AllBuildable, Buildable, StayListed
<1>10. ReturnOK'
  <2>1. stack' # << >> /\ Innermost'.consts = << >>
    BY <1>2, <1>3, <1>7 DEF Innermost
  <2> QED
    BY <1>1, <1>2, <1>5, <1>6, <2>1 DEF ReturnOK
<1> QED
  BY <1>6, <1>8, <1>9, <1>10 DEF ScannerInv

\* A nested group's call starts.
LEMMA EnterGroupStep ==
  ASSUME ScannerInv, NEW name \in InstNames, NEW place, NEW type \in GroupTypes,
         EnterGroup(name, place, type)
  PROVE  ScannerInv'
<1> DEFINE s == Marked(name)
           g == Frame(name, PathOf(name), Joined(Innermost.joined, name), type, place)
<1>1. /\ TablesInv' /\ ComponentsInv'
      /\ \A k \in Kinds : Listed(k)' = Listed(k)
  BY TablesStay DEF ScannerInv, EnterGroup
<1>2. /\ stack # << >> /\ Innermost.consts = << >> /\ ret' = NoReturn
      /\ stack' = Append(s, g)
  BY DEF EnterGroup, Meets
<1>3. Len(stack) \in DOMAIN stack
  BY <1>2, SeqFacts DEF ScannerInv, FramesOK
<1>4. FrameOK(g) /\ g.children = << >>
  <2>1. Innermost.joined \in Name
    BY <1>3 DEF ScannerInv, FramesOK, FrameOK, Innermost
  <2> QED
    BY <2>1, TreeAssumption, JoinedIsName, NewFrame
<1>5. /\ FramesOK(s) /\ DOMAIN s = DOMAIN stack /\ Len(s) = Len(stack)
      /\ \A i \in DOMAIN stack : /\ s[i].children = stack[i].children
                                 /\ s[i].consts = stack[i].consts
  BY <1>2, MarkedKeeps DEF ScannerInv
<1> HIDE DEF s, g
<1>6. s[Len(s)].consts = << >>
  BY <1>2, <1>3, <1>5 DEF Innermost
<1>7. /\ FramesOK(Append(s, g))
      /\ DOMAIN Append(s, g) = DOMAIN s \cup {Len(s) + 1}
      /\ Append(s, g)[Len(s) + 1] = g
      /\ \A i \in DOMAIN s : Append(s, g)[i] = s[i]
  BY <1>4, <1>5, <1>6, FramePushed
<1>8. FramesOK(stack)'
  BY <1>2, <1>7 DEF FramesOK
<1>9. AllBuildable'
  <2>1. StayListed
    BY <1>1, StillBuildable DEF ScannerInv
  <2>2. ASSUME NEW i \in DOMAIN stack', NEW c \in DOMAIN stack'[i].children
        PROVE  \E k \in Kinds : /\ stack'[i].children[c].kind = k
                                /\ stack'[i].children[c].type \in Listed(k)'
    <3>1. CASE i = Len(s) + 1
      BY <1>2, <1>4, <1>7, <2>2, <3>1, EmptyIsSeq
    <3>2. CASE i \in DOMAIN stack
      BY <1>2, <1>5, <1>7, <2>1, <2>2, <3>2 DEF StayListed
    <3> QED
      BY <1>2, <1>5, <1>7, <3>1, <3>2
  <2> QED
    BY <2>2 DEF AllBuildable, Buildable
<1>10. ReturnOK'
  BY <1>2 DEF ReturnOK
<1> QED
  BY <1>1, <1>8, <1>9, <1>10 DEF ScannerInv

\* A returned child becomes a member of its parent.
LEMMA AttachStep ==
  ASSUME ScannerInv, Attach
  PROVE  ScannerInv'
<1> DEFINE f == Innermost
           inst == Mangle(ret.name, f.taken)
           child == [inst |-> inst, rdl |-> ret.name, type |-> ret.type,
                     kind |-> ret.kind, place |-> ret.place]
           const == [inst |-> inst, width |-> ret.content.regwidth,
                     value |-> ret.content.reset]
           pending == IF EmitResetConsts /\ ret.kind = "reg" /\ ret.content.reset # NoReset
                        THEN Append(f.pending, const) ELSE f.pending
           g == [f EXCEPT
             !.taken = Claimed(@, inst),
             !.children = Append(@, child),
             !.sigs = Append(@, ret.sig),
             !.pending = IF EmitResetConsts /\ ret.kind = "reg" /\ ret.content.reset # NoReset
                           THEN Append(@, const) ELSE @,
             !.body = Append(@, [name |-> ret.name, place |-> ret.place,
                                 base |-> ret.base, content |-> ret.content])]
<1>1. /\ TablesInv' /\ ComponentsInv'
      /\ \A k \in Kinds : Listed(k)' = Listed(k)
  BY TablesStay DEF ScannerInv, Attach
<1>2. /\ stack # << >> /\ f.consts = << >>
      /\ ret.name \in Name /\ ret.kind \in Kinds /\ ret.type \in Listed(ret.kind)
      /\ ret' = NoReturn
  BY DEF ScannerInv, ReturnOK, Attach
<1>3. stack' = WithLast(stack, g)
  BY Zenon DEF Attach, WithLast
<1>4. /\ Len(stack) \in DOMAIN stack /\ f = stack[Len(stack)]
      /\ DOMAIN stack = 1 .. Len(stack)
  BY <1>2, SeqFacts DEF ScannerInv, FramesOK, Innermost
<1>5. FrameOK(f)
  BY <1>4 DEF ScannerInv, FramesOK
<1>6. inst \in Name
  BY <1>2, <1>5, MangleFresh DEF FrameOK
<1>7. /\ child.inst = Mangle(child.rdl, f.taken)
      /\ child.rdl \in Name /\ child.kind \in Kinds /\ child.type \in Listed(child.kind)
      /\ child.inst = inst /\ child.kind = ret.kind
  BY <1>2
<1>8. IsSeq(pending) /\ \A i \in DOMAIN pending : pending[i].inst \in Name
  <2>1. const.inst \in Name
    BY <1>6
  <2>2. pending = Append(f.pending, const) \/ pending = f.pending
    OBVIOUS
  <2> HIDE DEF const, pending, f
  <2>3. CASE pending = f.pending
    BY <1>5, <2>3 DEF FrameOK
  <2>4. CASE pending = Append(f.pending, const)
    BY <1>5, <2>1, <2>4, Pushed DEF FrameOK
  <2> QED
    BY <2>2, <2>3, <2>4
<1> HIDE DEF child, const, inst, f
<1>9. /\ DOMAIN g = FrameFields
      /\ g.name = f.name /\ g.joined = f.joined /\ g.type = f.type
      /\ g.taken = Claimed(f.taken, inst)
      /\ g.children = Append(f.children, child)
      /\ g.consts = f.consts
      /\ g.pending = pending
  BY <1>5 DEF FrameOK, FrameFields
<1> HIDE DEF g, pending
<1>10. FrameOK(g)
  <2>1. SameFrame(f, g)
    BY <1>9 DEF SameFrame
  <2>2. g.taken = Claimed(f.taken, child.inst)
    BY <1>7, <1>9
  <2>3. IsSeq(g.pending) /\ \A i \in DOMAIN g.pending : g.pending[i].inst \in Name
    BY <1>8, <1>9
  <2> QED
    BY <1>2, <1>5, <1>7, <1>9, <2>1, <2>2, <2>3, ChildNamed
<1>11. /\ FramesOK(WithLast(stack, g))
       /\ DOMAIN WithLast(stack, g) = DOMAIN stack
       /\ WithLast(stack, g)[Len(stack)] = g
       /\ \A i \in DOMAIN stack : i # Len(stack) => WithLast(stack, g)[i] = stack[i]
  BY <1>2, <1>10, FrameReplaced DEF ScannerInv
<1>12. FramesOK(stack)'
  BY <1>3, <1>11 DEF FramesOK
<1>13. AllBuildable'
  <2>1. StayListed
    BY <1>1, StillBuildable DEF ScannerInv
  <2>2. ASSUME NEW i \in DOMAIN stack', NEW c \in DOMAIN stack'[i].children
        PROVE  \E k \in Kinds : /\ stack'[i].children[c].kind = k
                                /\ stack'[i].children[c].type \in Listed(k)'
    <3>1. CASE i = Len(stack)
      <4>1. stack'[i] = g
        BY <1>3, <1>11, <3>1
      <4>2. /\ DOMAIN g.children = DOMAIN f.children \cup {Len(f.children) + 1}
            /\ \A j \in DOMAIN f.children : g.children[j] = f.children[j]
            /\ g.children[Len(f.children) + 1] = child
        BY <1>5, <1>9, Pushed DEF FrameOK, MembersOK
      <4>3. CASE c = Len(f.children) + 1
        BY <1>1, <1>7, <4>1, <4>2, <4>3
      <4>4. CASE c \in DOMAIN f.children
        BY <1>4, <2>1, <3>1, <4>1, <4>2, <4>4 DEF StayListed
      <4> QED
        BY <2>2, <4>1, <4>2, <4>3, <4>4
    <3>2. CASE i # Len(stack)
      BY <1>3, <1>11, <2>1, <2>2, <3>2 DEF StayListed
    <3> QED
      BY <3>1, <3>2
  <2> QED
    BY <2>2 DEF AllBuildable, Buildable
<1>14. ReturnOK'
  BY <1>2 DEF ReturnOK
<1> QED
  BY <1>1, <1>12, <1>13, <1>14 DEF ScannerInv

\* A constant is named in the second pass.
LEMMA NameConstStep ==
  ASSUME ScannerInv, NameConst
  PROVE  ScannerInv'
<1> DEFINE f == Innermost
           of == f.pending[Len(f.consts) + 1]
           name == ConstName(of.inst, f.taken)
           const == [name |-> name, width |-> of.width, value |-> of.value]
           g == [f EXCEPT !.taken = @ \cup {name}, !.consts = Append(@, const)]
<1>1. /\ TablesInv' /\ ComponentsInv'
      /\ \A k \in Kinds : Listed(k)' = Listed(k)
  BY TablesStay DEF ScannerInv, NameConst
<1>2. /\ stack # << >> /\ ret' = NoReturn
      /\ Len(f.consts) < Len(f.pending)
  BY DEF NameConst
<1>3. stack' = WithLast(stack, g)
  BY Zenon DEF NameConst, WithLast
<1>4. /\ Len(stack) \in DOMAIN stack /\ f = stack[Len(stack)]
      /\ DOMAIN stack = 1 .. Len(stack)
  BY <1>2, SeqFacts DEF ScannerInv, FramesOK, Innermost
<1>5. FrameOK(f)
  BY <1>4 DEF ScannerInv, FramesOK
<1>6. Len(f.consts) + 1 \in DOMAIN f.pending
  <2>1. /\ Len(f.consts) \in Nat /\ Len(f.pending) \in Nat
        /\ DOMAIN f.pending = 1 .. Len(f.pending)
    BY <1>5, SeqFacts DEF FrameOK, MembersOK
  <2> QED
    BY <1>2, <2>1
<1>7. const.name = ConstName(f.pending[Len(f.consts) + 1].inst, f.taken) /\ const.name = name
  OBVIOUS
<1> HIDE DEF const, name, f
<1>8. /\ DOMAIN g = FrameFields
      /\ g.name = f.name /\ g.joined = f.joined /\ g.type = f.type
      /\ g.taken = f.taken \cup {name}
      /\ g.children = f.children
      /\ g.consts = Append(f.consts, const)
      /\ g.pending = f.pending
  BY <1>5 DEF FrameOK, FrameFields
<1> HIDE DEF g
<1>9. FrameOK(g)
  <2>1. SameFrame(f, g)
    BY <1>8 DEF SameFrame
  <2>2. g.taken = f.taken \cup {const.name}
    BY <1>7, <1>8
  <2> QED
    BY <1>5, <1>6, <1>7, <1>8, <2>1, <2>2, ConstNamed
<1>10. /\ FramesOK(WithLast(stack, g))
       /\ DOMAIN WithLast(stack, g) = DOMAIN stack
       /\ WithLast(stack, g)[Len(stack)] = g
       /\ \A i \in DOMAIN stack : i # Len(stack) => WithLast(stack, g)[i] = stack[i]
  BY <1>2, <1>9, FrameReplaced DEF ScannerInv
<1>11. FramesOK(stack)'
  BY <1>3, <1>10 DEF FramesOK
<1>12. AllBuildable'
  <2>1. StayListed
    BY <1>1, StillBuildable DEF ScannerInv
  <2>2. /\ DOMAIN stack' = DOMAIN stack
        /\ \A i \in DOMAIN stack : stack'[i].children = stack[i].children
    BY <1>3, <1>4, <1>8, <1>10
  <2> QED
    BY <2>1, <2>2 DEF AllBuildable, Buildable, StayListed
<1>13. ReturnOK'
  BY <1>2 DEF ReturnOK
<1> QED
  BY <1>1, <1>11, <1>12, <1>13 DEF ScannerInv

\* A group's call emits or joins its type and returns.
LEMMA FinishGroupStep ==
  ASSUME ScannerInv, FinishGroup
  PROVE  ScannerInv'
<1> DEFINE f == Innermost
           base == BaseTypeName(f.type, f.joined)
           sig == GroupSignature(base, f.children, f.sigs, f.consts)
           type == InternedName("group", base, sig)
           t == SubSeq(stack, 1, Len(stack) - 1)
<1>1. /\ stack # << >> /\ stack' = t
      /\ Intern("group", base, sig, f.path)
  BY DEF FinishGroup
<1>2. \/ Len(stack) = 1 /\ ret' = NoReturn
      \/ Len(stack) # 1 /\ ret'.name = f.name /\ ret'.kind = "group" /\ ret'.type = type
  BY DEF FinishGroup
<1>3. Len(stack) \in DOMAIN stack /\ f = stack[Len(stack)]
  BY <1>1, SeqFacts DEF ScannerInv, FramesOK, Innermost
<1>4. FrameOK(f) /\ Buildable(f.children)
  BY <1>3 DEF ScannerInv, FramesOK, AllBuildable
<1>5. base \in Name
  BY <1>4, BaseTypeNameIsName DEF FrameOK
<1>6. sig.children = f.children /\ sig.consts = f.consts
  BY DEF GroupSignature
<1>7. MembersOK(sig.children, sig.consts) /\ Buildable(sig.children)
  BY <1>4, <1>6 DEF FrameOK
<1> HIDE DEF f, base, sig
<1>8. "group" \in Kinds
  BY DEF Kinds
<1>9. /\ TablesInv' /\ ComponentsInv'
      /\ \A k \in Kinds : Listed(k) \subseteq Listed(k)'
      /\ type \in Listed("group")'
  BY <1>1, <1>5, <1>7, <1>8, InternKeeps DEF ScannerInv
<1> HIDE DEF type
<1>10. /\ FramesOK(t)
       /\ Len(stack) \in Nat
       /\ DOMAIN t = 1 .. Len(stack) - 1
       /\ DOMAIN stack = 1 .. Len(stack)
       /\ \A i \in DOMAIN t : t[i] = stack[i]
       /\ Len(stack) # 1 => t # << >> /\ t[Len(t)].consts = << >>
  BY <1>1, FramePopped DEF ScannerInv
<1> HIDE DEF t
<1>11. FramesOK(stack)'
  BY <1>1, <1>10 DEF FramesOK
<1>12. AllBuildable'
  <2>1. StayListed
    BY <1>9, StillBuildable DEF ScannerInv
  <2>2. \A i \in DOMAIN stack' : i \in DOMAIN stack /\ stack'[i] = stack[i]
    BY <1>1, <1>10
  <2> QED
    BY <2>1, <2>2 DEF AllBuildable, Buildable, StayListed
<1>13. ReturnOK'
  <2>1. CASE ret' = NoReturn
    BY <2>1 DEF ReturnOK
  <2>2. CASE ret' # NoReturn
    <3>1. stack' # << >> /\ Innermost'.consts = << >>
      BY <1>1, <1>2, <1>10, <2>2 DEF Innermost
    <3>2. f.name \in Name
      BY <1>4 DEF FrameOK
    <3> QED
      BY <1>2, <1>8, <1>9, <2>2, <3>1, <3>2 DEF ReturnOK
  <2> QED
    BY <2>1, <2>2
<1> QED
  BY <1>9, <1>11, <1>12, <1>13 DEF ScannerInv

----------------------------------------------------------------------------
\* The scan starts in the invariant.
LEMMA ScannerStart ==
  ASSUME Init
  PROVE  ScannerInv /\ (status = "idle" => ret = NoReturn)
<1>1. /\ types = [k \in Kinds |-> << >>]
      /\ index = [k \in Kinds |-> << >>]
      /\ byName = << >> /\ typesNs = {} /\ variantCount = << >>
      /\ stack = << >> /\ ret = NoReturn
  BY DEF Init, TableInit
<1>2. IsFiniteSet(typesNs)
  BY <1>1, FS_EmptySet
<1>3. /\ \A k \in Kinds : IsSeq(types[k]) /\ DOMAIN types[k] = {} /\ DOMAIN index[k] = {}
      /\ IsSeq(stack) /\ DOMAIN stack = {} /\ Len(stack) = 0
      /\ DOMAIN byName = {} /\ DOMAIN variantCount = {}
  BY <1>1, EmptyIsSeq
<1>4. TypeNamesUnique
  BY <1>3 DEF TypeNamesUnique, Kinds
<1>5. TablesInv
  BY <1>1, <1>2, <1>3, <1>4 DEF TablesInv, Listed
<1>6. ComponentsInv
  BY <1>3 DEF ComponentsInv, DefinedBeforeUsed, Kinds
<1>7. FramesOK(stack) /\ AllBuildable /\ ReturnOK
  BY <1>1, <1>3 DEF FramesOK, AllBuildable, ReturnOK
<1> QED
  BY <1>1, <1>5, <1>6, <1>7 DEF ScannerInv

\* A scan that has not begun has no child to return.
IdleOK == status = "idle" => ret = NoReturn

\* The inductive invariant holds in every reachable state of the scan.
THEOREM ScannerInvariance == Spec => [](ScannerInv /\ IdleOK)
<1>1. Init => ScannerInv /\ IdleOK
  BY ScannerStart DEF IdleOK
<1>2. ScannerInv /\ IdleOK /\ [Next]_vars => (ScannerInv /\ IdleOK)'
  <2> SUFFICES ASSUME ScannerInv, IdleOK, [Next]_vars
               PROVE  ScannerInv' /\ IdleOK'
    OBVIOUS
  <2>1. ASSUME UNCHANGED tableVars, stack' = stack, ret' = ret
        PROVE  ScannerInv'
    <3>1. /\ TablesInv' /\ ComponentsInv'
          /\ \A k \in Kinds : Listed(k)' = Listed(k)
      BY <2>1, TablesStay DEF ScannerInv
    <3>2. StayListed
      BY <3>1, StillBuildable DEF ScannerInv
    <3>3. AllBuildable'
      BY <2>1, <3>2 DEF AllBuildable, Buildable, StayListed
    <3>4. ReturnOK'
      BY <2>1, <3>1 DEF ScannerInv, ReturnOK, Innermost
    <3> QED
      BY <2>1, <3>1, <3>3, <3>4 DEF ScannerInv, FramesOK
  <2>2. CASE RefuseBridge
    BY <2>1, <2>2 DEF RefuseBridge, IdleOK
  <2>3. ASSUME NEW type \in GroupTypes, Start(type)
        PROVE  ScannerInv' /\ IdleOK'
    <3>1. ret = NoReturn
      BY <2>3 DEF IdleOK, Start
    <3> QED
      BY <2>3, <3>1, StartStep DEF Start, IdleOK
  <2>4. ASSUME NEW name \in InstNames, SkipMem(name)
        PROVE  ScannerInv' /\ IdleOK'
    BY <2>4, MeetStep, TreeAssumption DEF SkipMem, Meets, IdleOK
  <2>5. ASSUME NEW name \in InstNames, NEW d \in RegDescs, RejectReg(name, d)
        PROVE  ScannerInv' /\ IdleOK'
    BY <2>5, MeetStep, TreeAssumption DEF RejectReg, Meets, IdleOK
  <2>6. ASSUME NEW name \in InstNames, NEW place \in Places, NEW d \in RegDescs,
               ScanReg(name, place, d)
        PROVE  ScannerInv' /\ IdleOK'
    BY <2>6, ScanRegStep DEF ScanReg, Meets, IdleOK
  <2>7. ASSUME NEW name \in InstNames, NEW place \in Places, NEW type \in GroupTypes,
               EnterGroup(name, place, type)
        PROVE  ScannerInv' /\ IdleOK'
    BY <2>7, EnterGroupStep DEF EnterGroup, Meets, IdleOK
  <2>8. CASE Attach
    BY <2>8, AttachStep DEF Attach, IdleOK
  <2>9. CASE NameConst
    BY <2>9, NameConstStep DEF NameConst, IdleOK
  <2>10. CASE FinishGroup
    <3>1. status' # "idle"
      BY <2>10 DEF FinishGroup
    <3> QED
      BY <2>10, <3>1, FinishGroupStep DEF IdleOK
  <2>11. CASE UNCHANGED vars
    BY <2>1, <2>11 DEF vars, scanVars, IdleOK
  <2> QED
    BY <2>2, <2>3, <2>4, <2>5, <2>6, <2>7, <2>8, <2>9, <2>10, <2>11 DEF Next
<1> QED
  BY <1>1, <1>2, PTL DEF Spec

\* Every component is emitted after the components it instantiates, whose
\* registers are emitted too.
THEOREM PackageReadsInOrder == Spec => []DefinedBeforeUsed
<1>1. ScannerInv => DefinedBeforeUsed
  BY DEF ScannerInv, ComponentsInv
<1> QED
  BY <1>1, ScannerInvariance, PTL

\* A member is renamed only for a cause other than a generated constant.
THEOREM ConstantsGiveWay == Spec => []InstanceNamesWin
<1>1. ScannerInv => InstanceNamesWin
  <2> SUFFICES ASSUME ScannerInv, NEW n \in GroupTypesEmitted
               PROVE  \A i \in DOMAIN ChildrenOf(n) :
                        LET child == ChildrenOf(n)[i] IN
                        child.inst # child.rdl =>
                          \/ Sanitize(child.rdl) # child.rdl
                          \/ child.rdl \in Reserved
                          \/ \E j \in 1 .. i - 1 : ChildrenOf(n)[j].inst = child.rdl
    BY DEF InstanceNamesWin
  <2>1. MembersOK(ChildrenOf(n), ConstsOf(n))
    BY DEF GroupTypesEmitted, ScannerInv, ComponentsInv
  <2> QED
    BY <2>1 DEF MembersOK
<1> QED
  BY <1>1, ScannerInvariance, PTL

\* The members of two sequences, one after the other.
LEMMA Concatenated ==
  ASSUME NEW S, NEW a \in Seq(S), NEW b \in Seq(S), NEW i \in DOMAIN (a \o b)
  PROVE  \/ i \in DOMAIN a /\ (a \o b)[i] = a[i]
         \/ /\ i \notin DOMAIN a /\ i - Len(a) \in DOMAIN b
            /\ i \in Int /\ Len(a) \in Int
            /\ (a \o b)[i] = b[i - Len(a)]
OBVIOUS

\* The members of every emitted component have distinct legal names.
THEOREM ComponentMembersDistinct == Spec => []MembersDistinct
<1>1. ScannerInv => MembersDistinct
  <2> SUFFICES ASSUME ScannerInv, NEW n \in GroupTypesEmitted
               PROVE  LET members == [i \in DOMAIN ChildrenOf(n) |-> ChildrenOf(n)[i].inst]
                                     \o [i \in DOMAIN ConstsOf(n) |-> ConstsOf(n)[i].name] IN
                      \A i, j \in DOMAIN members :
                        /\ members[i] \notin Reserved
                        /\ i # j => members[i] # members[j]
    BY DEF MembersDistinct
  <2> DEFINE a == [i \in DOMAIN ChildrenOf(n) |-> ChildrenOf(n)[i].inst]
             b == [i \in DOMAIN ConstsOf(n) |-> ConstsOf(n)[i].name]
  <2>1. MembersOK(ChildrenOf(n), ConstsOf(n))
    BY DEF GroupTypesEmitted, ScannerInv, ComponentsInv
  <2>2. /\ DOMAIN ChildrenOf(n) = 1 .. Len(ChildrenOf(n)) /\ Len(ChildrenOf(n)) \in Nat
        /\ DOMAIN ConstsOf(n) = 1 .. Len(ConstsOf(n)) /\ Len(ConstsOf(n)) \in Nat
    BY <2>1, SeqFacts DEF MembersOK
  <2>3. a \in Seq(Name) /\ b \in Seq(Name)
    BY <2>1, <2>2 DEF MembersOK
  <2>4. /\ \A i \in DOMAIN a : a[i] \notin Reserved
        /\ \A i \in DOMAIN b : b[i] \notin Reserved
        /\ \A i, j \in DOMAIN a : i # j => a[i] # a[j]
        /\ \A i, j \in DOMAIN b : i # j => b[i] # b[j]
        /\ \A i \in DOMAIN a, j \in DOMAIN b : a[i] # b[j]
    BY <2>1 DEF MembersOK
  <2> HIDE DEF a, b
  <2>5. ASSUME NEW i \in DOMAIN (a \o b), NEW j \in DOMAIN (a \o b)
        PROVE  /\ (a \o b)[i] \notin Reserved
               /\ i # j => (a \o b)[i] # (a \o b)[j]
    <3>1. /\ \/ i \in DOMAIN a /\ (a \o b)[i] = a[i]
             \/ /\ i - Len(a) \in DOMAIN b /\ i \in Int /\ Len(a) \in Int
                /\ (a \o b)[i] = b[i - Len(a)]
          /\ \/ j \in DOMAIN a /\ (a \o b)[j] = a[j]
             \/ /\ j - Len(a) \in DOMAIN b /\ j \in Int /\ Len(a) \in Int
                /\ (a \o b)[j] = b[j - Len(a)]
      BY <2>3, Concatenated
    <3> QED
      BY <2>4, <3>1
  <2> QED
    BY <2>5 DEF a, b
<1> QED
  BY <1>1, ScannerInvariance, PTL

----------------------------------------------------------------------------
\* The path of a call is that of its caller with its own name at the end.
PathsOK ==
  /\ \A i \in DOMAIN stack : /\ stack[i].path \in Seq(Name)
                             /\ Len(stack[i].path) = i
                             /\ stack[i].path \in met \cup {<<TopName>>}
  /\ \A i \in DOMAIN stack : i # 1 =>
       stack[i].path = Append(stack[i - 1].path, stack[i].name)

\* What is met below the root is met below a node that was met.
MetOK == \A p \in met : Front(p) \in met \cup {<<TopName>>}

PathInv ==
  /\ status \in {"idle", "scanning", "done"}
  /\ (stack # << >>) = (status = "scanning")
  /\ DOMAIN calls = DOMAIN described
  /\ PathsOK
  /\ MetOK
  /\ ret # NoReturn => PathOf(ret.name) \in DOMAIN described

\* A path without its last name is the path it was made from.
LEMMA FrontOfAppended ==
  ASSUME NEW S, NEW s \in Seq(S), NEW x \in S
  PROVE  Front(Append(s, x)) = s
BY DEF Front

\* The node a child is met at lies below one that was met.
LEMMA MetBelow ==
  ASSUME ScannerInv, PathInv, NEW name \in Name, stack # << >>,
         met' = met \cup {PathOf(name)}
  PROVE  MetOK'
<1>1. Len(stack) \in DOMAIN stack
  BY SeqFacts DEF ScannerInv, FramesOK
<1>2. Innermost.path \in Seq(Name) /\ Innermost.path \in met \cup {<<TopName>>}
  BY <1>1 DEF PathInv, PathsOK, Innermost
<1>3. Front(PathOf(name)) = Innermost.path
  BY <1>2, FrontOfAppended DEF PathOf
<1> QED
  BY <1>2, <1>3 DEF PathInv, MetOK

\* A change of the innermost call leaves its path and its name.
LEMMA PathsStay ==
  ASSUME ScannerInv, PathInv, DOMAIN stack' = DOMAIN stack, Len(stack') = Len(stack),
         \A i \in DOMAIN stack : /\ stack'[i].path = stack[i].path
                                 /\ stack'[i].name = stack[i].name,
         met \subseteq met'
  PROVE  PathsOK' /\ (stack # << >> => Innermost'.path = Innermost.path)
<1>1. DOMAIN stack = 1 .. Len(stack) /\ Len(stack) \in Nat
      /\ (stack # << >> => Len(stack) \in DOMAIN stack)
  BY SeqFacts DEF ScannerInv, FramesOK
<1>2. \A i \in DOMAIN stack : i # 1 => i - 1 \in DOMAIN stack
  BY <1>1
<1> QED
  BY <1>1, <1>2 DEF PathInv, PathsOK, Innermost

\* Only the path and the name of the innermost call count.
LEMMA LastPaths ==
  ASSUME NEW s, IsSeq(s), s # << >>, NEW g,
         g.path = s[Len(s)].path, g.name = s[Len(s)].name
  PROVE  /\ WithLast(s, g) # << >>
         /\ DOMAIN WithLast(s, g) = DOMAIN s
         /\ Len(WithLast(s, g)) = Len(s)
         /\ \A i \in DOMAIN s : /\ WithLast(s, g)[i].path = s[i].path
                                /\ WithLast(s, g)[i].name = s[i].name
<1> DEFINE t == WithLast(s, g)
<1>1. t = [s EXCEPT ![Len(s)] = g]
  BY DEF WithLast
<1> HIDE DEF t
<1>2. /\ Len(t) = Len(s) /\ DOMAIN t = DOMAIN s
      /\ t[Len(s)] = g /\ t # << >>
      /\ \A i \in DOMAIN s : i # Len(s) => t[i] = s[i]
  BY <1>1, LastReplaced
<1>3. ASSUME NEW i \in DOMAIN s
      PROVE  t[i].path = s[i].path /\ t[i].name = s[i].name
  <2>1. CASE i = Len(s)
    BY <1>2, <2>1
  <2> QED
    BY <1>2, <2>1
<1> QED
  BY <1>2, <1>3 DEF t

\* One more child is marked as met: names and paths of calls stay.
LEMMA MarkedPaths ==
  ASSUME ScannerInv, stack # << >>, NEW name
  PROVE  /\ Marked(name) # << >>
         /\ DOMAIN Marked(name) = DOMAIN stack
         /\ Len(Marked(name)) = Len(stack)
         /\ \A i \in DOMAIN stack : /\ Marked(name)[i].path = stack[i].path
                                    /\ Marked(name)[i].name = stack[i].name
<1> DEFINE f == stack[Len(stack)]
           g == [f EXCEPT !.visited = @ \cup {name}]
<1>1. IsSeq(stack)
  BY DEF ScannerInv, FramesOK
<1>2. FrameOK(f)
  BY <1>1, SeqFacts DEF ScannerInv, FramesOK
<1>3. Marked(name) = WithLast(stack, g)
  BY DEF Marked, WithLast
<1>4. g.path = f.path /\ g.name = f.name
  <2> HIDE DEF f
  <2> QED
    BY <1>2 DEF FrameOK, FrameFields
<1> HIDE DEF g
<1> QED
  BY <1>1, <1>3, <1>4, LastPaths

\* A child is met below the innermost call: SkipMem, RejectReg, ScanReg.
LEMMA MeetPaths ==
  ASSUME ScannerInv, PathInv, NEW name \in Name, Meets(name),
         stack' = Marked(name), met' = met \cup {PathOf(name)}, status' = status,
         DOMAIN calls' = DOMAIN described',
         ret' # NoReturn => ret'.name = name /\ PathOf(name) \in DOMAIN described'
  PROVE  PathInv'
<1>1. status = "scanning" /\ stack # << >>
  BY DEF Meets
<1>2. /\ stack' # << >> /\ DOMAIN stack' = DOMAIN stack /\ Len(stack') = Len(stack)
      /\ \A i \in DOMAIN stack : /\ stack'[i].path = stack[i].path
                                 /\ stack'[i].name = stack[i].name
  BY <1>1, MarkedPaths
<1>3. PathsOK' /\ Innermost'.path = Innermost.path
  BY <1>1, <1>2, PathsStay
<1>4. MetOK'
  BY <1>1, MetBelow
<1>5. ret' # NoReturn => PathOf(ret.name)' \in DOMAIN described'
  BY <1>3 DEF PathOf
<1> QED
  BY <1>1, <1>2, <1>3, <1>4, <1>5 DEF PathInv

\* The innermost call changes and nothing is met: Attach, NameConst.
LEMMA TopPaths ==
  ASSUME ScannerInv, PathInv, stack # << >>, NEW g,
         stack' = [stack EXCEPT ![Len(stack)] = g],
         g.path = Innermost.path, g.name = Innermost.name,
         UNCHANGED <<status, calls, described, met>>, ret' = NoReturn
  PROVE  PathInv'
<1>1. stack' = WithLast(stack, g)
  BY DEF WithLast
<1>2. /\ stack' # << >> /\ DOMAIN stack' = DOMAIN stack /\ Len(stack') = Len(stack)
      /\ \A i \in DOMAIN stack : /\ stack'[i].path = stack[i].path
                                 /\ stack'[i].name = stack[i].name
  <2>1. IsSeq(stack)
    BY DEF ScannerInv, FramesOK
  <2>2. g.path = stack[Len(stack)].path /\ g.name = stack[Len(stack)].name
    BY DEF Innermost
  <2> QED
    BY <1>1, <2>1, <2>2, LastPaths
<1>3. PathsOK'
  BY <1>2, PathsStay
<1> QED
  BY <1>2, <1>3 DEF PathInv, MetOK

\* The root's call is at the root.
LEMMA StartPaths ==
  ASSUME ScannerInv, PathInv, ret = NoReturn, NEW type, Start(type)
  PROVE  PathInv'
<1> DEFINE g == Frame(TopName, <<TopName>>, TopName, type, NoReturn)
<1>1. /\ stack' = <<g>> /\ status' = "scanning"
      /\ UNCHANGED <<calls, described, met>> /\ ret' = NoReturn
  BY DEF Start, tableVars
<1>2. g.path = <<TopName>> /\ g.name = TopName
  BY DEF Frame
<1> HIDE DEF g
<1>3. /\ stack' # << >> /\ DOMAIN stack' = {1} /\ stack'[1] = g
  BY <1>1
<1>4. <<TopName>> \in Seq(Name) /\ Len(<<TopName>>) = 1
  BY TreeAssumption
<1>5. PathsOK'
  BY <1>2, <1>3, <1>4 DEF PathsOK
<1> QED
  BY <1>1, <1>3, <1>5 DEF PathInv, MetOK

\* A nested call is one name below its caller.
LEMMA EnterPaths ==
  ASSUME ScannerInv, PathInv, NEW name \in InstNames, NEW place, NEW type,
         EnterGroup(name, place, type)
  PROVE  PathInv'
<1> DEFINE s == Marked(name)
           g == Frame(name, PathOf(name), Joined(Innermost.joined, name), type, place)
<1>1. /\ stack # << >> /\ stack' = Append(s, g) /\ ret' = NoReturn
      /\ status = "scanning" /\ status' = status
      /\ UNCHANGED <<calls, described>>
      /\ met' = met \cup {PathOf(name)}
      /\ name \in Name
  BY TreeAssumption DEF EnterGroup, Meets, tableVars
<1>2. g.path = PathOf(name) /\ g.name = name
  BY DEF Frame
<1>3. /\ DOMAIN s = DOMAIN stack /\ Len(s) = Len(stack)
      /\ \A i \in DOMAIN stack : s[i].path = stack[i].path /\ s[i].name = stack[i].name
  BY <1>1, MarkedPaths
<1>4. IsSeq(s)
  BY <1>1, MarkedKeeps DEF ScannerInv, FramesOK
<1> HIDE DEF s, g
<1>5. /\ DOMAIN stack = 1 .. Len(stack) /\ Len(stack) \in Nat /\ Len(stack) \in DOMAIN stack
  BY <1>1, SeqFacts DEF ScannerInv, FramesOK
<1>6. /\ stack' # << >> /\ DOMAIN stack' = 1 .. Len(stack) + 1
      /\ \A i \in DOMAIN stack : stack'[i] = s[i]
      /\ stack'[Len(stack) + 1] = g
  <2>1. /\ Append(s, g) # << >> /\ DOMAIN Append(s, g) = DOMAIN s \cup {Len(s) + 1}
        /\ \A i \in DOMAIN s : Append(s, g)[i] = s[i]
        /\ Append(s, g)[Len(s) + 1] = g
    BY <1>4, Pushed
  <2> QED
    BY <1>1, <1>3, <1>5, <2>1
<1>7. /\ Innermost.path = stack[Len(stack)].path
      /\ Innermost.path \in Seq(Name) /\ Len(Innermost.path) = Len(stack)
  BY <1>5 DEF Innermost, PathInv, PathsOK
<1>8. /\ g.path = Append(Innermost.path, name)
      /\ g.path \in Seq(Name) /\ Len(g.path) = Len(stack) + 1
      /\ g.path \in met'
  BY <1>1, <1>2, <1>7 DEF PathOf
<1>9. ASSUME NEW i \in DOMAIN stack'
      PROVE  /\ stack'[i].path \in Seq(Name) /\ Len(stack'[i].path) = i
             /\ stack'[i].path \in met' \cup {<<TopName>>}
             /\ i # 1 => stack'[i].path = Append(stack'[i - 1].path, stack'[i].name)
  <2>1. CASE i = Len(stack) + 1
    <3>1. i - 1 = Len(stack) /\ stack'[i - 1].path = Innermost.path
      BY <1>3, <1>5, <1>6, <1>7, <2>1
    <3>2. stack'[i] = g
      BY <1>6, <2>1
    <3> QED
      BY <1>2, <1>8, <2>1, <3>1, <3>2
  <2>2. CASE i \in DOMAIN stack
    <3>1. stack'[i].path = stack[i].path /\ stack'[i].name = stack[i].name
      BY <1>3, <1>6, <2>2
    <3>2. i # 1 => i - 1 \in DOMAIN stack /\ stack'[i - 1].path = stack[i - 1].path
      BY <1>3, <1>5, <1>6, <2>2
    <3> QED
      BY <1>1, <2>2, <3>1, <3>2 DEF PathInv, PathsOK
  <2> QED
    BY <1>5, <1>6, <2>1, <2>2
<1>10. PathsOK'
  BY <1>9 DEF PathsOK
<1>11. MetOK'
  BY <1>1, MetBelow
<1> QED
  BY <1>1, <1>6, <1>10, <1>11 DEF PathInv

\* A group is described at its own path, which its caller's loop finds.
LEMMA FinishPaths ==
  ASSUME ScannerInv, PathInv, FinishGroup
  PROVE  PathInv'
<1> DEFINE f == Innermost
           t == SubSeq(stack, 1, Len(stack) - 1)
<1>1. /\ stack # << >> /\ stack' = t /\ met' = met
      /\ DOMAIN calls' = DOMAIN calls \cup {f.path}
      /\ DOMAIN described' = DOMAIN described \cup {f.path}
      /\ status = "scanning"
  BY DEF FinishGroup, Intern, Extended
<1>2. \/ Len(stack) = 1 /\ status' = "done" /\ ret' = NoReturn
      \/ Len(stack) # 1 /\ status' = status /\ ret'.name = f.name
  BY DEF FinishGroup
<1>3. /\ DOMAIN stack = 1 .. Len(stack) /\ Len(stack) \in Nat /\ Len(stack) \in DOMAIN stack
  BY <1>1, SeqFacts DEF ScannerInv, FramesOK
<1>4. /\ IsSeq(t) /\ Len(t) = Len(stack) - 1
      /\ DOMAIN t = 1 .. Len(stack) - 1
      /\ \A i \in 1 .. Len(stack) - 1 : t[i] = stack[i]
  BY <1>1, Popped DEF ScannerInv, FramesOK
<1> HIDE DEF t
<1>5. t = << >> <=> Len(stack) = 1
  <2>1. t = << >> <=> Len(t) = 0
    BY <1>4, SeqFacts
  <2> QED
    BY <1>3, <1>4, <2>1
<1>6. ASSUME NEW i \in DOMAIN t
      PROVE  /\ i \in DOMAIN stack /\ t[i] = stack[i]
             /\ i # 1 => i - 1 \in DOMAIN t /\ t[i - 1] = stack[i - 1]
  BY <1>3, <1>4
<1>7. PathsOK'
  BY <1>1, <1>6 DEF PathInv, PathsOK
<1>8. Len(stack) # 1 => Append(Innermost'.path, f.name) = f.path
  <2>1. Len(stack) # 1 => Innermost' = stack[Len(stack) - 1]
    BY <1>1, <1>3, <1>4 DEF Innermost
  <2> QED
    BY <1>3, <2>1 DEF PathInv, PathsOK, Innermost
<1> HIDE DEF f
<1>9. ret' # NoReturn => PathOf(ret.name)' \in DOMAIN described'
  BY <1>1, <1>2, <1>8 DEF PathOf
<1>10. MetOK'
  BY <1>1 DEF PathInv, MetOK
<1>11. (stack' # << >>) = (status' = "scanning")
  BY <1>1, <1>2, <1>5
<1>12. status' \in {"idle", "scanning", "done"} /\ DOMAIN calls' = DOMAIN described'
  BY <1>1, <1>2 DEF PathInv
<1> QED
  BY <1>7, <1>9, <1>10, <1>11, <1>12 DEF PathInv

\* Where in the tree each call is holds in every reachable state of the scan.
THEOREM PathInvariance == Spec => []PathInv
<1>1. Init => PathInv
  <2> SUFFICES ASSUME Init PROVE PathInv
    OBVIOUS
  <2>1. /\ status = "idle" /\ stack = << >> /\ ret = NoReturn
        /\ calls = << >> /\ described = << >> /\ met = {}
    BY DEF Init, TableInit
  <2>2. DOMAIN stack = {}
    BY <2>1, EmptyIsSeq
  <2> QED
    BY <2>1, <2>2 DEF PathInv, PathsOK, MetOK
<1>2. ScannerInv /\ IdleOK /\ PathInv /\ [Next]_vars => PathInv'
  <2> SUFFICES ASSUME ScannerInv, IdleOK, PathInv, [Next]_vars
               PROVE  PathInv'
    OBVIOUS
  <2>1. CASE RefuseBridge
    BY <2>1 DEF RefuseBridge, tableVars, PathInv, PathsOK, MetOK, PathOf, Innermost
  <2>2. ASSUME NEW type \in GroupTypes, Start(type)
        PROVE  PathInv'
    BY <2>2, StartPaths DEF IdleOK, Start
  <2>3. ASSUME NEW name \in InstNames, SkipMem(name)
        PROVE  PathInv'
    BY <2>3, MeetPaths, TreeAssumption DEF SkipMem, Meets, tableVars, PathInv
  <2>4. ASSUME NEW name \in InstNames, NEW d \in RegDescs, RejectReg(name, d)
        PROVE  PathInv'
    BY <2>4, MeetPaths, TreeAssumption DEF RejectReg, Meets, tableVars, PathInv
  <2>5. ASSUME NEW name \in InstNames, NEW place \in Places, NEW d \in RegDescs,
               ScanReg(name, place, d)
        PROVE  PathInv'
    <3>1. /\ DOMAIN calls' = DOMAIN calls \cup {PathOf(name)}
          /\ DOMAIN described' = DOMAIN described \cup {PathOf(name)}
      BY <2>5 DEF ScanReg, Intern, Extended
    <3>2. /\ Meets(name) /\ stack' = Marked(name) /\ status' = status
          /\ met' = met \cup {PathOf(name)} /\ ret'.name = name /\ name \in Name
      BY <2>5, TreeAssumption DEF ScanReg
    <3> QED
      BY <3>1, <3>2, MeetPaths DEF PathInv
  <2>6. ASSUME NEW name \in InstNames, NEW place \in Places, NEW type \in GroupTypes,
               EnterGroup(name, place, type)
        PROVE  PathInv'
    BY <2>6, EnterPaths
  <2>7. CASE Attach
    <3> DEFINE f == Innermost
               inst == Mangle(ret.name, f.taken)
               child == [inst |-> inst, rdl |-> ret.name, type |-> ret.type,
                         kind |-> ret.kind, place |-> ret.place]
               const == [inst |-> inst, width |-> ret.content.regwidth,
                         value |-> ret.content.reset]
               g == [f EXCEPT
                 !.taken = Claimed(@, inst),
                 !.children = Append(@, child),
                 !.sigs = Append(@, ret.sig),
                 !.pending = IF EmitResetConsts /\ ret.kind = "reg"
                                /\ ret.content.reset # NoReset
                               THEN Append(@, const) ELSE @,
                 !.body = Append(@, [name |-> ret.name, place |-> ret.place,
                                     base |-> ret.base, content |-> ret.content])]
    <3>1. stack' = [stack EXCEPT ![Len(stack)] = g]
      BY <2>7, Zenon DEF Attach
    <3>2. stack # << >>
      BY <2>7 DEF Attach, ScannerInv, ReturnOK
    <3>3. FrameOK(f)
      BY <3>2, SeqFacts DEF ScannerInv, FramesOK, Innermost
    <3> HIDE DEF f, inst, child, const
    <3>4. g.path = f.path /\ g.name = f.name
      BY <3>3 DEF FrameOK, FrameFields
    <3> HIDE DEF g
    <3>5. UNCHANGED <<status, calls, described, met>> /\ ret' = NoReturn
      BY <2>7 DEF Attach, tableVars
    <3> QED
      BY <3>1, <3>2, <3>4, <3>5, TopPaths DEF f
  <2>8. CASE NameConst
    <3> DEFINE f == Innermost
               of == f.pending[Len(f.consts) + 1]
               name == ConstName(of.inst, f.taken)
               const == [name |-> name, width |-> of.width, value |-> of.value]
               g == [f EXCEPT !.taken = @ \cup {name}, !.consts = Append(@, const)]
    <3>1. stack' = [stack EXCEPT ![Len(stack)] = g]
      BY <2>8, Zenon DEF NameConst
    <3>2. stack # << >>
      BY <2>8 DEF NameConst
    <3>3. FrameOK(f)
      BY <3>2, SeqFacts DEF ScannerInv, FramesOK, Innermost
    <3> HIDE DEF f, of, name, const
    <3>4. g.path = f.path /\ g.name = f.name
      BY <3>3 DEF FrameOK, FrameFields
    <3> HIDE DEF g
    <3>5. UNCHANGED <<status, calls, described, met>> /\ ret' = NoReturn
      BY <2>8 DEF NameConst, tableVars
    <3> QED
      BY <3>1, <3>2, <3>4, <3>5, TopPaths DEF f
  <2>9. CASE FinishGroup
    BY <2>9, FinishPaths
  <2>10. CASE UNCHANGED vars
    BY <2>10 DEF vars, tableVars, scanVars, PathInv, PathsOK, MetOK, PathOf, Innermost
  <2> QED
    BY <2>1, <2>2, <2>3, <2>4, <2>5, <2>6, <2>7, <2>8, <2>9, <2>10 DEF Next
<1> QED
  BY <1>1, <1>2, ScannerInvariance, PTL DEF Spec

\* The scanner's state is what its annotations and its recursion make it: type
\* names are unique and the call stack is the path of the innermost group.
THEOREM ScannerTypes == Spec => []ScannerTypeOK
<1>1. ScannerInv /\ PathInv => ScannerTypeOK
  BY DEF ScannerInv, ReturnOK, TablesInv, PathInv, PathsOK, MetOK, ScannerTypeOK
<1> QED
  BY <1>1, ScannerInvariance, PathInvariance, PTL
=============================================================================
