-------------------------- MODULE AddressingProofs --------------------------
(***************************************************************************)
(* For arrays of any number of dimensions of any size: flattening stays    *)
(* below the element count and unflattening inverts it, the element count  *)
(* is the number of elements, an index is the number of elements before    *)
(* its own, and so the addresses are those of AddressMap.  The helper of   *)
(* the package computes the same index.                                    *)
(*                                                                         *)
(* Round trip and range need no product as a whole: the histories tie each *)
(* iteration to the one before, so the facts needed are those of a single  *)
(* division.  For the two counts, a tuple of one more index is a pair      *)
(* (Extended): the tuples within the dimensions so far multiply (Box), and *)
(* those before e are any index after one before, or a smaller index after *)
(* e itself (Before).  That every iteration is right follows by the least  *)
(* one that would not be (LeastNatural).                                   *)
(***************************************************************************)
EXTENDS Addressing, FiniteSetTheorems, WellFoundedInduction, TLAPS

\* What one iteration of flatten_index computes.
Step(f, dim, idx) == f * dim + idx

Rank == Len(child.dims)

TypesInv ==
  /\ phase \in {"walking", "resolving", "raised"}
  /\ child \in Children
  /\ indices \in Seq(Int)
  /\ counts \in Seq(Nat \ {0})
  /\ flats \in Seq(Nat)
  /\ out \in Seq(Nat)

LengthsInv ==
  /\ Len(counts) - 1 \in 0 .. Rank
  /\ Len(flats) - 1 \in 0 .. Rank
  /\ Len(flats) > 1 => Len(counts) - 1 = Rank /\ Len(indices) = Rank
  /\ Len(out) \in 0 .. Rank
  /\ Len(out) > 0 => Len(flats) - 1 = Rank

CountsInv ==
  /\ counts[1] = 1
  /\ \A k \in 1 .. Len(counts) - 1 : counts[k + 1] = CountBy(counts[k], child.dims[k])

FlatsInv ==
  /\ flats[1] = 0
  /\ \A k \in 1 .. Len(flats) - 1 :
       /\ indices[k] \in 0 .. child.dims[k] - 1
       /\ flats[k + 1] = Step(flats[k], child.dims[k], indices[k])
  /\ \A k \in 1 .. Len(flats) : flats[k] < counts[k]

\* What unflatten_index has taken apart is what flatten_index put on last.
OutInv ==
  /\ flat = flats[Len(flats) - Len(out)]
  /\ \A j \in 1 .. Len(out) : out[j] = indices[Len(indices) - Len(out) + j]

AddressingInv == TypesInv /\ LengthsInv /\ CountsInv /\ FlatsInv /\ OutInv

----------------------------------------------------------------------------
\* One more dimension keeps an index below the count.
LEMMA StepBelow ==
  ASSUME NEW f \in Nat, NEW c \in Nat \ {0}, NEW d \in Nat \ {0}, NEW i \in 0 .. d - 1,
         f < c
  PROVE  /\ Step(f, d, i) \in Nat
         /\ Step(f, d, i) < CountBy(c, d)
<1>1. (f + 1) * d <= c * d
  OBVIOUS
<1>2. (f + 1) * d = f * d + d
  OBVIOUS
<1>3. f * d \in Nat /\ c * d \in Nat
  OBVIOUS
<1> QED BY <1>1, <1>2, <1>3 DEF Step, CountBy

\* A count stays positive.
LEMMA CountPositive ==
  ASSUME NEW c \in Nat \ {0}, NEW d \in Nat \ {0}
  PROVE  CountBy(c, d) \in Nat \ {0}
BY DEF CountBy

\* A number has one quotient and one remainder.
LEMMA DivisionUnique ==
  ASSUME NEW q \in Nat, NEW p \in Nat, NEW d \in Nat \ {0},
         NEW i \in 0 .. d - 1, NEW j \in 0 .. d - 1,
         q * d + i = p * d + j
  PROVE  q = p /\ i = j
<1>1. q * d \in Int /\ p * d \in Int
  OBVIOUS
<1>2. ~(q < p)
  <2> SUFFICES ASSUME q < p PROVE FALSE
    OBVIOUS
  <2>1. (q + 1) * d <= p * d
    OBVIOUS
  <2>2. (q + 1) * d = q * d + d
    OBVIOUS
  <2> QED BY <1>1, <2>1, <2>2
<1>3. ~(p < q)
  <2> SUFFICES ASSUME p < q PROVE FALSE
    OBVIOUS
  <2>1. (p + 1) * d <= q * d
    OBVIOUS
  <2>2. (p + 1) * d = p * d + d
    OBVIOUS
  <2> QED BY <1>1, <2>1, <2>2
<1>4. q = p
  BY <1>2, <1>3
<1>5. i = j
  BY <1>1, <1>4
<1> QED BY <1>4, <1>5

\* Dividing by the dimension undoes one iteration of flatten_index.
LEMMA StepUndone ==
  ASSUME NEW q \in Nat, NEW d \in Nat \ {0}, NEW i \in 0 .. d - 1
  PROVE  Step(q, d, i) % d = i /\ Step(q, d, i) \div d = q
<1> DEFINE a == q * d + i
<1>1. a \in Nat
  OBVIOUS
<1> HIDE DEF a
<1>2. PICK p \in Nat, j \in 0 .. d - 1 : p = a \div d /\ j = a % d
  BY <1>1
<1>3. a = p * d + j
  BY <1>1, <1>2
<1>4. q = p /\ i = j
  BY <1>3, DivisionUnique DEF a
<1> QED BY <1>2, <1>4 DEF a, Step

\* The facts about a child the compiler grants.
LEMMA ChildFacts ==
  ASSUME NEW c \in Children
  PROVE  /\ c.dims \in Seq(Nat \ {0})
         /\ Len(c.dims) \in Nat
         /\ \A k \in 1 .. Len(c.dims) : c.dims[k] \in Nat \ {0}
BY ChildrenAssumption

\* The facts about the child at this level.
LEMMA RankFacts ==
  ASSUME TypesInv
  PROVE  Rank \in Nat /\ \A k \in 1 .. Rank : child.dims[k] \in Nat \ {0}
BY ChildFacts DEF TypesInv, Rank

\* The types of what the histories hold.
LEMMA ValueTypes ==
  ASSUME TypesInv
  PROVE  /\ \A k \in 1 .. Len(counts) : counts[k] \in Nat \ {0}
         /\ \A k \in 1 .. Len(flats) : flats[k] \in Nat
         /\ \A k \in 1 .. Len(indices) : indices[k] \in Int
         /\ \A k \in 1 .. Len(out) : out[k] \in Nat
BY DEF TypesInv

\* A history with one more value.
LEMMA Appended ==
  ASSUME NEW S, NEW s \in Seq(S), NEW x \in S, NEW n, n = Len(s)
  PROVE  /\ Append(s, x) \in Seq(S)
         /\ n \in Nat
         /\ Len(Append(s, x)) = n + 1
         /\ \A i \in 1 .. n : Append(s, x)[i] = s[i]
         /\ Append(s, x)[n + 1] = x
OBVIOUS

----------------------------------------------------------------------------
\* Before the first level the histories are as the loops start.
LEMMA AddressingInit == Init => AddressingInv
<1> SUFFICES ASSUME Init PROVE AddressingInv
  OBVIOUS
<1>1. child \in Children /\ Rank \in Nat
  BY ChildFacts DEF Init, Rank
<1>2. TypesInv /\ LengthsInv
  BY <1>1 DEF Init, TypesInv, LengthsInv
<1>3. CountsInv
  BY DEF Init, CountsInv
<1>4. FlatsInv
  BY DEF Init, FlatsInv
<1>5. OutInv
  BY DEF Init, OutInv
<1> QED BY <1>2, <1>3, <1>4, <1>5 DEF AddressingInv

\* A level starts with fresh histories.
LEMMA AskStep ==
  ASSUME AddressingInv, NEW c \in Children, NEW e \in Tuples, Ask(c, e)
  PROVE  AddressingInv'
<1>1. child' \in Children /\ Rank' \in Nat
  BY ChildFacts DEF Ask, Rank
<1>2. indices' \in Seq(Int)
  BY TuplesAssumption DEF Ask
<1>3. TypesInv'
  BY <1>1, <1>2 DEF Ask, TypesInv
<1>a. LengthsInv'
  <2>1. Len(counts') = 1 /\ Len(flats') = 1 /\ Len(out') = 0
    BY DEF Ask
  <2> QED BY <1>1, <2>1 DEF LengthsInv
<1>4. CountsInv'
  BY DEF Ask, CountsInv
<1>5. FlatsInv'
  BY DEF Ask, FlatsInv
<1>6. OutInv'
  BY DEF Ask, OutInv
<1> QED BY <1>3, <1>a, <1>4, <1>5, <1>6 DEF AddressingInv

\* An iteration of flat_count extends its history.
LEMMA CountStep == AddressingInv /\ Count => AddressingInv'
<1> SUFFICES ASSUME AddressingInv, Count PROVE AddressingInv'
  OBVIOUS
<1>1. TypesInv /\ LengthsInv /\ CountsInv /\ FlatsInv /\ OutInv /\ Rank \in Nat
  BY RankFacts DEF AddressingInv
<1>2. PICK k, n : k = Len(counts) /\ n = CountBy(counts[k], child.dims[k])
  OBVIOUS
<1>3. /\ k \in 1 .. Rank
      /\ counts' = Append(counts, n)
      /\ UNCHANGED <<phase, child, indices, flats, flat, out>>
      /\ Rank' = Rank
  BY <1>1, <1>2 DEF Count, Latest, LengthsInv, Rank
<1>4. n \in Nat \ {0}
  <2>1. counts[k] \in Nat \ {0}
    BY <1>1, <1>2, <1>3, ValueTypes
  <2> QED BY <1>1, <1>2, <1>3, <2>1, RankFacts, CountPositive
<1>5. /\ counts' \in Seq(Nat \ {0}) /\ Len(counts') = k + 1
      /\ \A i \in 1 .. k : counts'[i] = counts[i]
      /\ counts'[k + 1] = n
  BY <1>1, <1>2, <1>3, <1>4, Appended DEF TypesInv
<1>6. Len(flats) = 1 /\ Len(out) = 0
  <2>1. PICK f, o, r \in Nat : f = Len(flats) - 1 /\ o = Len(out) /\ r = Rank
    BY <1>1 DEF LengthsInv
  <2>2. f > 0 => k - 1 = r
    BY <1>1, <1>2, <2>1 DEF LengthsInv
  <2>3. k \in Nat /\ k <= r /\ r # 0
    BY <1>3, <2>1
  <2>4. f = 0
    BY <2>2, <2>3
  <2>5. o > 0 => f = r
    BY <2>1, <1>1 DEF LengthsInv
  <2>6. o = 0
    BY <2>3, <2>4, <2>5
  <2> QED BY <2>1, <2>4, <2>6
<1>7. TypesInv' /\ LengthsInv'
  <2>1. TypesInv'
    BY <1>1, <1>3, <1>5 DEF TypesInv
  <2>2. LengthsInv'
    BY <1>1, <1>3, <1>5, <1>6 DEF LengthsInv
  <2> QED BY <2>1, <2>2
<1>8. CountsInv'
  BY <1>1, <1>2, <1>3, <1>5 DEF CountsInv
<1>9. FlatsInv'
  BY <1>1, <1>3, <1>5, <1>6 DEF FlatsInv
<1>10. OutInv'
  BY <1>1, <1>3 DEF OutInv
<1> QED BY <1>7, <1>8, <1>9, <1>10 DEF AddressingInv

\* An iteration of flatten_index extends its history, below the count.
LEMMA FlattenStep == AddressingInv /\ Flatten => AddressingInv'
<1> SUFFICES ASSUME AddressingInv, Flatten PROVE AddressingInv'
  OBVIOUS
<1>1. TypesInv /\ LengthsInv /\ CountsInv /\ FlatsInv /\ OutInv /\ Rank \in Nat
  BY RankFacts DEF AddressingInv
<1>2. PICK k, d, i, next :
        /\ k = Len(flats) /\ d = child.dims[k] /\ i = indices[k]
        /\ next = Step(flats[k], d, i)
  OBVIOUS
<1>3. /\ k \in 1 .. Rank /\ Rank \in Nat
      /\ Len(indices) = Rank /\ Len(counts) = Rank + 1
      /\ flats' = Append(flats, next) /\ flat' = Latest(flats')
      /\ InRange(i, d)
      /\ UNCHANGED <<phase, child, indices, counts, out>>
      /\ Rank' = Rank
  BY <1>1, <1>2 DEF Flatten, Counted, Horner, Step, Latest, LengthsInv, Rank
<1>4. /\ d \in Nat \ {0} /\ flats[k] \in Nat /\ counts[k] \in Nat \ {0}
      /\ i \in Int
  BY <1>1, <1>2, <1>3, RankFacts, ValueTypes
<1>5. i \in 0 .. d - 1
  BY <1>3, <1>4 DEF InRange
<1>6. /\ flats[k] < counts[k]
      /\ counts[k + 1] = CountBy(counts[k], d)
  BY <1>1, <1>2, <1>3 DEF FlatsInv, CountsInv
<1>7. next \in Nat /\ next < counts[k + 1]
  BY <1>2, <1>4, <1>5, <1>6, StepBelow
<1>8. /\ flats' \in Seq(Nat) /\ Len(flats') = k + 1
      /\ \A j \in 1 .. k : flats'[j] = flats[j]
      /\ flats'[k + 1] = next
  BY <1>1, <1>2, <1>3, <1>7, Appended DEF TypesInv
<1>9. flat' = next
  BY <1>3, <1>8 DEF Latest
<1>10. out = << >> /\ Len(out) = 0
  <2>1. Len(out) = 0
    BY <1>1, <1>2, <1>3 DEF LengthsInv
  <2> QED BY <1>1, <2>1 DEF TypesInv
<1>11. TypesInv' /\ LengthsInv'
  <2>1. TypesInv'
    BY <1>1, <1>3, <1>8 DEF TypesInv
  <2>2. LengthsInv'
    BY <1>1, <1>3, <1>8, <1>10 DEF LengthsInv
  <2> QED BY <2>1, <2>2
<1>12. CountsInv'
  BY <1>1, <1>3 DEF CountsInv
<1>13. FlatsInv'
  BY <1>1, <1>2, <1>3, <1>5, <1>7, <1>8 DEF FlatsInv
<1>14. OutInv'
  BY <1>3, <1>8, <1>9, <1>10 DEF OutInv
<1> QED BY <1>11, <1>12, <1>13, <1>14 DEF AddressingInv

\* An iteration of unflatten_index undoes the last that is not undone.
LEMMA UnflattenStep == AddressingInv /\ Unflatten => AddressingInv'
<1> SUFFICES ASSUME AddressingInv, Unflatten PROVE AddressingInv'
  OBVIOUS
<1>1. TypesInv /\ LengthsInv /\ CountsInv /\ FlatsInv /\ OutInv /\ Rank \in Nat
  BY RankFacts DEF AddressingInv
<1>2. PICK k, m, d, i :
        /\ m = Len(out) /\ k = Rank - m
        /\ d = child.dims[k] /\ i = indices[k]
  OBVIOUS
<1>3. /\ Rank \in Nat /\ m \in Nat /\ m < Rank /\ k \in 1 .. Rank
      /\ Len(flats) = Rank + 1 /\ Len(indices) = Rank
      /\ NextDimension = d
      /\ UNCHANGED <<phase, child, indices, counts, flats>>
      /\ Rank' = Rank
  BY <1>1, <1>2 DEF Unflatten, Flattened, Counted, NextDimension, LengthsInv, Rank
<1>4. d \in Nat \ {0} /\ flats[k] \in Nat
  BY <1>1, <1>2, <1>3, RankFacts, ValueTypes
<1>5. i \in 0 .. d - 1 /\ flats[k + 1] = Step(flats[k], d, i)
  BY <1>1, <1>2, <1>3 DEF FlatsInv
<1>6. flat = flats[k + 1]
  BY <1>1, <1>2, <1>3 DEF OutInv
<1>7. flat % d = i /\ flat \div d = flats[k]
  BY <1>4, <1>5, <1>6, StepUndone
<1>8. out' = <<i>> \o out /\ flat' = flats[k]
  BY <1>3, <1>7 DEF Unflatten
<1>9. /\ i \in Nat /\ out \in Seq(Nat)
  BY <1>1, <1>4, <1>5 DEF TypesInv
<1>10. /\ out' \in Seq(Nat) /\ Len(out') = m + 1
       /\ out'[1] = i
       /\ \A j \in 1 .. m : out'[j + 1] = out[j]
  BY <1>2, <1>8, <1>9
<1>11. ASSUME NEW j \in 1 .. m + 1
       PROVE  out'[j] = indices[Rank - (m + 1) + j]
  <2>1. CASE j = 1
    BY <1>2, <1>3, <1>10, <2>1
  <2>2. CASE j # 1
    <3>1. PICK l \in 1 .. m : j = l + 1
      BY <1>3, <2>2
    <3>2. out[l] = indices[Rank - m + l]
      BY <1>1, <1>2, <1>3 DEF OutInv
    <3>3. Rank - m + l = Rank - (m + 1) + j
      BY <1>3, <3>1
    <3> QED BY <1>10, <3>1, <3>2, <3>3
  <2> QED BY <2>1, <2>2
<1>12. OutInv'
  <2>1. Len(flats') - Len(out') = k
    BY <1>2, <1>3, <1>10
  <2> QED BY <1>3, <1>8, <1>10, <1>11, <2>1 DEF OutInv
<1>13. TypesInv' /\ LengthsInv'
  <2>1. TypesInv'
    BY <1>1, <1>3, <1>10 DEF TypesInv
  <2>2. LengthsInv'
    BY <1>1, <1>2, <1>3, <1>10 DEF LengthsInv
  <2> QED BY <2>1, <2>2
<1>14. CountsInv' /\ FlatsInv'
  BY <1>1, <1>3 DEF CountsInv, FlatsInv
<1> QED BY <1>12, <1>13, <1>14 DEF AddressingInv

\* The steps that only change the phase, the path and the address.
LEMMA LevelStep ==
  AddressingInv /\ (RefuseArity \/ RefuseIndex \/ Resolve \/ UNCHANGED vars)
    => AddressingInv'
<1> SUFFICES ASSUME AddressingInv, RefuseArity \/ RefuseIndex \/ Resolve \/ UNCHANGED vars
             PROVE  AddressingInv'
  OBVIOUS
<1>1. /\ UNCHANGED <<child, indices, counts, flats, flat, out>>
      /\ phase' \in {"walking", "resolving", "raised"}
  BY DEF RefuseArity, RefuseIndex, Resolve, vars, AddressingInv, TypesInv
<1>2. TypesInv' /\ LengthsInv'
  BY <1>1 DEF AddressingInv, TypesInv, LengthsInv, Rank
<1>3. CountsInv' /\ FlatsInv' /\ OutInv'
  BY <1>1 DEF AddressingInv, CountsInv, FlatsInv, OutInv
<1> QED BY <1>2, <1>3 DEF AddressingInv

\* At every step the histories are those of the loops.
THEOREM AddressingInvariance == Spec => []AddressingInv
<1>1. AddressingInv /\ [Next]_vars => AddressingInv'
  BY AskStep, CountStep, FlattenStep, UnflattenStep, LevelStep DEF Next
<1> QED BY <1>1, AddressingInit, PTL DEF Spec

----------------------------------------------------------------------------
\* For every number of dimensions: each loop runs once per dimension and no
\* index or count is negative.
THEOREM AddressingTypes == Spec => []AddressingTypeOK
<1>1. AddressingInv => AddressingTypeOK
  <2> SUFFICES ASSUME AddressingInv PROVE AddressingTypeOK
    OBVIOUS
  <2>1. flat \in Nat
    <3>1. Len(flats) - Len(out) \in 1 .. Len(flats)
      BY RankFacts DEF AddressingInv, LengthsInv
    <3> QED BY <3>1, ValueTypes DEF AddressingInv, OutInv
  <2> QED BY <2>1 DEF AddressingInv, TypesInv, LengthsInv, AddressingTypeOK, Rank
<1> QED BY <1>1, AddressingInvariance, PTL

\* For every number of dimensions, of every size: a flattened index is below
\* the element count of the dimensions it was made from.
THEOREM FlattenedInRange == Spec => []FlatInRange
<1>1. AddressingInv => FlatInRange
  <2> SUFFICES ASSUME AddressingInv, NEW k \in DOMAIN flats
               PROVE  flats[k] < counts[k]
    BY DEF FlatInRange
  <2>1. DOMAIN flats = 1 .. Len(flats)
    BY DEF AddressingInv, TypesInv
  <2> QED BY <2>1 DEF AddressingInv, FlatsInv
<1> QED BY <1>1, AddressingInvariance, PTL

\* For every number of dimensions, of every size: unflatten_index returns the
\* indices flatten_index was given.
THEOREM UnflattenInverts == Spec => []RoundTrip
<1>1. AddressingInv => RoundTrip
  <2> SUFFICES ASSUME AddressingInv, Flattened PROVE
        /\ out = SubSeq(indices, Len(indices) - Len(out) + 1, Len(indices))
        /\ flat = flats[Len(flats) - Len(out)]
        /\ Len(out) = Len(child.dims) => flat = 0
    BY DEF RoundTrip
  <2>1. /\ Rank \in Nat /\ Len(indices) = Rank /\ Len(flats) = Rank + 1
        /\ out \in Seq(Nat) /\ Len(out) \in 0 .. Rank
        /\ indices \in Seq(Int)
    BY RankFacts DEF AddressingInv, TypesInv, LengthsInv, Flattened, Counted, Rank
  <2>2. flat = flats[Len(flats) - Len(out)]
    BY DEF AddressingInv, OutInv
  <2>3. \A j \in 1 .. Len(out) : out[j] = indices[Len(indices) - Len(out) + j]
    BY DEF AddressingInv, OutInv
  <2>4. PICK rest : rest = SubSeq(indices, Len(indices) - Len(out) + 1, Len(indices))
    OBVIOUS
  <2>5. /\ rest \in Seq(Int) /\ Len(rest) = Len(out)
        /\ \A j \in 1 .. Len(out) : rest[j] = indices[Len(indices) - Len(out) + j]
    BY <2>1, <2>4
  <2>6. out = rest
    <3>1. PICK n \in Nat : n = Len(out) /\ n = Len(rest)
      BY <2>1, <2>5
    <3>2. \A j \in 1 .. n : out[j] = rest[j]
      BY <2>3, <2>5, <3>1
    <3>3. out = [j \in 1 .. n |-> out[j]] /\ rest = [j \in 1 .. n |-> rest[j]]
      BY <2>1, <2>5, <3>1
    <3> QED BY <3>2, <3>3
  <2>7. Len(out) = Rank => flat = 0
    <3>1. flats[1] = 0
      BY DEF AddressingInv, FlatsInv
    <3> QED BY <2>1, <2>2, <3>1
  <2> QED BY <2>2, <2>4, <2>6, <2>7 DEF Rank
<1> QED BY <1>1, AddressingInvariance, PTL

----------------------------------------------------------------------------
\* The tuples within the first m dimensions.
Box(dims, m) == {e \in [1 .. m -> Nat] : \A j \in 1 .. m : e[j] \in 0 .. dims[j] - 1}

\* Those of them that come before e in row-major order.
Lower(f, e, m) == \E k \in 1 .. m : f[k] < e[k] /\ \A j \in 1 .. k - 1 : f[j] = e[j]

Before(dims, e, m) == {f \in Box(dims, m) : Lower(f, e, m)}

Prefix(f, m) == [j \in 1 .. m |-> f[j]]

\* The tuples of A with one more index, from I.
Extended(A, m, I) == {f \in [1 .. m + 1 -> Nat] : Prefix(f, m) \in A /\ f[m + 1] \in I}

\* A nonempty set of naturals has a least member.
LEMMA LeastNatural ==
  ASSUME NEW T \in SUBSET Nat, T # {}
  PROVE  \E i \in T : \A j \in T : i <= j
<1>1. PICK i \in T : \A j \in T : <<j, i>> \notin OpToRel(<, Nat)
  BY WFMin, NatLessThanWellFounded, Zenon
<1>2. ASSUME NEW j \in T PROVE i <= j
  <2>1. i \in Nat /\ j \in Nat
    OBVIOUS
  <2>2. ~(j < i)
    BY <1>1, <2>1 DEF OpToRel
  <2> QED BY <2>1, <2>2
<1> QED BY <1>2

\* A pair has two parts.
LEMMA Pairs ==
  ASSUME NEW A, NEW I, NEW p \in A \X I
  PROVE  \E a \in A, i \in I : p = <<a, i>>
OBVIOUS

\* One more index multiplies the number of tuples.
LEMMA ExtendedCount ==
  ASSUME NEW m \in Nat, NEW A \in SUBSET [1 .. m -> Nat], IsFiniteSet(A),
         NEW I \in SUBSET Nat, IsFiniteSet(I)
  PROVE  /\ IsFiniteSet(Extended(A, m, I))
         /\ Cardinality(Extended(A, m, I)) = Cardinality(A) * Cardinality(I)
<1> DEFINE Join(a, i) == [j \in 1 .. m + 1 |-> IF j = m + 1 THEN i ELSE a[j]]
           g == [p \in A \X I |-> Join(p[1], p[2])]
<1>1. \A j \in 1 .. m + 1 : j # m + 1 => j \in 1 .. m
  OBVIOUS
<1>2. m + 1 \in 1 .. m + 1 /\ \A j \in 1 .. m : j \in 1 .. m + 1 /\ j # m + 1
  OBVIOUS
<1>3. ASSUME NEW a \in A, NEW i \in I
      PROVE  /\ Join(a, i) \in Extended(A, m, I)
             /\ Prefix(Join(a, i), m) = a
             /\ Join(a, i)[m + 1] = i
  <2>1. a \in [1 .. m -> Nat] /\ i \in Nat
    OBVIOUS
  <2>2. Join(a, i) \in [1 .. m + 1 -> Nat]
    BY <1>1, <2>1
  <2>3. Prefix(Join(a, i), m) = a
    <3>1. \A j \in 1 .. m : Join(a, i)[j] = a[j]
      BY <1>2
    <3> QED BY <2>1, <3>1 DEF Prefix
  <2>4. Join(a, i)[m + 1] = i
    BY <1>2
  <2> QED BY <2>2, <2>3, <2>4 DEF Extended
<1>4. ASSUME NEW f \in Extended(A, m, I)
      PROVE  /\ Prefix(f, m) \in A /\ f[m + 1] \in I
             /\ f = Join(Prefix(f, m), f[m + 1])
  <2>1. f \in [1 .. m + 1 -> Nat] /\ Prefix(f, m) \in A /\ f[m + 1] \in I
    BY DEF Extended
  <2>2. \A j \in 1 .. m + 1 : f[j] = Join(Prefix(f, m), f[m + 1])[j]
    BY <1>1 DEF Prefix
  <2> QED BY <2>1, <2>2
<1> HIDE DEF Join
<1>5. g \in [A \X I -> Extended(A, m, I)]
  BY <1>3
<1>6. g \in Injection(A \X I, Extended(A, m, I))
  <2> SUFFICES ASSUME NEW p \in A \X I, NEW q \in A \X I, g[p] = g[q] PROVE p = q
    BY <1>5 DEF Injection, IsInjective
  <2>1. PICK a, i : a \in A /\ i \in I /\ p = <<a, i>>
    BY Pairs
  <2>2. PICK b, j : b \in A /\ j \in I /\ q = <<b, j>>
    BY Pairs
  <2>3. Join(a, i) = Join(b, j)
    BY <2>1, <2>2
  <2>4. a = b /\ i = j
    <3>1. a = Prefix(Join(a, i), m) /\ i = Join(a, i)[m + 1]
      BY <1>3, <2>1
    <3>2. b = Prefix(Join(b, j), m) /\ j = Join(b, j)[m + 1]
      BY <1>3, <2>2
    <3> QED BY <2>3, <3>1, <3>2
  <2> QED BY <2>1, <2>2, <2>4
<1>7. g \in Surjection(A \X I, Extended(A, m, I))
  <2> SUFFICES ASSUME NEW f \in Extended(A, m, I) PROVE \E p \in A \X I : g[p] = f
    BY <1>5 DEF Surjection
  <2>1. <<Prefix(f, m), f[m + 1]>> \in A \X I
    BY <1>4
  <2>2. g[<<Prefix(f, m), f[m + 1]>>] = Join(Prefix(f, m), f[m + 1])
    BY <2>1
  <2> QED BY <1>4, <2>1, <2>2
<1>8. ExistsBijection(A \X I, Extended(A, m, I))
  BY <1>6, <1>7 DEF ExistsBijection, Bijection
<1> HIDE DEF g
<1> QED BY <1>8, FS_Product, FS_Bijection

\* A tuple within the dimensions is one within all but the last, and an index.
LEMMA BoxGrows ==
  ASSUME NEW dims, NEW m \in Nat, dims[m + 1] \in Nat \ {0}
  PROVE  Box(dims, m + 1) = Extended(Box(dims, m), m, 0 .. dims[m + 1] - 1)
<1>1. \A j \in 1 .. m + 1 : j \in 1 .. m \/ j = m + 1
  OBVIOUS
<1>2. m + 1 \in 1 .. m + 1 /\ \A j \in 1 .. m : j \in 1 .. m + 1
  OBVIOUS
<1>3. ASSUME NEW f \in [1 .. m + 1 -> Nat]
      PROVE  Prefix(f, m) \in [1 .. m -> Nat] /\ \A j \in 1 .. m : Prefix(f, m)[j] = f[j]
  BY <1>2 DEF Prefix
<1> SUFFICES ASSUME NEW f \in [1 .. m + 1 -> Nat]
             PROVE  (\A j \in 1 .. m + 1 : f[j] \in 0 .. dims[j] - 1)
                      <=> /\ \A j \in 1 .. m : Prefix(f, m)[j] \in 0 .. dims[j] - 1
                          /\ f[m + 1] \in 0 .. dims[m + 1] - 1
  BY <1>3 DEF Box, Extended
<1> QED BY <1>1, <1>2, <1>3

\* There is one tuple of no indices.
LEMMA BoxEmpty ==
  ASSUME NEW dims
  PROVE  IsFiniteSet(Box(dims, 0)) /\ Cardinality(Box(dims, 0)) = 1
<1>1. 1 .. 0 = {}
  OBVIOUS
<1>2. PICK none : none = [j \in 1 .. 0 |-> 0]
  OBVIOUS
<1>3. Box(dims, 0) = {none}
  BY <1>1, <1>2 DEF Box
<1> QED BY <1>3, FS_Singleton

\* The elements of an array are the tuples within all its dimensions.
LEMMA ElementsAreBox ==
  ASSUME NEW dims \in Seq(Nat \ {0})
  PROVE  Described!Elements(dims) = Box(dims, Len(dims))
<1>1. PICK n, S : n = Len(dims) /\ S = UNION {0 .. dims[k] - 1 : k \in DOMAIN dims}
  OBVIOUS
<1>a. DOMAIN dims = 1 .. n
  BY <1>1
<1>2. ASSUME NEW k \in 1 .. n
      PROVE  0 .. dims[k] - 1 \subseteq S /\ 0 .. dims[k] - 1 \subseteq Nat
  <2>1. 0 .. dims[k] - 1 \subseteq S
    BY <1>1, <1>a
  <2>2. dims[k] \in Nat \ {0}
    BY <1>1
  <2> QED BY <2>1, <2>2
<1>3. \A e : (\A k \in 1 .. n : e[k] \in 0 .. dims[k] - 1)
               => (e \in [1 .. n -> S] <=> e \in [1 .. n -> Nat])
  <2> SUFFICES ASSUME NEW e, \A k \in 1 .. n : e[k] \in 0 .. dims[k] - 1
               PROVE  e \in [1 .. n -> S] <=> e \in [1 .. n -> Nat]
    OBVIOUS
  <2>1. \A k \in 1 .. n : e[k] \in S /\ e[k] \in Nat
    BY <1>2
  <2> QED BY <2>1
<1>4. Described!Elements(dims)
        = {e \in [1 .. n -> S] : \A k \in 1 .. n : e[k] \in 0 .. dims[k] - 1}
  BY <1>1, <1>a DEF Described!Elements
<1>5. Box(dims, n) = {e \in [1 .. n -> Nat] : \A k \in 1 .. n : e[k] \in 0 .. dims[k] - 1}
  BY DEF Box
<1> QED BY <1>1, <1>3, <1>4, <1>5

\* One more dimension multiplies the number of tuples by its size.
LEMMA BoxCount ==
  ASSUME NEW dims, NEW m \in Nat, dims[m + 1] \in Nat \ {0}, IsFiniteSet(Box(dims, m))
  PROVE  /\ IsFiniteSet(Box(dims, m + 1))
         /\ Cardinality(Box(dims, m + 1)) = Cardinality(Box(dims, m)) * dims[m + 1]
<1>1. PICK d, A, I : d = dims[m + 1] /\ A = Box(dims, m) /\ I = 0 .. d - 1
  OBVIOUS
<1>2. d \in Nat \ {0} /\ I \in SUBSET Nat /\ A \in SUBSET [1 .. m -> Nat]
  BY <1>1 DEF Box
<1>3. IsFiniteSet(I) /\ Cardinality(I) = d
  <2>1. /\ IsFiniteSet(0 .. d - 1)
        /\ Cardinality(0 .. d - 1) = IF 0 > d - 1 THEN 0 ELSE (d - 1) - 0 + 1
    <3>1. 0 \in Int /\ d - 1 \in Int
      BY <1>2
    <3> QED BY <3>1, FS_Interval
  <2> QED BY <1>1, <1>2, <2>1
<1>4. IsFiniteSet(A)
  BY <1>1
<1>5. /\ IsFiniteSet(Extended(A, m, I))
      /\ Cardinality(Extended(A, m, I)) = Cardinality(A) * Cardinality(I)
  BY <1>2, <1>3, <1>4, ExtendedCount
<1>6. Box(dims, m + 1) = Extended(A, m, I)
  BY <1>1, BoxGrows
<1> QED BY <1>1, <1>3, <1>5, <1>6

\* flat_count has counted the tuples within the dimensions so far.
LEMMA CountedSoFar ==
  ASSUME AddressingInv, NEW k \in 1 .. Len(counts)
  PROVE  /\ IsFiniteSet(Box(child.dims, k - 1))
         /\ Cardinality(Box(child.dims, k - 1)) = counts[k]
<1> DEFINE Right(l) == /\ IsFiniteSet(Box(child.dims, l - 1))
                       /\ Cardinality(Box(child.dims, l - 1)) = counts[l]
           T == {l \in 1 .. Len(counts) : ~Right(l)}
<1>1. /\ TypesInv /\ LengthsInv /\ CountsInv
      /\ Rank \in Nat /\ Len(counts) - 1 \in 0 .. Rank
  BY RankFacts DEF AddressingInv, LengthsInv
<1> SUFFICES ASSUME T # {} PROVE FALSE
  OBVIOUS
<1>2. PICK l \in T : \A j \in T : l <= j
  <2>1. T \subseteq Nat
    OBVIOUS
  <2> QED BY <2>1, LeastNatural
<1>3. l \in 1 .. Len(counts) /\ l \in Nat \ {0} /\ ~Right(l)
  BY <1>2
<1>4. CASE l = 1
  <2>1. counts[1] = 1 /\ l - 1 = 0
    BY <1>1, <1>4 DEF CountsInv
  <2> QED BY <1>3, <1>4, <2>1, BoxEmpty
<1>5. CASE l # 1
  <2>1. PICK m : m = l - 1 /\ m \in Nat \ {0} /\ m \in 1 .. Len(counts) - 1 /\ l = m + 1
                 /\ m - 1 \in Nat /\ ~(l <= m) /\ m \in 1 .. Len(counts) /\ m \in 1 .. Rank
                 /\ (m - 1) + 1 = m
    BY <1>1, <1>3, <1>5
  <2>2. Right(m)
    BY <1>2, <2>1
  <2>3. child.dims[m] \in Nat \ {0}
    BY <1>1, <2>1, RankFacts
  <2>4. counts[l] = counts[m] * child.dims[m]
    BY <1>1, <2>1 DEF CountsInv, CountBy
  <2>5. /\ IsFiniteSet(Box(child.dims, m))
        /\ Cardinality(Box(child.dims, m)) = Cardinality(Box(child.dims, m - 1)) * child.dims[m]
    BY <2>1, <2>2, <2>3, BoxCount
  <2> QED BY <1>3, <2>1, <2>2, <2>4, <2>5
<1> QED BY <1>4, <1>5

\* For arrays of any number of dimensions: the element count is the number of
\* elements.
THEOREM CountAlwaysExact == Spec => []CountIsExact
<1>1. AddressingInv => CountIsExact
  <2> SUFFICES ASSUME AddressingInv, Counted
               PROVE  Latest(counts) = Cardinality(Described!Elements(child.dims))
    BY DEF CountIsExact
  <2>1. Len(counts) = Rank + 1 /\ Rank \in Nat /\ child \in Children
    BY RankFacts DEF AddressingInv, LengthsInv, TypesInv, Counted, Rank
  <2>2. Len(counts) \in 1 .. Len(counts) /\ Len(counts) - 1 = Rank
    BY <2>1
  <2>3. Cardinality(Box(child.dims, Rank)) = counts[Len(counts)]
    BY <2>2, CountedSoFar
  <2>4. Described!Elements(child.dims) = Box(child.dims, Rank)
    BY <2>1, ChildFacts, ElementsAreBox DEF Rank
  <2> QED BY <2>3, <2>4 DEF Latest
<1> QED BY <1>1, AddressingInvariance, PTL

----------------------------------------------------------------------------
\* A tuple comes before e by its last index or by those before that.
LEMMA LowerGrows ==
  ASSUME NEW m \in Nat, NEW f, NEW e
  PROVE  Lower(f, e, m + 1)
           <=> \/ Lower(f, e, m)
               \/ f[m + 1] < e[m + 1] /\ \A j \in 1 .. m : f[j] = e[j]
<1>1. \A k \in 1 .. m + 1 : k \in 1 .. m \/ k = m + 1
  OBVIOUS
<1>2. m + 1 \in 1 .. m + 1 /\ (m + 1) - 1 = m /\ \A k \in 1 .. m : k \in 1 .. m + 1
  OBVIOUS
<1>3. ASSUME Lower(f, e, m + 1)
      PROVE  \/ Lower(f, e, m)
             \/ f[m + 1] < e[m + 1] /\ \A j \in 1 .. m : f[j] = e[j]
  <2>1. PICK k \in 1 .. m + 1 : f[k] < e[k] /\ \A j \in 1 .. k - 1 : f[j] = e[j]
    BY <1>3 DEF Lower
  <2>2. CASE k \in 1 .. m
    BY <2>1, <2>2 DEF Lower
  <2>3. CASE k = m + 1
    BY <1>2, <2>1, <2>3
  <2> QED BY <1>1, <2>2, <2>3
<1>4. ASSUME Lower(f, e, m) PROVE Lower(f, e, m + 1)
  BY <1>2, <1>4 DEF Lower
<1>5. ASSUME f[m + 1] < e[m + 1], \A j \in 1 .. m : f[j] = e[j]
      PROVE  Lower(f, e, m + 1)
  BY <1>2, <1>5 DEF Lower
<1> QED BY <1>3, <1>4, <1>5

\* A prefix of a tuple comes before e when the tuple does by its first indices.
LEMMA LowerPrefix ==
  ASSUME NEW m \in Nat, NEW f, NEW e
  PROVE  Lower(Prefix(f, m), e, m) <=> Lower(f, e, m)
<1>1. PICK p : p = Prefix(f, m)
  OBVIOUS
<1>2. \A j \in 1 .. m : p[j] = f[j]
  BY <1>1 DEF Prefix
<1>3. \A k \in 1 .. m : \A j \in 1 .. k - 1 : j \in 1 .. m
  OBVIOUS
<1>4. Lower(p, e, m) <=> Lower(f, e, m)
  BY <1>2, <1>3 DEF Lower
<1> QED BY <1>1, <1>4

\* The tuples before e: any index after one before e so far, or the indices of e
\* so far and a smaller one.
LEMMA BeforeGrows ==
  ASSUME NEW dims, NEW m \in Nat, dims[m + 1] \in Nat \ {0}, NEW e,
         \A j \in 1 .. m + 1 : e[j] \in 0 .. dims[j] - 1
  PROVE  /\ Before(dims, e, m + 1)
              = Extended(Before(dims, e, m), m, 0 .. dims[m + 1] - 1)
                  \cup Extended({Prefix(e, m)}, m, 0 .. e[m + 1] - 1)
         /\ Extended(Before(dims, e, m), m, 0 .. dims[m + 1] - 1)
              \cap Extended({Prefix(e, m)}, m, 0 .. e[m + 1] - 1) = {}
<1> DEFINE L == Extended(Before(dims, e, m), m, 0 .. dims[m + 1] - 1)
           E == Extended({Prefix(e, m)}, m, 0 .. e[m + 1] - 1)
<1>1. m + 1 \in 1 .. m + 1 /\ \A j \in 1 .. m : j \in 1 .. m + 1
  OBVIOUS
<1>2. e[m + 1] \in 0 .. dims[m + 1] - 1 /\ \A j \in 1 .. m : e[j] \in 0 .. dims[j] - 1
  BY <1>1
<1>3. ASSUME NEW f \in [1 .. m + 1 -> Nat]
      PROVE  f \in L <=> f \in Box(dims, m + 1) /\ Lower(f, e, m)
  <2>1. f \in L <=> /\ Prefix(f, m) \in Box(dims, m)
                    /\ Lower(Prefix(f, m), e, m)
                    /\ f[m + 1] \in 0 .. dims[m + 1] - 1
    BY DEF Extended, Before
  <2>2. f \in Box(dims, m + 1) <=> /\ Prefix(f, m) \in Box(dims, m)
                                   /\ f[m + 1] \in 0 .. dims[m + 1] - 1
    <3>1. f \in Box(dims, m + 1) <=> f \in Extended(Box(dims, m), m, 0 .. dims[m + 1] - 1)
      BY BoxGrows
    <3> QED BY <3>1 DEF Extended
  <2> QED BY <2>1, <2>2, LowerPrefix
<1>4. ASSUME NEW f \in [1 .. m + 1 -> Nat]
      PROVE  f \in E <=> f[m + 1] \in 0 .. e[m + 1] - 1 /\ \A j \in 1 .. m : f[j] = e[j]
  <2>1. Prefix(f, m) = Prefix(e, m) <=> \A j \in 1 .. m : f[j] = e[j]
    BY DEF Prefix
  <2> QED BY <2>1 DEF Extended
<1>5. ASSUME NEW f \in [1 .. m + 1 -> Nat]
      PROVE  f \in E <=> /\ f \in Box(dims, m + 1)
                         /\ f[m + 1] < e[m + 1] /\ \A j \in 1 .. m : f[j] = e[j]
  <2>1. f[m + 1] \in Nat /\ dims[m + 1] \in Nat
    BY <1>1
  <2>2. f[m + 1] \in 0 .. e[m + 1] - 1 <=> f[m + 1] < e[m + 1]
    BY <1>2, <2>1
  <2>3. ASSUME f[m + 1] < e[m + 1], \A j \in 1 .. m : f[j] = e[j]
        PROVE  f \in Box(dims, m + 1)
    <3>1. \A j \in 1 .. m + 1 : j \in 1 .. m \/ j = m + 1
      OBVIOUS
    <3>2. f[m + 1] \in 0 .. dims[m + 1] - 1
      BY <1>2, <2>1, <2>3
    <3>3. \A j \in 1 .. m : f[j] \in 0 .. dims[j] - 1
      BY <1>2, <2>3
    <3> QED BY <3>1, <3>2, <3>3 DEF Box
  <2> QED BY <1>4, <2>2, <2>3
<1>6. L \subseteq [1 .. m + 1 -> Nat] /\ E \subseteq [1 .. m + 1 -> Nat]
  BY DEF Extended
<1>7. Before(dims, e, m + 1) \subseteq [1 .. m + 1 -> Nat]
  BY DEF Before, Box
<1>8. ASSUME NEW f \in [1 .. m + 1 -> Nat]
      PROVE  f \in Before(dims, e, m + 1) <=> f \in L \/ f \in E
  <2>1. f \in Before(dims, e, m + 1) <=> f \in Box(dims, m + 1) /\ Lower(f, e, m + 1)
    BY DEF Before
  <2> HIDE DEF L, E
  <2> QED BY <1>3, <1>5, <2>1, LowerGrows
<1>9. ASSUME NEW f \in [1 .. m + 1 -> Nat], Lower(f, e, m), \A j \in 1 .. m : f[j] = e[j]
      PROVE  FALSE
  <2>1. PICK k \in 1 .. m : f[k] < e[k]
    BY <1>9 DEF Lower
  <2>2. f[k] = e[k] /\ e[k] \in Int
    BY <1>2, <1>9
  <2> QED BY <2>1, <2>2
<1> HIDE DEF L, E
<1>10. L \cap E = {}
  BY <1>3, <1>5, <1>6, <1>9
<1>11. Before(dims, e, m + 1) = L \cup E
  BY <1>6, <1>7, <1>8
<1> QED BY <1>10, <1>11 DEF L, E

\* One more dimension: the number of tuples before e grows as flatten_index
\* computes it.
LEMMA BeforeCount ==
  ASSUME NEW dims, NEW m \in Nat, dims[m + 1] \in Nat \ {0}, NEW e,
         \A j \in 1 .. m + 1 : e[j] \in 0 .. dims[j] - 1,
         IsFiniteSet(Before(dims, e, m))
  PROVE  /\ IsFiniteSet(Before(dims, e, m + 1))
         /\ Cardinality(Before(dims, e, m + 1))
              = Cardinality(Before(dims, e, m)) * dims[m + 1] + e[m + 1]
<1>1. PICK d, i, A, I, P, J :
        /\ d = dims[m + 1] /\ i = e[m + 1]
        /\ A = Before(dims, e, m) /\ I = 0 .. d - 1
        /\ P = {Prefix(e, m)} /\ J = 0 .. i - 1
  OBVIOUS
<1>2. d \in Nat \ {0} /\ i \in 0 .. d - 1 /\ i \in Nat
  <2>1. m + 1 \in 1 .. m + 1
    OBVIOUS
  <2>2. d \in Nat \ {0} /\ i \in 0 .. d - 1
    BY <1>1, <2>1
  <2> QED BY <2>2
<1>3. /\ I \in SUBSET Nat /\ J \in SUBSET Nat /\ A \in SUBSET [1 .. m -> Nat]
      /\ P \in SUBSET [1 .. m -> Nat]
  <2>1. I \in SUBSET Nat /\ J \in SUBSET Nat
    BY <1>1, <1>2
  <2>2. A \in SUBSET [1 .. m -> Nat]
    BY <1>1 DEF Before, Box
  <2>3. \A j \in 1 .. m : j \in 1 .. m + 1 /\ e[j] \in Nat
    <3>1. \A j \in 1 .. m : j \in 1 .. m + 1
      OBVIOUS
    <3> QED BY <3>1
  <2>4. Prefix(e, m) \in [1 .. m -> Nat]
    BY <2>3 DEF Prefix
  <2> QED BY <1>1, <2>1, <2>2, <2>4
<1>4. IsFiniteSet(I) /\ Cardinality(I) = d /\ IsFiniteSet(J) /\ Cardinality(J) = i
  <2>1. 0 \in Int /\ d - 1 \in Int /\ i - 1 \in Int
    BY <1>2
  <2>2. /\ IsFiniteSet(0 .. d - 1)
        /\ Cardinality(0 .. d - 1) = IF 0 > d - 1 THEN 0 ELSE (d - 1) - 0 + 1
    BY <2>1, FS_Interval
  <2>3. /\ IsFiniteSet(0 .. i - 1)
        /\ Cardinality(0 .. i - 1) = IF 0 > i - 1 THEN 0 ELSE (i - 1) - 0 + 1
    BY <2>1, FS_Interval
  <2> QED BY <1>1, <1>2, <2>2, <2>3
<1>5. IsFiniteSet(A) /\ IsFiniteSet(P) /\ Cardinality(P) = 1
  BY <1>1, FS_Singleton
<1>6. /\ IsFiniteSet(Extended(A, m, I))
      /\ Cardinality(Extended(A, m, I)) = Cardinality(A) * d
  BY <1>3, <1>4, <1>5, ExtendedCount
<1>7. /\ IsFiniteSet(Extended(P, m, J))
      /\ Cardinality(Extended(P, m, J)) = 1 * i
  BY <1>3, <1>4, <1>5, ExtendedCount
<1>8. /\ Before(dims, e, m + 1) = Extended(A, m, I) \cup Extended(P, m, J)
      /\ Extended(A, m, I) \cap Extended(P, m, J) = {}
  BY <1>1, BeforeGrows
<1>9. /\ IsFiniteSet(Before(dims, e, m + 1))
      /\ Cardinality(Before(dims, e, m + 1)) = Cardinality(A) * d + 1 * i - 0
  BY <1>6, <1>7, <1>8, FS_Union, FS_EmptySet
<1>10. Cardinality(A) * d \in Nat
  <2>1. Cardinality(A) \in Nat
    BY <1>5, FS_CardinalityType
  <2> QED BY <1>2, <2>1
<1> QED BY <1>1, <1>2, <1>9, <1>10

\* flatten_index has counted the tuples before the one it was given.
LEMMA FlattenedSoFar ==
  ASSUME AddressingInv, NEW k \in 1 .. Len(flats)
  PROVE  /\ IsFiniteSet(Before(child.dims, indices, k - 1))
         /\ Cardinality(Before(child.dims, indices, k - 1)) = flats[k]
<1> DEFINE Right(l) == /\ IsFiniteSet(Before(child.dims, indices, l - 1))
                       /\ Cardinality(Before(child.dims, indices, l - 1)) = flats[l]
           T == {l \in 1 .. Len(flats) : ~Right(l)}
<1>1. /\ TypesInv /\ LengthsInv /\ FlatsInv
      /\ Rank \in Nat /\ Len(flats) - 1 \in 0 .. Rank
  BY RankFacts DEF AddressingInv, LengthsInv
<1> SUFFICES ASSUME T # {} PROVE FALSE
  OBVIOUS
<1>2. PICK l \in T : \A j \in T : l <= j
  <2>1. T \subseteq Nat
    OBVIOUS
  <2> QED BY <2>1, LeastNatural
<1>3. l \in 1 .. Len(flats) /\ l \in Nat \ {0} /\ ~Right(l)
  BY <1>2
<1>4. CASE l = 1
  <2>1. flats[1] = 0 /\ l - 1 = 0
    BY <1>1, <1>4 DEF FlatsInv
  <2>2. Before(child.dims, indices, 0) = {}
    <3>1. 1 .. 0 = {}
      OBVIOUS
    <3> QED BY <3>1 DEF Before, Lower
  <2> QED BY <1>3, <1>4, <2>1, <2>2, FS_EmptySet
<1>5. CASE l # 1
  <2>1. PICK m : m = l - 1 /\ m \in Nat \ {0} /\ m \in 1 .. Len(flats) - 1 /\ l = m + 1
                 /\ m - 1 \in Nat /\ ~(l <= m) /\ m \in 1 .. Len(flats) /\ m \in 1 .. Rank
                 /\ (m - 1) + 1 = m
    BY <1>1, <1>3, <1>5
  <2>2. Right(m)
    BY <1>2, <2>1
  <2>3. child.dims[m] \in Nat \ {0}
    BY <1>1, <2>1, RankFacts
  <2>4. flats[l] = flats[m] * child.dims[m] + indices[m]
    BY <1>1, <2>1 DEF FlatsInv, Step
  <2>5. \A j \in 1 .. m : indices[j] \in 0 .. child.dims[j] - 1
    <3>1. \A j \in 1 .. m : j \in 1 .. Len(flats) - 1
      BY <1>1, <2>1
    <3> QED BY <1>1, <3>1 DEF FlatsInv
  <2>6. /\ IsFiniteSet(Before(child.dims, indices, m))
        /\ Cardinality(Before(child.dims, indices, m))
             = Cardinality(Before(child.dims, indices, m - 1)) * child.dims[m] + indices[m]
    BY <2>1, <2>2, <2>3, <2>5, BeforeCount
  <2> QED BY <1>3, <2>1, <2>2, <2>4, <2>6
<1> QED BY <1>4, <1>5

\* The index is the number of the element in row-major order.
LEMMA FlattenedIsNumber ==
  ASSUME AddressingInv, Flattened
  PROVE  /\ indices \in Described!Elements(child.dims)
         /\ Latest(flats) = Described!ElementNumber(child.dims, indices)
<1>1. /\ Rank \in Nat /\ Len(flats) = Rank + 1 /\ Len(indices) = Rank
      /\ indices \in Seq(Int) /\ child \in Children /\ FlatsInv
  BY RankFacts DEF AddressingInv, LengthsInv, TypesInv, Flattened, Counted, Rank
<1>2. /\ Len(flats) \in 1 .. Len(flats) /\ Len(flats) - 1 = Rank
      /\ DOMAIN indices = 1 .. Rank
  BY <1>1
<1>3. Described!Elements(child.dims) = Box(child.dims, Rank)
  BY <1>1, ChildFacts, ElementsAreBox DEF Rank
<1>4. indices \in Box(child.dims, Rank)
  <2>1. \A k \in 1 .. Rank : indices[k] \in 0 .. child.dims[k] - 1
    BY <1>1, <1>2 DEF FlatsInv
  <2>2. \A k \in 1 .. Rank : indices[k] \in Nat
    BY <2>1
  <2>3. indices \in [1 .. Rank -> Nat]
    BY <1>1, <1>2, <2>2
  <2> QED BY <2>1, <2>3 DEF Box
<1>5. \A f : Described!Precedes(f, indices) <=> Lower(f, indices, Rank)
  BY <1>2 DEF Described!Precedes, Lower
<1>6. {f \in Described!Elements(child.dims) : Described!Precedes(f, indices)}
        = Before(child.dims, indices, Rank)
  BY <1>3, <1>5 DEF Before
<1>7. Described!ElementNumber(child.dims, indices)
        = Cardinality(Before(child.dims, indices, Rank))
  <2>1. \A S : Described!Cardinality(S) = Cardinality(S)
    BY DEF Described!Cardinality, Cardinality
  <2> QED BY <1>6, <2>1 DEF Described!ElementNumber
<1>8. Cardinality(Before(child.dims, indices, Rank)) = flats[Len(flats)]
  BY <1>2, FlattenedSoFar
<1> QED BY <1>3, <1>4, <1>7, <1>8 DEF Latest

\* A level is begun only below the bound, and an address is a number.
WalkInv ==
  /\ address \in Nat
  /\ phase = "resolving" => Len(path) < MaxDepth

\* What is added for an element is natural.
LEMMA OffsetType ==
  ASSUME NEW c \in Children, NEW n \in Nat
  PROVE  /\ c.offset \in Nat /\ c.stride \in Nat /\ n * c.stride \in Nat
         /\ ElementOffset(c, n) \in Nat
BY ChildrenAssumption DEF ElementOffset

\* The address is that of the levels resolved.
THEOREM WalkInvariance == Spec => []WalkInv
<1>1. Init => WalkInv
  BY DEF Init, WalkInv
<1>2. AddressingInv /\ WalkInv /\ [Next]_vars => WalkInv'
  <2> SUFFICES ASSUME AddressingInv, WalkInv, [Next]_vars PROVE WalkInv'
    OBVIOUS
  <2>1. CASE Resolve
    <3>1. /\ phase' = "walking"
          /\ address' = address + ElementOffset(child, Latest(flats))
      BY <2>1 DEF Resolve
    <3>2. child \in Children /\ Latest(flats) \in Nat
      <4>1. Len(flats) \in 1 .. Len(flats)
        BY RankFacts DEF AddressingInv, LengthsInv
      <4> QED BY <4>1, ValueTypes DEF AddressingInv, TypesInv, Latest
    <3>3. ElementOffset(child, Latest(flats)) \in Nat
      BY <3>2, OffsetType
    <3> QED BY <3>1, <3>3 DEF WalkInv
  <2>2. CASE \E c \in Children, e \in Tuples : Ask(c, e)
    BY <2>2 DEF Ask, WalkInv
  <2>3. CASE Count \/ Flatten \/ Unflatten \/ RefuseArity \/ RefuseIndex \/ UNCHANGED vars
    BY <2>3 DEF Count, Flatten, Unflatten, RefuseArity, RefuseIndex, vars, WalkInv
  <2> QED BY <2>1, <2>2, <2>3 DEF Next
<1> QED BY <1>1, <1>2, AddressingInvariance, PTL DEF Spec

\* Resolving a level is descending to the element it describes.
LEMMA ResolveDescends ==
  ASSUME AddressingInv, WalkInv, Resolve
  PROVE  \E c \in Children : \E e \in Described!Elements(c.dims) : Described!Descend(c, e)
<1>1. /\ phase = "resolving" /\ Flattened
      /\ address' = address + ElementOffset(child, Latest(flats))
      /\ path' = Append(path, <<child, indices>>)
  BY DEF Resolve, Flattened, Counted
<1>2. PICK n : n = Latest(flats)
  OBVIOUS
<1>3. n \in Nat /\ child \in Children
  <2>1. Len(flats) \in 1 .. Len(flats)
    BY RankFacts DEF AddressingInv, LengthsInv
  <2> QED BY <1>2, <2>1, ValueTypes DEF AddressingInv, TypesInv, Latest
<1>4. /\ indices \in Described!Elements(child.dims)
      /\ n = Described!ElementNumber(child.dims, indices)
  BY <1>1, <1>2, FlattenedIsNumber
<1>5. /\ child.offset \in Nat /\ child.stride \in Nat /\ n * child.stride \in Nat
      /\ address \in Nat
  BY <1>3, OffsetType DEF WalkInv
<1>6. ElementOffset(child, n) = child.offset + n * child.stride
  <2>1. CASE child.dims = << >>
    <3>1. n = 0
      <4>1. Len(flats) = 1 /\ flats[1] = 0
        <5>1. Rank = 0
          BY <2>1 DEF Rank
        <5>2. Len(flats) - 1 \in 0 .. Rank /\ FlatsInv /\ flats \in Seq(Nat)
          BY DEF AddressingInv, LengthsInv, TypesInv
        <5>3. Len(flats) \in Nat /\ Len(flats) - 1 = 0
          BY <5>1, <5>2
        <5> QED BY <5>2, <5>3 DEF FlatsInv
      <4> QED BY <1>2, <4>1 DEF Latest
    <3> QED BY <1>5, <2>1, <3>1 DEF ElementOffset
  <2>2. CASE child.dims # << >>
    BY <2>2 DEF ElementOffset
  <2> QED BY <2>1, <2>2
<1>7. address' = address + child.offset + child.stride * n
  BY <1>1, <1>2, <1>3, <1>5, <1>6
<1>8. Len(path) < MaxDepth
  BY <1>1 DEF WalkInv
<1>9. Described!Descend(child, indices)
  BY <1>1, <1>4, <1>7, <1>8 DEF Described!Descend
<1> QED BY <1>3, <1>4, <1>9

\* For arrays of any number of dimensions, any number of levels deep: walking
\* the offsets reaches the address SystemRDL gives the element, and elements
\* only.
THEOREM AddressesImplement == Spec => AddressesAreDescribed
<1>1. Init => Described!Init
  BY DEF Init, Described!Init
<1>2. AddressingInv /\ WalkInv /\ [Next]_vars => [Described!Next]_<<path, address>>
  <2> SUFFICES ASSUME AddressingInv, WalkInv, [Next]_vars
               PROVE  Described!Next \/ UNCHANGED <<path, address>>
    OBVIOUS
  <2>1. CASE Resolve
    BY <2>1, ResolveDescends DEF Described!Next
  <2>2. CASE \E c \in Children, e \in Tuples : Ask(c, e)
    BY <2>2 DEF Ask
  <2>3. CASE Count \/ Flatten \/ Unflatten \/ RefuseArity \/ RefuseIndex \/ UNCHANGED vars
    BY <2>3 DEF Count, Flatten, Unflatten, RefuseArity, RefuseIndex, vars
  <2> QED BY <2>1, <2>2, <2>3 DEF Next
<1> QED BY <1>1, <1>2, AddressingInvariance, WalkInvariance, PTL
  DEF Spec, AddressesAreDescribed, Described!Spec

----------------------------------------------------------------------------
\* The partial sums of a text, as the recursion of SumOf finds them.
PartialSums(text) ==
  CHOOSE sum : sum = [i \in 0 .. Len(text) |-> IF i = 0 THEN 0 ELSE sum[i - 1] + text[i]]

\* The sum of one summand, and of two.
LEMMA SumOfFew ==
  ASSUME NEW a \in Int, NEW b \in Int
  PROVE  SumOf(<<a>>) = a /\ SumOf(<<a, b>>) = a + b
<1>1. ASSUME NEW text, NEW n, n \in {1, 2}, Len(text) = n, text[1] = a, n = 2 => text[2] = b
      PROVE  SumOf(text) = IF n = 1 THEN a ELSE a + b
  <2>1. PICK w : w = [i \in 0 .. n |-> IF i = 0 THEN 0 ELSE IF i = 1 THEN a ELSE a + b]
    OBVIOUS
  <2>2. \A i \in 0 .. n : i = 0 \/ i = 1 \/ (i = 2 /\ n = 2)
    <3>1. CASE n = 1
      BY <3>1
    <3>2. CASE n = 2
      BY <3>2
    <3> QED BY <1>1, <3>1, <3>2
  <2>3. 0 \in 0 .. n /\ 1 \in 0 .. n /\ n \in 0 .. n
    BY <1>1
  <2>4. w = [i \in 0 .. n |-> IF i = 0 THEN 0 ELSE w[i - 1] + text[i]]
    <3>1. w[0] = 0 /\ w[1] = a
      BY <2>1, <2>3
    <3>2. \A i \in 0 .. n : (IF i = 0 THEN 0 ELSE IF i = 1 THEN a ELSE a + b)
                              = IF i = 0 THEN 0 ELSE w[i - 1] + text[i]
      BY <1>1, <2>2, <3>1
    <3> QED BY <2>1, <3>2
  <2>5. PICK sum : sum = PartialSums(text)
    OBVIOUS
  <2>6. sum = [i \in 0 .. n |-> IF i = 0 THEN 0 ELSE sum[i - 1] + text[i]]
    BY <1>1, <2>4, <2>5 DEF PartialSums
  <2>7. /\ sum[0] = 0
        /\ sum[1] = sum[0] + text[1]
        /\ n = 2 => sum[2] = sum[1] + text[2]
    BY <2>3, <2>6
  <2>8. SumOf(text) = sum[n]
    BY <1>1, <2>5 DEF SumOf, PartialSums
  <2> QED BY <1>1, <2>7, <2>8
<1>2. PICK one, two : one = <<a>> /\ two = <<a, b>>
  OBVIOUS
<1>3. Len(one) = 1 /\ one[1] = a
  BY <1>2
<1>4. Len(two) = 2 /\ two[1] = a /\ two[2] = b
  BY <1>2
<1>5. SumOf(one) = a
  <2>1. 1 \in {1, 2} /\ 1 # 2
    OBVIOUS
  <2> QED BY <1>1, <1>3, <2>1
<1>6. SumOf(two) = a + b
  <2>1. 2 \in {1, 2} /\ 2 # 1
    OBVIOUS
  <2> QED BY <1>1, <1>4, <2>1
<1> QED BY <1>2, <1>5, <1>6

\* A product and a summand.
LEMMA TimesAppended ==
  ASSUME NEW s \in Int, NEW d \in Int, NEW i \in Int
  PROVE  Append(Times(<<s>>, d), i) = <<s * d, i>>
<1>1. Len(<<s>>) = 1 /\ <<s>>[1] = s /\ DOMAIN <<s>> = {1}
  OBVIOUS
<1>2. Times(<<s>>, d) = [<<s>> EXCEPT ![1] = s * d]
  BY <1>1 DEF Times
<1>3. Times(<<s>>, d) = <<s * d>>
  BY <1>1, <1>2
<1>4. PICK p \in Int : p = s * d
  OBVIOUS
<1>5. Append(<<p>>, i) = <<p, i>>
  <2>1. PICK one, t, u : one = <<p>> /\ t = Append(one, i) /\ u = <<p, i>>
    OBVIOUS
  <2>2. one \in Seq(Int) /\ Len(one) = 1 /\ one[1] = p
    BY <2>1
  <2>3. t \in Seq(Int) /\ Len(t) = 2 /\ t[1] = p /\ t[2] = i
    BY <2>1, <2>2
  <2>4. u \in Seq(Int) /\ Len(u) = 2 /\ u[1] = p /\ u[2] = i
    BY <2>1
  <2>5. t = [k \in 1 .. 2 |-> t[k]] /\ u = [k \in 1 .. 2 |-> u[k]]
    BY <2>3, <2>4
  <2>6. \A k \in 1 .. 2 : t[k] = u[k]
    BY <2>3, <2>4
  <2> QED BY <2>1, <2>5, <2>6
<1> QED BY <1>3, <1>4, <1>5

\* What the helper writes for the first i dimensions, given what it wrote for
\* fewer.
HelperStep(expr, dims, e, i) ==
  IF i = 1 THEN <<e[1]>>
  ELSE LET inner == IF i = 2 THEN expr[1] ELSE Parenthesized(expr[i - 1])
       IN  Append(Times(inner, dims[i]), e[i])

HelperTexts(dims, e) ==
  CHOOSE expr : expr = [i \in 1 .. Len(dims) |-> HelperStep(expr, dims, e, i)]

\* The text for the first i dimensions: parentheses have made one summand of
\* what came before.
Grouped(dims, e, f, i) == IF i = 1 THEN <<e[1]>> ELSE <<f[i] * dims[i], e[i]>>

\* f holds what flatten_index computes of e at each of n iterations.
Flattens(dims, e, f, n) ==
  /\ \A k \in 1 .. n : dims[k] \in Nat /\ e[k] \in Nat /\ f[k] \in Nat
  /\ f[1] = 0
  /\ \A k \in 1 .. n : f[k + 1] = f[k] * dims[k] + e[k]

\* Whatever is written for fewer dimensions, written rightly, leads to what is
\* right for one more.
LEMMA HelperStepGroups ==
  ASSUME NEW dims, NEW e, NEW f, NEW n \in Nat \ {0},
         Flattens(dims, e, f, n)
  PROVE  /\ \A i \in 1 .. n : SumOf(Grouped(dims, e, f, i)) = f[i + 1]
         /\ \A i \in 1 .. n : \A expr :
              (i # 1 => expr[i - 1] = Grouped(dims, e, f, i - 1))
                => HelperStep(expr, dims, e, i) = Grouped(dims, e, f, i)
<1> USE DEF Flattens
<1>1. ASSUME NEW i \in 1 .. n
      PROVE  SumOf(Grouped(dims, e, f, i)) = f[i + 1]
  <2>1. CASE i = 1
    <3>1. dims[1] \in Nat /\ e[1] \in Nat /\ f[2] = 0 * dims[1] + e[1]
      BY <2>1
    <3>2. f[2] = e[1]
      BY <3>1
    <3>3. SumOf(<<e[1]>>) = e[1]
      <4>1. PICK a \in Int : a = e[1]
        BY <3>1
      <4> QED BY <4>1, SumOfFew
    <3> QED BY <2>1, <3>2, <3>3 DEF Grouped
  <2>2. CASE i # 1
    <3>1. f[i] * dims[i] \in Int /\ e[i] \in Int
      OBVIOUS
    <3>2. SumOf(<<f[i] * dims[i], e[i]>>) = f[i] * dims[i] + e[i]
      <4>1. PICK a \in Int, b \in Int : a = f[i] * dims[i] /\ b = e[i]
        BY <3>1
      <4>2. SumOf(<<a, b>>) = a + b
        BY SumOfFew
      <4> QED BY <4>1, <4>2
    <3> QED BY <2>2, <3>2 DEF Grouped
  <2> QED BY <2>1, <2>2
<1>2. ASSUME NEW i \in 1 .. n, NEW expr,
             i # 1 => expr[i - 1] = Grouped(dims, e, f, i - 1)
      PROVE  HelperStep(expr, dims, e, i) = Grouped(dims, e, f, i)
  <2>1. CASE i = 1
    BY <2>1 DEF HelperStep, Grouped
  <2>2. CASE i # 1
    <3>1. PICK inner : inner = IF i = 2 THEN expr[1] ELSE Parenthesized(expr[i - 1])
      OBVIOUS
    <3>2. i - 1 \in 1 .. n /\ (i - 1) + 1 = i /\ i \in Nat
      BY <2>2
    <3>3. expr[i - 1] = Grouped(dims, e, f, i - 1)
      BY <1>2, <2>2
    <3>4. SumOf(expr[i - 1]) = f[i]
      BY <1>1, <3>2, <3>3
    <3>5. inner = <<f[i]>>
      <4>1. CASE i = 2
        <5>1. expr[1] = <<e[1]>>
          BY <3>3, <4>1 DEF Grouped
        <5>2. dims[1] \in Nat /\ e[1] \in Nat /\ f[2] = 0 * dims[1] + e[1]
          BY <3>2, <4>1
        <5>3. f[2] = e[1]
          BY <5>2
        <5> QED BY <3>1, <4>1, <5>1, <5>3
      <4>2. CASE i # 2
        <5>1. inner = <<SumOf(expr[i - 1])>>
          BY <3>1, <4>2 DEF Parenthesized
        <5> QED BY <3>4, <5>1
      <4> QED BY <4>1, <4>2
    <3>6. f[i] \in Int /\ dims[i] \in Int /\ e[i] \in Int
      OBVIOUS
    <3>7. Append(Times(inner, dims[i]), e[i]) = <<f[i] * dims[i], e[i]>>
      BY <3>5, <3>6, TimesAppended
    <3>8. HelperStep(expr, dims, e, i) = Append(Times(inner, dims[i]), e[i])
      BY <2>2, <3>1 DEF HelperStep
    <3> QED BY <2>2, <3>7, <3>8 DEF Grouped
  <2> QED BY <2>1, <2>2
<1> QED BY <1>1, <1>2

\* The text of the helper adds up to the index.
LEMMA HelperSum ==
  ASSUME NEW dims, NEW e, NEW f, NEW n \in Nat \ {0}, Len(dims) = n,
         Flattens(dims, e, f, n)
  PROVE  SumOf(HelperText(dims, e)) = f[n + 1]
<1> DEFINE G(i) == Grouped(dims, e, f, i)
<1>1. /\ \A i \in 1 .. n : SumOf(G(i)) = f[i + 1]
      /\ \A i \in 1 .. n : \A expr :
           (i # 1 => expr[i - 1] = G(i - 1)) => HelperStep(expr, dims, e, i) = G(i)
  BY HelperStepGroups, Zenon
<1> HIDE DEF G
<1>2. PICK w : w = [i \in 1 .. n |-> G(i)]
  OBVIOUS
<1>3. w = [i \in 1 .. n |-> HelperStep(w, dims, e, i)]
  <2>1. ASSUME NEW i \in 1 .. n PROVE HelperStep(w, dims, e, i) = G(i)
    <3>1. i # 1 => i - 1 \in 1 .. n
      OBVIOUS
    <3>2. i # 1 => w[i - 1] = G(i - 1)
      BY <1>2, <3>1
    <3> QED BY <1>1, <3>2
  <2> QED BY <1>2, <2>1
<1>4. PICK expr : expr = HelperTexts(dims, e)
  OBVIOUS
<1>5. expr = [i \in 1 .. n |-> HelperStep(expr, dims, e, i)]
  BY <1>3, <1>4 DEF HelperTexts
<1>6. expr[n] = G(n)
  <2> DEFINE T == {i \in 1 .. n : expr[i] # G(i)}
  <2> SUFFICES ASSUME T # {} PROVE FALSE
    OBVIOUS
  <2>1. PICK l \in T : \A j \in T : l <= j
    <3>1. T \subseteq Nat
      OBVIOUS
    <3> QED BY <3>1, LeastNatural
  <2>2. l \in 1 .. n /\ expr[l] # G(l)
    BY <2>1
  <2>3. l # 1 => l - 1 \in 1 .. n /\ ~(l <= l - 1)
    BY <2>2
  <2>4. l # 1 => expr[l - 1] = G(l - 1)
    BY <2>1, <2>3
  <2>5. HelperStep(expr, dims, e, l) = G(l)
    BY <1>1, <2>2, <2>4
  <2>6. expr[l] = HelperStep(expr, dims, e, l)
    BY <1>5, <2>2
  <2> QED BY <2>2, <2>5, <2>6
<1>7. HelperText(dims, e) = expr[n]
  BY <1>4 DEF HelperText, HelperTexts, HelperStep
<1>8. n \in 1 .. n
  OBVIOUS
<1> QED BY <1>1, <1>6, <1>7, <1>8

\* For arrays of any number of dimensions: the helper of the package and the
\* flattening of the code agree on every element.
THEOREM HelperAlwaysAgrees == Spec => []HelperAgrees
<1>1. AddressingInv => HelperAgrees
  <2> SUFFICES ASSUME AddressingInv, Flattened, Len(child.dims) >= 2
               PROVE  SumOf(HelperText(child.dims, indices)) = Latest(flats)
    BY DEF HelperAgrees
  <2>1. /\ Rank \in Nat /\ Rank >= 2 /\ Len(flats) = Rank + 1 /\ FlatsInv
        /\ Len(child.dims) = Rank /\ TypesInv
    BY RankFacts DEF AddressingInv, LengthsInv, Flattened, Counted, Rank
  <2>2. /\ Rank \in Nat \ {0} /\ Len(flats) - 1 = Rank
        /\ \A k \in 1 .. Rank : k \in 1 .. Len(flats) - 1 /\ k \in 1 .. Len(flats)
    BY <2>1
  <2>3. \A k \in 1 .. Rank : child.dims[k] \in Nat \ {0} /\ flats[k] \in Nat
    BY <2>1, <2>2, RankFacts, ValueTypes
  <2>4. ASSUME NEW k \in 1 .. Rank
        PROVE  /\ indices[k] \in Nat
               /\ flats[k + 1] = flats[k] * child.dims[k] + indices[k]
    <3>1. /\ indices[k] \in 0 .. child.dims[k] - 1
          /\ flats[k + 1] = Step(flats[k], child.dims[k], indices[k])
      BY <2>1, <2>2 DEF FlatsInv
    <3> QED BY <3>1 DEF Step
  <2>5. flats[1] = 0
    BY <2>1 DEF FlatsInv
  <2>6. Flattens(child.dims, indices, flats, Rank)
    BY <2>3, <2>4, <2>5 DEF Flattens
  <2>7. SumOf(HelperText(child.dims, indices)) = flats[Rank + 1]
    BY <2>1, <2>2, <2>6, HelperSum
  <2> QED BY <2>1, <2>7 DEF Latest
<1> QED BY <1>1, AddressingInvariance, PTL
=============================================================================
