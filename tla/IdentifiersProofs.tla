------------------------- MODULE IdentifiersProofs -------------------------
(***************************************************************************)
(* Facts about the identifier rules, for every reserved word list and      *)
(* every set of taken names: numbering always finds a free name, and       *)
(* mangling returns a name that is free and never reserved.                *)
(***************************************************************************)
EXTENDS Identifiers, FiniteSetTheorems, WellFoundedInduction, TLAPS

\* A nonempty set of naturals has a least member.
LEMMA LeastNatural ==
  ASSUME NEW T \in SUBSET Nat, T # {}
  PROVE  \E i \in T : \A j \in T : i <= j
<1>1. \E i \in T : \A j \in T : <<j, i>> \notin OpToRel(<, Nat)
  BY WFMin, NatLessThanWellFounded, Zenon
<1>2. \A i, j \in Nat : <<j, i>> \in OpToRel(<, Nat) <=> j < i
  BY DEF OpToRel
<1>3. PICK i \in T : \A j \in T : <<j, i>> \notin OpToRel(<, Nat)
  BY <1>1
<1>4. \A j \in T : ~(j < i)
  BY <1>2, <1>3
<1>5. \A j \in T : i <= j
  BY <1>4
<1> QED
  BY <1>5

\* A token appended to a name is its last token.
LEMMA AppendedToken ==
  ASSUME NEW base \in Name, NEW t \in Token
  PROVE  /\ Append(base, t) \in Name
         /\ Append(base, t) # <<>>
         /\ Append(base, t)[Len(Append(base, t))] = t
BY DEF Name

\* The tokens the code appends are tokens.
LEMMA SuffixTokens ==
  /\ Underscore \in Token
  /\ \A text \in Texts, i \in Nat : <<text, i>> \in Token
<1>1. "_" \in Texts
  BY TextsAssumption
<1> QED
  BY <1>1 DEF Underscore, W, Token

\* A numbered name determines its number.
LEMMA NumberedInjective ==
  ASSUME NEW base \in Name, NEW text \in Texts, NEW i \in Nat, NEW j \in Nat,
         Numbered(base, text, i) = Numbered(base, text, j)
  PROVE  i = j
<1>1. /\ Append(base, <<text, i>>)[Len(Append(base, <<text, i>>))] = <<text, i>>
      /\ Append(base, <<text, j>>)[Len(Append(base, <<text, j>>))] = <<text, j>>
  BY SuffixTokens, AppendedToken
<1>2. Append(base, <<text, i>>) = Append(base, <<text, j>>)
  BY DEF Numbered
<1>3. <<text, i>> = <<text, j>>
  BY <1>1, <1>2, Zenon
<1> QED
  BY <1>3

\* A function into a smaller set takes some value twice.
LEMMA Crowded ==
  ASSUME NEW R, NEW T, IsFiniteSet(R), IsFiniteSet(T),
         Cardinality(T) < Cardinality(R), NEW f \in [R -> T]
  PROVE  \E x, y \in R : x # y /\ f[x] = f[y]
BY FS_PigeonHole

\* Numbering finds a free name among the first Cardinality(taken) + 1, and the
\* search of the code, upwards from the first number, stops at that one.
LEMMA FreeNumberIsFree ==
  ASSUME NEW base \in Name, NEW text \in Texts, NEW from \in Nat,
         NEW taken, IsFiniteSet(taken)
  PROVE  /\ FreeNumber(base, text, from, taken) \in from .. from + Cardinality(taken)
         /\ Numbered(base, text, FreeNumber(base, text, from, taken)) \notin taken
<1> DEFINE N    == Cardinality(taken)
           R    == from .. from + N
           f    == [i \in R |-> Numbered(base, text, i)]
           Free == {i \in R : Numbered(base, text, i) \notin taken}
<1>1. N \in Nat
  BY FS_CardinalityType
<1>2. R \subseteq Nat /\ IsFiniteSet(R) /\ Cardinality(R) = N + 1
  <2>1. R \subseteq Nat
    BY <1>1
  <2>2. IsFiniteSet(R)
    BY <1>1, FS_Interval
  <2>3. Cardinality(R) = IF from > from + N THEN 0 ELSE (from + N) - from + 1
    BY <1>1, FS_Interval
  <2> QED
    BY <1>1, <2>1, <2>2, <2>3
<1>3. Free # {}
  <2> SUFFICES ASSUME Free = {} PROVE FALSE
    OBVIOUS
  <2>1. f \in [R -> taken]
    OBVIOUS
  <2>2. Cardinality(taken) < Cardinality(R)
    BY <1>1, <1>2 DEF N
  <2>3. \E x, y \in R : x # y /\ f[x] = f[y]
    <3> HIDE DEF f, R, N, Free
    <3>1. IsFiniteSet(R)
      BY <1>2
    <3> QED
      BY ONLY IsFiniteSet(taken), <3>1, <2>1, <2>2, Crowded
  <2> QED
    BY <1>2, <2>3, NumberedInjective
<1>4. PICK i \in Free : \A j \in Free : i <= j
  BY <1>2, <1>3, LeastNatural
<1>5. \A j \in from .. i - 1 : Numbered(base, text, j) \in taken
  <2>1. i \in from .. from + N
    BY <1>4
  <2> SUFFICES ASSUME NEW j \in from .. i - 1, Numbered(base, text, j) \notin taken
               PROVE  FALSE
    OBVIOUS
  <2>2. j \in R
    BY <1>1, <2>1
  <2>3. i <= j
    BY <1>4, <2>2
  <2> QED
    BY <1>1, <2>1, <2>3
<1>6. \E k \in R : /\ Numbered(base, text, k) \notin taken
                   /\ \A j \in from .. k - 1 : Numbered(base, text, j) \in taken
  BY <1>4, <1>5
<1> QED
  BY <1>6 DEF FreeNumber

\* A name with a suffix appended is not reserved.
LEMMA SuffixedNotReserved ==
  ASSUME NEW base \in Name
  PROVE  /\ Append(base, Underscore) \notin Reserved
         /\ \A i \in Nat \ {0} : Numbered(base, "_", i) \notin Reserved
<1>1. Append(base, Underscore) \notin Reserved
  BY SuffixTokens, AppendedToken, ReservedAssumption
<1>2. ASSUME NEW i \in Nat, i # 0
      PROVE  Numbered(base, "_", i) \notin Reserved
  <2> DEFINE n == Append(base, <<"_", i>>)
  <2>1. "_" \in Texts
    BY TextsAssumption
  <2>2. n[Len(n)] = <<"_", i>>
    BY <2>1, SuffixTokens, AppendedToken
  <2> HIDE DEF n
  <2>3. n[Len(n)][2] = i
    <3>1. <<"_", i>>[2] = i
      OBVIOUS
    <3> QED
      BY <2>2, <3>1, Zenon
  <2>4. n \notin Reserved
    BY <1>2, <2>3, ReservedAssumption
  <2> QED
    BY <2>4 DEF n, Numbered
<1> QED
  BY <1>1, <1>2

\* Sanitizing a name yields a name.
LEMMA SanitizeIsName ==
  ASSUME NEW name \in Name
  PROVE  Sanitize(name) \in Name
<1> DEFINE bare  == IF name # <<>> /\ Head(name) = Backslash THEN Tail(name) ELSE name
           clean == [i \in DOMAIN bare |->
                       IF bare[i][1] \in Foreign THEN Underscore ELSE bare[i]]
<1>1. bare \in Seq(Token)
  BY DEF Name
<1> HIDE DEF bare
<1>2. clean \in Seq(Token)
  BY <1>1, SuffixTokens
<1> HIDE DEF clean
<1>3. <<Underscore>> \o clean \in Seq(Token)
  BY <1>2, SuffixTokens
<1> QED
  BY <1>2, <1>3 DEF Sanitize, Name, bare, clean

\* Mangling returns a name that was free and that is never reserved, whatever
\* name was wanted and whatever is taken.
THEOREM MangleFresh ==
  ASSUME NEW name \in Name, NEW taken, IsFiniteSet(taken)
  PROVE  /\ Mangle(name, taken) \in Name
         /\ Mangle(name, taken) \notin taken
         /\ Mangle(name, taken) \notin Reserved
<1> DEFINE base  == Sanitize(name)
           first == IF base \in Reserved THEN Append(base, Underscore) ELSE base
           next  == Append(base, Underscore)
           i     == FreeNumber(base, "_", 1, taken)
<1>1. base \in Name
  BY SanitizeIsName
<1> HIDE DEF base
<1>2. next \in Name /\ first \in Name
  BY <1>1, SuffixTokens, AppendedToken
<1>3. "_" \in Texts
  BY TextsAssumption
<1>4. i \in Nat \ {0} /\ Numbered(base, "_", i) \notin taken
  <2>1. Cardinality(taken) \in Nat
    BY FS_CardinalityType
  <2>2. /\ i \in 1 .. 1 + Cardinality(taken)
        /\ Numbered(base, "_", i) \notin taken
    <3>1. 1 \in Nat
      OBVIOUS
    <3> QED
      BY <1>1, <1>3, <3>1, FreeNumberIsFree, Zenon
  <2> HIDE DEF i
  <2>3. i \in 1 .. 1 + Cardinality(taken)
    BY <2>2
  <2>4. i \in Nat \ {0}
    BY <2>1, <2>3
  <2> QED
    BY <2>2, <2>4, Zenon
<1> HIDE DEF i
<1>5. Numbered(base, "_", i) \in Name
  BY <1>1, <1>3, <1>4, SuffixTokens, AppendedToken DEF Numbered
<1>6. /\ next \notin Reserved
      /\ Numbered(base, "_", i) \notin Reserved
      /\ first \notin Reserved
  BY <1>1, <1>4, SuffixedNotReserved
<1> QED
  BY <1>2, <1>4, <1>5, <1>6 DEF Mangle, base, i

\* The characters of a name are allowed, and it has a first one that is no
\* digit: a legal identifier but for the keywords.
WellSpelled(name) ==
  /\ name # <<>>
  /\ name[1][1] \notin Digital
  /\ \A i \in DOMAIN name : name[i][1] \notin Foreign

\* Sanitizing leaves nothing to object to.
LEMMA SanitizeIsWellSpelled ==
  ASSUME NEW name \in Name
  PROVE  WellSpelled(Sanitize(name))
<1> DEFINE bare  == IF name # <<>> /\ Head(name) = Backslash THEN Tail(name) ELSE name
           clean == [i \in DOMAIN bare |->
                       IF bare[i][1] \in Foreign THEN Underscore ELSE bare[i]]
           led   == <<Underscore>> \o clean
<1>1. bare \in Seq(Token)
  BY DEF Name
<1> HIDE DEF bare
<1>2. Underscore[1] \notin Foreign \cup Digital
  BY UnderscoreAssumption DEF Underscore, W
<1>3. /\ clean \in Seq(Token)
      /\ \A i \in DOMAIN clean : clean[i][1] \notin Foreign
  BY <1>1, <1>2, SuffixTokens
<1> HIDE DEF clean
<1>4. CASE clean = <<>> \/ Head(clean)[1] \in Digital
  <2>1. /\ led \in Seq(Token)
        /\ led # <<>>
        /\ led[1] = Underscore
        /\ \A i \in DOMAIN led : led[i] = Underscore \/ \E j \in DOMAIN clean : led[i] = clean[j]
    BY <1>3, SuffixTokens
  <2> HIDE DEF led
  <2>2. WellSpelled(led)
    BY <1>2, <1>3, <2>1 DEF WellSpelled
  <2> QED
    BY <1>4, <2>2 DEF Sanitize, clean, bare, led
<1>5. CASE ~(clean = <<>> \/ Head(clean)[1] \in Digital)
  <2>1. clean # <<>> /\ clean[1] = Head(clean)
    BY <1>3, <1>5
  <2>2. WellSpelled(clean)
    BY <1>3, <1>5, <2>1 DEF WellSpelled
  <2> QED
    BY <1>5, <2>2 DEF Sanitize, clean, bare
<1> QED
  BY <1>4, <1>5

\* A suffix leaves a name as well spelled as it was.
LEMMA SuffixIsWellSpelled ==
  ASSUME NEW base \in Name, WellSpelled(base), NEW i \in Nat
  PROVE  WellSpelled(Append(base, <<"_", i>>))
<1> DEFINE t == <<"_", i>>
<1>1. t \in Token /\ t[1] \notin Foreign
  BY SuffixTokens, TextsAssumption, UnderscoreAssumption
<1> HIDE DEF t
<1>2. base \in Seq(Token) /\ base # <<>>
  BY DEF Name, WellSpelled
<1>3. /\ DOMAIN Append(base, t) = 1 .. Len(base) + 1
      /\ Append(base, t)[Len(base) + 1] = t
      /\ \A k \in 1 .. Len(base) : Append(base, t)[k] = base[k]
      /\ Len(base) \in Nat \ {0} /\ DOMAIN base = 1 .. Len(base)
      /\ Append(base, t) # <<>>
  BY <1>1, <1>2
<1>4. WellSpelled(Append(base, t))
  <2>1. Append(base, t)[1][1] \notin Digital
    BY <1>3 DEF WellSpelled
  <2>2. ASSUME NEW k \in DOMAIN Append(base, t) PROVE Append(base, t)[k][1] \notin Foreign
    BY <1>1, <1>3, <2>2 DEF WellSpelled
  <2> QED
    BY <1>3, <2>1, <2>2 DEF WellSpelled
<1> QED
  BY <1>4 DEF t

\* Mangling returns a legal identifier, whatever name was wanted.
THEOREM MangleLegal ==
  ASSUME NEW name \in Name, NEW taken, IsFiniteSet(taken)
  PROVE  IsLegal(Mangle(name, taken))
<1> DEFINE base == Sanitize(name)
           i    == FreeNumber(base, "_", 1, taken)
           out  == Mangle(name, taken)
<1>1. base \in Name /\ WellSpelled(base)
  BY SanitizeIsName, SanitizeIsWellSpelled
<1>2. i \in Nat
  <2>1. Cardinality(taken) \in Nat
    BY FS_CardinalityType
  <2>2. i \in 1 .. 1 + Cardinality(taken)
    <3>1. 1 \in Nat /\ "_" \in Texts
      BY TextsAssumption
    <3> QED
      BY <1>1, <3>1, FreeNumberIsFree, Zenon
  <2> HIDE DEF i
  <2> QED
    BY <2>1, <2>2
<1>3. out \in {base, Append(base, Underscore), Numbered(base, "_", i)}
  BY DEF Mangle
<1> HIDE DEF base, i, out
<1>4. /\ WellSpelled(Append(base, Underscore))
      /\ WellSpelled(Numbered(base, "_", i))
  BY <1>1, <1>2, SuffixIsWellSpelled DEF Underscore, W, Numbered
<1>5. WellSpelled(out)
  BY <1>1, <1>3, <1>4
<1>6. out \in Name /\ out \notin Keywords
  BY MangleFresh DEF out, Reserved
<1>7. IsLegal(out)
  BY <1>5, <1>6 DEF IsLegal, WellSpelled, Name
<1> QED
  BY <1>7 DEF out

\* A name that is its own sanitized form, not reserved and free is kept.
LEMMA MangleKeeps ==
  ASSUME NEW name, NEW taken,
         Sanitize(name) = name, name \notin Reserved, name \notin taken
  PROVE  Mangle(name, taken) = name
BY DEF Mangle
=============================================================================
