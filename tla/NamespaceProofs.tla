-------------------------- MODULE NamespaceProofs --------------------------
(***************************************************************************)
(* What a namespace guarantees, proved for every set of wanted names and   *)
(* every list of reserved words.  The inductive invariant adds to the      *)
(* properties that exactly what was handed out is taken, and that only     *)
(* finitely many names are, so that numbering finds a free one.            *)
(***************************************************************************)
EXTENDS Namespace, IdentifiersProofs

GivenIsTaken == \A i \in DOMAIN given : given[i].got \in taken

TakenIsGiven == \A name \in taken : \E i \in DOMAIN given : given[i].got = name

IInv == /\ TypeOK
        /\ IsFiniteSet(taken)
        /\ GivenIsTaken
        /\ TakenIsGiven
        /\ Distinct
        /\ NeverReserved
        /\ AlwaysLegal
        /\ RenameJustified

\* What recording one more name does to the history.
LEMMA Record ==
  ASSUME NEW s \in Seq(Gift), NEW g \in Gift
  PROVE  /\ Append(s, g) \in Seq(Gift)
         /\ DOMAIN Append(s, g) = DOMAIN s \cup {Len(s) + 1}
         /\ Len(s) + 1 \notin DOMAIN s
         /\ \A i \in DOMAIN s : Append(s, g)[i] = s[i]
         /\ Append(s, g)[Len(s) + 1] = g
OBVIOUS

\* A fresh name recorded keeps the invariant, whatever the request was.
LEMMA GiveFresh ==
  ASSUME IInv, NEW g \in Gift, g.got \notin taken,
         g.how = "allocate" => g.got \notin Reserved /\ IsLegal(g.got),
         g.got # g.asked => \/ Sanitize(g.asked) # g.asked
                            \/ g.asked \in Reserved
                            \/ g.asked \in taken,
         taken' = taken \cup {g.got},
         given' = Append(given, g),
         mangled' \in [DOMAIN mangled' -> Name], DOMAIN mangled' \subseteq Wanted
  PROVE  IInv'
<1>1. given \in Seq(Gift)
  BY DEF IInv, TypeOK
<1> DEFINE last == Len(given) + 1
<1>2. /\ given' \in Seq(Gift)
      /\ DOMAIN given' = DOMAIN given \cup {last}
      /\ last \notin DOMAIN given
      /\ \A i \in DOMAIN given : given'[i] = given[i]
      /\ given'[last] = g
  BY <1>1, Record
<1> HIDE DEF last
<1>3. TypeOK'
  <2>1. g.got \in Name
    BY DEF Gift
  <2> QED
    BY <1>2, <2>1 DEF IInv, TypeOK
<1>4. IsFiniteSet(taken)'
  BY FS_AddElement DEF IInv
<1>5. GivenIsTaken'
  BY <1>2 DEF IInv, GivenIsTaken
<1>6. Distinct'
  BY <1>2 DEF IInv, GivenIsTaken, Distinct
<1>7. NeverReserved'
  BY <1>2 DEF IInv, NeverReserved
<1>8. TakenIsGiven'
  BY <1>2 DEF IInv, TakenIsGiven
<1>9. AlwaysLegal'
  BY <1>2 DEF IInv, AlwaysLegal
<1>10. RenameJustified'
  <2> SUFFICES ASSUME NEW i \in DOMAIN given', given'[i].got # given'[i].asked,
                      Sanitize(given'[i].asked) = given'[i].asked,
                      given'[i].asked \notin Reserved
               PROVE  \E j \in 1 .. i - 1 : given'[j].got = given'[i].asked
    BY DEF RenameJustified
  <2>1. DOMAIN given = 1 .. last - 1 /\ last \in Nat
    BY <1>1 DEF last
  <2>2. CASE i = last
    <3>1. g.asked \in taken
      BY <1>2, <2>2
    <3>2. PICK j \in DOMAIN given : given[j].got = g.asked
      BY <3>1 DEF IInv, TakenIsGiven
    <3> QED
      BY <1>2, <2>1, <2>2, <3>2
  <2>3. CASE i \in DOMAIN given
    <3>1. PICK j \in 1 .. i - 1 : given[j].got = given[i].asked
      BY <1>2, <2>3 DEF IInv, RenameJustified
    <3>2. j \in DOMAIN given
      BY <2>1, <2>3
    <3> QED
      BY <1>2, <2>3, <3>1, <3>2
  <2> QED
    BY <1>2, <2>2, <2>3
<1> QED
  BY <1>3, <1>4, <1>5, <1>6, <1>7, <1>8, <1>9, <1>10 DEF IInv

\* allocate() keeps the invariant.
LEMMA AllocateStep ==
  ASSUME IInv, NEW name \in Wanted, Allocate(name)
  PROVE  IInv'
<1> DEFINE out == Mangle(name, taken)
           g   == [asked |-> name, got |-> out, how |-> "allocate"]
<1>1. name \in Name
  BY WantedAssumption
<1>2. out \in Name /\ out \notin taken /\ out \notin Reserved /\ IsLegal(out)
  BY <1>1, MangleFresh, MangleLegal DEF IInv
<1>3. /\ mangled' \in [DOMAIN mangled' -> Name]
      /\ DOMAIN mangled' \subseteq Wanted
  <2> HIDE DEF out
  <2>1. mangled' = IF out # name
                     THEN [n \in DOMAIN mangled \cup {name} |->
                             IF n = name THEN out ELSE mangled[n]]
                     ELSE mangled
    BY DEF Allocate, out
  <2> QED
    BY <1>2, <2>1 DEF IInv, TypeOK
<1>4. taken' = taken \cup {g.got} /\ given' = Append(given, g)
  BY DEF Allocate
<1>5. out # name => \/ Sanitize(name) # name
                    \/ name \in Reserved
                    \/ name \in taken
  BY MangleKeeps
<1> HIDE DEF out
<1>6. g \in Gift
  BY <1>1, <1>2 DEF Gift
<1> QED
  BY <1>2, <1>3, <1>4, <1>5, <1>6, GiveFresh

\* reserve() keeps the invariant.
LEMMA ReserveStep ==
  ASSUME IInv, NEW name \in Wanted, Reserve(name)
  PROVE  IInv'
<1> DEFINE g == [asked |-> name, got |-> name, how |-> "reserve"]
<1>1. name \in Name
  BY WantedAssumption
<1>2. g \in Gift
  BY <1>1 DEF Gift
<1>3. g.got \notin taken /\ taken' = taken \cup {g.got} /\ given' = Append(given, g)
  BY DEF Reserve
<1>4. /\ mangled' \in [DOMAIN mangled' -> Name]
      /\ DOMAIN mangled' \subseteq Wanted
  BY DEF Reserve, IInv, TypeOK
<1> QED
  BY <1>2, <1>3, <1>4, GiveFresh

\* The invariant holds in every reachable state.
THEOREM Invariance == Spec => []IInv
<1>1. Init => IInv
  <2> SUFFICES ASSUME Init PROVE IInv
    OBVIOUS
  <2>1. /\ taken = {}
        /\ given = << >>
        /\ mangled = << >>
    BY DEF Init
  <2>2. IsFiniteSet(taken)
    BY <2>1, FS_EmptySet
  <2>3. TypeOK
    BY <2>1 DEF TypeOK
  <2> QED
    BY <2>1, <2>2, <2>3
    DEF IInv, GivenIsTaken, TakenIsGiven, Distinct, NeverReserved, AlwaysLegal, RenameJustified
<1>2. IInv /\ [Next]_vars => IInv'
  <2> SUFFICES ASSUME IInv, [Next]_vars PROVE IInv'
    OBVIOUS
  <2>1. ASSUME NEW name \in Wanted, Allocate(name) PROVE IInv'
    BY <2>1, AllocateStep
  <2>2. ASSUME NEW name \in Wanted, Reserve(name) PROVE IInv'
    BY <2>2, ReserveStep
  <2>3. CASE UNCHANGED vars
    BY <2>3 DEF vars, IInv, TypeOK, GivenIsTaken, TakenIsGiven, Distinct, NeverReserved,
                AlwaysLegal, RenameJustified
  <2> QED
    BY <2>1, <2>2, <2>3 DEF Next
<1> QED
  BY <1>1, <1>2, PTL DEF Spec

\* Two requests never get the same name.
THEOREM NamesDistinct == Spec => []Distinct
<1>1. IInv => Distinct
  BY DEF IInv
<1> QED
  BY <1>1, Invariance, PTL

\* An allocated name is never a keyword nor an imported name.
THEOREM NamesNotReserved == Spec => []NeverReserved
<1>1. IInv => NeverReserved
  BY DEF IInv
<1> QED
  BY <1>1, Invariance, PTL

\* An allocated name is a legal PSS identifier.
THEOREM NamesLegal == Spec => []AlwaysLegal
<1>1. IInv => AlwaysLegal
  BY DEF IInv
<1> QED
  BY <1>1, Invariance, PTL

\* A name is changed only if it was illegal or an earlier request got it.
THEOREM RenamesJustified == Spec => []RenameJustified
<1>1. IInv => RenameJustified
  BY DEF IInv
<1> QED
  BY <1>1, Invariance, PTL

\* The namespace holds names, and the history is one of requests.
THEOREM NamespaceTypes == Spec => []TypeOK
<1>1. IInv => TypeOK
  BY DEF IInv
<1> QED
  BY <1>1, Invariance, PTL
=============================================================================
