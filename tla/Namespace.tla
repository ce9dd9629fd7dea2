----------------------------- MODULE Namespace -----------------------------
(***************************************************************************)
(* The Namespace class of identifiers.py: the names handed out in one      *)
(* emitted scope (the members of a component, the fields of a struct, the  *)
(* types of the package).  allocate() mangles a wanted name against the    *)
(* names already taken; reserve() takes a name as it is.                   *)
(*                                                                         *)
(* The variable given is a history: what was asked for and what came out,  *)
(* in order.  The code keeps no such list; the callers do, as the rows of  *)
(* a struct or the children and constants of a component.                  *)
(***************************************************************************)
EXTENDS Identifiers

CONSTANTS
  Wanted,      \* the names callers ask for
  MaxGiven     \* bound on the names handed out

ASSUME WantedAssumption == Wanted \subseteq Name
ASSUME MaxGivenAssumption == MaxGiven \in Nat

VARIABLES
  taken,       \* _taken
  mangled,     \* mangled: the last rename of each wanted name
  given        \* history of allocate() and reserve()

vars == <<taken, mangled, given>>

Gift == [asked : Name, got : Name, how : {"allocate", "reserve"}]

Init == /\ taken = {}
        /\ mangled = << >>
        /\ given = << >>

AllocateInverted(name) ==  \* mutant: the rename is entered the wrong way round
  LET out == Mangle(name, taken) IN
  /\ Len(given) < MaxGiven
  /\ taken' = taken \cup {out}
  /\ mangled' = [n \in DOMAIN mangled \cup {out} |-> IF n = out THEN name ELSE mangled[n]]
  /\ given' = Append(given, [asked |-> name, got |-> out, how |-> "allocate"])

\* allocate: mangle, take the result, remember a rename.
Allocate(name) ==
  LET out == Mangle(name, taken) IN
  /\ Len(given) < MaxGiven
  /\ taken' = taken \cup {out}
  /\ mangled' = IF out # name
                  THEN [n \in DOMAIN mangled \cup {name} |->
                          IF n = name THEN out ELSE mangled[n]]
                  ELSE mangled
  /\ given' = Append(given, [asked |-> name, got |-> out, how |-> "allocate"])

\* reserve: the one caller, _allocate_type_name, has checked that it is free.
Reserve(name) ==
  /\ Len(given) < MaxGiven
  /\ name \notin taken
  /\ taken' = taken \cup {name}
  /\ given' = Append(given, [asked |-> name, got |-> name, how |-> "reserve"])
  /\ UNCHANGED mangled

Next == \E name \in Wanted : Allocate(name) \/ Reserve(name)

Spec == Init /\ [][Next]_vars

----------------------------------------------------------------------------
\* The namespace holds names, renames go from wanted names to names.
TypeOK ==
  /\ taken \in SUBSET Name
  /\ given \in Seq(Gift)
  /\ mangled \in [DOMAIN mangled -> Name]
  /\ DOMAIN mangled \subseteq Wanted

\* Two requests never get the same name, whatever was asked and in whatever
\* order, even when a later request spells the name an earlier rename produced.
Distinct ==
  \A i, j \in DOMAIN given : i # j => given[i].got # given[j].got

\* An allocated name is never a PSS keyword nor a name the file imports.
NeverReserved ==
  \A i \in DOMAIN given :
    given[i].how = "allocate" => given[i].got \notin Reserved

\* An allocated name is a legal PSS identifier, whatever was asked for: empty,
\* escaped, with foreign characters or starting with a digit.
AlwaysLegal ==
  \A i \in DOMAIN given : given[i].how = "allocate" => IsLegal(given[i].got)

\* A name is changed for a reason: it was not a legal name to begin with, or
\* an earlier request got exactly that name.
RenameJustified ==
  \A i \in DOMAIN given :
    given[i].got # given[i].asked =>
      \/ Sanitize(given[i].asked) # given[i].asked
      \/ given[i].asked \in Reserved
      \/ \E j \in 1 .. i - 1 : given[j].got = given[i].asked
=============================================================================
