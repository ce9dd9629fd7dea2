---------------------------- MODULE TypeSharing ----------------------------
(***************************************************************************)
(* What sharing emitted types promises (signature.py, docs/mapping/        *)
(* naming.rst): every described instance is given one emitted type for     *)
(* good, and two instances get the same type exactly when their            *)
(* descriptions are the same.  It says nothing of names, indexes or        *)
(* variants; TypeTable and DesignScanner implement it.                     *)
(***************************************************************************)
VARIABLES
  described,  \* instance -> what was described there
  typeOf      \* instance -> the emitted type it was given

vars == <<described, typeOf>>

Init == /\ described = << >>
        /\ typeOf = << >>

\* A new instance is described; it joins the type of its equals, or starts one.
Assign(p) ==
  /\ p \notin DOMAIN typeOf
  /\ DOMAIN described' = DOMAIN described \cup {p}
  /\ DOMAIN typeOf' = DOMAIN typeOf \cup {p}
  /\ \A q \in DOMAIN typeOf :
       /\ described'[q] = described[q]
       /\ typeOf'[q] = typeOf[q]
       /\ typeOf'[p] = typeOf[q] <=> described'[p] = described[q]

Next == \E p \in DOMAIN typeOf' : Assign(p)

Spec == Init /\ [][Next]_vars
=============================================================================
