---------------------------- MODULE MCTypeTable ----------------------------
(* TypeTable on three base names, one of which is spelled like the first    *)
(* variant of another, two contents and four instances.                     *)
EXTENDS TypeTable, TLC

CONSTANTS s1, s2, p1, p2, p3, p4

MCTexts == STRING
MCBases == {<<W("r")>>, <<W("r"), <<"__v", 2>>>>, <<W("g")>>}
MCSignatures == {s1, s2}
MCPaths == {p1, p2, p3, p4}
Symmetry == Permutations(MCPaths) \cup Permutations(MCSignatures)
=============================================================================
