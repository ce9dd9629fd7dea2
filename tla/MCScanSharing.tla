--------------------------- MODULE MCScanSharing ---------------------------
(* Designs in which types are shared: two registers of one type name that   *)
(* render differently, a third whose type is spelled like the first variant *)
(* of the others, groups with and without a type name.  No register here is *)
(* refused; refused nodes are in MCScanNaming.                              *)
EXTENDS DesignScanner

CONSTANTS plain, changed  \* two renderings of a register

MCTexts == STRING
MCTop == <<W("top")>>
MCNames == {<<W("a")>>, <<W("b")>>}
T == <<W("t")>>
MCGroupTypes == {<<W("g")>>, NoType}
MCBases == {T}
MCPaths == {}
Reg(type, text, width, reset) ==
  [type |-> type, regwidth |-> width, accesswidth |-> 32, text |-> text,
   reset |-> reset, encode |-> NoEncode, alias |-> FALSE, notes |-> << >>]
MCRegDescs == {Reg(T, plain, 32, NoReset), Reg(T, changed, 32, NoReset),
               Reg(<<W("t"), <<"__v", 2>>>>, plain, 32, NoReset)}
MCPlaces == {[offset |-> 0, dims |-> << >>]}
=============================================================================
