--------------------------- MODULE MCScanNaming ----------------------------
(* Designs whose members compete for names: a register beside a register    *)
(* spelled like its reset constant, a keyword beside its mangled form; with *)
(* refused registers, an alias, an encoding and an unaligned offset.        *)
EXTENDS DesignScanner

CONSTANTS plain

MCTexts == STRING
MCTop == <<W("top")>>
MCKeywords == {<<W("component")>>}
MCNames == {<<W("r")>>, <<W("r"), W("_reset")>>,
            <<W("component")>>, <<W("component"), Underscore>>}
T == <<W("t")>>
G == <<W("g")>>
MCGroupTypes == {G}
MCBases == {T}
MCPaths == {}
Reg(width, accesswidth, reset, encode) ==
  [type |-> T, regwidth |-> width, accesswidth |-> accesswidth, text |-> plain,
   reset |-> reset, encode |-> encode, alias |-> encode # NoEncode,
   notes |-> IF encode # NoEncode THEN <<"W101", "W105">> ELSE << >>]
Mode == [name |-> <<W("component")>>, members |-> plain]
MCRegDescs == {Reg(32, 32, 1, NoEncode), Reg(128, 32, 1, NoEncode),
               Reg(32, 16, NoReset, NoEncode), Reg(32, 32, NoReset, Mode)}
MCPlaces == {[offset |-> 2, dims |-> << >>]}
=============================================================================
