-------------------------- MODULE MCEmittedPackage --------------------------
(* Small designs around names the exporter generates: encodings whose names *)
(* meet, encodings of one name, an instance spelled like an index helper, a *)
(* type named by a keyword, an instance spelled like a path.                *)
EXTENDS EmittedPackage

CONSTANTS plain, changed, Scenario  \* two sets of members, which design

MCTexts == STRING
MCTop == <<W("top")>>
MCKeywords == {<<W("component")>>}
MCBases == {<<W("t")>>}
MCPaths == {}
MCGroupTypes == {<<W("g")>>}

Reg(type, encode) ==
  [type |-> type, regwidth |-> 32, accesswidth |-> 32, text |-> plain,
   reset |-> NoReset, encode |-> encode, alias |-> FALSE, notes |-> << >>]
Encoding(name, members) == [name |-> name, members |-> members]

MCNames ==
  CASE Scenario = "helpers" -> {<<W("r")>>, <<W("r"), W("_index")>>}
    [] Scenario = "hier" -> {<<W("a")>>, <<W("b")>>, <<W("a"), W("__"), W("b")>>}
    [] OTHER -> {<<W("a")>>, <<W("b")>>}
MCRegDescs ==
  CASE Scenario = "encodings" ->
         {Reg(<<W("t")>>, Encoding(<<W("component")>>, plain)),
          Reg(<<W("t")>>, Encoding(<<W("component"), Underscore>>, plain))}
    [] Scenario = "members" ->
         {Reg(<<W("t")>>, Encoding(<<W("mode")>>, plain)),
          Reg(<<W("u")>>, Encoding(<<W("mode")>>, changed))}
    [] Scenario = "renames" -> {Reg(<<W("component")>>, NoEncode)}
    [] OTHER -> {Reg(<<W("t")>>, NoEncode)}
MCPlaces == {[offset |-> 0, dims |-> << >>], [offset |-> 0, dims |-> <<2, 3>>]}
=============================================================================
