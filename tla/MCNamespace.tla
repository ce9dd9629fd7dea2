---------------------------- MODULE MCNamespace ----------------------------
(* Namespace on names chosen to collide: a keyword beside its mangled form, *)
(* an imported name, a name that needs an underscore, a leading digit.      *)
EXTENDS Namespace

MCTexts    == STRING
MCKeywords == {<<W("component")>>}
MCImported == {<<W("reg_c")>>}
MCForeign  == {"-", "\\"}
MCDigital  == {"", "3", "7"}
MCWanted   == {<<W("component")>>, <<W("component"), Underscore>>,
               <<W("component"), <<"_", 1>>>>,
               <<W("reg_c")>>, <<W("a")>>, <<W("a"), W("-"), W("b")>>,
               <<W("\\"), W("a")>>, <<W("7"), W("a")>>}
=============================================================================
