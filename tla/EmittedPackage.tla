--------------------------- MODULE EmittedPackage ---------------------------
(***************************************************************************)
(* The names the generated package declares once a design is scanned: the  *)
(* types at package scope, as the Validator collects them, and the members *)
(* of each component, with the index helpers the template adds.            *)
(***************************************************************************)
EXTENDS DesignScanner

CONSTANT EmitIndexHelpers  \* options.emit_index_helpers

\* struct_name and component_name of a RegType, component_name of a GroupType.
StructName(name) == Append(name, W("_s"))
ComponentName(name) == Append(name, W("_c"))

\* _check_unique_type_names: registers, then groups, then encodings.
Declared ==
  [i \in DOMAIN types["reg"] |-> StructName(types["reg"][i])]
    \o [i \in DOMAIN types["reg"] |-> ComponentName(types["reg"][i])]
    \o [i \in DOMAIN types["group"] |-> ComponentName(types["group"][i])]
    \o [i \in DOMAIN enums |-> enums[i].name]

\* An index helper goes with each array of two or more dimensions.
HelpersOf(name) ==
  IF EmitIndexHelpers
    THEN {Append(child.inst, W("_index")) :
            child \in {c \in Range(ChildrenOf(name)) : Len(c.place.dims) >= 2}}
    ELSE {}

InstancesIn(name) == {child.inst : child \in Range(ChildrenOf(name))}

\* "The scanner allocates names from one namespace so this cannot happen"
\* (validate.py): two declarations of the package with one name, which the
\* Validator asserts against.
DeclaredOnce ==
  status = "done" =>
    \A i, j \in DOMAIN Declared : i # j => Declared[i] # Declared[j]

\* "Generated names -- reserved fields, reset constants, index helpers -- are
\* allocated after every real instance name in the same scope" (naming.rst):
\* a helper never has the name of an instance beside it.
HelpersYield ==
  \A name \in GroupTypesEmitted : HelpersOf(name) \cap InstancesIn(name) = {}

\* "Every rename is reported as PSS-I201 ... and listed in the sidecar"
\* (naming.rst): what the rename map lists was reported.
EveryRenameReported ==
  Cardinality(DOMAIN mangleMap)
    <= Cardinality({i \in DOMAIN findings : findings[i].id = "I201"})

\* "A field with encode produces named constants alongside the package"
\* (fields.rst): of every encoding met, the package has the members.
EncodingsKept ==
  \A path \in DOMAIN described :
    LET encode == described[path].encode IN
    encode # NoEncode =>
      \E i \in DOMAIN enums : /\ enums[i].rdl = encode.name
                              /\ enums[i].members = encode.members

\* "producing one type per instance ... every type traces to exactly one place
\* in the description" (naming.rst, of the hier type style).
OneTypePerInstance ==
  TypeStyle = "hier" => \A name \in DOMAIN byName : Len(byName[name].instances) = 1
=============================================================================
