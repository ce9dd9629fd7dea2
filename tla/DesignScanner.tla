--------------------------- MODULE DesignScanner ---------------------------
(***************************************************************************)
(* DesignScanner of design.py: one depth-first, post-order walk over an    *)
(* elaborated SystemRDL tree that fills the type tables, names every       *)
(* member and records findings.                                            *)
(*                                                                         *)
(* The tree is not fixed in advance: each step of the walk chooses what it *)
(* meets next, so a behaviour is the scan of one design within the bounds. *)
(* The recursion of _scan_group is an explicit stack of frames.  A child   *)
(* that was scanned is returned to its parent's loop in ret; Attach is the *)
(* rest of the loop body, the same for registers and groups.               *)
(*                                                                         *)
(* A signature is the content it digests.  What a register's rows render,  *)
(* with its access and bit order, is one value, text; the findings of      *)
(* build_rows and _derive_access for it are its notes.  A register has at  *)
(* most one encoded field, and the members of an encoding are one value.   *)
(***************************************************************************)
EXTENDS TypeTable, SequencesExt

CONSTANTS
  InstNames,        \* SystemRDL names of children
  RegDescs,         \* descriptions of registers
  GroupTypes,       \* type names of addrmaps and regfiles
  Places,           \* where a child sits: offset and array dimensions
  TopName,          \* name of the root addrmap
  NoType, NoReset, NoEncode,  \* absent values (None)
  TypeStyle,        \* options.type_style: "lexical" or "hier"
  EmitResetConsts,  \* options.emit_reset_consts
  MaxNodes,         \* bound on the nodes of the tree, the root aside
  MaxDepth,         \* bound on the nesting of groups
  MaxChildren       \* bound on the children of a group

ASSUME OptionsAssumption ==
  /\ TypeStyle \in {"lexical", "hier"}
  /\ EmitResetConsts \in BOOLEAN

\* What build_rows and _derive_access report of a register and its fields.  A
\* field's rename is under the field's own path and is not a note.
RegNotes == {"W101", "W102", "W103", "W105", "W107"}

ASSUME TreeAssumption ==
  /\ InstNames \subseteq Name /\ TopName \in Name
  /\ GroupTypes \subseteq Name \cup {NoType}
  /\ \A d \in RegDescs : /\ d.type \in Name \cup {NoType}
                         /\ d.regwidth \in Nat /\ d.accesswidth \in Nat
                         /\ d.reset \in Nat \cup {NoReset}
                         /\ d.encode # NoEncode => d.encode.name \in Name
                         /\ d.notes \in Seq(RegNotes)

VARIABLES
  status,     \* "idle", "scanning" or "done"
  stack,      \* the active calls of _scan_group, innermost last
  ret,        \* the child just scanned, before its parent attaches it
  findings,   \* findings: the finding log
  mangleMap,  \* mangle_map
  enums,      \* _enums
  enumIndex,  \* _enum_index: SystemRDL name -> emitted name
  described,  \* history: path -> kind, base, content and encoding of a scanned node
  met         \* history: paths of the addressable nodes met below the root

scanVars == <<status, stack, ret, findings, mangleMap, enums, enumIndex, described, met>>
vars == <<tableVars, scanVars>>

----------------------------------------------------------------------------
Finding(id, path) == [id |-> id, path |-> path]

\* No child waits to be attached.
NoReturn == << >>

Errors == {"E001", "E002", "E003", "E004"}

\* dict.setdefault: the first entry for a key stays.
SetDefault(map, key, value) ==
  IF key \in DOMAIN map THEN map ELSE Extended(map, key, value)

\* A rename of a type or an encoding is entered under its SystemRDL name.
NoteRename(map, raw, name) ==
  IF name # raw THEN SetDefault(map, <<"name", raw>>, name) ELSE map

\* _base_type_name: the joined instance path, or the type's own name, or the
\* path again for a type without one.
RawTypeName(type, joined) ==
  IF TypeStyle = "hier" THEN joined
  ELSE IF type # NoType THEN type
  ELSE <<W("anon__")>> \o joined

BaseTypeName(type, joined) == Mangle(RawTypeName(type, joined), {})

Joined(parent, name) == parent \o <<W("__")>> \o name

Frame(name, path, joined, type, place) ==
  [name |-> name, path |-> path, joined |-> joined, type |-> type, place |-> place,
   visited |-> {}, taken |-> {}, children |-> << >>, sigs |-> << >>,
   pending |-> << >>, consts |-> << >>, body |-> << >>]

Innermost == stack[Len(stack)]

PathOfParent(name) == Innermost.path  \* mutant: the path of the wrong node

PathOf(name) == Append(Innermost.path, name)

\* The loop of _scan_group reaches one more child.
Meets(name) ==
  /\ status = "scanning"
  /\ stack # << >>
  /\ ret = NoReturn
  /\ Innermost.consts = << >>
  /\ name \notin Innermost.visited
  /\ Cardinality(Innermost.visited) < MaxChildren
  /\ Cardinality(met) < MaxNodes

Marked(name) == [stack EXCEPT ![Len(stack)].visited = @ \cup {name}]

\* What a register's RegType holds; of an encoding its rows carry the name.
RegContent(d) ==
  [text |-> d.text, regwidth |-> d.regwidth, accesswidth |-> d.accesswidth,
   reset |-> d.reset,
   encode |-> IF d.encode = NoEncode THEN NoEncode ELSE d.encode.name]

\* of_reg and of_group: the values the digest covers.
RegSignatureByName(base, d) == [type |-> base]  \* mutant: caches on the type name

RegSignature(base, d) == [type |-> base, content |-> RegContent(d)]

GroupSignature(base, children, sigs, consts) ==
  [type |-> base, children |-> children, sigs |-> sigs, consts |-> consts]

VariantNoteOnReuse(kind, base, sig, path) ==  \* mutant: also when a type is shared
  IF InternedName(kind, base, sig) # base THEN <<Finding("I202", path)>> ELSE << >>

VariantNote(kind, base, sig, path) ==
  IF <<base, sig>> \notin DOMAIN index[kind] /\ NewTypeName(base) # base
    THEN <<Finding("I202", path)>> ELSE << >>

----------------------------------------------------------------------------
Init ==
  /\ TableInit
  /\ status = "idle"
  /\ stack = << >>
  /\ ret = NoReturn
  /\ findings = << >>
  /\ mangleMap = << >>
  /\ enums = << >>
  /\ enumIndex = << >>
  /\ described = << >>
  /\ met = {}

\* A bridge is refused before anything below it is looked at.  _scan_group asks
\* every address map, but SystemRDL has the property on the root only
\* (tests/golden/rdl/err_bridge.rdl:2-3), so no map below it answers.
RefuseBridge ==
  /\ status = "idle"
  /\ status' = "done"
  /\ findings' = Append(findings, Finding("E003", <<TopName>>))
  /\ UNCHANGED <<tableVars, stack, ret, mangleMap, enums, enumIndex, described, met>>

Start(type) ==
  /\ status = "idle"
  /\ status' = "scanning"
  /\ stack' = <<Frame(TopName, <<TopName>>, TopName, type, NoReturn)>>
  /\ UNCHANGED <<tableVars, ret, findings, mangleMap, enums, enumIndex, described, met>>

\* A memory is reported and skipped.
SkipMemSilently(name) ==  \* mutant: no finding
  /\ Meets(name)
  /\ stack' = Marked(name)
  /\ met' = met \cup {PathOf(name)}
  /\ UNCHANGED <<tableVars, status, ret, findings, mangleMap, enums, enumIndex, described>>

SkipMem(name) ==
  /\ Meets(name)
  /\ findings' = Append(findings, Finding("E004", PathOf(name)))
  /\ stack' = Marked(name)
  /\ met' = met \cup {PathOf(name)}
  /\ UNCHANGED <<tableVars, status, ret, mangleMap, enums, enumIndex, described>>

AliasNote(d, path) == IF d.alias THEN <<Finding("I203", path)>> ELSE << >>

\* _scan_reg refuses a register, for its width before its access width.
Refusal(d) ==
  IF d.regwidth > 64 THEN <<"E001">>
  ELSE IF d.accesswidth < d.regwidth THEN <<"E002">>
  ELSE << >>

RejectReg(name, d) ==
  /\ Meets(name)
  /\ Refusal(d) # << >>
  /\ findings' = findings \o AliasNote(d, PathOf(name))
                   \o [i \in DOMAIN Refusal(d) |-> Finding(Refusal(d)[i], PathOf(name))]
  /\ stack' = Marked(name)
  /\ met' = met \cup {PathOf(name)}
  /\ UNCHANGED <<tableVars, status, ret, mangleMap, enums, enumIndex, described>>

\* _intern_enum: by SystemRDL name, the first encoding of a name stays.
IsNewEnum(d) == d.encode # NoEncode /\ d.encode.name \notin DOMAIN enumIndex

InternEnum(d) ==
  IF IsNewEnum(d)
    THEN LET name == Mangle(d.encode.name, {}) IN
         /\ enums' = Append(enums, [name |-> name, rdl |-> d.encode.name,
                                    members |-> d.encode.members])
         /\ enumIndex' = Extended(enumIndex, d.encode.name, name)
    ELSE UNCHANGED <<enums, enumIndex>>

\* _scan_reg: rows and encodings, then the type it shares or starts.
ScanReg(name, place, d) ==
  LET path == PathOf(name)
      raw  == RawTypeName(d.type, Joined(Innermost.joined, name))
      base == BaseTypeName(d.type, Joined(Innermost.joined, name))
      sig  == RegSignature(base, d)
      map  == IF IsNewEnum(d)
                THEN NoteRename(mangleMap, d.encode.name, Mangle(d.encode.name, {}))
                ELSE mangleMap
  IN
  /\ Meets(name)
  /\ Refusal(d) = << >>
  /\ findings' = findings \o AliasNote(d, path)
                   \o [i \in DOMAIN d.notes |-> Finding(d.notes[i], path)]
                   \o VariantNote("reg", base, sig, path)
  /\ InternEnum(d)
  /\ mangleMap' = NoteRename(map, raw, base)
  /\ Intern("reg", base, sig, path)
  /\ ret' = [name |-> name, place |-> place, kind |-> "reg", base |-> base, sig |-> sig,
             type |-> InternedName("reg", base, sig), content |-> RegContent(d)]
  /\ described' = Extended(described, path, [kind |-> "reg", base |-> base,
                                             content |-> RegContent(d), encode |-> d.encode])
  /\ stack' = Marked(name)
  /\ met' = met \cup {path}
  /\ UNCHANGED status

\* A nested addrmap or regfile: _scan_group calls itself.  SystemRDL has no empty
\* group, so one is met only while there is room for a node in it.
EnterGroup(name, place, type) ==
  /\ Meets(name)
  /\ Len(stack) < MaxDepth
  /\ Cardinality(met) + 1 < MaxNodes
  /\ stack' = Append(Marked(name),
                Frame(name, PathOf(name), Joined(Innermost.joined, name), type, place))
  /\ met' = met \cup {PathOf(name)}
  /\ UNCHANGED <<tableVars, status, ret, findings, mangleMap, enums, enumIndex, described>>

RenameNoteForReserved(name, inst, path) ==  \* mutant: silent on sibling collisions
  IF inst # name /\ name \in Reserved THEN <<Finding("I201", path)>> ELSE << >>

RenameNote(name, inst, path) ==
  IF inst # name THEN <<Finding("I201", path)>> ELSE << >>

\* What the namespace of a group holds once a child has its name.
ClaimedWithConst(taken, inst) ==  \* mutant: the constant's name goes with it
  taken \cup {inst, Append(inst, W("_reset"))}

Claimed(taken, inst) == taken \cup {inst}

\* What _check_alignment takes for the access size of a register, in bytes.
AccessSize(width) == IF width < 8 THEN 1 ELSE width \div 8

\* The rest of the loop body, once the child has been scanned: allocate its
\* member name, record the child, check its alignment, defer its constant.
Attach ==
  LET f    == Innermost
      inst == Mangle(ret.name, f.taken)
      path == PathOf(ret.name)
      isReg == ret.kind = "reg"
      unaligned == isReg /\ ret.place.offset % AccessSize(ret.content.regwidth) # 0
      child == [inst |-> inst, rdl |-> ret.name, type |-> ret.type,
                kind |-> ret.kind, place |-> ret.place]
      const == [inst |-> inst, width |-> ret.content.regwidth, value |-> ret.content.reset]
      parent == [f EXCEPT
        !.taken = Claimed(@, inst),
        !.children = Append(@, child),
        !.sigs = Append(@, ret.sig),
        !.pending = IF EmitResetConsts /\ isReg /\ ret.content.reset # NoReset
                      THEN Append(@, const) ELSE @,
        !.body = Append(@, [name |-> ret.name, place |-> ret.place,
                            base |-> ret.base, content |-> ret.content])]
  IN
  /\ ret # NoReturn
  /\ findings' = findings
       \o RenameNote(ret.name, inst, path)
       \o (IF unaligned THEN <<Finding("W106", path)>> ELSE << >>)
  /\ mangleMap' = IF inst # ret.name THEN SetDefault(mangleMap, <<"path", path>>, inst)
                                     ELSE mangleMap
  /\ stack' = [stack EXCEPT ![Len(stack)] = parent]
  /\ ret' = NoReturn
  /\ UNCHANGED <<tableVars, status, enums, enumIndex, described, met>>

\* _reset_const names the constant after its instance.
ConstNameUnchecked(inst, taken) == Append(inst, W("_reset"))  \* mutant: not allocated

ConstName(inst, taken) == Mangle(Append(inst, W("_reset")), taken)

\* One iteration of the second pass, which starts when every child has been met:
\* the namespace by now holds every instance name of the group.
NameConst ==
  LET f    == Innermost
      of   == f.pending[Len(f.consts) + 1]
      name == ConstName(of.inst, f.taken)
      const == [name |-> name, width |-> of.width, value |-> of.value]
      group == [f EXCEPT !.taken = @ \cup {name}, !.consts = Append(@, const)]
  IN
  /\ status = "scanning"
  /\ stack # << >>
  /\ ret = NoReturn
  /\ Len(f.consts) < Len(f.pending)
  /\ stack' = [stack EXCEPT ![Len(stack)] = group]
  /\ UNCHANGED <<tableVars, status, ret, findings, mangleMap, enums, enumIndex, described, met>>

\* The end of _scan_group: the signature, then the type it shares or
\* starts, and the return to the parent's loop.
FinishGroup ==
  LET f    == Innermost
      raw  == RawTypeName(f.type, f.joined)
      base == BaseTypeName(f.type, f.joined)
      sig  == GroupSignature(base, f.children, f.sigs, f.consts)
      content == [body |-> f.body]
  IN
  /\ status = "scanning"
  /\ stack # << >>
  /\ ret = NoReturn
  /\ f.visited # {}
  /\ Len(f.consts) = Len(f.pending)
  /\ findings' = findings \o VariantNote("group", base, sig, f.path)
  /\ mangleMap' = NoteRename(mangleMap, raw, base)
  /\ Intern("group", base, sig, f.path)
  /\ described' = Extended(described, f.path,
                    [kind |-> "group", base |-> base, content |-> content,
                     encode |-> NoEncode])
  /\ stack' = SubSeq(stack, 1, Len(stack) - 1)
  /\ IF Len(stack) = 1
       THEN status' = "done" /\ UNCHANGED ret
       ELSE /\ ret' = [name |-> f.name, place |-> f.place, kind |-> "group",
                       base |-> base, sig |-> sig,
                       type |-> InternedName("group", base, sig), content |-> content]
            /\ UNCHANGED status
  /\ UNCHANGED <<enums, enumIndex, met>>

Next ==
  \/ RefuseBridge
  \/ \E type \in GroupTypes : Start(type)
  \/ \E name \in InstNames :
       \/ SkipMem(name)
       \/ \E d \in RegDescs : RejectReg(name, d)
       \/ \E place \in Places, d \in RegDescs : ScanReg(name, place, d)
       \/ \E place \in Places, type \in GroupTypes : EnterGroup(name, place, type)
  \/ Attach
  \/ NameConst
  \/ FinishGroup

Spec == Init /\ [][Next]_vars

----------------------------------------------------------------------------
Count(id, path) ==
  Cardinality({i \in DOMAIN findings : findings[i] = Finding(id, path)})

\* The groups whose emitted component is complete, and what a component holds.
GroupTypesEmitted == {name \in DOMAIN byName : byName[name].kind = "group"}
ChildrenOf(name) == byName[name].sig.children
ConstsOf(name) == byName[name].sig.consts

DescribedGroups == {path \in DOMAIN described : described[path].kind = "group"}

\* The tables are well typed, the call stack is the path of the innermost
\* group, and a scanned child waits for its parent or there is no stack.
ScannerTypeOK ==
  /\ TypeNamesUnique
  /\ DOMAIN calls = DOMAIN described
  /\ status \in {"idle", "scanning", "done"}
  /\ (stack # << >>) = (status = "scanning")
  /\ \A i \in DOMAIN stack : Len(stack[i].path) = i
  /\ ret # NoReturn => stack # << >> /\ PathOf(ret.name) \in DOMAIN described
  /\ \A p \in met : Front(p) \in met \cup {<<TopName>>}

\* A component is emitted after every component it instantiates, and the
\* registers it instantiates are emitted: the package can be read top to bottom.
DefinedBeforeUsed ==
  \A i \in DOMAIN types["group"] :
    \A c \in DOMAIN ChildrenOf(types["group"][i]) :
      LET child == ChildrenOf(types["group"][i])[c] IN
      \E j \in DOMAIN types[child.kind] :
        /\ types[child.kind][j] = child.type
        /\ child.kind = "group" => j < i

\* Two instances get one emitted type exactly when their type names and the
\* whole of what is below them are the same: signatures summarise children by
\* emitted names and digests, and lose or add no difference on the way up.
ScannedSharing == INSTANCE TypeSharing WITH
                    described <- [path \in DOMAIN described |->
                                    [kind |-> described[path].kind,
                                     base |-> described[path].base,
                                     content |-> described[path].content]],
                    typeOf <- [path \in DOMAIN calls |-> TypeOf(path)]

ScannerSharesTypes == ScannedSharing!Spec

\* A suffixed type is reported once, at the instance that made it necessary;
\* an instance that joins an emitted type reports nothing.
VariantsReported ==
  \A path \in DOMAIN described :
    LET name == TypeOf(path) IN
    Count("I202", path) =
      IF name # byName[name].base /\ byName[name].instances[1] = path THEN 1 ELSE 0

\* Instances, and the constants named after them, are distinct members of the
\* component that holds them, and none is a reserved name.
MembersDistinct ==
  \A name \in GroupTypesEmitted :
    LET members == [i \in DOMAIN ChildrenOf(name) |-> ChildrenOf(name)[i].inst]
                   \o [i \in DOMAIN ConstsOf(name) |-> ConstsOf(name)[i].name] IN
    \A i, j \in DOMAIN members :
      /\ members[i] \notin Reserved
      /\ i # j => members[i] # members[j]

\* The comment of _scan_group: instance names win.  A register keeps its name
\* unless the name is not legal or an earlier sibling instance has it; a
\* generated constant never takes it away.
InstanceNamesWin ==
  \A name \in GroupTypesEmitted : \A i \in DOMAIN ChildrenOf(name) :
    LET child == ChildrenOf(name)[i] IN
    child.inst # child.rdl =>
      \/ Sanitize(child.rdl) # child.rdl
      \/ child.rdl \in Reserved
      \/ \E j \in 1 .. i - 1 : ChildrenOf(name)[j].inst = child.rdl

\* Every renamed member is reported at every instance path that has it, and the
\* rename map gives its emitted name there: also below an instance that joined
\* a type another instance had started.
RenamesReported ==
  \A path \in DescribedGroups :
    \A i \in DOMAIN ChildrenOf(TypeOf(path)) :
      LET child == ChildrenOf(TypeOf(path))[i]
          at    == Append(path, child.rdl) IN
      IF child.inst # child.rdl
        THEN /\ Count("I201", at) = 1
             /\ <<"path", at>> \in DOMAIN mangleMap
             /\ mangleMap[<<"path", at>>] = child.inst
        ELSE Count("I201", at) = 0

\* Nothing below the root is dropped in silence: at the end of a scan a node is
\* described or has exactly one error, and a described node is a child, of the
\* type it was given, of the type its parent was given.
NothingDropped ==
  status = "done" =>
    \A path \in met :
      IF path \in DOMAIN described
        THEN /\ \A id \in Errors : Count(id, path) = 0
             /\ Front(path) \in DOMAIN described
             /\ \E i \in DOMAIN ChildrenOf(TypeOf(Front(path))) :
                  LET child == ChildrenOf(TypeOf(Front(path)))[i] IN
                  /\ child.rdl = Last(path)
                  /\ child.kind = described[path].kind
                  /\ child.type = TypeOf(path)
        ELSE Cardinality({id \in Errors : Count(id, path) = 1}) = 1
=============================================================================
