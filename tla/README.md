# Verification of the PeakRDL PSS exporter

`peakrdl-pss` reads an elaborated SystemRDL design and writes a PSS package: a
packed struct and a component per register type, a component per addrmap or
regfile type, the encodings, and optionally a wrapper component and a JSON
sidecar. Its promise is that the package is a faithful picture of the design:
every register in its place, every field at its bits, every name legal, unique
and traceable, every type emitted once and before it is used, and a problem of
the design reported instead of written.

This directory holds TLA+ models of the parts of the exporter where such a
promise is hard to keep, TLC configurations that check them on small designs,
and TLAPS proofs that the most important ones hold for all designs. Paths such
as `design.py` are below `src/src/peakrdl_pss/`, `naming.rst` is
`src/docs/mapping/naming.rst`.

## Inventory

The program is sequential: one call of `PSSExporter.export` runs from options to
files. What makes it hard is state that accumulates over a long walk and is
read much later: namespaces, two type caches, an emission order, a log of
findings, and files of earlier runs.

| component | state | operations | what makes it correct |
|---|---|---|---|
| `identifiers.py` | `Namespace._taken`, `Namespace.mangled` | `mangle`, `_sanitize`, `is_legal_identifier`, `allocate`, `reserve` | names handed out in one scope are legal, not reserved and distinct; a rename has a cause |
| `design.py`, type tables | `_reg_types`, `_group_types`, `_reg_index`, `_group_index`, `_by_name`, `_types_ns`, `_variant_count` | lookup, reuse, `_allocate_type_name`, append | one name per type; one type exactly per content; what is emitted is not revised |
| `design.py`, walk | call stack of `_scan_group`, one member namespace per group, pending constants, `findings`, `mangle_map`, `_enums`, `_enum_index` | `scan`, `_scan_group`, `_scan_reg`, `_intern_enum`, `_base_type_name` | definitions before uses, nothing dropped in silence, renames and variants reported, instance names win over generated ones |
| `layout.py` | `entries`, `rows`, `next_bit`, the namespace of the struct | `build_rows`, `_insert_reserved`, `reset_value`, `_reset_of`, `rows_cover` | rows cover the register from bit 0 without gap or overlap, and fields that do overlap are caught; each field keeps its bits; the reset value is exact |
| `access.py` | none | `derive`, `field_rw`, `lossiness`, `side_effect_findings` | a register can be read or written exactly when one of its fields can; what no emitted line can say is warned about |
| `signature.py` | none | `of_reg`, `of_group`, `of_child` | equal exactly for what is to be emitted once |
| `validate.py` | a list of assertion messages | `_check_ir_invariants`, `_check_unique_type_names` | fires exactly on what packed structs and one package cannot hold |
| `exporter.py` | the files on disk | `export`, `build`, `report`, `render_*`, `_write` | a refused design leaves the files alone; a return means they are written |
| `diagnostics.py` | none of its own (the log is the scanner's) | `effective_severity`, finding ids | a strict export turns warnings, and nothing else, into errors |
| `addressing.py` | none | `flat_count`, `flatten_index`, `unflatten_index`, `element_offset`, index helpers | flattening is a bijection; offsets add up to the described address |
| `ir.py`, `options.py` | data classes | `validate()` of the options | used by the modules above |
| `templates/`, `prose.py` | none | text | formatting |
| `__peakrdl__.py`, `__init__.py` | none | arguments, one call of `export` | no logic of its own |

How they interact. `export` validates the options and calls `build`, which runs
`DesignScanner.scan` and then the `Validator`. The scanner recurses over the
tree and calls `build_rows` and `derive` for each register and `mangle` and
`Namespace.allocate` for each name, and asks `signature` for a digest before the
tables decide whether a type is shared. `report` hands the findings to the
compiler's message handler and raises if one is an error; only then are the
files rendered and written. There are no threads, callbacks or messages; the
disk is the only state that outlives a call.

Hard behaviours, each listed with its line under `hazards` in `PROJECT.json`:

- a rename whose result is the plain name of a later request, in every
  namespace there is (members, fields, constants, types);
- two registers of one type name with different content, at any depth, and a
  user's type spelled like a generated variant;
- the second pass over a group that names its reset constants after all
  instances, and the reserved rows named after all fields;
- the emission order of groups, which is the order in which the recursion
  ends, with types that are reused on the way;
- children that are refused in the middle of a group, and the reports of an
  instance that joins a type another instance had started;
- the gaps of a register at its first and last bit, and fields that overlap
  legally;
- indices of arrays of several dimensions, flattened by one loop, recovered by
  another that runs backwards, and computed once more by a generated expression;
- a failure between two files, and an export over the files of an earlier one.

## Modules

```
Identifiers <- Namespace                      names of one scope
     ^------ TypeTable ---implements--> TypeSharing
     |           ^---- DesignScanner --implements--> TypeSharing
     |                      ^---- EmittedPackage      names of the package
     ^------ Layout                           rows of one register
Addressing --implements--> AddressMap         indices, offsets, addresses
Exporter                                      the pipeline and the files
```

`IdentifiersProofs`, `NamespaceProofs`, `TypeTableProofs`, `DesignScannerProofs`,
`LayoutProofs`, `AddressingProofs` and `ExporterProofs` hold the theorems about the
modules they are named after, `ScannedTreeProofs` those about what a finished
walk leaves. A module whose name begins with `MC` gives the constants of one
module values for TLC. Operators
marked `\* mutant` are plausible wrong versions of the definition below them;
no specification uses them. They are there to show that each property can fail:
put in the place of the definition they precede, they break the property
`PROJECT.json` pairs them with.

### Identifiers, Namespace

A name is a sequence of tokens, each a text and a number: `ctrl` is
`<<"ctrl", 0>>`, the suffix `_3` is `<<"_", 3>>`, `__v2` is `<<"__v", 2>>`. The
texts are opaque; the sets `Foreign`, `Digital`, `Keywords` and `Imported` say
what the code's character classes and word lists say. A suffix is one token, and
a user who spells a name like a generated one spells the same tokens, so the
collisions the code resolves are equalities of sequences. A token without a text
is a number written out, as in `rsvd_4`, and starts with a digit
(`NumeralAssumption`): with an empty `rsvd_prefix` the row is `_4`, as in the
code. `Mangle`, `Sanitize` and `IsLegal` are the functions of `identifiers.py`;
the search for a free `"%s_%d" % (base, i)` is `FreeNumber`, the least free
number, which exists because finitely many names are taken.

`Namespace` has the two fields of the class and the history `given` of what was
asked and what came out. `Allocate` and `Reserve` are its two operations; the
guard of `Reserve` is the test its only caller makes first.

### TypeSharing, TypeTable

`TypeSharing` is the promise of the type tables in nine lines: an instance gets
one emitted type for good, and two instances get the same exactly when their
descriptions are the same. `TypeTable` is how `design.py` keeps it: two
dictionaries from (base name, signature) to emitted name, the types by name, one
namespace, a counter of variants per base name. `Reuse` is the lookup that hits,
`Emit` the one that misses. `_scan_reg` and `_scan_group` contain this protocol
once each, on their own dictionaries; here it is indexed by `kind`. `calls` is a
history of what was interned for each instance path.

A signature is compared by equality only. Collisions of the 64-bit digest are
not modelled.

### DesignScanner

The tree is not a constant: a behaviour of `Spec` is the scan of one design, and
each step chooses what the walk meets next. All designs within the bounds are
therefore scanned. The recursion of `_scan_group` is a `stack` of frames with
the local variables of the function:

| code | model |
|---|---|
| `ns`, `children`, `child_sigs`, `pending_resets` | `taken`, `children`, `sigs`, `pending` of the innermost frame |
| loop over `node.children(...)` reaches a child | `Meets(name)` |
| memory, refused register | `SkipMem`, `RejectReg` |
| `_scan_reg` up to its return | `ScanReg`, with `InternEnum` and `Intern` |
| recursive call of `_scan_group` | `EnterGroup` |
| rest of the loop body: allocate, alignment, `ChildRef`, pending constant | `Attach`, on the returned child in `ret` |
| one iteration of the second pass | `NameConst`, into `consts` of the frame |
| signature, lookup, return | `FinishGroup` |
| refusal of a bridge at the root, the only place SystemRDL allows one (`tests/golden/rdl/err_bridge.rdl:2-3`) | `RefuseBridge` |

The content of a register is an opaque `text` with the values the scan looks at
(`regwidth`, `accesswidth`, `reset`, `encode`); how the rows make that content is
`Layout`. A signature is the content it digests, built up as `signature.py`
builds it: a group's from its base name, its children by name, place and type,
their signatures, and its constants. `described` is a history of the content of
each node, of everything below it, written without emitted names or digests;
`met` of the nodes the walk has seen. `described` is what makes sharing a
statement about the design: it is compared with what the signatures decided.

### EmittedPackage

Adds no steps. It defines what the templates declare from a scan: `Declared`,
the names the `Validator` collects, and the index helpers of the components.
`EncodingsKept` compares the encodings it keeps with those the scan has met.

### Layout

One register. The two loops of `layout.py` are an action per iteration,
`NameField` and `PlaceRow`, with the stable sort by `lsb` between them
(`SortEntries`) and `Complete` for the tail, the reset value and the access. The
register and `pad_tail` are chosen in `Init`. `msb0` registers bring their
finding; the swap of `low` and `high` happens in the compiler, not here.

SystemRDL lets two fields share bits if software reads one and only writes the
other. `packed_s` cannot hold them and `build_rows` does not look, so the rows
of such a register are wrong; what keeps it out of the package is the assertion
on `rows_cover`. `Accepted` is that assertion, and the properties about the
struct (`FieldsKeepTheirBits`, `ResetIsExact`) are about registers it lets
through. `OverlapIsCaught` says that these are exactly the ones whose fields do
not overlap, `RowsCover` that none of those is stopped.

A reset is the set of its one bits, so the `|` of `reset_value` is a union and a
shift adds to each of them. A register has at least one field, as SystemRDL
wants it; for one without, `_derive_access` would not report PSS-W107, because
it asks for a nonempty list first (`design.py:205`), though
`src/docs/design/implementation-plan.md:45` says it would. A field with
`sw = na` is let through here because the code has a case for it; the same
place says that the compiler refuses it.

The properties a field may have that no emitted line carries are its `effects`;
`Notes` is `lossiness` with its one exception, a pulse that software only
writes. `WarnedExactlyWhenLossy` is the promise of these warnings as a whole: a
register without one loses nothing of the accesses, resets and effects of its
fields, and one that loses nothing does not warn, which matters under `strict`.
It is narrower than "nothing is lost": endianness is not in the module, because
no line of the code raises the warning for it.

### AddressMap, Addressing

`AddressMap` is the meaning of an address in SystemRDL: on the way down each
component adds its offset and one stride for every element before it, where
*before* is an order on tuples of indices and the number of elements a
cardinality. It has no arithmetic on indices, and it does not know what a caller
may ask for: it descends to elements only. The compiler keeps it; it is the
reference the tests call the offset oracle.

`Addressing` goes the same way with the functions of `addressing.py`. A caller
asks for an element with any tuple of indices (`Ask`); `flat_count`,
`flatten_index` and `unflatten_index` are one action per iteration (`Count`,
`Flatten`, `Unflatten`), the two exceptions are `RefuseArity` and `RefuseIndex`,
and `Resolve` adds the offset of the element and goes one level down. The
intermediate values of the loops are kept as histories, so that a property can
compare the two loops iteration by iteration. `HelperText` is the index
expression of the package as a sequence of summands, in which `*` binds to the
last one unless parentheses join them: that is what the precedence of `*` over
`+` does to the text `index_helper_body` builds.

### Exporter

`export` is cut at every place where it can raise: `Begin` with the type of the
node and the validation of the options (`Supported`), `Build` with the assertions, `Route` per finding, `Judge`, and
for each file `Open`, which empties it, and `Write`. `Fail` is an exception from
a template or the operating system while a file is due. A file is the number of
the export that opened it, the stage that did and whether it is whole. A design
is the severities of its findings and whether the assertions fail; both are
computed by the modules above in the code, and arbitrary here. Exports repeat
into one place, and `sidecar_path` may be the path of the package.

## Runs

No specification assumes fairness. The program is sequential and nothing in it
waits for anyone between two of its steps; its loops run over finite lists,
except the search for a free number, whose end is the lemma `FreeNumberIsFree`.
That a loop gets to its end is therefore stated as what holds when it has:
`EveryFindingRouted` says that a report which ends, in an exception or not, has
passed on every finding. `CHECK_DEADLOCK FALSE` is in every configuration because
every behaviour ends: the scan, the rows of a register, an instance path, the
bounded number of exports or requests.

| run | what it shows | bounds, and why they are enough |
|---|---|---|
| `namespace` | `Distinct`, `NeverReserved`, `AlwaysLegal`, `RenameJustified` | eight names and four requests; three requests on `component`, `component_`, `component` already take every branch of `mangle`, the fourth meets a numbered name |
| `type_table` | `TypeNamesUnique`, `InstanceInItsType`, `VariantJustified`, `NeverRevised`, and that `TypeTable` implements `TypeSharing` | three base names, one spelled like the first variant of another, two contents, four instances, symmetric in the last two |
| `scan_sharing` | `DefinedBeforeUsed`, `VariantsReported`, `NothingDropped`, and that the whole scan implements `TypeSharing` on described content | five nodes in three levels: two groups that each hold a register, equal, different, or with a user's `t__v2`, and groups with and without a type name |
| `scan_naming` | `MembersDistinct`, `InstanceNamesWin`, `RenamesReported`, `NothingDropped` | four nodes, two levels, with `r` beside `r_reset` and `component` beside `component_`; memories, too wide and too narrowly accessed registers, an alias with an encoding, an unaligned offset |
| `layout` | `RowsCover`, `FieldsKeepTheirBits`, `ReservedNamesYield`, `ResetIsExact`, `AccessIsUnion`, `OverlapIsCaught`, `WarnedExactlyWhenLossy` | registers of four bits with up to three fields of one or two bits, in any order, with and without `pad_tail`: gaps before, between and after, none at all, fields named `rsvd_0`, `rsvd_0_` and a keyword, read-only and write-only fields on shared bits, pulses and other effects, `msb0` |
| `addressing` | `FlatInRange`, `CountIsExact`, `RoundTrip`, `HelperAgrees`, and that `Addressing` implements `AddressMap` | a scalar and arrays of one to three dimensions of unequal sizes, one of them 1, in two levels, asked for with every tuple of up to three indices from -1 to 3: three dimensions are the first where the parentheses and the order of the middle one matter |
| `exporter` | `RefusalWritesNothing`, `ReturnMeansWritten`, `EveryFindingRouted`, `WrapperNotNewer`, `SidecarNotNewer` | three exports, so that an export meets a wrapper or a sidecar older than the package; each kind of finding, `strict` on and off, each combination of files, a sidecar at the path of the package or of the wrapper, options that are not implemented |

`scan_sharing` has no keywords and no constants, `scan_naming` no variants: the
two questions multiply the designs without meeting, except that a rename enters
the signature as a name, which both have. Each run also checks the type
invariant of its module where there is one.

Five runs end in a violation. Each checks a sentence of the repository that the
code does not keep; `PROJECT.json` quotes the lines under `findings`.

| run | sentence | what the code does |
|---|---|---|
| `package_encodings` | duplicate type names "cannot happen" (`validate.py:58`) | encodings are named outside the package namespace: `component` and `component_` are both `component_`, and the assertion aborts the export |
| `package_helpers` | generated names, index helpers among them, are allocated after the instance names (`naming.rst:81`) | the helper of an array `r` is `r_index` even beside an instance `r_index` |
| `package_renames` | every rename is reported as PSS-I201 (`naming.rst:75`) | renamed types and encodings are in the rename map without a finding |
| `package_hier` | one type per instance in the hier style (`naming.rst:17`) | `top.a.b` and `top.a__b` of equal content share one |
| `package_members` | a field with `encode` produces named constants (`fields.rst:57`) | encodings are interned by their SystemRDL name: of two encodings `mode` from different scopes the second is dropped without a finding |

## Proofs

TLAPS checks these for all values of the constants that satisfy the named
assumptions: any names, any number of instances, registers of any width.

| theorem | of | states |
|---|---|---|
| `MangleFresh`, `MangleLegal` | `IdentifiersProofs` | for every finite set of taken names `Mangle` returns a name outside it that is not reserved, and a legal identifier |
| `NamesDistinct`, `NamesNotReserved`, `NamesLegal`, `RenamesJustified`, `NamespaceTypes` | `NamespaceProofs` | each invariant of the run `namespace` |
| `EmittedNamesUnique`, `EveryInstanceInItsType`, `VariantsJustified`, `TableTypes` | `TypeTableProofs` | the invariants of the tables |
| `EmittedStays` | `TypeTableProofs` | `TableSpec => NeverRevised` |
| `TableShares` | `TypeTableProofs` | `TableSpec => SharesTypes`: the refinement of `TypeSharing` |
| `PackageReadsInOrder`, `ComponentMembersDistinct`, `ConstantsGiveWay`, `ScannerTypes` | `DesignScannerProofs` | `Spec => []DefinedBeforeUsed`, `Spec => []MembersDistinct`, `Spec => []InstanceNamesWin`, `Spec => []ScannerTypeOK`, for trees of any size and depth |
| `ScanShares` | `ScannedTreeProofs` | `Spec => ScannerSharesTypes`: the whole scan implements `TypeSharing`, with the content of everything below an instance as its description |
| `VariantsAreReported`, `RenamesAreReported`, `NothingIsDropped` | `ScannedTreeProofs` | `Spec => []VariantsReported`, `Spec => []RenamesReported`, `Spec => []NothingDropped`, for trees of any size and depth |
| `RowsAlwaysCover`, `OverlapAlwaysCaught`, `ReservedAlwaysYield`, `LayoutTypes` | `LayoutProofs` | `Spec => []RowsCover`, `Spec => []OverlapIsCaught`, `Spec => []ReservedNamesYield`, `Spec => []LayoutTypeOK` |
| `FieldsAlwaysKept`, `ResetAlwaysExact` | `LayoutProofs` | `Spec => []FieldsKeepTheirBits`, `Spec => []ResetIsExact` |
| `AccessAlwaysUnion`, `LossAlwaysWarned` | `LayoutProofs` | `Spec => []AccessIsUnion`, `Spec => []WarnedExactlyWhenLossy` |
| `FlattenedInRange`, `UnflattenInverts`, `AddressingTypes` | `AddressingProofs` | `Spec => []FlatInRange`, `Spec => []RoundTrip`, `Spec => []AddressingTypeOK`, for any number of dimensions |
| `CountAlwaysExact`, `HelperAlwaysAgrees` | `AddressingProofs` | `Spec => []CountIsExact`, `Spec => []HelperAgrees`, for any number of dimensions |
| `AddressesImplement` | `AddressingProofs` | `Spec => AddressesAreDescribed`: the refinement of `AddressMap` |
| `RefusalsWriteNothing`, `FindingsAllRouted`, `ReturnsMeanWritten`, `WrappersNotNewer`, `SidecarsNotNewer`, `ExporterTypes` | `ExporterProofs` | each invariant of the run `exporter`, for any number of exports |

The argument, bottom up.

- *A free number exists.* `Cardinality(taken) + 1` candidates with different
  numbers are different names (`NumberedInjective`), so not all are taken
  (`Crowded`), and there is a least one that is not (`LeastNatural`):
  `FreeNumberIsFree`. A suffixed name is not reserved because no reserved word
  ends in an underscore or in a number (`SuffixedNotReserved`).
- *Namespace.* `Distinct` is not inductive: it does not say that a name handed
  out is still in `taken`, nor is `RenameJustified`, which needs that what is
  taken was handed out. `IInv` adds `GivenIsTaken`, `TakenIsGiven` and that
  `taken` is finite.
- *Type tables.* That an instance is in exactly one type follows from the two
  directions of the index: an entry names a type recorded under exactly its key
  (`IndexIsRight`), and a type is found under its own key (`IndexIsComplete`).
  With `NamesAreTypes` a new name is new for both kinds at once. `TableInv` adds
  which instances are listed where. `NeverRevised` and the refinement are then
  statements about one step; `TypeOfIsIndexed` replaces the `CHOOSE` in the
  refinement mapping by the index entry.
- *Design scanner.* What an emitted component promises is decided long before it
  is emitted, in a call that is still in progress. So the invariant follows the
  calls: in its first pass the namespace of a call is exactly the names of its
  children (`FrameOK`), which is why a rename there has a sibling as its cause
  and a constant cannot be one; only the innermost call has begun its second pass
  (`FramesOK`), so a child that returns finds its caller in the first; and what
  was returned or attached is emitted already (`ReturnOK`, `AllBuildable`), so a
  type that joins the end of its list comes after its children. Of the tables
  `TablesInv` keeps the part this needs; `PathInv` adds the paths for
  `ScannerTypeOK`.
- *The scan shares types.* That equal signatures mean equal content, all the way
  down, is a statement about trees, but the walk is the induction over the tree
  and the invariant carries it. `FreshInv`: a node is met and described once.
  `IndexInv`: tables, lookups and the history of calls agree, as in
  `TypeTableProofs`. `Formed`: the members of a call in progress are a function of
  its body and of its children's types, names and constants included, because the
  namespace is. `Linked`: that body and those types are the described children's.
  `SameSignatures`: content and signature tell the same descriptions apart so far.
  When a group ends, equal content gives children of equal content, so of equal
  types and digests, so equal members and an equal signature, and back. The step
  to `TypeSharing` is then that of `TypeTable`.
- *The account of the scan.* The three properties speak of finished groups or of
  a finished scan, and count findings. `VariantInv` says of every instance,
  interned or not, whether the log has its PSS-I202; `ErrorInv` that an error
  belongs to a node that was met and is neither described nor in progress;
  `MemberInv` that an attached child is held by its parent, in progress or
  described, under the name that PSS-I201 and the rename map give. Each needs
  that all findings about a node are made while its call, or its parent's, is on
  the stack: `FreshInv` again, which is why the log of a node not yet met is empty.
- *Layout.* `RowsCover` does not say where the rows still to be placed are.
  `LayoutInv` adds it: inside the register, a permutation of the fields that is
  ascending by `lsb` (`Sorted`), and, if the fields are disjoint, from `next_bit`
  up (`PlacedInv`). For the other direction of `OverlapIsCaught`, that an overlap
  does reach the assertion, `MarkInv` goes backwards: rows that abut so far hold
  their entries in order and apart, so rows that abut at the end mean disjoint
  fields (`InOrderDisjoint`). `NamesInv` is for `ReservedNamesYield`: an entry
  that is not placed yet has a name that is taken and on no row. `ContentInv` says
  what the rows hold: each entry placed so far once, and reserved rows. Rows that
  pass the Validator are in order (`AbuttingInOrder`), and the widths before a
  row add up to its first bit (`PackedWhereDeclared`), so a field has one member
  and its bits are no other's; `ResetIsExact` follows bit by bit. `FindingsInv`
  says which findings the fields named so far have caused, and with the tail
  decides `AccessIsUnion` and `WarnedExactlyWhenLossy`.
- *Addressing.* The two loops are tied to each other through the histories.
  `FlatsInv` and `CountsInv` keep the recurrences of `flatten_index` and
  `flat_count` and, by `StepBelow`, that an index stays below the count.
  `OutInv` says what `unflatten_index` has undone: its next quotient is the
  index one iteration earlier. That one division undoes one multiplication and
  addition is `StepUndone`, from the uniqueness of quotient and remainder. For the
  element count, the tuples within one more dimension are pairs of a tuple and
  an index (`ExtendedCount`, a bijection), so their number is multiplied
  (`CountedSoFar`). The tuples before a given one are those with a smaller prefix
  and any last index, or the same prefix and a smaller index, which are disjoint;
  so their number follows the recurrence of `flatten_index` (`FlattenedSoFar`).
  That is the element number of `AddressMap`, and the refinement is one step:
  `Resolve` is `Descend`, all others stutter. In the helper's text, parentheses
  leave one summand, so each dimension makes two of it, with the sum
  `flatten_index` has reached (`HelperStepGroups`).
- *Recursion.* Induction is by the least number for which a claim fails
  (`LeastNatural`), over a set of numbers and not over an operator. A recursive
  function is a `CHOOSE`; that there is one to choose is shown by giving it
  (`PackedWhereDeclared`, `SumOfFew`, `HelperSum`).
- *Exporter.* `WrapperNotNewer` is not inductive: it does not say which files an
  export has already written. `FilesInv` adds, per step, what is on disk: before
  the package is opened everything is older than this export, and while the
  wrapper or the sidecar is due the files before it are whole and this
  export's own unless a sidecar is given their path (`Kept`, `Shadowed`).
  `SidecarNotNewer` needs beside it that an export has one sidecar (`SidecarInv`).

Assumptions, each an `ASSUME` evaluated by TLC in the runs: the texts the
exporter appends exist (`TextsAssumption`); no reserved word is empty or ends in
an underscore or a generated number, true of the lists in `identifiers.py`
(`ReservedAssumption`); the underscore is a legal first character
(`UnderscoreAssumption`) and a bare number is not (`NumeralAssumption`); what callers ask for and the prefix of reserved rows
are names (`WantedAssumption`, `BasesAssumption`, `PrefixAssumption`); a register
has a field, fields lie in their register, have one of the accesses of `_SW_RW`
and overlap only where the compiler allows it (`RegistersAssumption`); instances,
types and encodings of a design have names, registers have widths, and what
`build_rows` and `_derive_access` report of one is of the kinds in `RegNotes`
(`TreeAssumption`); arrays have dimensions of at least one, offsets and strides
are not negative (`ChildrenAssumption`), and callers ask for integers
(`TuplesAssumption`); the other constants have their types
(`OptionsAssumption`, `MaxGivenAssumption`, `DesignsAssumption`,
`RequestsAssumption`, `MaxExportsAssumption`).

Every property of a passing run is stated by a theorem. Only model-checked is
`EmittedPackage`, whose runs show where the code does not keep a sentence of its
documentation and whose properties are therefore false.

## Not modelled

- The text of the templates and of `prose.py`, wording and order of messages,
  the content of the sidecar.
- The PeakRDL plugin: argument parsing and one call.
- Collisions of digests; the names of the members of an encoding, and so the
  constants `<encoding>__<member>` of two encodings that are spelled alike.
- Endianness: PSS-W104 is declared and documented but no line raises it, so
  there is no step to model.
- Strides in the walk: `design.py` checks the alignment of the first element of
  an array only.
- What the compiler does before the exporter sees the tree.

## Plan

1. Done: every module above, their runs, and the proofs above.
2. The package scope in full: the constants of `enums.pss`, suffixed type names
   against the imported names.
3. A rendering of a register as the rows that reach the text, so that the other
   direction of `signature.py`'s "if and only if" can be stated.
4. Done: the proofs that the scan implements `TypeSharing` and that `Addressing`
   implements `AddressMap`, and of every invariant the passing runs check.
5. Of `EmittedPackage`, the conditions on a design under which its properties do
   hold, as invariants and theorems beside the runs that show they can fail.
