------------------------------- MODULE Layout -------------------------------
(***************************************************************************)
(* build_rows of layout.py, with the two values _scan_reg derives from a   *)
(* register: a struct member for every field of one register, in the order *)
(* of its bits, with a reserved member for every gap.                      *)
(*                                                                         *)
(* packed_s gives its members consecutive bits in declaration order, so a  *)
(* field sits where SystemRDL puts it only if the rows before it add up to *)
(* its least significant bit.                                              *)
(*                                                                         *)
(* The two loops of the code are one action per iteration, with the sort   *)
(* between them.  A register is also put to the assertions of the          *)
(* Validator (Accepted): SystemRDL lets a read-only field share bits with  *)
(* a write-only one, which packed_s cannot.                                *)
(*                                                                         *)
(* A reset is the set of its one bits, so that | of two is their union.    *)
(***************************************************************************)
EXTENDS Identifiers, Integers, Functions

CONSTANTS
  Registers,           \* registers the compiler accepts
  RsvdPrefix,          \* options.rsvd_prefix
  NoReset, RefReset    \* no reset, a reset that refers to another component

\* The keys of _SW_RW: what software may do with a field.
Policies == {"rw", "r", "w", "rw1", "w1", "na"}

\* The compiler has checked that a register has a field, that fields lie in the
\* register, and that they overlap only if software reads one and writes the
\* other.
FieldsFit(r) ==
  \A i \in DOMAIN r.fields :
    LET f == r.fields[i] IN
    /\ f.low \in Nat /\ f.high \in Nat
    /\ f.low <= f.high /\ f.high < r.regwidth
    /\ f.name \in Name
    /\ f.sw \in Policies
    /\ f.reset \in {NoReset, RefReset} \cup SUBSET Nat

FieldsDisjoint(r) ==
  \A i, j \in DOMAIN r.fields :
    i # j => \/ r.fields[i].high < r.fields[j].low
             \/ r.fields[j].high < r.fields[i].low

OverlapsAreLegal(r) ==
  \A i, j \in DOMAIN r.fields :
    i # j => \/ r.fields[i].high < r.fields[j].low
             \/ r.fields[j].high < r.fields[i].low
             \/ {r.fields[i].sw, r.fields[j].sw} = {"r", "w"}

ASSUME RegistersAssumption ==
  \A r \in Registers :
    /\ r.regwidth \in Nat
    /\ r.msb0 \in BOOLEAN
    /\ Len(r.fields) \in Nat \ {0}
    /\ DOMAIN r.fields = 1 .. Len(r.fields)
    /\ FieldsFit(r)
    /\ OverlapsAreLegal(r)
ASSUME PrefixAssumption == RsvdPrefix \in Name

VARIABLES
  reg,         \* the register
  padTail,     \* options.pad_tail
  phase,       \* "naming", "placing" or "done"
  entries,     \* entries: a row for each field named so far
  placed,      \* how many of them _insert_reserved has placed
  taken,       \* ns: the namespace of the struct
  rows,        \* rows: the result
  nextBit,     \* next_bit: the first bit without a row
  findings,    \* findings of this register
  resetValue,  \* reset_value of the rows
  access       \* the derived register access

vars == <<reg, padTail, phase, entries, placed, taken, rows, nextBit, findings, resetValue, access>>

----------------------------------------------------------------------------
FieldRowSwapped(name, rdl, low, high, reset, reserved) ==  \* mutant: low for high
  [name |-> name, rdl |-> rdl, width |-> low - high + 1, lsb |-> low, msb |-> high,
   reset |-> reset, reserved |-> reserved]

FieldRowShort(name, rdl, low, high, reset, reserved) ==  \* mutant: the end is left out
  [name |-> name, rdl |-> rdl, width |-> high - low, lsb |-> low, msb |-> high,
   reset |-> reset, reserved |-> reserved]

FieldRowFlat(name, rdl, low, high, reset, reserved) ==  \* mutant: ends where it starts
  [name |-> name, rdl |-> rdl, width |-> 1, lsb |-> low, msb |-> low,
   reset |-> reset, reserved |-> reserved]

FieldRow(name, rdl, low, high, reset, reserved) ==
  [name |-> name, rdl |-> rdl, width |-> high - low + 1, lsb |-> low, msb |-> high,
   reset |-> reset, reserved |-> reserved]

\* A reserved row is named after its first bit, past the names in use.
ReservedName(lsb) == Append(RsvdPrefix, <<"", lsb>>)

ReservedRowUnchecked(low, high) ==  \* mutant: not allocated in the namespace
  FieldRow(ReservedName(low), << >>, low, high, NoReset, TRUE)

ReservedRow(low, high) ==
  FieldRow(Mangle(ReservedName(low), taken), << >>, low, high, NoReset, TRUE)

\* _reset_of: only a literal counts.
ResetOfAsZero(f) == IF f.reset = RefReset THEN {} ELSE f.reset  \* mutant

ResetOf(f) == IF f.reset = RefReset THEN NoReset ELSE f.reset

\* reset_value: each known reset, cut to the width of its row and shifted to it.
ResetValue(rs) ==
  LET known == {i \in DOMAIN rs : rs[i].reset # NoReset} IN
  IF known = {} THEN NoReset
  ELSE UNION {{rs[i].lsb + b : b \in {c \in rs[i].reset : c < rs[i].width}} : i \in known}

\* rows_cover and the assertions of _check_ir_invariants.
AcceptedAnywhere(rs) ==  \* mutant: where a row starts is not compared
  \A i \in DOMAIN rs : rs[i].lsb <= rs[i].msb /\ rs[i].width = rs[i].msb - rs[i].lsb + 1

Accepted(rs) ==
  /\ \A i \in DOMAIN rs :
       /\ rs[i].lsb = IF i = 1 THEN 0 ELSE rs[i - 1].msb + 1
       /\ rs[i].lsb <= rs[i].msb
       /\ rs[i].width = rs[i].msb - rs[i].lsb + 1
  /\ rs # << >> => rs[Len(rs)].msb < reg.regwidth

SoftwareReads(sw)  == sw \in {"rw", "r", "rw1"}
SoftwareWrites(sw) == sw \in {"rw", "w", "rw1", "w1"}

DeriveIncludingNa(sws) ==  \* mutant: an inaccessible field counts as both
  LET readable == \E sw \in sws : SoftwareReads(sw) \/ sw = "na"
      writable == \E sw \in sws : SoftwareWrites(sw) \/ sw = "na"
  IN  IF readable /\ writable THEN "READWRITE"
      ELSE IF writable THEN "WRITEONLY" ELSE "READONLY"

\* access.derive over the fields of the register.
Derive(sws) ==
  LET readable == \E sw \in sws : SoftwareReads(sw)
      writable == \E sw \in sws : SoftwareWrites(sw)
  IN  IF readable /\ writable THEN "READWRITE"
      ELSE IF writable THEN "WRITEONLY" ELSE "READONLY"

\* lossiness: the properties of a field that reach no emitted line.  A pulse
\* that software cannot read back loses nothing.
NotesIncludingPulse(f) == f.effects  \* mutant: every pulse counts

Notes(f) == {p \in f.effects : p = "singlepulse" => SoftwareReads(f.sw)}

SideEffectFindings(f) ==
  (IF Notes(f) # {} THEN <<"W101">> ELSE << >>) \o
  (IF f.sw \in {"rw1", "w1"} THEN <<"W102">> ELSE << >>)

AccessesOf(r) == {r.fields[i].sw : i \in DOMAIN r.fields}

----------------------------------------------------------------------------
Init ==
  /\ reg \in Registers
  /\ padTail \in BOOLEAN
  /\ phase = "naming"
  /\ entries = << >>
  /\ placed = 0
  /\ taken = {}
  /\ rows = << >>
  /\ nextBit = 0
  /\ findings = IF reg.msb0 THEN <<"W105">> ELSE << >>
  /\ resetValue = NoReset
  /\ access = "READONLY"

\* One iteration over reg.fields().
NameField ==
  /\ phase = "naming"
  /\ Len(entries) < Len(reg.fields)
  /\ LET f == reg.fields[Len(entries) + 1]
         name == Mangle(f.name, taken)
     IN
     /\ entries' = Append(entries,
                     FieldRow(name, f.name, f.low, f.high, ResetOf(f), FALSE))
     /\ taken' = taken \cup {name}
     /\ findings' = findings \o (IF name # f.name THEN <<"I201">> ELSE << >>)
                             \o (IF f.reset = RefReset THEN <<"W103">> ELSE << >>)
                             \o SideEffectFindings(f)
  /\ UNCHANGED <<reg, padTail, phase, placed, rows, nextBit, resetValue, access>>

\* entries.sort by lsb: a stable sort.
SortEntries ==
  /\ phase = "naming"
  /\ Len(entries) = Len(reg.fields)
  /\ phase' = "placing"
  /\ \E order \in Bijection(DOMAIN entries, DOMAIN entries) :
       /\ entries' = [i \in DOMAIN entries |-> entries[order[i]]]
       /\ \A i, j \in DOMAIN entries : i < j =>
            \/ entries[order[i]].lsb < entries[order[j]].lsb
            \/ entries[order[i]].lsb = entries[order[j]].lsb /\ order[i] < order[j]
  /\ UNCHANGED <<reg, padTail, placed, taken, rows, nextBit, findings, resetValue, access>>

\* One iteration of _insert_reserved: the gap below the row, then the row.
PlaceRow ==
  /\ phase = "placing"
  /\ placed < Len(entries)
  /\ LET row == entries[placed + 1]
         gap == ReservedRow(nextBit, row.lsb - 1)
     IN
     /\ IF row.lsb > nextBit
          THEN /\ rows' = Append(Append(rows, gap), row)
               /\ taken' = taken \cup {gap.name}
          ELSE /\ rows' = Append(rows, row)
               /\ UNCHANGED taken
     /\ nextBit' = row.msb + 1
  /\ placed' = placed + 1
  /\ UNCHANGED <<reg, padTail, phase, entries, findings, resetValue, access>>

\* The tail of the register, then the values _scan_reg takes from the rows.
Complete ==
  /\ phase = "placing"
  /\ placed = Len(entries)
  /\ phase' = "done"
  /\ IF padTail /\ nextBit < reg.regwidth
       THEN LET tail == ReservedRow(nextBit, reg.regwidth - 1) IN
            /\ rows' = Append(rows, tail)
            /\ taken' = taken \cup {tail.name}
            /\ nextBit' = reg.regwidth
       ELSE UNCHANGED <<rows, taken, nextBit>>
  /\ resetValue' = ResetValue(rows')
  /\ access' = Derive(AccessesOf(reg))
  /\ findings' = IF AccessesOf(reg) = {"na"} THEN Append(findings, "W107") ELSE findings
  /\ UNCHANGED <<reg, padTail, entries, placed>>

Next ==
  \/ NameField
  \/ SortEntries
  \/ PlaceRow
  \/ Complete

Spec == Init /\ [][Next]_vars

----------------------------------------------------------------------------
\* Bits are counted from 0 to the width, and rows are rows.
LayoutTypeOK ==
  /\ phase \in {"naming", "placing", "done"}
  /\ padTail \in BOOLEAN
  /\ nextBit \in 0 .. reg.regwidth
  /\ \A e \in Range(entries) \cup Range(rows) :
       /\ e.lsb \in Nat /\ e.msb \in Nat /\ e.width \in Nat
       /\ e.reserved \in BOOLEAN

\* The invariant the module states and the Validator asserts (layout.py:5-9,
\* validate.py:30-43), of a register whose fields do not overlap: rows start at
\* bit 0, each where the one before it ends, none is empty or past the register,
\* and a width is that of its bit range.
RowsCover ==
  FieldsDisjoint(reg) =>
    /\ \A i \in DOMAIN rows :
         /\ rows[i].lsb = IF i = 1 THEN 0 ELSE rows[i - 1].msb + 1
         /\ rows[i].lsb <= rows[i].msb
         /\ rows[i].msb < reg.regwidth
         /\ rows[i].width = rows[i].msb - rows[i].lsb + 1
    /\ nextBit = IF rows = << >> THEN 0 ELSE rows[Len(rows)].msb + 1

\* A legal register that packed_s cannot hold is never emitted: the Validator
\* stops at the rows of exactly the registers with overlapping fields, though
\* build_rows goes through them without noticing (layout.py:149-153).
OverlapIsCaught == phase = "done" => (Accepted(rows) <=> FieldsDisjoint(reg))

\* The bit at which packed_s puts the i-th member: the widths before it.
PackedAt(i) ==
  LET at[j \in 1 .. i] == IF j = 1 THEN 0 ELSE at[j - 1] + rows[j - 1].width
  IN  at[i]

\* In a register the Validator lets through, every field is one member of the
\* struct, and packed_s puts it at the bits the description gives it; the
\* members between are reserved.
FieldsKeepTheirBits ==
  phase = "done" /\ Accepted(rows) =>
    /\ \A i \in DOMAIN reg.fields :
         LET f == reg.fields[i] IN
         Cardinality({j \in DOMAIN rows :
           /\ rows[j].rdl = f.name
           /\ PackedAt(j) = f.low
           /\ PackedAt(j) + rows[j].width - 1 = f.high}) = 1
    /\ Cardinality({j \in DOMAIN rows : ~rows[j].reserved}) = Len(reg.fields)

\* Members have distinct names, and a reserved member never takes one from a
\* field: a field is renamed for its spelling, a reserved word or another field.
ReservedNamesYield ==
  /\ \A i, j \in DOMAIN rows : i # j => rows[i].name # rows[j].name
  /\ \A i \in DOMAIN entries :
       entries[i].name # entries[i].rdl =>
         \/ Sanitize(entries[i].rdl) # entries[i].rdl
         \/ entries[i].rdl \in Reserved
         \/ \E j \in DOMAIN entries \ {i} : entries[j].name = entries[i].rdl

\* In the reset of a register the Validator lets through, each field with a
\* literal reset reads as that reset, whatever the other fields have, and every
\* other bit as zero.  The reset is absent, not zero, when no field has a literal.
ResetIsExact ==
  phase = "done" /\ Accepted(rows) =>
    LET literal == {f \in Range(reg.fields) : f.reset \notin {NoReset, RefReset}} IN
    IF literal = {} THEN resetValue = NoReset
    ELSE /\ resetValue \subseteq UNION {f.low .. f.high : f \in literal}
         /\ \A f \in literal : \A b \in f.low .. f.high :
              b \in resetValue <=> b - f.low \in f.reset

\* Software may read or write the register exactly when it may read or write
\* one of its fields; a register with no accessible field is read-only and
\* reported.
AccessIsUnion ==
  phase = "done" =>
    LET reads  == \E i \in DOMAIN reg.fields : SoftwareReads(reg.fields[i].sw)
        writes == \E i \in DOMAIN reg.fields : SoftwareWrites(reg.fields[i].sw)
    IN  /\ access \in {"READWRITE", "WRITEONLY"} <=> writes
        /\ reads => access \in {"READWRITE", "READONLY"}
        /\ access = "READWRITE" => reads
        /\ ~reads /\ ~writes <=> "W107" \in Range(findings)

\* A register passes without a warning exactly when the bits, the resets and the
\* access it is emitted with say all that SystemRDL said of its fields in
\* `sw`, `reset` and the properties lossiness asks for (`effects`).  A write-only
\* pulse is said in full; one that reads back is not.  Of what is said of the
\* register as a whole only msb0 counts: its endianness is lost in silence, here
\* as there.
WarnedExactlyWhenLossy ==
  phase = "done" =>
    LET faithful(f) == /\ f.effects \in {{}, {"singlepulse"}}
                       /\ f.effects = {"singlepulse"} => f.sw \in {"w", "w1", "na"}
                       /\ f.sw \notin {"rw1", "w1"}
                       /\ f.reset # RefReset
    IN  Range(findings) \subseteq {"I201"} <=>
          /\ \A i \in DOMAIN reg.fields : faithful(reg.fields[i])
          /\ \E i \in DOMAIN reg.fields : reg.fields[i].sw # "na"
          /\ ~reg.msb0
=============================================================================
