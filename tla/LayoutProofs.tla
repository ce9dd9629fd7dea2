---------------------------- MODULE LayoutProofs ----------------------------
(***************************************************************************)
(* For every register of every width: the rows build_rows makes of disjoint *)
(* fields are contiguous from bit 0 and end within the register            *)
(* (RowsCover), and rows of overlapping fields never pass the Validator    *)
(* (OverlapIsCaught).                                                      *)
(*                                                                         *)
(* The inductive invariant says that every row fits the register and that  *)
(* next_bit is where the last one ends, that the sorted entries are the    *)
(* fields in another order, and that next_bit is at most where the next    *)
(* entry starts if the fields are disjoint.  If the rows so far abut, the  *)
(* entries in them are in order and apart: an overlap leaves a mark.       *)
(*                                                                         *)
(* NamesInv says the same of names: an entry that is not placed yet has a  *)
(* name that is taken and on no row, so a reserved row cannot have it      *)
(* (ReservedNamesYield).                                                   *)
(*                                                                         *)
(* FindingsInv says which findings the fields named so far have caused; at *)
(* the end that decides AccessIsUnion and WarnedExactlyWhenLossy.          *)
(*                                                                         *)
(* ContentInv says that the rows hold every entry placed so far once, and  *)
(* nothing else that is not reserved.  With the rows in order, as the      *)
(* Validator wants them, that fixes where packed_s puts each field         *)
(* (FieldsKeepTheirBits) and what each bit of the reset is (ResetIsExact). *)
(* What PackedAt computes follows by the least member where it could be    *)
(* wrong (LeastNatural).                                                   *)
(***************************************************************************)
EXTENDS Layout, IdentifiersProofs

Row == [name : Name, rdl : Name, width : Int, lsb : Nat, msb : Nat,
        reset : {NoReset, RefReset} \cup SUBSET Nat, reserved : BOOLEAN]

\* A row as wide as its bits, inside a register of the given width.
Fits(row, width) ==
  /\ row.lsb <= row.msb
  /\ row.msb < width
  /\ row.width = row.msb - row.lsb + 1

EndOf(s) == IF s = << >> THEN 0 ELSE s[Len(s)].msb + 1

Abutting(s) == \A i \in DOMAIN s : s[i].lsb = IF i = 1 THEN 0 ELSE s[i - 1].msb + 1

\* The entries are the fields, in the order of their bits.
Sorted(order) ==
  /\ order \in Bijection(DOMAIN reg.fields, DOMAIN reg.fields)
  /\ DOMAIN entries = DOMAIN reg.fields
  /\ \A i \in DOMAIN entries : /\ entries[i].lsb = reg.fields[order[i]].low
                                /\ entries[i].msb = reg.fields[order[i]].high
  /\ \A i, j \in DOMAIN entries : i < j => entries[i].lsb <= entries[j].lsb

EntriesInv ==
  /\ entries \in Seq(Row)
  /\ Len(entries) <= Len(reg.fields)
  /\ \A i \in DOMAIN entries : Fits(entries[i], reg.regwidth)
  /\ phase = "naming" =>
       \A i \in DOMAIN entries : /\ entries[i].lsb = reg.fields[i].low
                                 /\ entries[i].msb = reg.fields[i].high
  /\ phase # "naming" => \E order : Sorted(order)

RowsInv ==
  /\ rows \in Seq(Row)
  /\ nextBit \in Nat
  /\ nextBit <= reg.regwidth
  /\ \A i \in DOMAIN rows : Fits(rows[i], reg.regwidth)
  /\ nextBit = EndOf(rows)
  /\ FieldsDisjoint(reg) => Abutting(rows)

PlacedInv ==
  /\ placed \in 0 .. Len(entries)
  /\ phase = "naming" => placed = 0 /\ nextBit = 0
  /\ phase = "done" => placed = Len(entries)
  /\ FieldsDisjoint(reg) /\ phase = "placing" =>
       \A i \in DOMAIN entries : placed < i => nextBit <= entries[i].lsb

\* Rows that abut hold their entries in order and apart.
MarkInv ==
  Abutting(rows) =>
    /\ \A i \in DOMAIN entries : i <= placed => entries[i].msb < nextBit
    /\ \A i, j \in DOMAIN entries :
         i < j /\ j <= placed => entries[i].msb < entries[j].lsb

LayoutInv ==
  /\ reg \in Registers
  /\ phase \in {"naming", "placing", "done"}
  /\ padTail \in BOOLEAN
  /\ IsFiniteSet(taken)
  /\ EntriesInv
  /\ RowsInv
  /\ PlacedInv
  /\ MarkInv

----------------------------------------------------------------------------
\* A sequence of rows with one more.
LEMMA AppendRow ==
  ASSUME NEW s \in Seq(Row), NEW r \in Row
  PROVE  /\ Append(s, r) \in Seq(Row)
         /\ Append(s, r) # << >>
         /\ Len(Append(s, r)) = Len(s) + 1
         /\ DOMAIN s = 1 .. Len(s)
         /\ DOMAIN Append(s, r) = 1 .. Len(s) + 1
         /\ \A i \in DOMAIN s : Append(s, r)[i] = s[i]
         /\ Append(s, r)[Len(s) + 1] = r
OBVIOUS

\* A row that fits goes at the end; the rows still abut exactly when it starts
\* where they ended.
LEMMA Extend ==
  ASSUME NEW s \in Seq(Row), NEW r \in Row, NEW width \in Nat,
         \A i \in DOMAIN s : Fits(s[i], width), Fits(r, width)
  PROVE  /\ Append(s, r) \in Seq(Row)
         /\ \A i \in DOMAIN Append(s, r) : Fits(Append(s, r)[i], width)
         /\ EndOf(Append(s, r)) = r.msb + 1
         /\ Abutting(Append(s, r)) <=> Abutting(s) /\ r.lsb = EndOf(s)
<1>1. PICK t : t = Append(s, r)
  OBVIOUS
<1>2. /\ t \in Seq(Row) /\ t # << >> /\ Len(t) = Len(s) + 1 /\ DOMAIN s = 1 .. Len(s)
      /\ DOMAIN t = 1 .. Len(s) + 1
      /\ \A i \in DOMAIN s : t[i] = s[i]
      /\ t[Len(s) + 1] = r
      /\ Len(s) \in Nat
  BY <1>1, AppendRow
<1>3. s = << >> <=> Len(s) = 0
  OBVIOUS
<1>4. \A i \in DOMAIN t : Fits(t[i], width)
  BY <1>2
<1>5. EndOf(t) = r.msb + 1
  BY <1>2 DEF EndOf
<1>6. ASSUME NEW i \in DOMAIN s
      PROVE  /\ i \in DOMAIN t /\ t[i] = s[i]
             /\ i # 1 => i - 1 \in DOMAIN s /\ t[i - 1] = s[i - 1]
  BY <1>2
<1>7. PICK k : k = Len(s) + 1 /\ k \in DOMAIN t /\ t[k] = r
  BY <1>2
<1>8. EndOf(s) = IF k = 1 THEN 0 ELSE t[k - 1].msb + 1
  <2>1. k = 1 <=> s = << >>
    BY <1>2, <1>3, <1>7
  <2>2. k # 1 => k - 1 \in DOMAIN s /\ k - 1 = Len(s)
    BY <1>2, <1>7
  <2>3. k # 1 => t[k - 1] = s[Len(s)]
    BY <1>2, <2>2
  <2> QED BY <2>1, <2>3 DEF EndOf
<1>9. ASSUME Abutting(t) PROVE Abutting(s) /\ r.lsb = EndOf(s)
  <2>1. r.lsb = EndOf(s)
    BY <1>7, <1>8, <1>9 DEF Abutting
  <2> QED BY <1>6, <1>9, <2>1 DEF Abutting
<1>10. ASSUME Abutting(s), r.lsb = EndOf(s) PROVE Abutting(t)
  <2> SUFFICES ASSUME NEW i \in DOMAIN t
               PROVE  t[i].lsb = IF i = 1 THEN 0 ELSE t[i - 1].msb + 1
    BY DEF Abutting
  <2>1. CASE i \in DOMAIN s
    BY <1>6, <1>10, <2>1 DEF Abutting
  <2>2. CASE i = k
    BY <1>7, <1>8, <1>10, <2>2
  <2> QED BY <1>2, <1>7, <2>1, <2>2
<1> QED BY <1>1, <1>2, <1>4, <1>5, <1>9, <1>10

\* A reserved row spans the bits it is asked for.
LEMMA ReservedRowFits ==
  ASSUME IsFiniteSet(taken), NEW low \in Nat, NEW high \in Nat, NEW width \in Nat,
         low <= high, high < width
  PROVE  LET row == ReservedRow(low, high) IN
         /\ row \in Row
         /\ row.lsb = low
         /\ row.msb = high
         /\ Fits(row, width)
         /\ row.name \in Name
<1>1. ReservedName(low) \in Name
  BY SuffixTokens, AppendedToken, TextsAssumption, PrefixAssumption, Zenon
    DEF ReservedName
<1>2. PICK name : name = Mangle(ReservedName(low), taken)
  OBVIOUS
<1>3. name \in Name
  BY <1>1, <1>2, MangleFresh
<1>4. << >> \in Name
  BY DEF Name
<1>5. ReservedRow(low, high) = FieldRow(name, << >>, low, high, NoReset, TRUE)
  BY <1>2 DEF ReservedRow
<1> QED BY <1>3, <1>4, <1>5 DEF FieldRow, Row, Fits

\* The facts about a register the compiler grants.
LEMMA RegisterFacts ==
  ASSUME NEW r \in Registers
  PROVE  /\ r.regwidth \in Nat
         /\ Len(r.fields) \in Nat
         /\ DOMAIN r.fields = 1 .. Len(r.fields)
         /\ FieldsFit(r)
BY RegistersAssumption

\* Disjoint fields, sorted by where they start, follow one another.
LEMMA DisjointInOrder ==
  ASSUME reg \in Registers, EntriesInv, phase # "naming", FieldsDisjoint(reg),
         NEW i \in DOMAIN entries, NEW j \in DOMAIN entries, i < j
  PROVE  entries[i].msb < entries[j].lsb
<1>1. PICK order : Sorted(order)
  BY DEF EntriesInv
<1>2. /\ order[i] \in DOMAIN reg.fields /\ order[j] \in DOMAIN reg.fields
      /\ i \in Nat /\ j \in Nat
  <2>1. order \in [DOMAIN reg.fields -> DOMAIN reg.fields]
    BY <1>1 DEF Sorted, Bijection, Injection
  <2>2. DOMAIN entries = DOMAIN reg.fields
    BY <1>1 DEF Sorted
  <2>3. DOMAIN reg.fields \subseteq Nat
    BY RegisterFacts
  <2> QED BY <2>1, <2>2, <2>3
<1>3. order[i] # order[j]
  BY <1>1, <1>2 DEF Sorted, Bijection, Injection, IsInjective
<1>4. \/ entries[i].msb < entries[j].lsb
      \/ entries[j].msb < entries[i].lsb
  BY <1>1, <1>2, <1>3 DEF Sorted, FieldsDisjoint
<1>5. entries[i].lsb <= entries[j].lsb
  BY <1>1 DEF Sorted
<1>6. /\ entries[i] \in Row /\ entries[j] \in Row
      /\ Fits(entries[i], reg.regwidth) /\ Fits(entries[j], reg.regwidth)
  BY DEF EntriesInv
<1> QED BY <1>4, <1>5, <1>6 DEF Row, Fits

\* Entries that follow one another are disjoint fields.
LEMMA InOrderDisjoint ==
  ASSUME reg \in Registers, EntriesInv, phase # "naming",
         \A i, j \in DOMAIN entries : i < j => entries[i].msb < entries[j].lsb
  PROVE  FieldsDisjoint(reg)
<1>1. PICK order : Sorted(order)
  BY DEF EntriesInv
<1> SUFFICES ASSUME NEW a \in DOMAIN reg.fields, NEW b \in DOMAIN reg.fields, a # b
             PROVE  \/ reg.fields[a].high < reg.fields[b].low
                    \/ reg.fields[b].high < reg.fields[a].low
  BY DEF FieldsDisjoint
<1>2. PICK i \in DOMAIN entries, j \in DOMAIN entries : order[i] = a /\ order[j] = b
  BY <1>1 DEF Sorted, Bijection, Surjection
<1>3. i \in Nat /\ j \in Nat /\ i # j
  BY <1>1, <1>2, RegisterFacts DEF Sorted
<1>4. i < j \/ j < i
  BY <1>3
<1> QED BY <1>1, <1>2, <1>4 DEF Sorted

----------------------------------------------------------------------------
\* A register starts with no row.
LEMMA LayoutInit == Init => LayoutInv
<1> SUFFICES ASSUME Init PROVE LayoutInv
  OBVIOUS
<1>1. /\ reg \in Registers /\ phase = "naming" /\ padTail \in BOOLEAN
      /\ entries = << >> /\ placed = 0 /\ taken = {} /\ rows = << >> /\ nextBit = 0
  BY DEF Init
<1>2. reg.regwidth \in Nat /\ Len(reg.fields) \in Nat
  BY <1>1, RegisterFacts
<1>3. IsFiniteSet(taken)
  BY <1>1, FS_EmptySet
<1>4. EntriesInv
  BY <1>1, <1>2 DEF EntriesInv
<1>5. RowsInv
  BY <1>1, <1>2 DEF RowsInv, Abutting, EndOf
<1>6. PlacedInv
  BY <1>1 DEF PlacedInv
<1>7. MarkInv
  BY <1>1 DEF MarkInv
<1> QED BY <1>1, <1>3, <1>4, <1>5, <1>6, <1>7 DEF LayoutInv

\* Naming a field adds its entry.
LEMMA NameStep == LayoutInv /\ NameField => LayoutInv'
<1> SUFFICES ASSUME LayoutInv, NameField PROVE LayoutInv'
  OBVIOUS
<1> DEFINE k == Len(entries) + 1
<1>1. PICK f, name :
        /\ f = reg.fields[k]
        /\ name = Mangle(f.name, taken)
        /\ entries' = Append(entries, FieldRow(name, f.name, f.low, f.high, ResetOf(f), FALSE))
        /\ taken' = taken \cup {name}
  BY DEF NameField
<1>2. /\ phase = "naming" /\ Len(entries) < Len(reg.fields)
      /\ UNCHANGED <<reg, padTail, phase, placed, rows, nextBit>>
  BY DEF NameField
<1>3. /\ reg \in Registers /\ phase = "naming" /\ IsFiniteSet(taken)
      /\ entries \in Seq(Row) /\ Len(entries) \in Nat
      /\ DOMAIN entries = 1 .. Len(entries)
      /\ placed = 0
  BY <1>2 DEF LayoutInv, EntriesInv, PlacedInv
<1>4. /\ reg.regwidth \in Nat /\ Len(reg.fields) \in Nat
      /\ k \in DOMAIN reg.fields
      /\ FieldsFit(reg)
  BY <1>2, <1>3, RegisterFacts
<1>5. /\ f.low \in Nat /\ f.high \in Nat /\ f.low <= f.high /\ f.high < reg.regwidth
      /\ f.name \in Name
      /\ ResetOf(f) \in {NoReset, RefReset} \cup SUBSET Nat
  BY <1>1, <1>4 DEF FieldsFit, ResetOf
<1>6. name \in Name
  BY <1>1, <1>3, <1>5, MangleFresh
<1>7. PICK row : row = FieldRow(name, f.name, f.low, f.high, ResetOf(f), FALSE)
  OBVIOUS
<1>8. /\ row \in Row /\ Fits(row, reg.regwidth)
      /\ row.lsb = f.low /\ row.msb = f.high
  BY <1>5, <1>6, <1>7 DEF FieldRow, Row, Fits
<1>9. /\ entries' \in Seq(Row) /\ Len(entries') = k
      /\ DOMAIN entries' = 1 .. k
      /\ \A i \in DOMAIN entries : entries'[i] = entries[i]
      /\ entries'[k] = row
  BY <1>1, <1>3, <1>7, <1>8, AppendRow
<1>10. \A i \in DOMAIN entries' :
         /\ entries'[i].lsb = reg.fields[i].low
         /\ entries'[i].msb = reg.fields[i].high
         /\ Fits(entries'[i], reg.regwidth)
  <2> SUFFICES ASSUME NEW i \in DOMAIN entries'
               PROVE  /\ entries'[i].lsb = reg.fields[i].low
                      /\ entries'[i].msb = reg.fields[i].high
                      /\ Fits(entries'[i], reg.regwidth)
    OBVIOUS
  <2>1. CASE i \in DOMAIN entries
    BY <1>2, <1>9, <2>1 DEF LayoutInv, EntriesInv
  <2>2. CASE i = k
    BY <1>1, <1>8, <1>9, <2>2
  <2> QED BY <1>3, <1>9, <2>1, <2>2
<1>11. EntriesInv'
  BY <1>2, <1>3, <1>4, <1>9, <1>10 DEF EntriesInv
<1>12. RowsInv'
  BY <1>2 DEF LayoutInv, RowsInv, FieldsDisjoint, Abutting, EndOf
<1>13. PlacedInv'
  BY <1>2, <1>3, <1>9 DEF LayoutInv, PlacedInv
<1>14. MarkInv'
  BY <1>2, <1>3, <1>9 DEF MarkInv
<1>15. IsFiniteSet(taken')
  BY <1>1, <1>3, FS_AddElement
<1> QED BY <1>2, <1>11, <1>12, <1>13, <1>14, <1>15 DEF LayoutInv

\* Sorting puts the entries in the order of their bits.
LEMMA SortStep == LayoutInv /\ SortEntries => LayoutInv'
<1> SUFFICES ASSUME LayoutInv, SortEntries PROVE LayoutInv'
  OBVIOUS
<1>1. /\ phase = "naming" /\ phase' = "placing"
      /\ UNCHANGED <<reg, padTail, placed, taken, rows, nextBit>>
      /\ Len(entries) = Len(reg.fields)
  BY DEF SortEntries
<1>2. /\ entries \in Seq(Row) /\ Len(entries) \in Nat
      /\ DOMAIN entries = 1 .. Len(entries)
      /\ DOMAIN entries = DOMAIN reg.fields
      /\ \A i \in DOMAIN entries : /\ entries[i] \in Row /\ Fits(entries[i], reg.regwidth)
                                   /\ entries[i].lsb = reg.fields[i].low
                                   /\ entries[i].msb = reg.fields[i].high
      /\ placed = 0 /\ nextBit = 0
      /\ reg \in Registers
  BY <1>1, RegisterFacts DEF LayoutInv, EntriesInv, PlacedInv
<1>3. PICK order \in Bijection(DOMAIN entries, DOMAIN entries) :
        /\ entries' = [i \in DOMAIN entries |-> entries[order[i]]]
        /\ \A i, j \in DOMAIN entries : i < j =>
             \/ entries[order[i]].lsb < entries[order[j]].lsb
             \/ entries[order[i]].lsb = entries[order[j]].lsb /\ order[i] < order[j]
  BY DEF SortEntries
<1>4. order \in [DOMAIN entries -> DOMAIN entries]
  BY DEF Bijection, Injection
<1>5. /\ entries' \in Seq(Row) /\ Len(entries') = Len(entries)
      /\ DOMAIN entries' = DOMAIN entries
      /\ \A i \in DOMAIN entries : entries'[i] = entries[order[i]]
  <2>1. \A i \in DOMAIN entries : order[i] \in DOMAIN entries
    BY <1>4
  <2>2. \A i \in DOMAIN entries : entries[order[i]] \in Row
    BY <1>2, <2>1
  <2>3. entries' = [i \in 1 .. Len(entries) |-> entries[order[i]]]
    BY <1>2, <1>3
  <2> QED BY <1>2, <2>2, <2>3
<1>6. \A i \in DOMAIN entries' : entries'[i] \in Row /\ Fits(entries'[i], reg.regwidth)
  BY <1>2, <1>4, <1>5
<1>7. Sorted(order)'
  <2>1. order \in Bijection(DOMAIN reg.fields', DOMAIN reg.fields')
    BY <1>1, <1>2
  <2>2. \A i \in DOMAIN entries' : /\ entries'[i].lsb = reg.fields[order[i]].low
                                   /\ entries'[i].msb = reg.fields[order[i]].high
    BY <1>2, <1>4, <1>5
  <2>3. ASSUME NEW i \in DOMAIN entries', NEW j \in DOMAIN entries', i < j
        PROVE  entries'[i].lsb <= entries'[j].lsb
    <3>1. \/ entries'[i].lsb < entries'[j].lsb
          \/ entries'[i].lsb = entries'[j].lsb
      BY <1>3, <1>5, <2>3
    <3> QED BY <1>6, <3>1 DEF Row
  <2> QED BY <1>1, <1>2, <1>5, <2>1, <2>2, <2>3 DEF Sorted
<1>8. EntriesInv'
  BY <1>1, <1>2, <1>5, <1>6, <1>7 DEF EntriesInv
<1>9. RowsInv'
  BY <1>1 DEF LayoutInv, RowsInv, FieldsDisjoint, Abutting, EndOf
<1>10. PlacedInv'
  <2>1. \A i \in DOMAIN entries' : 0 <= entries'[i].lsb
    BY <1>6 DEF Row
  <2>2. placed' \in 0 .. Len(entries')
    BY <1>1, <1>2, <1>5
  <2> QED BY <1>1, <1>2, <2>1, <2>2 DEF PlacedInv
<1>11. MarkInv'
  BY <1>1, <1>2, <1>5 DEF MarkInv
<1> QED BY <1>1, <1>8, <1>9, <1>10, <1>11 DEF LayoutInv

\* Placing an entry keeps the rows within the register, and apart if the fields are.
LEMMA PlaceStep == LayoutInv /\ PlaceRow => LayoutInv'
<1> SUFFICES ASSUME LayoutInv, PlaceRow PROVE LayoutInv'
  OBVIOUS
<1> DEFINE k == placed + 1
<1>1. /\ phase = "placing" /\ placed < Len(entries) /\ placed' = k
      /\ UNCHANGED <<reg, padTail, phase, entries>>
  BY DEF PlaceRow
<1>2. /\ reg \in Registers /\ reg.regwidth \in Nat /\ IsFiniteSet(taken)
      /\ entries \in Seq(Row) /\ Len(entries) \in Nat /\ DOMAIN entries = 1 .. Len(entries)
      /\ rows \in Seq(Row) /\ nextBit \in Nat /\ nextBit = EndOf(rows)
      /\ \A i \in DOMAIN rows : Fits(rows[i], reg.regwidth)
      /\ placed \in Nat /\ k \in DOMAIN entries
  BY <1>1, RegisterFacts DEF LayoutInv, EntriesInv, RowsInv, PlacedInv
<1>3. PICK row, gap :
        /\ row = entries[k]
        /\ gap = ReservedRow(nextBit, row.lsb - 1)
        /\ IF row.lsb > nextBit
             THEN /\ rows' = Append(Append(rows, gap), row)
                  /\ taken' = taken \cup {gap.name}
             ELSE /\ rows' = Append(rows, row)
                  /\ UNCHANGED taken
        /\ nextBit' = row.msb + 1
  BY DEF PlaceRow
<1>4. ASSUME NEW i \in DOMAIN entries
      PROVE  /\ entries[i] \in Row /\ Fits(entries[i], reg.regwidth)
             /\ entries[i].lsb \in Nat /\ entries[i].msb \in Nat
             /\ entries[i].lsb <= entries[i].msb
  <2>1. entries[i] \in Row
    BY <1>2
  <2>2. Fits(entries[i], reg.regwidth)
    BY DEF LayoutInv, EntriesInv
  <2> QED BY <2>1, <2>2 DEF Row, Fits
<1>5. /\ row \in Row /\ Fits(row, reg.regwidth)
      /\ row.lsb \in Nat /\ row.msb \in Nat
      /\ row.lsb <= row.msb /\ row.msb < reg.regwidth
  BY <1>2, <1>3, <1>4 DEF Fits
<1>6. /\ rows' \in Seq(Row) /\ IsFiniteSet(taken')
      /\ \A i \in DOMAIN rows' : Fits(rows'[i], reg.regwidth)
      /\ EndOf(rows') = row.msb + 1
      /\ Abutting(rows') <=> Abutting(rows) /\ nextBit <= row.lsb
  <2>1. CASE row.lsb > nextBit
    <3>1. /\ row.lsb - 1 \in Nat /\ nextBit <= row.lsb - 1
          /\ row.lsb - 1 < reg.regwidth
      BY <1>2, <1>5, <2>1
    <3>2. /\ gap \in Row /\ Fits(gap, reg.regwidth)
          /\ gap.lsb = nextBit /\ gap.msb = row.lsb - 1
      BY <1>2, <1>3, <3>1, ReservedRowFits
    <3>3. PICK longer : longer = Append(rows, gap)
      OBVIOUS
    <3>4. /\ longer \in Seq(Row)
          /\ \A i \in DOMAIN longer : Fits(longer[i], reg.regwidth)
          /\ EndOf(longer) = gap.msb + 1
          /\ Abutting(longer) <=> Abutting(rows)
      BY <1>2, <3>2, <3>3, Extend
    <3>5. row.lsb = EndOf(longer) /\ nextBit <= row.lsb
      BY <1>2, <1>5, <2>1, <3>2, <3>4
    <3>6. rows' = Append(longer, row)
      BY <1>3, <2>1, <3>3
    <3>7. IsFiniteSet(taken')
      <4>1. taken' = taken \cup {gap.name}
        BY <1>3, <2>1
      <4> QED BY <1>2, <4>1, FS_AddElement
    <3>8. /\ rows' \in Seq(Row)
          /\ \A i \in DOMAIN rows' : Fits(rows'[i], reg.regwidth)
          /\ EndOf(rows') = row.msb + 1
          /\ Abutting(rows') <=> Abutting(longer) /\ row.lsb = EndOf(longer)
      BY <1>2, <1>5, <3>4, <3>6, Extend
    <3> QED BY <3>4, <3>5, <3>7, <3>8
  <2>2. CASE ~(row.lsb > nextBit)
    <3>1. rows' = Append(rows, row) /\ taken' = taken
      BY <1>3, <2>2
    <3>2. row.lsb = nextBit <=> nextBit <= row.lsb
      BY <1>2, <1>5, <2>2
    <3>3. /\ rows' \in Seq(Row)
          /\ \A i \in DOMAIN rows' : Fits(rows'[i], reg.regwidth)
          /\ EndOf(rows') = row.msb + 1
          /\ Abutting(rows') <=> Abutting(rows) /\ row.lsb = nextBit
      BY <1>2, <1>5, <3>1, Extend
    <3> QED BY <1>2, <3>1, <3>2, <3>3
  <2> QED BY <2>1, <2>2
<1>7. nextBit' \in Nat /\ nextBit' <= reg.regwidth
  BY <1>2, <1>3, <1>5
<1>8. FieldsDisjoint(reg) => Abutting(rows) /\ nextBit <= row.lsb
  BY <1>1, <1>2, <1>3 DEF LayoutInv, RowsInv, PlacedInv
<1>9. RowsInv'
  BY <1>1, <1>3, <1>6, <1>7, <1>8 DEF RowsInv, FieldsDisjoint, Abutting, EndOf
<1>10. EntriesInv'
  BY <1>1 DEF LayoutInv, EntriesInv, Sorted
<1>11. PlacedInv'
  <2>1. ASSUME FieldsDisjoint(reg), NEW i \in DOMAIN entries, k < i
        PROVE  row.msb + 1 <= entries[i].lsb
    <3>1. row.msb < entries[i].lsb
      BY <1>1, <1>2, <1>3, <2>1, DisjointInOrder DEF LayoutInv
    <3> QED BY <1>4, <1>5, <3>1
  <2>2. placed' \in 0 .. Len(entries')
    BY <1>1, <1>2
  <2> QED BY <1>1, <1>3, <2>1, <2>2 DEF PlacedInv, FieldsDisjoint
<1>12. MarkInv'
  <2> SUFFICES ASSUME Abutting(rows')
               PROVE  /\ \A i \in DOMAIN entries : i <= k => entries[i].msb < row.msb + 1
                      /\ \A i, j \in DOMAIN entries :
                           i < j /\ j <= k => entries[i].msb < entries[j].lsb
    BY <1>1, <1>3 DEF MarkInv, Abutting
  <2>1. /\ nextBit <= row.lsb
        /\ \A i \in DOMAIN entries : i <= placed => entries[i].msb < nextBit
        /\ \A i, j \in DOMAIN entries :
             i < j /\ j <= placed => entries[i].msb < entries[j].lsb
    BY <1>6 DEF LayoutInv, MarkInv
  <2>2. ASSUME NEW i \in DOMAIN entries, i <= placed
        PROVE  entries[i].msb < row.lsb
    BY <1>2, <1>4, <1>5, <2>1, <2>2
  <2>3. ASSUME NEW i \in DOMAIN entries, i <= k PROVE entries[i].msb < row.msb + 1
    <3>1. i <= placed \/ i = k
      BY <1>2, <2>3
    <3>2. CASE i <= placed
      BY <1>4, <1>5, <2>2, <3>2
    <3>3. CASE i = k
      BY <1>3, <1>5, <3>3
    <3> QED BY <3>1, <3>2, <3>3
  <2>4. ASSUME NEW i \in DOMAIN entries, NEW j \in DOMAIN entries, i < j, j <= k
        PROVE  entries[i].msb < entries[j].lsb
    <3>1. j <= placed \/ (j = k /\ i <= placed)
      BY <1>2, <2>4
    <3> QED BY <1>3, <2>1, <2>2, <2>4, <3>1
  <2> QED BY <2>3, <2>4
<1> QED BY <1>1, <1>6, <1>9, <1>10, <1>11, <1>12 DEF LayoutInv

\* The tail ends at the register's last bit.
LEMMA CompleteStep == LayoutInv /\ Complete => LayoutInv'
<1> SUFFICES ASSUME LayoutInv, Complete PROVE LayoutInv'
  OBVIOUS
<1>1. /\ phase = "placing" /\ phase' = "done" /\ placed = Len(entries)
      /\ UNCHANGED <<reg, padTail, entries, placed>>
  BY DEF Complete
<1>2. /\ reg \in Registers /\ reg.regwidth \in Nat /\ IsFiniteSet(taken)
      /\ rows \in Seq(Row) /\ nextBit \in Nat /\ nextBit <= reg.regwidth
      /\ nextBit = EndOf(rows)
      /\ \A i \in DOMAIN rows : Fits(rows[i], reg.regwidth)
      /\ FieldsDisjoint(reg) => Abutting(rows)
      /\ \A i \in DOMAIN entries : entries[i].msb \in Nat
  <2>1. reg \in Registers /\ reg.regwidth \in Nat
    BY RegisterFacts DEF LayoutInv
  <2>2. \A i \in DOMAIN entries : entries[i] \in Row
    BY DEF LayoutInv, EntriesInv
  <2>3. \A i \in DOMAIN entries : entries[i].msb \in Nat
    BY <2>2 DEF Row
  <2> QED BY <2>1, <2>3 DEF LayoutInv, RowsInv
<1>3. PICK tail : tail = ReservedRow(nextBit, reg.regwidth - 1)
  OBVIOUS
<1>4. \/ /\ nextBit < reg.regwidth
         /\ rows' = Append(rows, tail)
         /\ taken' = taken \cup {tail.name}
         /\ nextBit' = reg.regwidth
      \/ UNCHANGED <<rows, taken, nextBit>>
  BY <1>3 DEF Complete
<1>5. /\ rows' \in Seq(Row) /\ IsFiniteSet(taken')
      /\ \A i \in DOMAIN rows' : Fits(rows'[i], reg.regwidth)
      /\ nextBit' = EndOf(rows')
      /\ nextBit' \in Nat /\ nextBit <= nextBit' /\ nextBit' <= reg.regwidth
      /\ Abutting(rows') <=> Abutting(rows)
  <2>1. CASE /\ nextBit < reg.regwidth
             /\ rows' = Append(rows, tail)
             /\ taken' = taken \cup {tail.name}
             /\ nextBit' = reg.regwidth
    <3>1. /\ reg.regwidth - 1 \in Nat /\ nextBit <= reg.regwidth - 1
          /\ reg.regwidth - 1 < reg.regwidth
      BY <1>2, <2>1
    <3>2. /\ tail \in Row /\ Fits(tail, reg.regwidth)
          /\ tail.lsb = nextBit /\ tail.msb = reg.regwidth - 1
      BY <1>2, <1>3, <3>1, ReservedRowFits
    <3>3. /\ rows' \in Seq(Row)
          /\ \A i \in DOMAIN rows' : Fits(rows'[i], reg.regwidth)
          /\ EndOf(rows') = tail.msb + 1
          /\ Abutting(rows') <=> Abutting(rows)
      BY <1>2, <2>1, <3>2, Extend
    <3>4. tail.msb + 1 = reg.regwidth
      BY <1>2, <3>2
    <3>5. IsFiniteSet(taken')
      BY <1>2, <2>1, FS_AddElement
    <3>6. nextBit' = EndOf(rows') /\ nextBit' \in Nat /\ nextBit <= nextBit'
          /\ nextBit' <= reg.regwidth
      BY <1>2, <2>1, <3>3, <3>4
    <3> QED BY <3>3, <3>5, <3>6
  <2>2. CASE UNCHANGED <<rows, taken, nextBit>>
    <3>1. rows' = rows /\ taken' = taken /\ nextBit' = nextBit
      BY <2>2
    <3> QED BY <1>2, <3>1
  <2> QED BY <1>4, <2>1, <2>2
<1>6. RowsInv'
  BY <1>1, <1>2, <1>5 DEF RowsInv, FieldsDisjoint, Abutting, EndOf
<1>7. EntriesInv'
  BY <1>1 DEF LayoutInv, EntriesInv, Sorted
<1>8. PlacedInv'
  BY <1>1 DEF LayoutInv, PlacedInv
<1>9. MarkInv'
  <2> SUFFICES ASSUME Abutting(rows')
               PROVE  /\ \A i \in DOMAIN entries : i <= placed => entries[i].msb < nextBit'
                      /\ \A i, j \in DOMAIN entries :
                           i < j /\ j <= placed => entries[i].msb < entries[j].lsb
    BY <1>1 DEF MarkInv, Abutting
  <2>1. /\ \A i \in DOMAIN entries : i <= placed => entries[i].msb < nextBit
        /\ \A i, j \in DOMAIN entries :
             i < j /\ j <= placed => entries[i].msb < entries[j].lsb
    BY <1>5 DEF LayoutInv, MarkInv
  <2> QED BY <1>2, <1>5, <2>1
<1> QED BY <1>1, <1>5, <1>6, <1>7, <1>8, <1>9 DEF LayoutInv

\* What is known of the rows and of the entries at every step of build_rows.
THEOREM LayoutInvariance == Spec => []LayoutInv
<1>1. LayoutInv /\ [Next]_vars => LayoutInv'
  <2> SUFFICES ASSUME LayoutInv, [Next]_vars PROVE LayoutInv'
    OBVIOUS
  <2>1. CASE NameField
    BY <2>1, NameStep
  <2>2. CASE SortEntries
    BY <2>2, SortStep
  <2>3. CASE PlaceRow
    BY <2>3, PlaceStep
  <2>4. CASE Complete
    BY <2>4, CompleteStep
  <2>5. CASE UNCHANGED vars
    BY <2>5 DEF vars, LayoutInv, EntriesInv, RowsInv, PlacedInv, MarkInv,
                Sorted, FieldsDisjoint, Abutting, EndOf
  <2> QED BY <2>1, <2>2, <2>3, <2>4, <2>5 DEF Next
<1> QED BY <1>1, LayoutInit, PTL DEF Spec

\* The module's invariant, for every register: the rows of disjoint fields are
\* contiguous from bit 0, none is empty, and none reaches past the register.
THEOREM RowsAlwaysCover == Spec => []RowsCover
<1>1. LayoutInv => RowsCover
  BY DEF LayoutInv, RowsInv, Fits, Abutting, EndOf, RowsCover
<1> QED BY <1>1, LayoutInvariance, PTL

\* The assertions of the Validator stop exactly the registers whose fields
\* overlap, whatever the register and however its fields are ordered.
THEOREM OverlapAlwaysCaught == Spec => []OverlapIsCaught
<1>1. LayoutInv => OverlapIsCaught
  <2> SUFFICES ASSUME LayoutInv, phase = "done"
               PROVE  Accepted(rows) <=> FieldsDisjoint(reg)
    BY DEF OverlapIsCaught
  <2>1. /\ reg \in Registers /\ EntriesInv /\ placed = Len(entries)
        /\ rows \in Seq(Row)
        /\ \A i \in DOMAIN rows : Fits(rows[i], reg.regwidth)
        /\ FieldsDisjoint(reg) => Abutting(rows)
    BY DEF LayoutInv, RowsInv, PlacedInv
  <2>2. Accepted(rows) <=> Abutting(rows)
    <3>1. rows # << >> => Len(rows) \in DOMAIN rows
      BY <2>1
    <3> QED BY <2>1, <3>1 DEF Accepted, Abutting, Fits
  <2>3. ASSUME Abutting(rows) PROVE FieldsDisjoint(reg)
    <3>1. \A j \in DOMAIN entries : j <= placed
      BY <2>1 DEF EntriesInv
    <3>2. \A i, j \in DOMAIN entries : i < j => entries[i].msb < entries[j].lsb
      BY <2>3, <3>1 DEF LayoutInv, MarkInv
    <3> QED BY <2>1, <3>2, InOrderDisjoint
  <2> QED BY <2>1, <2>2, <2>3
<1> QED BY <1>1, LayoutInvariance, PTL

\* Bits stay in the register, and rows are rows.
THEOREM LayoutTypes == Spec => []LayoutTypeOK
<1>1. LayoutInv => LayoutTypeOK
  <2> SUFFICES ASSUME LayoutInv PROVE LayoutTypeOK
    OBVIOUS
  <2>1. /\ nextBit \in 0 .. reg.regwidth
        /\ entries \in Seq(Row) /\ rows \in Seq(Row)
    BY RegisterFacts DEF LayoutInv, EntriesInv, RowsInv
  <2>2. ASSUME NEW e \in Range(entries) \cup Range(rows)
        PROVE  e \in Row
    BY <2>1, <2>2 DEF Range
  <2>3. ASSUME NEW s \in Seq(Row), NEW i \in DOMAIN s, Fits(s[i], reg.regwidth)
        PROVE  s[i].width \in Nat
    <3>1. s[i] \in Row
      BY <2>3
    <3> QED BY <2>3, <3>1 DEF Fits, Row
  <2>4. ASSUME NEW e \in Range(entries) \cup Range(rows)
        PROVE  e.width \in Nat
    <3>1. CASE e \in Range(entries)
      BY <2>1, <2>3, <3>1 DEF Range, LayoutInv, EntriesInv
    <3>2. CASE e \in Range(rows)
      BY <2>1, <2>3, <3>2 DEF Range, LayoutInv, RowsInv
    <3> QED BY <2>4, <3>1, <3>2
  <2> QED BY <2>1, <2>2, <2>4 DEF LayoutTypeOK, LayoutInv, Row
<1> QED BY <1>1, LayoutInvariance, PTL

----------------------------------------------------------------------------
NamesIn(s) == {s[i].name : i \in DOMAIN s}

Distinct(s) == \A i, j \in DOMAIN s : i # j => s[i].name # s[j].name

RenamedForCause ==
  \A i \in DOMAIN entries :
    entries[i].name # entries[i].rdl =>
      \/ Sanitize(entries[i].rdl) # entries[i].rdl
      \/ entries[i].rdl \in Reserved
      \/ \E j \in DOMAIN entries \ {i} : entries[j].name = entries[i].rdl

\* Names in use are taken, and while fields are named nothing else is; the name
\* of an entry that is not placed yet is on no row.
NamesInv ==
  /\ Distinct(entries) /\ Distinct(rows)
  /\ NamesIn(entries) \subseteq taken /\ NamesIn(rows) \subseteq taken
  /\ \A j \in DOMAIN entries : placed < j => entries[j].name \notin NamesIn(rows)
  /\ phase = "naming" => rows = << >> /\ taken \subseteq NamesIn(entries)
  /\ RenamedForCause

\* A row with a name of its own joins the others.
LEMMA NameAppended ==
  ASSUME NEW s \in Seq(Row), NEW r \in Row, Distinct(s), r.name \notin NamesIn(s)
  PROVE  /\ Distinct(Append(s, r))
         /\ NamesIn(Append(s, r)) = NamesIn(s) \cup {r.name}
<1>1. PICK t : t = Append(s, r)
  OBVIOUS
<1>2. /\ DOMAIN t = DOMAIN s \cup {Len(s) + 1}
      /\ \A i \in DOMAIN s : t[i] = s[i]
      /\ t[Len(s) + 1] = r
  BY <1>1, AppendRow
<1>3. Distinct(t)
  BY <1>2 DEF Distinct, NamesIn
<1>4. NamesIn(t) = NamesIn(s) \cup {r.name}
  BY <1>2 DEF NamesIn
<1> QED BY <1>1, <1>3, <1>4

\* A reserved row takes a name that was free.
LEMMA ReservedRowNamed ==
  ASSUME IsFiniteSet(taken), NEW low \in Nat, NEW high \in Nat, NEW width \in Nat,
         low <= high, high < width
  PROVE  ReservedRow(low, high) \in Row /\ ReservedRow(low, high).name \notin taken
<1>1. ReservedName(low) \in Name
  BY SuffixTokens, AppendedToken, TextsAssumption, PrefixAssumption, Zenon
    DEF ReservedName
<1>2. Mangle(ReservedName(low), taken) \notin taken
  BY <1>1, MangleFresh
<1>3. ReservedRow(low, high).name = Mangle(ReservedName(low), taken)
  BY DEF ReservedRow, FieldRow
<1>4. ReservedRow(low, high) \in Row
  BY ReservedRowFits
<1> QED BY <1>2, <1>3, <1>4

\* A field gets a name no field before it has.
LEMMA NameNames == LayoutInv /\ NamesInv /\ NameField => NamesInv'
<1> SUFFICES ASSUME LayoutInv, NamesInv, NameField PROVE NamesInv'
  OBVIOUS
<1> DEFINE k == Len(entries) + 1
<1>1. PICK f, name :
        /\ f = reg.fields[k]
        /\ name = Mangle(f.name, taken)
        /\ entries' = Append(entries, FieldRow(name, f.name, f.low, f.high, ResetOf(f), FALSE))
        /\ taken' = taken \cup {name}
  BY DEF NameField
<1>2. /\ phase = "naming" /\ phase' = phase
      /\ placed' = placed /\ rows' = rows /\ rows = << >>
      /\ taken = NamesIn(entries)
      /\ IsFiniteSet(taken)
      /\ entries \in Seq(Row)
  BY DEF NameField, LayoutInv, EntriesInv, NamesInv
<1>3. f.name \in Name
  <2>1. k \in DOMAIN reg.fields /\ FieldsFit(reg)
    BY <1>2, RegisterFacts DEF NameField, LayoutInv
  <2> QED BY <1>1, <2>1 DEF FieldsFit
<1>4. name \notin taken
  BY <1>1, <1>2, <1>3, MangleFresh
<1>5. PICK row : row = FieldRow(name, f.name, f.low, f.high, ResetOf(f), FALSE)
  OBVIOUS
<1>6. row.name = name /\ row.rdl = f.name
  BY <1>5 DEF FieldRow
<1>7. /\ DOMAIN entries' = DOMAIN entries \cup {k}
      /\ k \notin DOMAIN entries
      /\ \A i \in DOMAIN entries : entries'[i] = entries[i]
      /\ entries'[k] = row
  <2>1. entries' = Append(entries, row)
    BY <1>1, <1>5
  <2>2. Len(entries) \in Nat /\ DOMAIN entries = 1 .. Len(entries)
    BY <1>2
  <2> QED BY <2>1, <2>2
<1> HIDE DEF k
<1>8. Distinct(entries')
  BY <1>2, <1>4, <1>6, <1>7 DEF NamesInv, Distinct, NamesIn
<1>9. NamesIn(entries') = taken'
  <2>1. \A n \in taken : \E i \in DOMAIN entries : entries[i].name = n
    BY <1>2 DEF NamesIn
  <2>2. \A i \in DOMAIN entries : entries[i].name \in taken
    BY <1>2 DEF NamesIn
  <2>3. /\ taken' = taken \cup {name}
        /\ entries'[k].name = name /\ k \in DOMAIN entries'
        /\ \A i \in DOMAIN entries : i \in DOMAIN entries' /\ entries'[i].name = entries[i].name
    BY <1>1, <1>6, <1>7
  <2>4. ASSUME NEW n \in taken' PROVE \E i \in DOMAIN entries' : entries'[i].name = n
    <3>1. CASE n = name
      BY <2>3, <3>1
    <3>2. CASE n \in taken
      <4>1. PICK i \in DOMAIN entries : entries[i].name = n
        BY <2>1, <3>2
      <4> QED BY <2>3, <4>1
    <3> QED BY <2>3, <2>4, <3>1, <3>2
  <2>5. \A i \in DOMAIN entries' : entries'[i].name \in taken'
    BY <1>7, <2>2, <2>3
  <2> QED BY <2>4, <2>5 DEF NamesIn
<1>10. NamesIn(rows) = {}
  BY <1>2 DEF NamesIn
<1>11. RenamedForCause'
  <2> SUFFICES ASSUME NEW i \in DOMAIN entries', entries'[i].name # entries'[i].rdl
               PROVE  \/ Sanitize(entries'[i].rdl) # entries'[i].rdl
                      \/ entries'[i].rdl \in Reserved
                      \/ \E j \in DOMAIN entries' \ {i} : entries'[j].name = entries'[i].rdl
    BY DEF RenamedForCause
  <2>1. CASE i \in DOMAIN entries
    BY <1>7, <2>1 DEF NamesInv, RenamedForCause
  <2>2. CASE i = k
    <3>1. \/ Sanitize(f.name) # f.name \/ f.name \in Reserved \/ f.name \in taken
      BY <1>1, <1>6, <1>7, <2>2, MangleKeeps
    <3>2. f.name \in taken => \E j \in DOMAIN entries : entries[j].name = f.name
      BY <1>2 DEF NamesIn
    <3> QED BY <1>6, <1>7, <2>2, <3>1, <3>2
  <2> QED BY <1>7, <2>1, <2>2
<1>12. Distinct(rows')
  BY <1>2 DEF Distinct
<1>13. NamesIn(rows') = {}
  BY <1>2, <1>10 DEF NamesIn
<1> QED BY <1>2, <1>8, <1>9, <1>11, <1>12, <1>13 DEF NamesInv, NamesIn

\* Sorting moves names, it changes none.
LEMMA SortNames == LayoutInv /\ NamesInv /\ SortEntries => NamesInv'
<1> SUFFICES ASSUME LayoutInv, NamesInv, SortEntries PROVE NamesInv'
  OBVIOUS
<1>1. PICK order \in Bijection(DOMAIN entries, DOMAIN entries) :
        entries' = [i \in DOMAIN entries |-> entries[order[i]]]
  BY DEF SortEntries
<1>2. /\ rows = << >> /\ rows' = rows /\ taken' = taken /\ placed' = placed
      /\ phase' = "placing"
  BY DEF SortEntries, NamesInv
<1>3. /\ \A i \in DOMAIN entries : order[i] \in DOMAIN entries
      /\ \A i, j \in DOMAIN entries : i # j => order[i] # order[j]
      /\ \A j \in DOMAIN entries : \E i \in DOMAIN entries : order[i] = j
  BY DEF Bijection, Injection, Surjection, IsInjective
<1>4. /\ DOMAIN entries' = DOMAIN entries
      /\ \A i \in DOMAIN entries : entries'[i] = entries[order[i]]
  BY <1>1
<1>5. Distinct(entries') /\ NamesIn(entries') \subseteq NamesIn(entries)
  <2>1. ASSUME NEW i \in DOMAIN entries, NEW j \in DOMAIN entries, i # j
        PROVE  entries'[i].name # entries'[j].name
    <3>1. order[i] \in DOMAIN entries /\ order[j] \in DOMAIN entries /\ order[i] # order[j]
      BY <1>3, <2>1
    <3> QED BY <1>4, <3>1 DEF NamesInv, Distinct
  <2>2. Distinct(entries')
    BY <1>4, <2>1 DEF Distinct
  <2>3. \A i \in DOMAIN entries : entries'[i].name \in NamesIn(entries)
    BY <1>3, <1>4 DEF NamesIn
  <2>4. NamesIn(entries') \subseteq NamesIn(entries)
    <3>1. ASSUME NEW n \in NamesIn(entries') PROVE n \in NamesIn(entries)
      <4>1. PICK i \in DOMAIN entries' : n = entries'[i].name
        BY <3>1 DEF NamesIn
      <4> QED BY <1>4, <2>3, <4>1
    <3> QED BY <3>1
  <2> QED BY <2>2, <2>4
<1>6. RenamedForCause'
  <2> SUFFICES ASSUME NEW i \in DOMAIN entries, entries'[i].name # entries'[i].rdl
               PROVE  \/ Sanitize(entries'[i].rdl) # entries'[i].rdl
                      \/ entries'[i].rdl \in Reserved
                      \/ \E j \in DOMAIN entries \ {i} : entries'[j].name = entries'[i].rdl
    BY <1>4 DEF RenamedForCause
  <2>1. entries'[i] = entries[order[i]] /\ order[i] \in DOMAIN entries
    BY <1>3, <1>4
  <2>2. ASSUME NEW j \in DOMAIN entries \ {order[i]}, entries[j].name = entries[order[i]].rdl
        PROVE  \E l \in DOMAIN entries \ {i} : entries'[l].name = entries'[i].rdl
    <3>1. PICK l \in DOMAIN entries : order[l] = j
      BY <1>3
    <3>2. l # i /\ entries'[l] = entries[j]
      BY <1>4, <2>2, <3>1
    <3> QED BY <2>1, <2>2, <3>2
  <2> QED BY <2>1, <2>2 DEF NamesInv, RenamedForCause
<1>7. NamesIn(rows') = {} /\ Distinct(rows')
  BY <1>2 DEF NamesIn, Distinct
<1> QED BY <1>2, <1>5, <1>6, <1>7 DEF NamesInv, NamesIn

\* A gap is named past the fields, those still to be placed included.
LEMMA PlaceNames == LayoutInv /\ NamesInv /\ PlaceRow => NamesInv'
<1> SUFFICES ASSUME LayoutInv, NamesInv, PlaceRow PROVE NamesInv'
  OBVIOUS
<1> DEFINE k == placed + 1
<1>1. /\ phase = "placing" /\ phase' = phase /\ entries' = entries /\ placed' = k
      /\ k \in DOMAIN entries /\ placed \in Nat /\ DOMAIN entries \subseteq Nat
  BY DEF PlaceRow, LayoutInv, EntriesInv, PlacedInv
<1>2. PICK row, gap :
        /\ row = entries[k]
        /\ gap = ReservedRow(nextBit, row.lsb - 1)
        /\ IF row.lsb > nextBit
             THEN /\ rows' = Append(Append(rows, gap), row)
                  /\ taken' = taken \cup {gap.name}
             ELSE /\ rows' = Append(rows, row)
                  /\ UNCHANGED taken
  BY DEF PlaceRow
<1>3. /\ IsFiniteSet(taken) /\ rows \in Seq(Row) /\ nextBit \in Nat
      /\ row \in Row /\ row.lsb \in Nat /\ Fits(row, reg.regwidth) /\ row.msb \in Nat
      /\ reg.regwidth \in Nat
  <2>1. row \in Row /\ Fits(row, reg.regwidth)
    BY <1>1, <1>2 DEF LayoutInv, EntriesInv
  <2> QED BY <2>1, RegisterFacts DEF LayoutInv, RowsInv, Row
<1>4. /\ row.name \in taken /\ row.name \notin NamesIn(rows)
      /\ \A j \in DOMAIN entries : k < j => /\ entries[j].name \notin NamesIn(rows)
                                            /\ entries[j].name # row.name
                                            /\ entries[j].name \in taken
  BY <1>1, <1>2 DEF NamesInv, NamesIn, Distinct
<1>5. /\ Distinct(rows') /\ NamesIn(rows') \subseteq taken' /\ taken \subseteq taken'
      /\ \A j \in DOMAIN entries : k < j => entries[j].name \notin NamesIn(rows')
  <2>1. CASE row.lsb > nextBit
    <3>1. gap \in Row /\ gap.name \notin taken
      <4>1. /\ row.lsb - 1 \in Nat /\ nextBit <= row.lsb - 1
            /\ row.lsb - 1 < reg.regwidth
        BY <1>3, <2>1 DEF Fits
      <4> QED BY <1>2, <1>3, <4>1, ReservedRowNamed
    <3>2. PICK longer : longer = Append(rows, gap)
      OBVIOUS
    <3>3. Distinct(longer) /\ NamesIn(longer) = NamesIn(rows) \cup {gap.name}
      BY <1>3, <3>1, <3>2, NameAppended DEF NamesInv
    <3>4. longer \in Seq(Row)
      BY <1>3, <3>1, <3>2
    <3>5. rows' = Append(longer, row) /\ taken' = taken \cup {gap.name}
      BY <1>2, <2>1, <3>2
    <3>6. row.name \notin NamesIn(longer)
      BY <1>4, <3>1, <3>3
    <3>7. Distinct(rows') /\ NamesIn(rows') = NamesIn(longer) \cup {row.name}
      BY <1>3, <3>3, <3>4, <3>5, <3>6, NameAppended
    <3> QED BY <1>4, <3>1, <3>3, <3>5, <3>7 DEF NamesInv
  <2>2. CASE ~(row.lsb > nextBit)
    <3>1. rows' = Append(rows, row) /\ taken' = taken
      BY <1>2, <2>2
    <3>2. Distinct(rows') /\ NamesIn(rows') = NamesIn(rows) \cup {row.name}
      BY <1>3, <1>4, <3>1, NameAppended DEF NamesInv
    <3> QED BY <1>4, <3>1, <3>2 DEF NamesInv
  <2> QED BY <2>1, <2>2
<1>6. Distinct(entries') /\ NamesIn(entries') \subseteq taken'
  BY <1>1, <1>5 DEF NamesInv
<1>7. RenamedForCause'
  BY <1>1 DEF NamesInv, RenamedForCause
<1> QED BY <1>1, <1>5, <1>6, <1>7 DEF NamesInv, NamesIn, Distinct

\* The tail is named past the fields and the gaps.
LEMMA CompleteNames == LayoutInv /\ NamesInv /\ Complete => NamesInv'
<1> SUFFICES ASSUME LayoutInv, NamesInv, Complete PROVE NamesInv'
  OBVIOUS
<1>1. /\ phase' = "done" /\ entries' = entries /\ placed' = placed /\ placed = Len(entries)
      /\ Len(entries) \in Nat /\ DOMAIN entries = 1 .. Len(entries)
  BY DEF Complete, LayoutInv, EntriesInv
<1>2. /\ IsFiniteSet(taken) /\ rows \in Seq(Row) /\ nextBit \in Nat /\ reg.regwidth \in Nat
  BY RegisterFacts DEF LayoutInv, RowsInv
<1>3. PICK tail : tail = ReservedRow(nextBit, reg.regwidth - 1)
  OBVIOUS
<1>4. \/ /\ nextBit < reg.regwidth
         /\ rows' = Append(rows, tail)
         /\ taken' = taken \cup {tail.name}
      \/ rows' = rows /\ taken' = taken
  BY <1>3 DEF Complete
<1>5. /\ Distinct(rows') /\ NamesIn(rows') \subseteq taken' /\ taken \subseteq taken'
  <2>1. CASE /\ nextBit < reg.regwidth
             /\ rows' = Append(rows, tail)
             /\ taken' = taken \cup {tail.name}
    <3>1. tail \in Row /\ tail.name \notin taken
      <4>1. reg.regwidth - 1 \in Nat /\ nextBit <= reg.regwidth - 1
            /\ reg.regwidth - 1 < reg.regwidth
        BY <1>2, <2>1
      <4> QED BY <1>2, <1>3, <4>1, ReservedRowNamed
    <3>2. Distinct(rows') /\ NamesIn(rows') = NamesIn(rows) \cup {tail.name}
      BY <1>2, <2>1, <3>1, NameAppended DEF NamesInv
    <3> QED BY <2>1, <3>2 DEF NamesInv
  <2>2. CASE rows' = rows /\ taken' = taken
    BY <2>2 DEF NamesInv
  <2> QED BY <1>4, <2>1, <2>2
<1>6. Distinct(entries') /\ NamesIn(entries') \subseteq taken'
  BY <1>1, <1>5 DEF NamesInv
<1>7. RenamedForCause'
  BY <1>1 DEF NamesInv, RenamedForCause
<1>8. \A j \in DOMAIN entries : ~(placed < j)
  BY <1>1
<1> QED BY <1>1, <1>5, <1>6, <1>7, <1>8 DEF NamesInv, NamesIn, Distinct

\* Whatever the register, its members have distinct names and its fields the
\* names they would have without the reserved members.
THEOREM ReservedAlwaysYield == Spec => []ReservedNamesYield
<1>1. Init => NamesInv
  <2> SUFFICES ASSUME Init PROVE NamesInv
    OBVIOUS
  <2>1. entries = << >> /\ rows = << >> /\ taken = {}
    BY DEF Init
  <2> QED BY <2>1 DEF NamesInv, NamesIn, Distinct, RenamedForCause
<1>2. LayoutInv /\ NamesInv /\ [Next]_vars => NamesInv'
  <2> SUFFICES ASSUME LayoutInv, NamesInv, [Next]_vars PROVE NamesInv'
    OBVIOUS
  <2>1. CASE UNCHANGED vars
    BY <2>1 DEF vars, NamesInv, NamesIn, Distinct, RenamedForCause
  <2> QED BY <2>1, NameNames, SortNames, PlaceNames, CompleteNames DEF Next
<1>3. NamesInv => ReservedNamesYield
  BY DEF NamesInv, Distinct, RenamedForCause, ReservedNamesYield
<1> QED BY <1>1, <1>2, <1>3, LayoutInvariance, PTL DEF Spec

----------------------------------------------------------------------------
FindingIds == {"I201", "W101", "W102", "W103", "W105", "W107"}

Reported(id) == id \in Range(findings)

\* The findings of the fields named so far, and of the register.
FindingsInv ==
  /\ findings \in Seq(FindingIds)
  /\ Reported("W101") <=> \E i \in DOMAIN entries : Notes(reg.fields[i]) # {}
  /\ Reported("W102") <=> \E i \in DOMAIN entries : reg.fields[i].sw \in {"rw1", "w1"}
  /\ Reported("W103") <=> \E i \in DOMAIN entries : reg.fields[i].reset = RefReset
  /\ Reported("W105") <=> reg.msb0
  /\ Reported("W107") <=> phase = "done" /\ AccessesOf(reg) = {"na"}
  /\ phase = "done" => access = Derive(AccessesOf(reg))

\* What a note holds that is made on a condition.
LEMMA NoteHolds ==
  ASSUME NEW id \in FindingIds, NEW c \in BOOLEAN
  PROVE  LET note == IF c THEN <<id>> ELSE << >> IN
         /\ note \in Seq(FindingIds)
         /\ \A x : x \in Range(note) <=> c /\ x = id
<1>1. CASE c
  <2>1. PICK note : note = <<id>>
    OBVIOUS
  <2>2. note \in Seq(FindingIds) /\ DOMAIN note = {1} /\ note[1] = id
    BY <2>1
  <2> QED BY <1>1, <2>1, <2>2 DEF Range
<1>2. CASE ~c
  <2>1. PICK note : note = << >>
    OBVIOUS
  <2>2. note \in Seq(FindingIds) /\ DOMAIN note = {}
    BY <2>1
  <2> QED BY <1>2, <2>1, <2>2 DEF Range
<1> QED BY <1>1, <1>2

\* Two notes joined hold what either holds.
LEMMA JoinHolds ==
  ASSUME NEW s \in Seq(FindingIds), NEW t \in Seq(FindingIds)
  PROVE  /\ s \o t \in Seq(FindingIds)
         /\ \A x : x \in Range(s \o t) <=> x \in Range(s) \/ x \in Range(t)
<1>1. PICK u : u = s \o t
  OBVIOUS
<1>2. /\ u \in Seq(FindingIds)
      /\ Len(s) \in Nat /\ Len(t) \in Nat
      /\ DOMAIN s = 1 .. Len(s) /\ DOMAIN t = 1 .. Len(t)
      /\ DOMAIN u = 1 .. Len(s) + Len(t)
      /\ \A i \in DOMAIN s : u[i] = s[i]
      /\ \A i \in DOMAIN t : u[Len(s) + i] = t[i]
  BY <1>1
<1>3. ASSUME NEW x, x \in Range(u) PROVE x \in Range(s) \/ x \in Range(t)
  <2>1. PICK i \in DOMAIN u : x = u[i]
    BY <1>3 DEF Range
  <2>2. CASE i \in DOMAIN s
    BY <1>2, <2>1, <2>2 DEF Range
  <2>3. CASE i \notin DOMAIN s
    <3>1. i - Len(s) \in DOMAIN t /\ Len(s) + (i - Len(s)) = i
      BY <1>2, <2>1, <2>3
    <3> QED BY <1>2, <2>1, <3>1 DEF Range
  <2> QED BY <2>2, <2>3
<1>4. ASSUME NEW x, x \in Range(s) PROVE x \in Range(u)
  <2>1. PICK i \in DOMAIN s : x = s[i]
    BY <1>4 DEF Range
  <2>2. i \in DOMAIN u
    BY <1>2
  <2> QED BY <1>2, <2>1, <2>2 DEF Range
<1>5. ASSUME NEW x, x \in Range(t) PROVE x \in Range(u)
  <2>1. PICK i \in DOMAIN t : x = t[i]
    BY <1>5 DEF Range
  <2>2. Len(s) + i \in DOMAIN u
    BY <1>2
  <2> QED BY <1>2, <2>1, <2>2 DEF Range
<1> QED BY <1>1, <1>2, <1>3, <1>4, <1>5

\* The findings s and those of a field with the given name (build_rows,
\* side_effect_findings).
FieldLog(s, f, name) ==
  s \o (IF name # f.name THEN <<"I201">> ELSE << >>)
    \o (IF f.reset = RefReset THEN <<"W103">> ELSE << >>)
    \o SideEffectFindings(f)

\* What a field is reported for: its name, its reset, its side effects and its
\* access.
LEMMA FieldFindings ==
  ASSUME NEW s \in Seq(FindingIds), NEW f, NEW name
  PROVE  /\ FieldLog(s, f, name) \in Seq(FindingIds)
         /\ \A x : x \in Range(FieldLog(s, f, name))
                     <=> \/ x \in Range(s)
                         \/ name # f.name /\ x = "I201"
                         \/ f.reset = RefReset /\ x = "W103"
                         \/ Notes(f) # {} /\ x = "W101"
                         \/ f.sw \in {"rw1", "w1"} /\ x = "W102"
<1>1. PICK a, b, c, d :
        /\ a = IF name # f.name THEN <<"I201">> ELSE << >>
        /\ b = IF f.reset = RefReset THEN <<"W103">> ELSE << >>
        /\ c = IF Notes(f) # {} THEN <<"W101">> ELSE << >>
        /\ d = IF f.sw \in {"rw1", "w1"} THEN <<"W102">> ELSE << >>
  OBVIOUS
<1>2. a \in Seq(FindingIds) /\ \A x : x \in Range(a) <=> name # f.name /\ x = "I201"
  BY <1>1, NoteHolds DEF FindingIds
<1>3. b \in Seq(FindingIds) /\ \A x : x \in Range(b) <=> f.reset = RefReset /\ x = "W103"
  BY <1>1, NoteHolds DEF FindingIds
<1>4. c \in Seq(FindingIds) /\ \A x : x \in Range(c) <=> Notes(f) # {} /\ x = "W101"
  BY <1>1, NoteHolds DEF FindingIds
<1>5. d \in Seq(FindingIds)
      /\ \A x : x \in Range(d) <=> f.sw \in {"rw1", "w1"} /\ x = "W102"
  BY <1>1, NoteHolds DEF FindingIds
<1>6. PICK sa, ab, cd, log : /\ sa = s \o a /\ ab = sa \o b /\ cd = c \o d
                             /\ log = ab \o cd /\ FieldLog(s, f, name) = log
  BY <1>1 DEF SideEffectFindings, FieldLog
<1>7. sa \in Seq(FindingIds) /\ \A x : x \in Range(sa) <=> x \in Range(s) \/ x \in Range(a)
  BY <1>2, <1>6, JoinHolds
<1>8. ab \in Seq(FindingIds) /\ \A x : x \in Range(ab) <=> x \in Range(sa) \/ x \in Range(b)
  BY <1>3, <1>6, <1>7, JoinHolds
<1>9. cd \in Seq(FindingIds) /\ \A x : x \in Range(cd) <=> x \in Range(c) \/ x \in Range(d)
  BY <1>4, <1>5, <1>6, JoinHolds
<1>10. log \in Seq(FindingIds) /\ \A x : x \in Range(log) <=> x \in Range(ab) \/ x \in Range(cd)
  <2>1. ab \in Seq(FindingIds) /\ cd \in Seq(FindingIds) /\ log = ab \o cd
    BY <1>6, <1>8, <1>9
  <2> QED BY <2>1, JoinHolds
<1>11. ASSUME NEW x
       PROVE  x \in Range(log) <=> \/ x \in Range(s)
                                   \/ name # f.name /\ x = "I201"
                                   \/ f.reset = RefReset /\ x = "W103"
                                   \/ Notes(f) # {} /\ x = "W101"
                                   \/ f.sw \in {"rw1", "w1"} /\ x = "W102"
  <2>1. x \in Range(log) <=> \/ x \in Range(s) \/ x \in Range(a) \/ x \in Range(b)
                             \/ x \in Range(c) \/ x \in Range(d)
    BY <1>7, <1>8, <1>9, <1>10
  <2> QED BY <1>2, <1>3, <1>4, <1>5, <2>1
<1> QED BY <1>6, <1>10, <1>11

\* Every field is reported for as it is named.
LEMMA NameFindings == LayoutInv /\ FindingsInv /\ NameField => FindingsInv'
<1> SUFFICES ASSUME LayoutInv, FindingsInv, NameField PROVE FindingsInv'
  OBVIOUS
<1>1. PICK k, f, name :
        /\ k = Len(entries) + 1 /\ f = reg.fields[k] /\ name = Mangle(f.name, taken)
        /\ entries' = Append(entries,
                        FieldRow(name, f.name, f.low, f.high, ResetOf(f), FALSE))
        /\ findings' = findings \o (IF name # f.name THEN <<"I201">> ELSE << >>)
                                \o (IF f.reset = RefReset THEN <<"W103">> ELSE << >>)
                                \o SideEffectFindings(f)
  BY DEF NameField
<1>2. /\ phase = "naming" /\ phase' = phase /\ reg' = reg
      /\ entries \in Seq(Row) /\ findings \in Seq(FindingIds)
  BY DEF NameField, LayoutInv, EntriesInv, FindingsInv
<1>3. DOMAIN entries' = DOMAIN entries \cup {k}
  <2>1. PICK row : row = FieldRow(name, f.name, f.low, f.high, ResetOf(f), FALSE)
    OBVIOUS
  <2>2. entries' = Append(entries, row)
    BY <1>1, <2>1
  <2> QED BY <1>1, <1>2, <2>2
<1>4. PICK s, log : s = findings /\ log = FieldLog(s, f, name) /\ findings' = log
  BY <1>1 DEF FieldLog
<1>5. /\ log \in Seq(FindingIds)
      /\ \A x : x \in Range(log) <=> \/ x \in Range(s)
                                     \/ name # f.name /\ x = "I201"
                                     \/ f.reset = RefReset /\ x = "W103"
                                     \/ Notes(f) # {} /\ x = "W101"
                                     \/ f.sw \in {"rw1", "w1"} /\ x = "W102"
  BY <1>2, <1>4, FieldFindings
<1>6. \A x : (Reported(x) <=> x \in Range(s)) /\ (Reported(x)' <=> x \in Range(log))
  BY <1>4 DEF Reported
<1>7. /\ Reported("W101")' <=> Reported("W101") \/ Notes(f) # {}
      /\ Reported("W102")' <=> Reported("W102") \/ f.sw \in {"rw1", "w1"}
      /\ Reported("W103")' <=> Reported("W103") \/ f.reset = RefReset
      /\ Reported("W105")' <=> Reported("W105")
      /\ Reported("W107")' <=> Reported("W107")
  BY <1>5, <1>6
<1> QED BY <1>1, <1>2, <1>3, <1>4, <1>5, <1>7 DEF FindingsInv

\* The accesses that remain at the end decide the last finding.
LEMMA CompleteFindings == FindingsInv /\ Complete => FindingsInv'
<1> SUFFICES ASSUME FindingsInv, Complete PROVE FindingsInv'
  OBVIOUS
<1>1. PICK none, note :
        /\ none \in BOOLEAN /\ (none <=> AccessesOf(reg) = {"na"})
        /\ note = IF none THEN <<"W107">> ELSE << >>
  OBVIOUS
<1>2. note \in Seq(FindingIds) /\ \A x : x \in Range(note) <=> none /\ x = "W107"
  BY <1>1, NoteHolds DEF FindingIds
<1>3. findings \in Seq(FindingIds) /\ findings' = findings \o note
  <2>1. CASE none
    <3>1. note = <<"W107">> /\ findings' = Append(findings, "W107")
      BY <1>1, <2>1 DEF Complete
    <3>2. findings \in Seq(FindingIds)
      BY DEF FindingsInv
    <3> QED BY <3>1, <3>2
  <2>2. CASE ~none
    <3>1. note = << >> /\ findings' = findings
      BY <1>1, <2>2 DEF Complete
    <3>2. findings \in Seq(FindingIds)
      BY DEF FindingsInv
    <3> QED BY <3>1, <3>2
  <2> QED BY <1>1, <2>1, <2>2
<1>4. PICK s, log : s = findings /\ log = findings' /\ s \in Seq(FindingIds) /\ log = s \o note
  BY <1>3
<1>5. log \in Seq(FindingIds) /\ \A x : x \in Range(log) <=> x \in Range(s) \/ x \in Range(note)
  BY <1>2, <1>4, JoinHolds
<1>6. \A x : (Reported(x) <=> x \in Range(s)) /\ (Reported(x)' <=> x \in Range(log))
  BY <1>4 DEF Reported
<1>7. ASSUME NEW x PROVE Reported(x)' <=> Reported(x) \/ (none /\ x = "W107")
  <2>1. x \in Range(log) <=> x \in Range(s) \/ (none /\ x = "W107")
    BY <1>2, <1>5, Zenon
  <2> QED BY <1>6, <2>1, Zenon
<1>8. /\ phase = "placing" /\ phase' = "done" /\ UNCHANGED <<reg, entries>>
      /\ access' = Derive(AccessesOf(reg))
  BY DEF Complete
<1>9. AccessesOf(reg') = AccessesOf(reg) /\ AccessesOf(reg)' = AccessesOf(reg)
  BY <1>8
<1>10. ~Reported("W107")
  BY <1>8 DEF FindingsInv
<1>11. /\ Reported("W101")' <=> Reported("W101")
       /\ Reported("W102")' <=> Reported("W102")
       /\ Reported("W103")' <=> Reported("W103")
       /\ Reported("W105")' <=> Reported("W105")
       /\ Reported("W107")' <=> none
  BY <1>7, <1>10, Zenon
<1> QED BY <1>1, <1>4, <1>5, <1>8, <1>9, <1>11 DEF FindingsInv

\* At every step the findings are those of the fields that were named.
THEOREM FindingsInvariance == Spec => []FindingsInv
<1>1. Init => FindingsInv
  <2> SUFFICES ASSUME Init PROVE FindingsInv
    OBVIOUS
  <2>1. PICK note : note = IF reg.msb0 THEN <<"W105">> ELSE << >>
    OBVIOUS
  <2>2. reg.msb0 \in BOOLEAN
    BY RegistersAssumption DEF Init
  <2>3. /\ note \in Seq(FindingIds)
        /\ \A x : x \in Range(note) <=> reg.msb0 /\ x = "W105"
    BY <2>1, <2>2, NoteHolds DEF FindingIds
  <2>4. findings = note /\ DOMAIN entries = {} /\ phase = "naming"
    BY <2>1 DEF Init
  <2> QED BY <2>3, <2>4 DEF FindingsInv, Reported
<1>2. LayoutInv /\ FindingsInv /\ [Next]_vars => FindingsInv'
  <2> SUFFICES ASSUME LayoutInv, FindingsInv, [Next]_vars PROVE FindingsInv'
    OBVIOUS
  <2>1. CASE SortEntries
    <3>1. /\ phase = "naming" /\ phase' = "placing" /\ UNCHANGED <<reg, findings>>
          /\ DOMAIN entries' = DOMAIN entries
      BY <2>1 DEF SortEntries
    <3> QED BY <3>1 DEF FindingsInv, Reported
  <2>2. CASE PlaceRow
    BY <2>2 DEF PlaceRow, FindingsInv, Reported
  <2>3. CASE UNCHANGED vars
    BY <2>3 DEF vars, FindingsInv, Reported, AccessesOf
  <2> QED BY <2>1, <2>2, <2>3, NameFindings, CompleteFindings DEF Next
<1> QED BY <1>1, <1>2, LayoutInvariance, PTL DEF Spec

\* The accesses of a register are those of its fields.
LEMMA RegisterAccesses ==
  ASSUME NEW r \in Registers
  PROVE  /\ \A i \in DOMAIN r.fields : r.fields[i].sw \in Policies
         /\ AccessesOf(r) = {"na"} <=> \A i \in DOMAIN r.fields : r.fields[i].sw = "na"
<1>1. DOMAIN r.fields = 1 .. Len(r.fields) /\ Len(r.fields) \in Nat \ {0} /\ FieldsFit(r)
  BY RegistersAssumption
<1>2. \A i \in DOMAIN r.fields : r.fields[i].sw \in Policies
  BY <1>1 DEF FieldsFit
<1>3. 1 \in DOMAIN r.fields
  BY <1>1
<1>4. ASSUME \A i \in DOMAIN r.fields : r.fields[i].sw = "na"
      PROVE  AccessesOf(r) = {"na"}
  BY <1>3, <1>4 DEF AccessesOf
<1>5. ASSUME AccessesOf(r) = {"na"}
      PROVE  \A i \in DOMAIN r.fields : r.fields[i].sw = "na"
  BY <1>5 DEF AccessesOf
<1> QED BY <1>2, <1>4, <1>5

\* Whatever the fields of a register allow, its access allows what one of them
\* does and no more, and a register software cannot use is reported.
THEOREM AccessAlwaysUnion == Spec => []AccessIsUnion
<1>1. LayoutInv /\ FindingsInv => AccessIsUnion
  <2> SUFFICES ASSUME LayoutInv, FindingsInv, phase = "done"
               PROVE  AccessIsUnion
    BY DEF AccessIsUnion
  <2> DEFINE reads == \E i \in DOMAIN reg.fields : SoftwareReads(reg.fields[i].sw)
             writes == \E i \in DOMAIN reg.fields : SoftwareWrites(reg.fields[i].sw)
  <2>1. /\ \A i \in DOMAIN reg.fields : reg.fields[i].sw \in Policies
        /\ AccessesOf(reg) = {"na"} <=> \A i \in DOMAIN reg.fields : reg.fields[i].sw = "na"
    BY RegisterAccesses DEF LayoutInv
  <2>2. access = IF reads /\ writes THEN "READWRITE"
                 ELSE IF writes THEN "WRITEONLY" ELSE "READONLY"
    <3>1. (\E sw \in AccessesOf(reg) : SoftwareReads(sw)) <=> reads
      BY DEF AccessesOf
    <3>2. (\E sw \in AccessesOf(reg) : SoftwareWrites(sw)) <=> writes
      BY DEF AccessesOf
    <3>3. access = Derive(AccessesOf(reg))
      BY DEF FindingsInv
    <3> QED BY <3>1, <3>2, <3>3 DEF Derive
  <2>3. ~reads /\ ~writes <=> AccessesOf(reg) = {"na"}
    <3>1. \A p \in Policies : ~SoftwareReads(p) /\ ~SoftwareWrites(p) <=> p = "na"
      BY DEF Policies, SoftwareReads, SoftwareWrites
    <3> QED BY <2>1, <3>1
  <2>4. Reported("W107") <=> AccessesOf(reg) = {"na"}
    BY DEF FindingsInv
  <2> HIDE DEF reads, writes
  <2>5. /\ access \in {"READWRITE", "WRITEONLY"} <=> writes
        /\ reads => access \in {"READWRITE", "READONLY"}
        /\ access = "READWRITE" => reads
    BY <2>2
  <2>6. ~reads /\ ~writes <=> "W107" \in Range(findings)
    BY <2>3, <2>4 DEF Reported
  <2> QED BY <2>5, <2>6 DEF AccessIsUnion, reads, writes
<1> QED BY <1>1, LayoutInvariance, FindingsInvariance, PTL

\* Whatever the register: it has no warning exactly when nothing is lost of the
\* accesses, resets and modelled effects of its fields, and it is not msb0.
THEOREM LossAlwaysWarned == Spec => []WarnedExactlyWhenLossy
<1>1. LayoutInv /\ FindingsInv => WarnedExactlyWhenLossy
  <2> SUFFICES ASSUME LayoutInv, FindingsInv, phase = "done"
               PROVE  WarnedExactlyWhenLossy
    BY DEF WarnedExactlyWhenLossy
  <2> DEFINE faithful(f) == /\ f.effects \in {{}, {"singlepulse"}}
                            /\ f.effects = {"singlepulse"} => f.sw \in {"w", "w1", "na"}
                            /\ f.sw \notin {"rw1", "w1"}
                            /\ f.reset # RefReset
  <2>1. /\ \A i \in DOMAIN reg.fields : reg.fields[i].sw \in Policies
        /\ AccessesOf(reg) = {"na"} <=> \A i \in DOMAIN reg.fields : reg.fields[i].sw = "na"
    BY RegisterAccesses DEF LayoutInv
  <2>2. DOMAIN entries = DOMAIN reg.fields
    BY DEF LayoutInv, EntriesInv, Sorted
  <2>3. ASSUME NEW f, f.sw \in Policies
        PROVE  faithful(f) <=> Notes(f) = {} /\ f.sw \notin {"rw1", "w1"} /\ f.reset # RefReset
    <3>1. ASSUME Notes(f) = {}
          PROVE  /\ f.effects \in {{}, {"singlepulse"}}
                 /\ f.effects = {"singlepulse"} => f.sw \in {"w", "w1", "na"}
      <4>1. \A p \in f.effects : p = "singlepulse" /\ ~SoftwareReads(f.sw)
        BY <3>1 DEF Notes
      <4>2. f.effects = {} \/ f.effects = {"singlepulse"}
        BY <4>1
      <4>3. "singlepulse" \in f.effects => ~SoftwareReads(f.sw)
        BY <4>1
      <4>4. ~SoftwareReads(f.sw) => f.sw \in {"w", "w1", "na"}
        BY <2>3 DEF SoftwareReads, Policies
      <4> QED BY <4>2, <4>3, <4>4
    <3>2. ASSUME f.effects \in {{}, {"singlepulse"}},
                 f.effects = {"singlepulse"} => f.sw \in {"w", "w1", "na"}
          PROVE  Notes(f) = {}
      <4>1. \A p \in f.effects : p = "singlepulse" /\ f.sw \in {"w", "w1", "na"}
        BY <3>2
      <4>2. \A p \in f.effects : p = "singlepulse" /\ ~SoftwareReads(f.sw)
        BY <4>1 DEF SoftwareReads
      <4> QED BY <4>2 DEF Notes
    <3> QED BY <3>1, <3>2
  <2>4. Range(findings) \subseteq {"I201"}
          <=> /\ ~Reported("W101") /\ ~Reported("W102") /\ ~Reported("W103")
              /\ ~Reported("W105") /\ ~Reported("W107")
    <3>1. Range(findings) \subseteq FindingIds
      BY DEF FindingsInv, Range
    <3> QED BY <3>1 DEF Reported, FindingIds
  <2>5. /\ Reported("W101") <=> \E i \in DOMAIN reg.fields : Notes(reg.fields[i]) # {}
        /\ Reported("W102") <=> \E i \in DOMAIN reg.fields : reg.fields[i].sw \in {"rw1", "w1"}
        /\ Reported("W103") <=> \E i \in DOMAIN reg.fields : reg.fields[i].reset = RefReset
        /\ Reported("W105") <=> reg.msb0
        /\ Reported("W107") <=> AccessesOf(reg) = {"na"}
    BY <2>2 DEF FindingsInv
  <2>6. (\A i \in DOMAIN reg.fields : faithful(reg.fields[i]))
          <=> ~Reported("W101") /\ ~Reported("W102") /\ ~Reported("W103")
    <3> HIDE DEF faithful
    <3>1. \A i \in DOMAIN reg.fields :
            faithful(reg.fields[i])
              <=> /\ Notes(reg.fields[i]) = {}
                  /\ reg.fields[i].sw \notin {"rw1", "w1"}
                  /\ reg.fields[i].reset # RefReset
      BY <2>1, <2>3
    <3> QED BY <2>5, <3>1
  <2>7. (\E i \in DOMAIN reg.fields : reg.fields[i].sw # "na") <=> ~Reported("W107")
    BY <2>1, <2>5
  <2> HIDE DEF faithful
  <2>8. Range(findings) \subseteq {"I201"}
          <=> /\ \A i \in DOMAIN reg.fields : faithful(reg.fields[i])
              /\ \E i \in DOMAIN reg.fields : reg.fields[i].sw # "na"
              /\ ~reg.msb0
    BY <2>4, <2>5, <2>6, <2>7
  <2> QED BY <2>8 DEF WarnedExactlyWhenLossy, faithful
<1> QED BY <1>1, LayoutInvariance, FindingsInvariance, PTL

----------------------------------------------------------------------------
IsRowOf(row, f) ==
  /\ row.rdl = f.name /\ row.lsb = f.low /\ row.msb = f.high
  /\ row.reset = ResetOf(f) /\ ~row.reserved

FieldRowsOf(rs) == {j \in DOMAIN rs : ~rs[j].reserved}

\* The rows rs are the first n entries, each once, and reserved rows.
Holding(rs, n) ==
  /\ \A i \in DOMAIN entries : i <= n => entries[i] \in Range(rs)
  /\ \A j \in DOMAIN rs :
       IF rs[j].reserved THEN rs[j].reset = NoReset
       ELSE \E i \in DOMAIN entries : i <= n /\ rs[j] = entries[i]
  /\ IsFiniteSet(FieldRowsOf(rs)) /\ Cardinality(FieldRowsOf(rs)) = n

\* The entries are the rows of the fields.
EntriesOf(order) ==
  /\ order \in Bijection(DOMAIN reg.fields, DOMAIN reg.fields)
  /\ DOMAIN entries = DOMAIN reg.fields
  /\ \A i \in DOMAIN entries : IsRowOf(entries[i], reg.fields[order[i]])

ContentInv ==
  /\ phase = "naming" => \A i \in DOMAIN entries : IsRowOf(entries[i], reg.fields[i])
  /\ phase # "naming" => \E order : EntriesOf(order)
  /\ phase = "naming" => rows = << >>
  /\ Holding(rows, placed)
  /\ phase = "done" => resetValue = ResetValue(rows)

\* What appending a row adds.
LEMMA RowAdded ==
  ASSUME NEW s \in Seq(Row), NEW r \in Row, IsFiniteSet(FieldRowsOf(s)),
         NEW n \in Nat, Cardinality(FieldRowsOf(s)) = n
  PROVE  LET t == Append(s, r) IN
         /\ Range(t) = Range(s) \cup {r}
         /\ IsFiniteSet(FieldRowsOf(t))
         /\ Cardinality(FieldRowsOf(t)) = IF r.reserved THEN n ELSE n + 1
<1>1. PICK t, k : t = Append(s, r) /\ k = Len(s) + 1
  OBVIOUS
<1>2. /\ DOMAIN t = DOMAIN s \cup {k} /\ k \notin DOMAIN s
      /\ \A i \in DOMAIN s : t[i] = s[i]
      /\ t[k] = r
  BY <1>1, AppendRow
<1>3. Range(t) = Range(s) \cup {r}
  BY <1>2 DEF Range
<1>4. k \notin FieldRowsOf(s)
  BY <1>2 DEF FieldRowsOf
<1>5. CASE r.reserved
  <2>1. FieldRowsOf(t) = FieldRowsOf(s)
    BY <1>2, <1>5 DEF FieldRowsOf
  <2> QED BY <1>1, <1>3, <1>5, <2>1
<1>6. CASE ~r.reserved
  <2>1. FieldRowsOf(t) = FieldRowsOf(s) \cup {k}
    BY <1>2, <1>6 DEF FieldRowsOf
  <2>2. /\ IsFiniteSet(FieldRowsOf(t))
        /\ Cardinality(FieldRowsOf(t)) = n + 1
    BY <1>4, <2>1, FS_AddElement
  <2> QED BY <1>1, <1>3, <1>6, <2>2
<1> QED BY <1>5, <1>6

\* A reserved row has no reset and is no field's.
LEMMA HoldReserved ==
  ASSUME NEW rs \in Seq(Row), NEW n \in Nat, Holding(rs, n),
         NEW r \in Row, r.reserved, r.reset = NoReset
  PROVE  Holding(Append(rs, r), n)
<1>1. PICK t : t = Append(rs, r)
  OBVIOUS
<1>2. /\ Range(t) = Range(rs) \cup {r}
      /\ IsFiniteSet(FieldRowsOf(t)) /\ Cardinality(FieldRowsOf(t)) = n
  BY <1>1, RowAdded DEF Holding
<1>3. /\ DOMAIN t = DOMAIN rs \cup {Len(rs) + 1}
      /\ \A j \in DOMAIN rs : t[j] = rs[j]
      /\ t[Len(rs) + 1] = r
  BY <1>1, AppendRow
<1>4. \A j \in DOMAIN t :
        IF t[j].reserved THEN t[j].reset = NoReset
        ELSE \E i \in DOMAIN entries : i <= n /\ t[j] = entries[i]
  BY <1>3 DEF Holding
<1>5. \A i \in DOMAIN entries : i <= n => entries[i] \in Range(t)
  BY <1>2 DEF Holding
<1> QED BY <1>1, <1>2, <1>4, <1>5 DEF Holding

\* The next entry is held with those before it.
LEMMA HoldEntry ==
  ASSUME entries \in Seq(Row), NEW rs \in Seq(Row), NEW n \in Nat, Holding(rs, n),
         n + 1 \in DOMAIN entries, ~entries[n + 1].reserved
  PROVE  Holding(Append(rs, entries[n + 1]), n + 1)
<1>1. PICK r, t : r = entries[n + 1] /\ t = Append(rs, r)
  OBVIOUS
<1>2. r \in Row /\ DOMAIN entries \subseteq Nat
  BY <1>1
<1>3. /\ Range(t) = Range(rs) \cup {r}
      /\ IsFiniteSet(FieldRowsOf(t)) /\ Cardinality(FieldRowsOf(t)) = n + 1
  BY <1>1, <1>2, RowAdded DEF Holding
<1>4. /\ DOMAIN t = DOMAIN rs \cup {Len(rs) + 1}
      /\ \A j \in DOMAIN rs : t[j] = rs[j]
      /\ t[Len(rs) + 1] = r
  BY <1>1, <1>2, AppendRow
<1>5. ASSUME NEW j \in DOMAIN t
      PROVE  IF t[j].reserved THEN t[j].reset = NoReset
             ELSE \E i \in DOMAIN entries : i <= n + 1 /\ t[j] = entries[i]
  <2>1. CASE j \in DOMAIN rs
    <3>1. t[j] = rs[j]
      BY <1>4, <2>1
    <3>2. \A i \in DOMAIN entries : i <= n => i <= n + 1
      BY <1>2
    <3> QED BY <2>1, <3>1, <3>2 DEF Holding
  <2>2. CASE j = Len(rs) + 1
    BY <1>1, <1>4, <2>2
  <2> QED BY <1>4, <2>1, <2>2
<1>6. ASSUME NEW i \in DOMAIN entries, i <= n + 1
      PROVE  entries[i] \in Range(t)
  <2>1. i <= n \/ i = n + 1
    BY <1>2, <1>6
  <2> QED BY <1>1, <1>3, <2>1 DEF Holding
<1> QED BY <1>1, <1>3, <1>5, <1>6 DEF Holding

\* A reserved row is reserved.
LEMMA ReservedRowIs ==
  ASSUME NEW low, NEW high
  PROVE  ReservedRow(low, high).reserved /\ ReservedRow(low, high).reset = NoReset
BY DEF ReservedRow, FieldRow

\* What appending does to a sequence of rows.
LEMMA RowAtEnd ==
  ASSUME NEW s \in Seq(Row), NEW r
  PROVE  /\ DOMAIN Append(s, r) = DOMAIN s \cup {Len(s) + 1}
         /\ \A i \in DOMAIN s : Append(s, r)[i] = s[i]
         /\ Append(s, r)[Len(s) + 1] = r
<1>1. PICK S : S = Row \cup {r}
  OBVIOUS
<1>2. s \in Seq(S) /\ r \in S
  BY <1>1
<1>3. /\ Append(s, r) \in Seq(S) /\ Len(Append(s, r)) = Len(s) + 1 /\ Len(s) \in Nat
      /\ DOMAIN s = 1 .. Len(s)
      /\ DOMAIN Append(s, r) = 1 .. Len(s) + 1
  BY <1>2
<1>4. \A i \in DOMAIN s : Append(s, r)[i] = s[i]
  BY <1>2, <1>3
<1>5. Append(s, r)[Len(s) + 1] = r
  BY <1>2, <1>3
<1> QED BY <1>3, <1>4, <1>5

\* A field's entry is its row.
LEMMA NameContent == LayoutInv /\ ContentInv /\ NameField => ContentInv'
<1> SUFFICES ASSUME LayoutInv, ContentInv, NameField PROVE ContentInv'
  OBVIOUS
<1>1. PICK k, f, name, row :
        /\ k = Len(entries) + 1 /\ f = reg.fields[k]
        /\ row = FieldRow(name, f.name, f.low, f.high, ResetOf(f), FALSE)
        /\ entries' = Append(entries, row)
  BY DEF NameField
<1>2. /\ phase = "naming" /\ phase' = phase /\ UNCHANGED <<reg, placed, rows, resetValue>>
      /\ entries \in Seq(Row) /\ placed = 0 /\ rows = << >>
  BY DEF NameField, LayoutInv, EntriesInv, PlacedInv, ContentInv
<1>3. /\ DOMAIN entries' = DOMAIN entries \cup {k} /\ DOMAIN entries \subseteq Nat \ {0}
      /\ k \in Nat \ {0}
      /\ \A i \in DOMAIN entries : entries'[i] = entries[i]
      /\ entries'[k] = row
  <2>1. DOMAIN entries = 1 .. Len(entries) /\ Len(entries) \in Nat
    BY <1>2
  <2>2. k \in Nat \ {0} /\ DOMAIN entries \subseteq Nat \ {0}
    BY <1>1, <2>1
  <2>3. /\ DOMAIN Append(entries, row) = DOMAIN entries \cup {Len(entries) + 1}
        /\ \A i \in DOMAIN entries : Append(entries, row)[i] = entries[i]
        /\ Append(entries, row)[Len(entries) + 1] = row
    BY <1>2, RowAtEnd
  <2> QED BY <1>1, <2>2, <2>3
<1>4. IsRowOf(row, f)
  BY <1>1 DEF FieldRow, IsRowOf
<1>5. ASSUME NEW i \in DOMAIN entries' PROVE IsRowOf(entries'[i], reg.fields[i])
  <2>1. CASE i \in DOMAIN entries
    <3>1. IsRowOf(entries[i], reg.fields[i])
      BY <1>2, <2>1 DEF ContentInv
    <3> QED BY <1>3, <2>1, <3>1
  <2>2. CASE i = k
    BY <1>1, <1>3, <1>4, <2>2
  <2> QED BY <1>3, <2>1, <2>2
<1>6. Holding(rows, placed)'
  <2>1. \A i \in DOMAIN entries' : ~(i <= 0)
    BY <1>3
  <2>2. DOMAIN rows = {}
    BY <1>2
  <2>3. IsFiniteSet(FieldRowsOf(rows)) /\ Cardinality(FieldRowsOf(rows)) = placed
    BY DEF ContentInv, Holding
  <2> QED BY <1>2, <2>1, <2>2, <2>3 DEF Holding
<1> QED BY <1>2, <1>5, <1>6 DEF ContentInv, IsRowOf

\* The entries sorted are the rows of the fields in another order.
LEMMA SortContent == LayoutInv /\ ContentInv /\ SortEntries => ContentInv'
<1> SUFFICES ASSUME LayoutInv, ContentInv, SortEntries PROVE ContentInv'
  OBVIOUS
<1>1. /\ phase = "naming" /\ phase' = "placing" /\ Len(entries) = Len(reg.fields)
      /\ UNCHANGED <<reg, placed, rows>> /\ placed = 0 /\ rows = << >>
  BY DEF SortEntries, ContentInv, LayoutInv, PlacedInv
<1>2. /\ DOMAIN entries = DOMAIN reg.fields /\ DOMAIN entries \subseteq Nat \ {0}
  BY <1>1, RegisterFacts DEF LayoutInv, EntriesInv
<1>3. PICK order \in Bijection(DOMAIN entries, DOMAIN entries) :
        entries' = [i \in DOMAIN entries |-> entries[order[i]]]
  BY DEF SortEntries
<1>4. order \in [DOMAIN entries -> DOMAIN entries]
  BY DEF Bijection, Injection
<1>5. EntriesOf(order)'
  <2>1. \A i \in DOMAIN entries' : IsRowOf(entries'[i], reg.fields[order[i]])
    BY <1>1, <1>3, <1>4 DEF ContentInv
  <2> QED BY <1>1, <1>2, <1>3, <2>1 DEF EntriesOf
<1>6. Holding(rows, placed)'
  <2>1. \A i \in DOMAIN entries' : ~(i <= 0)
    BY <1>2, <1>3
  <2>2. DOMAIN rows = {}
    BY <1>1
  <2>3. IsFiniteSet(FieldRowsOf(rows)) /\ Cardinality(FieldRowsOf(rows)) = placed
    BY DEF ContentInv, Holding
  <2> QED BY <1>1, <2>1, <2>2, <2>3 DEF Holding
<1> QED BY <1>1, <1>5, <1>6 DEF ContentInv

\* A row is placed, after the gap below it.
LEMMA PlaceContent == LayoutInv /\ ContentInv /\ PlaceRow => ContentInv'
<1> SUFFICES ASSUME LayoutInv, ContentInv, PlaceRow PROVE ContentInv'
  OBVIOUS
<1> DEFINE k == placed + 1
<1>1. /\ phase = "placing" /\ placed' = k
      /\ UNCHANGED <<reg, phase, entries>>
  BY DEF PlaceRow
<1>2. /\ reg.regwidth \in Nat /\ IsFiniteSet(taken) /\ rows \in Seq(Row) /\ nextBit \in Nat
      /\ entries \in Seq(Row) /\ placed \in Nat /\ k \in DOMAIN entries
  BY RegisterFacts DEF PlaceRow, LayoutInv, EntriesInv, RowsInv, PlacedInv
<1>3. PICK row, gap :
        /\ row = entries[k] /\ gap = ReservedRow(nextBit, row.lsb - 1)
        /\ IF row.lsb > nextBit THEN rows' = Append(Append(rows, gap), row)
                                ELSE rows' = Append(rows, row)
  BY DEF PlaceRow
<1>4. row \in Row /\ Fits(row, reg.regwidth) /\ row.lsb \in Nat /\ row.msb \in Nat
  <2>1. row \in Row
    BY <1>2, <1>3
  <2>2. Fits(row, reg.regwidth)
    BY <1>2, <1>3 DEF LayoutInv, EntriesInv
  <2> QED BY <2>1, <2>2 DEF Row
<1>5. ~row.reserved
  <2>1. PICK order : EntriesOf(order)
    BY <1>1 DEF ContentInv
  <2>2. IsRowOf(entries[k], reg.fields[order[k]])
    BY <1>2, <2>1 DEF EntriesOf
  <2> QED BY <1>3, <2>2 DEF IsRowOf
<1>6. Holding(rows', k)
  <2>1. CASE row.lsb > nextBit
    <3>1. PICK longer : longer = Append(rows, gap)
      OBVIOUS
    <3>2. gap \in Row
      <4>1. /\ row.lsb - 1 \in Nat /\ nextBit <= row.lsb - 1
            /\ row.lsb - 1 < reg.regwidth
        BY <1>2, <1>4, <2>1 DEF Fits
      <4> QED BY <1>2, <1>3, <4>1, ReservedRowFits
    <3>3. longer \in Seq(Row) /\ Holding(longer, placed)
      BY <1>2, <1>3, <3>1, <3>2, HoldReserved, ReservedRowIs DEF ContentInv
    <3>4. rows' = Append(longer, row)
      BY <1>3, <2>1, <3>1
    <3> QED BY <1>2, <1>3, <1>5, <3>3, <3>4, HoldEntry
  <2>2. CASE ~(row.lsb > nextBit)
    <3>1. rows' = Append(rows, row)
      BY <1>3, <2>2
    <3> QED BY <1>2, <1>3, <1>5, <3>1, HoldEntry DEF ContentInv
  <2> QED BY <2>1, <2>2
<1>7. Holding(rows, placed)'
  BY <1>1, <1>6 DEF Holding
<1>8. \E order : EntriesOf(order)'
  BY <1>1 DEF ContentInv, EntriesOf
<1> QED BY <1>1, <1>7, <1>8 DEF ContentInv

\* The tail is reserved, and the reset is that of the rows.
LEMMA CompleteContent == LayoutInv /\ ContentInv /\ Complete => ContentInv'
<1> SUFFICES ASSUME LayoutInv, ContentInv, Complete PROVE ContentInv'
  OBVIOUS
<1>1. /\ phase = "placing" /\ phase' = "done" /\ UNCHANGED <<reg, entries, placed>>
      /\ resetValue' = ResetValue(rows')
  BY DEF Complete
<1>2. /\ reg.regwidth \in Nat /\ IsFiniteSet(taken) /\ rows \in Seq(Row) /\ nextBit \in Nat
      /\ placed \in Nat
  BY RegisterFacts DEF LayoutInv, EntriesInv, RowsInv, PlacedInv
<1>3. PICK tail : tail = ReservedRow(nextBit, reg.regwidth - 1)
  OBVIOUS
<1>4. \/ nextBit < reg.regwidth /\ rows' = Append(rows, tail)
      \/ rows' = rows
  BY <1>3 DEF Complete
<1>5. Holding(rows', placed)
  <2>1. CASE nextBit < reg.regwidth /\ rows' = Append(rows, tail)
    <3>1. tail \in Row
      <4>1. reg.regwidth - 1 \in Nat /\ nextBit <= reg.regwidth - 1
            /\ reg.regwidth - 1 < reg.regwidth
        BY <1>2, <2>1
      <4> QED BY <1>2, <1>3, <4>1, ReservedRowFits
    <3> QED BY <1>2, <1>3, <2>1, <3>1, HoldReserved, ReservedRowIs DEF ContentInv
  <2>2. CASE rows' = rows
    BY <2>2 DEF ContentInv
  <2> QED BY <1>4, <2>1, <2>2
<1>6. Holding(rows, placed)'
  BY <1>1, <1>5 DEF Holding
<1>7. \E order : EntriesOf(order)'
  BY <1>1 DEF ContentInv, EntriesOf
<1> QED BY <1>1, <1>6, <1>7 DEF ContentInv

\* At every step the rows hold the fields placed so far, each once.
THEOREM ContentInvariance == Spec => []ContentInv
<1>1. Init => ContentInv
  <2> SUFFICES ASSUME Init PROVE ContentInv
    OBVIOUS
  <2>1. /\ phase = "naming" /\ entries = << >> /\ rows = << >> /\ placed = 0
        /\ DOMAIN entries = {} /\ DOMAIN rows = {}
    BY DEF Init
  <2>2. FieldRowsOf(rows) = {}
    BY <2>1 DEF FieldRowsOf
  <2>3. Holding(rows, placed)
    BY <2>1, <2>2, FS_EmptySet DEF Holding
  <2> QED BY <2>1, <2>3 DEF ContentInv
<1>2. LayoutInv /\ ContentInv /\ [Next]_vars => ContentInv'
  <2> SUFFICES ASSUME LayoutInv, ContentInv, [Next]_vars PROVE ContentInv'
    OBVIOUS
  <2>1. CASE UNCHANGED vars
    BY <2>1 DEF vars, ContentInv, Holding, EntriesOf
  <2> QED BY <2>1, NameContent, SortContent, PlaceContent, CompleteContent DEF Next
<1> QED BY <1>1, <1>2, LayoutInvariance, PTL DEF Spec

----------------------------------------------------------------------------
\* Rows that abut and are not empty follow one another.
LEMMA AbuttingInOrder ==
  ASSUME NEW rs \in Seq(Row), Abutting(rs), \A i \in DOMAIN rs : rs[i].lsb <= rs[i].msb,
         NEW i \in DOMAIN rs, NEW j \in DOMAIN rs, i < j
  PROVE  rs[i].msb < rs[j].lsb
<1> DEFINE T == {m \in DOMAIN rs : i < m /\ ~(rs[i].msb < rs[m].lsb)}
<1> SUFFICES ASSUME T # {} PROVE FALSE
  OBVIOUS
<1>1. DOMAIN rs = 1 .. Len(rs) /\ Len(rs) \in Nat
  OBVIOUS
<1>2. T \subseteq Nat
  BY <1>1
<1>3. PICK m \in T : \A l \in T : m <= l
  BY <1>2, LeastNatural
<1>4. m \in DOMAIN rs /\ m - 1 \in DOMAIN rs /\ i \in Nat /\ m \in Nat /\ i < m
  BY <1>1, <1>3
<1>5. rs[m].lsb = rs[m - 1].msb + 1 /\ rs[m - 1].lsb <= rs[m - 1].msb
  BY <1>4 DEF Abutting
<1>6. /\ rs[i].msb \in Nat /\ rs[m].lsb \in Nat
      /\ rs[m - 1].lsb \in Nat /\ rs[m - 1].msb \in Nat
  <2>1. rs[i] \in Row /\ rs[m] \in Row /\ rs[m - 1] \in Row
    BY <1>4
  <2> QED BY <2>1 DEF Row
<1>7. CASE m - 1 = i
  BY <1>3, <1>5, <1>6, <1>7
<1>8. CASE m - 1 # i
  <2>1. i < m - 1 /\ ~(m <= m - 1)
    BY <1>4, <1>8
  <2>2. rs[i].msb < rs[m - 1].lsb
    BY <1>3, <1>4, <2>1
  <2> QED BY <1>3, <1>5, <1>6, <2>2
<1> QED BY <1>7, <1>8

\* The positions of the members, as the recursion of PackedAt finds them.
PackedUpTo(i) ==
  CHOOSE at : at = [j \in 1 .. i |-> IF j = 1 THEN 0 ELSE at[j - 1] + rows[j - 1].width]

\* In rows the Validator lets through, a member starts at the bit its row says.
LEMMA PackedWhereDeclared ==
  ASSUME rows \in Seq(Row), Accepted(rows), NEW i \in DOMAIN rows
  PROVE  PackedAt(i) = rows[i].lsb
<1>1. DOMAIN rows = 1 .. Len(rows) /\ Len(rows) \in Nat /\ i \in Nat \ {0}
  OBVIOUS
<1>2. ASSUME NEW j \in 1 .. i
      PROVE  /\ j \in DOMAIN rows
             /\ rows[j].lsb \in Nat
             /\ rows[j].lsb = IF j = 1 THEN 0 ELSE rows[j - 1].lsb + rows[j - 1].width
  <2>1. j \in DOMAIN rows /\ j \in Nat \ {0}
    BY <1>1
  <2>2. j # 1 => j - 1 \in DOMAIN rows
    BY <1>1, <2>1
  <2>3. /\ rows[j] \in Row
        /\ j # 1 => rows[j - 1] \in Row
    BY <2>1, <2>2
  <2>4. /\ rows[j].lsb = IF j = 1 THEN 0 ELSE rows[j - 1].msb + 1
        /\ j # 1 => rows[j - 1].width = rows[j - 1].msb - rows[j - 1].lsb + 1
    BY <2>1, <2>2 DEF Accepted
  <2>5. /\ rows[j].lsb \in Nat
        /\ j # 1 => rows[j - 1].lsb \in Nat /\ rows[j - 1].msb \in Nat
    BY <2>3 DEF Row
  <2>6. j # 1 => rows[j].lsb = rows[j - 1].lsb + rows[j - 1].width
    BY <2>4, <2>5
  <2> QED BY <2>1, <2>4, <2>5, <2>6
<1>3. PICK starts : starts = [j \in 1 .. i |-> rows[j].lsb]
  OBVIOUS
<1>4. starts = [j \in 1 .. i |-> IF j = 1 THEN 0 ELSE starts[j - 1] + rows[j - 1].width]
  <2>1. ASSUME NEW j \in 1 .. i, j # 1 PROVE starts[j - 1] = rows[j - 1].lsb
    <3>1. j - 1 \in 1 .. i
      BY <1>1, <2>1
    <3> QED BY <1>3, <3>1
  <2> QED BY <1>2, <1>3, <2>1
<1>5. PICK at : at = PackedUpTo(i)
  OBVIOUS
<1>6. at = [j \in 1 .. i |-> IF j = 1 THEN 0 ELSE at[j - 1] + rows[j - 1].width]
  BY <1>4, <1>5 DEF PackedUpTo
<1>7. \A j \in 1 .. i : at[j] = IF j = 1 THEN 0 ELSE at[j - 1] + rows[j - 1].width
  BY <1>6
<1>8. at[i] = rows[i].lsb
  <2> DEFINE T == {j \in 1 .. i : at[j] # rows[j].lsb}
  <2> SUFFICES ASSUME T # {} PROVE FALSE
    BY <1>1
  <2>1. PICK m \in T : \A l \in T : m <= l
    <3>1. T \subseteq Nat
      OBVIOUS
    <3> QED BY <3>1, LeastNatural
  <2>2. m \in 1 .. i /\ m \in Nat /\ m - 1 \in Int
    BY <2>1
  <2>3. CASE m = 1
    BY <1>2, <1>7, <2>1, <2>2, <2>3
  <2>4. CASE m # 1
    <3>1. m - 1 \in 1 .. i /\ ~(m <= m - 1)
      BY <2>2, <2>4
    <3>2. at[m - 1] = rows[m - 1].lsb
      BY <2>1, <3>1
    <3>3. at[m] = at[m - 1] + rows[m - 1].width
      BY <1>7, <2>2, <2>4
    <3>4. rows[m].lsb = rows[m - 1].lsb + rows[m - 1].width
      BY <1>2, <2>2, <2>4
    <3> QED BY <2>1, <3>2, <3>3, <3>4
  <2> QED BY <2>3, <2>4
<1>9. PackedAt(i) = at[i]
  BY <1>5 DEF PackedAt, PackedUpTo
<1> QED BY <1>8, <1>9

\* Rows the Validator lets through share no bit.
LEMMA AcceptedApart ==
  ASSUME rows \in Seq(Row), Accepted(rows), NEW i \in DOMAIN rows, NEW j \in DOMAIN rows,
         i # j
  PROVE  rows[i].msb < rows[j].lsb \/ rows[j].msb < rows[i].lsb
<1>1. Abutting(rows) /\ \A m \in DOMAIN rows : rows[m].lsb <= rows[m].msb
  BY DEF Accepted, Abutting
<1>2. i \in Nat /\ j \in Nat
  <2>1. DOMAIN rows = 1 .. Len(rows)
    OBVIOUS
  <2> QED BY <2>1
<1>3. i < j \/ j < i
  BY <1>2
<1> QED BY <1>1, <1>3, AbuttingInOrder

\* The numbers of a row the Validator lets through.
LEMMA AcceptedRow ==
  ASSUME rows \in Seq(Row), Accepted(rows), NEW j \in DOMAIN rows
  PROVE  /\ rows[j].lsb \in Nat /\ rows[j].msb \in Nat /\ rows[j].lsb <= rows[j].msb
         /\ rows[j].width = rows[j].msb - rows[j].lsb + 1
<1>1. rows[j] \in Row
  OBVIOUS
<1>2. rows[j].lsb <= rows[j].msb /\ rows[j].width = rows[j].msb - rows[j].lsb + 1
  BY DEF Accepted
<1> QED BY <1>1, <1>2 DEF Row

\* In the end the rows are those of the fields, and reserved ones.
LEMMA RowsOfFields ==
  ASSUME LayoutInv, ContentInv, phase = "done"
  PROVE  /\ \A i \in DOMAIN reg.fields :
              \E j \in DOMAIN rows : IsRowOf(rows[j], reg.fields[i])
         /\ \A j \in DOMAIN rows :
              IF rows[j].reserved THEN rows[j].reset = NoReset
              ELSE \E i \in DOMAIN reg.fields : IsRowOf(rows[j], reg.fields[i])
         /\ Cardinality(FieldRowsOf(rows)) = Len(reg.fields)
<1>1. PICK order : EntriesOf(order)
  BY DEF ContentInv
<1>2. /\ DOMAIN entries = DOMAIN reg.fields
      /\ \A k \in DOMAIN entries : /\ order[k] \in DOMAIN reg.fields
                                   /\ IsRowOf(entries[k], reg.fields[order[k]])
      /\ \A i \in DOMAIN reg.fields : \E k \in DOMAIN entries : order[k] = i
  BY <1>1 DEF EntriesOf, Bijection, Injection, Surjection
<1>3. /\ entries \in Seq(Row) /\ placed = Len(entries) /\ Holding(rows, placed)
      /\ reg \in Registers
  BY DEF LayoutInv, EntriesInv, PlacedInv, ContentInv
<1>4. DOMAIN entries = 1 .. Len(entries) /\ Len(entries) \in Nat
  BY <1>3
<1>5. DOMAIN reg.fields = 1 .. Len(reg.fields) /\ Len(reg.fields) \in Nat
  BY <1>3, RegisterFacts
<1>6. Len(entries) = Len(reg.fields)
  <2>1. ASSUME NEW m \in Nat, NEW n \in Nat, 1 .. m = 1 .. n PROVE m = n
    <3>1. m # 0 => m \in 1 .. n
      BY <2>1
    <3>2. n # 0 => n \in 1 .. m
      BY <2>1
    <3> QED BY <3>1, <3>2
  <2> QED BY <1>2, <1>4, <1>5, <2>1
<1>7. ASSUME NEW i \in DOMAIN reg.fields
      PROVE  \E j \in DOMAIN rows : IsRowOf(rows[j], reg.fields[i])
  <2>1. PICK k \in DOMAIN entries : order[k] = i
    BY <1>2
  <2>2. k <= placed
    BY <1>3, <1>4
  <2>3. entries[k] \in Range(rows)
    BY <1>3, <2>2 DEF Holding
  <2>4. PICK j \in DOMAIN rows : rows[j] = entries[k]
    BY <2>3 DEF Range
  <2> QED BY <1>2, <2>1, <2>4
<1>8. ASSUME NEW j \in DOMAIN rows
      PROVE  IF rows[j].reserved THEN rows[j].reset = NoReset
             ELSE \E i \in DOMAIN reg.fields : IsRowOf(rows[j], reg.fields[i])
  BY <1>2, <1>3 DEF Holding
<1>9. Cardinality(FieldRowsOf(rows)) = Len(reg.fields)
  BY <1>3, <1>6 DEF Holding
<1> QED BY <1>7, <1>8, <1>9

\* Whatever the fields: in a register the Validator lets through, packed_s puts
\* each of them where the description does, and holds nothing else but reserved
\* members.
THEOREM FieldsAlwaysKept == Spec => []FieldsKeepTheirBits
<1>1. LayoutInv /\ ContentInv => FieldsKeepTheirBits
  <2> SUFFICES ASSUME LayoutInv, ContentInv, phase = "done", Accepted(rows)
               PROVE  FieldsKeepTheirBits
    BY DEF FieldsKeepTheirBits
  <2> DEFINE Members(f) == {j \in DOMAIN rows :
                              /\ rows[j].rdl = f.name
                              /\ PackedAt(j) = f.low
                              /\ PackedAt(j) + rows[j].width - 1 = f.high}
  <2>1. rows \in Seq(Row)
    BY DEF LayoutInv, RowsInv
  <2>2. ASSUME NEW i \in DOMAIN reg.fields
        PROVE  Cardinality(Members(reg.fields[i])) = 1
    <3>1. PICK f : f = reg.fields[i]
      OBVIOUS
    <3>2. PICK j \in DOMAIN rows : IsRowOf(rows[j], f)
      BY <3>1, RowsOfFields
    <3>3. rows[j].rdl = f.name /\ rows[j].lsb = f.low /\ rows[j].msb = f.high
      BY <3>2 DEF IsRowOf
    <3>4. PackedAt(j) = f.low /\ PackedAt(j) + rows[j].width - 1 = f.high
      <4>1. PackedAt(j) = rows[j].lsb
        BY <2>1, PackedWhereDeclared
      <4>2. /\ rows[j].lsb \in Nat /\ rows[j].msb \in Nat
            /\ rows[j].width = rows[j].msb - rows[j].lsb + 1
        BY <2>1, AcceptedRow
      <4> QED BY <3>3, <4>1, <4>2
    <3>5. ASSUME NEW m \in DOMAIN rows, PackedAt(m) = f.low
          PROVE  m = j
      <4>1. rows[m].lsb = rows[j].lsb
        BY <2>1, <3>3, <3>5, PackedWhereDeclared
      <4>2. /\ rows[m].lsb \in Nat /\ rows[m].msb \in Nat /\ rows[m].lsb <= rows[m].msb
            /\ rows[j].lsb \in Nat /\ rows[j].msb \in Nat /\ rows[j].lsb <= rows[j].msb
        BY <2>1, AcceptedRow
      <4>3. m # j => rows[m].msb < rows[j].lsb \/ rows[j].msb < rows[m].lsb
        BY <2>1, AcceptedApart
      <4> QED BY <4>1, <4>2, <4>3
    <3>6. Members(f) = {j}
      BY <3>3, <3>4, <3>5
    <3> QED BY <3>1, <3>6, FS_Singleton
  <2>3. Cardinality({j \in DOMAIN rows : ~rows[j].reserved}) = Len(reg.fields)
    BY RowsOfFields DEF FieldRowsOf
  <2> QED BY <2>2, <2>3 DEF FieldsKeepTheirBits
<1> QED BY <1>1, LayoutInvariance, ContentInvariance, PTL

\* Whatever the fields: in a register the Validator lets through, the reset is
\* the literal resets at their bits, and zero elsewhere.
THEOREM ResetAlwaysExact == Spec => []ResetIsExact
<1>1. LayoutInv /\ ContentInv => ResetIsExact
  <2> SUFFICES ASSUME LayoutInv, ContentInv, phase = "done", Accepted(rows)
               PROVE  ResetIsExact
    BY DEF ResetIsExact
  <2> DEFINE literal == {f \in Range(reg.fields) : f.reset \notin {NoReset, RefReset}}
             known == {j \in DOMAIN rows : rows[j].reset # NoReset}
             Bits(j) == {rows[j].lsb + b : b \in {c \in rows[j].reset : c < rows[j].width}}
  <2>1. rows \in Seq(Row) /\ reg \in Registers
    BY DEF LayoutInv, RowsInv
  <2>2. resetValue = IF known = {} THEN NoReset ELSE UNION {Bits(j) : j \in known}
    BY DEF ContentInv, ResetValue
  <2>3. ASSUME NEW f \in literal
        PROVE  f.reset \in SUBSET Nat /\ f.low \in Nat /\ f.high \in Nat
    BY <2>1, RegisterFacts DEF FieldsFit, Range
  <2>4. ASSUME NEW j \in known
        PROVE  \E f \in literal : IsRowOf(rows[j], f) /\ rows[j].reset = f.reset
    <3>1. PICK i \in DOMAIN reg.fields : IsRowOf(rows[j], reg.fields[i])
      BY RowsOfFields
    <3>2. PICK f : f = reg.fields[i]
      OBVIOUS
    <3>3. f \in Range(reg.fields) /\ IsRowOf(rows[j], f)
      BY <3>1, <3>2 DEF Range
    <3>4. rows[j].reset = ResetOf(f) /\ rows[j].reset # NoReset
      BY <3>3 DEF IsRowOf
    <3>5. f.reset # RefReset /\ f.reset # NoReset /\ rows[j].reset = f.reset
      BY <3>4 DEF ResetOf
    <3> QED BY <3>3, <3>5
  <2>5. ASSUME NEW f \in literal
        PROVE  \E j \in known : IsRowOf(rows[j], f) /\ rows[j].reset = f.reset
    <3>1. PICK i \in DOMAIN reg.fields : f = reg.fields[i]
      BY DEF Range
    <3>2. PICK j \in DOMAIN rows : IsRowOf(rows[j], f)
      BY <3>1, RowsOfFields
    <3>3. rows[j].reset = f.reset /\ f.reset # NoReset
      BY <3>2 DEF IsRowOf, ResetOf
    <3> QED BY <3>2, <3>3
  <2>6. ASSUME NEW j \in known, NEW f \in literal, IsRowOf(rows[j], f),
               rows[j].reset = f.reset
        PROVE  \A x : x \in Bits(j) <=> x \in f.low .. f.high /\ x - f.low \in f.reset
    <3>1. /\ rows[j].lsb = f.low /\ rows[j].msb = f.high
          /\ f.low \in Nat /\ f.high \in Nat
          /\ rows[j].width = f.high - f.low + 1
      BY <2>1, <2>3, <2>6, AcceptedRow DEF IsRowOf
    <3>2. f.reset \subseteq Nat
      BY <2>3
    <3>3. Bits(j) = {f.low + b : b \in {c \in f.reset : c < f.high - f.low + 1}}
      BY <2>6, <3>1
    <3> SUFFICES ASSUME NEW x
                 PROVE  x \in Bits(j) <=> x \in f.low .. f.high /\ x - f.low \in f.reset
      OBVIOUS
    <3>4. ASSUME x \in Bits(j) PROVE x \in f.low .. f.high /\ x - f.low \in f.reset
      <4>1. PICK b \in f.reset : x = f.low + b /\ b < f.high - f.low + 1
        BY <3>3, <3>4
      <4>2. b \in Nat
        BY <3>2
      <4>3. x - f.low = b /\ x \in f.low .. f.high
        BY <3>1, <4>1, <4>2
      <4> QED BY <4>3
    <3>5. ASSUME x \in f.low .. f.high, x - f.low \in f.reset PROVE x \in Bits(j)
      <4>1. x - f.low < f.high - f.low + 1 /\ x = f.low + (x - f.low)
        BY <3>1, <3>5
      <4> QED BY <3>3, <3>5, <4>1
    <3> QED BY <3>4, <3>5
  <2>7. ASSUME NEW j \in known, NEW f \in literal, NEW m \in known,
               IsRowOf(rows[j], f), NEW x \in f.low .. f.high, x \in Bits(m)
        PROVE  m = j
    <3>1. PICK g \in literal : IsRowOf(rows[m], g) /\ rows[m].reset = g.reset
      BY <2>4
    <3>2. x \in g.low .. g.high
      BY <2>6, <2>7, <3>1
    <3>3. /\ rows[j].lsb = f.low /\ rows[j].msb = f.high
          /\ rows[m].lsb = g.low /\ rows[m].msb = g.high
      BY <2>7, <3>1 DEF IsRowOf
    <3>4. m # j => rows[m].msb < rows[j].lsb \/ rows[j].msb < rows[m].lsb
      BY <2>1, AcceptedApart
    <3>5. f.low \in Nat /\ f.high \in Nat /\ g.low \in Nat /\ g.high \in Nat
      BY <2>3
    <3> QED BY <3>2, <3>3, <3>4, <3>5
  <2> HIDE DEF literal, known, Bits
  <2>8. CASE known = {}
    <3>1. literal = {} /\ resetValue = NoReset
      BY <2>2, <2>5, <2>8
    <3> QED BY <3>1 DEF ResetIsExact, literal
  <2>9. CASE known # {}
    <3>1. literal # {}
      BY <2>4, <2>9
    <3>2. resetValue = UNION {Bits(j) : j \in known}
      BY <2>2, <2>9
    <3>3. ASSUME NEW x \in resetValue
          PROVE  x \in UNION {f.low .. f.high : f \in literal}
      <4>1. PICK j \in known : x \in Bits(j)
        BY <3>2
      <4>2. PICK f \in literal : IsRowOf(rows[j], f) /\ rows[j].reset = f.reset
        BY <2>4
      <4>3. x \in f.low .. f.high
        BY <2>6, <4>1, <4>2
      <4> QED BY <4>3
    <3>4. ASSUME NEW f \in literal, NEW x \in f.low .. f.high
          PROVE  x \in resetValue <=> x - f.low \in f.reset
      <4>1. PICK j \in known : IsRowOf(rows[j], f) /\ rows[j].reset = f.reset
        BY <2>5
      <4>2. x \in Bits(j) <=> x - f.low \in f.reset
        BY <2>6, <4>1
      <4>3. x \in resetValue <=> x \in Bits(j)
        <5>1. ASSUME x \in resetValue PROVE x \in Bits(j)
          <6>1. PICK m \in known : x \in Bits(m)
            BY <3>2, <5>1
          <6> QED BY <2>7, <4>1, <6>1
        <5>2. x \in Bits(j) => x \in resetValue
          BY <3>2
        <5> QED BY <5>1, <5>2
      <4> QED BY <4>2, <4>3
    <3> QED BY <3>1, <3>3, <3>4 DEF ResetIsExact, literal
  <2> QED BY <2>8, <2>9
<1> QED BY <1>1, LayoutInvariance, ContentInvariance, PTL
=============================================================================
