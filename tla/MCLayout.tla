------------------------------ MODULE MCLayout ------------------------------
(* Layout on every register of four bits with up to three disjoint fields of *)
(* one or two bits each, named like a reserved row, like its replacement,    *)
(* and by a keyword, in every order; on every register with up to three     *)
(* fields, in every order, that software only reads or only writes and that  *)
(* overlap where SystemRDL allows it; and on registers of pulses.            *)
EXTENDS Layout

MCTexts == STRING
MCKeywords == {<<W("component")>>}
MCPrefix == <<W("rsvd_")>>
MCWidth == 4

NameList == << <<W("rsvd_"), <<"", 0>>>>, <<W("rsvd_"), <<"", 0>>, Underscore>>,
               <<W("component")>> >>

Field(name, low, high, sw, reset, effects) ==
  [name |-> name, low |-> low, high |-> high, sw |-> sw, reset |-> reset, effects |-> effects]

Spans == {<<low, high>> \in (0 .. MCWidth - 1) \X (0 .. MCWidth - 1) : high - low \in 0 .. 1}

Plain ==
  UNION {{Field(name, b[1], b[2], "rw", {b[2] - b[1]}, {}),
          Field(name, b[1], b[2], "w1", NoReset, {}),
          Field(name, b[1], b[2], "na", RefReset, {})} :
           name \in Range(NameList), b \in Spans}

HalfDuplex(name) ==
  UNION {{Field(name, b[1], b[2], "r", NoReset, {}),
          Field(name, b[1], b[2], "r", {0}, {"onread", "swacc"}),
          Field(name, b[1], b[2], "w", {b[2] - b[1]}, {})} : b \in Spans}

Register(fields, msb0) == [regwidth |-> MCWidth, msb0 |-> msb0, fields |-> fields]

PlainRegisters ==
  {r \in {Register(s, FALSE) : s \in UNION {[1 .. n -> Plain] : n \in 1 .. 3}} :
     FieldsDisjoint(r) /\ IsInjective([i \in DOMAIN r.fields |-> r.fields[i].name])}

HalfDuplexRegisters ==
  {r \in {Register(s, msb0) : s \in {<<f>> : f \in HalfDuplex(NameList[1])} \cup
                                   HalfDuplex(NameList[1]) \X HalfDuplex(NameList[2]),
                              msb0 \in BOOLEAN} \cup
         {Register(s, FALSE) : s \in HalfDuplex(NameList[1]) \X HalfDuplex(NameList[2])
                                       \X HalfDuplex(NameList[3])} : OverlapsAreLegal(r)}

\* A pulse is one bit that resets to zero.
Pulses(name, bit) == {Field(name, bit, bit, sw, {}, {"singlepulse"}) : sw \in {"rw", "w"}}

PulseRegisters ==
  {Register(<<f>>, FALSE) : f \in Pulses(NameList[1], 1)} \cup
  {Register(s, FALSE) : s \in Pulses(NameList[1], 1) \X Pulses(NameList[2], 0)}

MCRegisters == PlainRegisters \cup HalfDuplexRegisters \cup PulseRegisters
=============================================================================
