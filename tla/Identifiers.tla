---------------------------- MODULE Identifiers ----------------------------
(***************************************************************************)
(* The identifier rules of the exporter (identifiers.py): how a SystemRDL  *)
(* name becomes a legal PSS name that is not yet taken.                    *)
(*                                                                         *)
(* A name is a sequence of tokens, each a text with a number: the word     *)
(* ctrl is <<"ctrl", 0>>, the suffix _3 is <<"_", 3>> and __v2 is          *)
(* <<"__v", 2>>.  A suffix is appended as one token, so ctrl followed by   *)
(* _reset is the name a user spells <<W("ctrl"), W("_reset")>>: the        *)
(* collisions the code has to resolve are equalities of these sequences.   *)
(***************************************************************************)
EXTENDS Naturals, Sequences, FiniteSets

CONSTANTS
  Texts,      \* the texts of tokens
  Keywords,   \* PSS_KEYWORDS: names PSS reserves
  Imported,   \* PSS_IMPORTED_NAMES: names every generated file imports
  Foreign,    \* texts outside [A-Za-z_0-9], the escape \ among them
  Digital     \* texts that start with a digit, or are nothing but a number

Token == Texts \X Nat
Name  == Seq(Token)

W(text) == <<text, 0>>
Underscore == W("_")
Backslash  == W("\\")

Reserved == Keywords \cup Imported

\* The texts the exporter itself appends or inserts.
ASSUME TextsAssumption ==
  {"", "_", "__", "__v", "_reset", "_index", "anon__"} \subseteq Texts

\* No reserved word is empty, ends in an underscore or in a generated number,
\* so a suffix never turns a name into a reserved one.
ASSUME ReservedAssumption ==
  \A n \in Reserved : /\ n \in Name
                      /\ n # <<>>
                      /\ n[Len(n)] # Underscore
                      /\ n[Len(n)][2] = 0

\* The underscore that replaces and prefixes is itself a legal first character.
ASSUME UnderscoreAssumption ==
  "_" \notin Foreign \cup Digital

\* A token without a text is its number written out, so it starts with a digit.
ASSUME NumeralAssumption == "" \in Digital

----------------------------------------------------------------------------
SanitizeCharacters(name) ==  \* mutant: the first character is not looked at
  [i \in DOMAIN name |-> IF name[i][1] \in Foreign THEN Underscore ELSE name[i]]

\* _sanitize: drop the escape, replace foreign characters, never start with
\* a digit or stay empty.
Sanitize(name) ==
  LET bare  == IF name # <<>> /\ Head(name) = Backslash THEN Tail(name) ELSE name
      clean == [i \in DOMAIN bare |->
                  IF bare[i][1] \in Foreign THEN Underscore ELSE bare[i]]
  IN  IF clean = <<>> \/ Head(clean)[1] \in Digital
        THEN <<Underscore>> \o clean
        ELSE clean

Numbered(base, text, i) == Append(base, <<text, i>>)

\* The first number from `from` on whose name is free.  Cardinality(taken)
\* names cannot occupy one more than that many candidates.
FreeNumber(base, text, from, taken) ==
  CHOOSE i \in from .. from + Cardinality(taken) :
    /\ Numbered(base, text, i) \notin taken
    /\ \A j \in from .. i - 1 : Numbered(base, text, j) \in taken

MangleUnchecked(name, taken) ==  \* mutant: takes the underscored name unseen
  LET base == Sanitize(name) IN
  IF base \in Reserved \/ base \in taken THEN Append(base, Underscore) ELSE base

MangleKeywordsOnly(name, taken) ==  \* mutant: the imported names are forgotten
  LET base  == Sanitize(name)
      first == IF base \in Keywords THEN Append(base, Underscore) ELSE base
  IN  IF first \notin taken THEN first
      ELSE Numbered(base, "_", FreeNumber(base, "_", 1, taken))

MangleByCount(name, taken) ==  \* mutant: numbers by what is taken, free or not
  LET base == Sanitize(name) IN
  IF taken = {} THEN base ELSE Numbered(base, "_", Cardinality(taken))

\* mangle: the reserved words get an underscore; a collision gets an
\* underscore, then _1, _2, ... appended to the sanitized name.
Mangle(name, taken) ==
  LET base  == Sanitize(name)
      first == IF base \in Reserved THEN Append(base, Underscore) ELSE base
      next  == Append(base, Underscore)
  IN  IF first \notin taken THEN first
      ELSE IF next \notin taken /\ next \notin Keywords THEN next
      ELSE Numbered(base, "_", FreeNumber(base, "_", 1, taken))

\* is_legal_identifier: the character set, the first character, no keyword.
IsLegal(name) ==
  /\ name # <<>>
  /\ Head(name)[1] \notin Digital
  /\ \A i \in DOMAIN name : name[i][1] \notin Foreign
  /\ name \notin Keywords
=============================================================================
