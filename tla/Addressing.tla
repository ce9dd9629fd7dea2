----------------------------- MODULE Addressing -----------------------------
(***************************************************************************)
(* addressing.py, driven the way the offset oracle of the tests and a PSS  *)
(* tool drive what is generated from it: down an instance path, adding the *)
(* offset of one child per level.                                          *)
(*                                                                         *)
(* PSS arrays have one dimension, so the indices of an element are         *)
(* flattened, row-major.  The loops of flat_count, flatten_index and       *)
(* unflatten_index are one action per iteration.  What each has computed   *)
(* so far is kept as a history, which the invariants relate.               *)
(***************************************************************************)
EXTENDS Integers, Sequences, FiniteSets

CONSTANTS
  Children,    \* children: [offset, dims, stride]; a scalar has no dims, and its
               \*   stride, None in the code, is any number: nothing reads it
  Tuples,      \* tuples of indices a caller may ask for, valid or not
  MaxDepth     \* bound on the levels of an instance path

ASSUME ChildrenAssumption ==
  \A c \in Children :
    /\ c.offset \in Nat /\ c.stride \in Nat
    /\ c.dims \in Seq(Nat \ {0})
ASSUME TuplesAssumption == Tuples \subseteq Seq(Int)

VARIABLES
  phase,    \* "walking" between levels, "resolving" one, or "raised"
  child,    \* the child at this level
  indices,  \* the indices asked for
  counts,   \* history of n in flat_count
  flats,    \* history of flat in flatten_index
  flat,     \* flat, which unflatten_index takes apart again
  out,      \* out of unflatten_index, in the order it returns it
  path,     \* history: the levels resolved
  address   \* the sum of their offsets

vars == <<phase, child, indices, counts, flats, flat, out, path, address>>

Latest(history) == history[Len(history)]

----------------------------------------------------------------------------
InRangeAbove(idx, dim) == idx < dim  \* mutant: no check from below

InRange(idx, dim) == 0 <= idx /\ idx < dim

HornerReversed(k) == Latest(flats) + child.dims[k] * indices[k]  \* mutant: scales the wrong term

\* One iteration of flatten_index.
Horner(k) == Latest(flats) * child.dims[k] + indices[k]

ElementOffsetUnscaled(c, index) == c.offset + index  \* mutant: no stride

\* element_offset, and get_offset_of_instance(_array) of the package.
ElementOffset(c, index) ==
  IF c.dims = << >> THEN c.offset ELSE c.offset + index * c.stride

\* index_helper_body builds the text of an expression.  A text is the sequence
\* of its summands: "*" binds to the last of them, parentheses make them one.
SumOf(text) ==
  LET sum[i \in 0 .. Len(text)] == IF i = 0 THEN 0 ELSE sum[i - 1] + text[i]
  IN  sum[Len(text)]
Times(text, n) == [text EXCEPT ![Len(text)] = @ * n]
Unparenthesized(text) == text  \* mutant: (i0*3 + i1)*2 without its parentheses
Parenthesized(text) == <<SumOf(text)>>

HelperText(dims, e) ==
  LET expr[i \in 1 .. Len(dims)] ==
        IF i = 1 THEN <<e[1]>>
        ELSE LET inner == IF i = 2 THEN expr[1] ELSE Parenthesized(expr[i - 1])
             IN  Append(Times(inner, dims[i]), e[i])
  IN  expr[Len(dims)]

----------------------------------------------------------------------------
Init ==
  /\ phase = "walking"
  /\ child \in Children
  /\ indices = << >>
  /\ counts = <<1>>
  /\ flats = <<0>>
  /\ flat = 0
  /\ out = << >>
  /\ path = << >>
  /\ address = 0

\* A caller asks for an element of a child of the component it is in: the offset
\* oracle with every tuple there is, a PSS test with any.  What it asks is the
\* choice of the environment; the loops start from where the code starts them.
Ask(c, e) ==
  /\ phase = "walking"
  /\ Len(path) < MaxDepth
  /\ phase' = "resolving"
  /\ child' = c
  /\ indices' = e
  /\ counts' = <<1>>
  /\ flats' = <<0>>
  /\ flat' = 0
  /\ out' = << >>
  /\ UNCHANGED <<path, address>>

CountBySum(n, dim) == n + dim  \* mutant: counts an array as its edges

CountBy(n, dim) == n * dim

\* One iteration of flat_count, which child_geometry calls.
Count ==
  /\ phase = "resolving"
  /\ Len(counts) <= Len(child.dims)
  /\ counts' = Append(counts, CountBy(Latest(counts), child.dims[Len(counts)]))
  /\ UNCHANGED <<phase, child, indices, flats, flat, out, path, address>>

Counted == phase = "resolving" /\ Len(counts) > Len(child.dims)

\* ValueError: not one index for each dimension.
RefuseArity ==
  /\ Counted
  /\ Len(indices) # Len(child.dims)
  /\ phase' = "raised"
  /\ UNCHANGED <<child, indices, counts, flats, flat, out, path, address>>

\* IndexError, in the iteration that meets the index.
RefuseIndex ==
  /\ Counted
  /\ Len(indices) = Len(child.dims)
  /\ Len(flats) <= Len(child.dims)
  /\ ~InRange(indices[Len(flats)], child.dims[Len(flats)])
  /\ phase' = "raised"
  /\ UNCHANGED <<child, indices, counts, flats, flat, out, path, address>>

Flatten ==
  /\ Counted
  /\ Len(indices) = Len(child.dims)
  /\ Len(flats) <= Len(child.dims)
  /\ InRange(indices[Len(flats)], child.dims[Len(flats)])
  /\ flats' = Append(flats, Horner(Len(flats)))
  /\ flat' = Latest(flats')
  /\ UNCHANGED <<phase, child, indices, counts, out, path, address>>

Flattened ==
  /\ Counted
  /\ Len(indices) = Len(child.dims)
  /\ Len(flats) > Len(child.dims)

NextDimensionForward == child.dims[Len(out) + 1]  \* mutant: dims not reversed

NextDimension == child.dims[Len(child.dims) - Len(out)]

\* One iteration of unflatten_index.
Unflatten ==
  /\ Flattened
  /\ Len(out) < Len(child.dims)
  /\ out' = <<flat % NextDimension>> \o out
  /\ flat' = flat \div NextDimension
  /\ UNCHANGED <<phase, child, indices, counts, flats, path, address>>

\* The caller adds the element's offset and goes on below it.
Resolve ==
  /\ Flattened
  /\ Len(out) = Len(child.dims)
  /\ address' = address + ElementOffset(child, Latest(flats))
  /\ path' = Append(path, <<child, indices>>)
  /\ phase' = "walking"
  /\ UNCHANGED <<child, indices, counts, flats, flat, out>>

Next ==
  \/ \E c \in Children, e \in Tuples : Ask(c, e)
  \/ Count
  \/ RefuseArity
  \/ RefuseIndex
  \/ Flatten
  \/ Unflatten
  \/ Resolve

Spec == Init /\ [][Next]_vars

----------------------------------------------------------------------------
Described == INSTANCE AddressMap

\* Each loop has run at most once per dimension, on numbers that make sense.
AddressingTypeOK ==
  /\ phase \in {"walking", "resolving", "raised"}
  /\ child \in Children
  /\ counts \in Seq(Nat \ {0}) /\ Len(counts) \in 1 .. Len(child.dims) + 1
  /\ flats \in Seq(Nat) /\ Len(flats) \in 1 .. Len(child.dims) + 1
  /\ flat \in Nat
  /\ out \in Seq(Nat)

\* However far flatten_index has come, the index so far is one of the array
\* made of the dimensions so far: the last is below the element count with
\* which the component declares its array.
FlatInRange ==
  \A k \in DOMAIN flats : k > 1 => flats[k] < counts[k]

\* The element count is the number of elements SystemRDL gives the array; the
\* Validator asserts no more than that it is not zero.
CountIsExact ==
  Counted => Latest(counts) = Cardinality(Described!Elements(child.dims))

\* unflatten_index is the inverse of flatten_index, as both docstrings say: at
\* every iteration it has recovered the last indices, and at the end all of
\* them with nothing left over.  No two elements share an index.
RoundTrip ==
  Flattened =>
    /\ out = SubSeq(indices, Len(indices) - Len(out) + 1, Len(indices))
    /\ flat = flats[Len(flats) - Len(out)]
    /\ Len(out) = Len(child.dims) => flat = 0

\* The helper function the package offers for an array of two or more
\* dimensions computes the index that the offset function expects.
HelperAgrees ==
  Flattened /\ Len(child.dims) >= 2 =>
    SumOf(HelperText(child.dims, indices)) = Latest(flats)

\* Walking the generated offsets reaches the address SystemRDL gives the
\* register, and no element that does not exist has an address.
AddressesAreDescribed == Described!Spec
=============================================================================
