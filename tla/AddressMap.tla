----------------------------- MODULE AddressMap -----------------------------
(***************************************************************************)
(* What SystemRDL says the address of a register is, and so what the       *)
(* offsets of the generated package must add up to: each component on the  *)
(* way down adds its own offset within its parent and, in an array, one    *)
(* stride for every element that comes before it in row-major order.       *)
(*                                                                         *)
(* The order is stated here as an order, not as arithmetic on indices:     *)
(* the element number is how many elements precede it.                     *)
(***************************************************************************)
EXTENDS Integers, Sequences, FiniteSets

CONSTANTS
  Children,    \* components: [offset, dims, stride]; a scalar has no dims
  MaxDepth     \* bound on the components on the way to a register

VARIABLES
  path,     \* the components passed, each with its indices
  address   \* where the last of them is

\* The elements of an array are the tuples within its dimensions; a scalar
\* is its only element.
Elements(dims) ==
  {e \in [DOMAIN dims -> UNION {0 .. dims[k] - 1 : k \in DOMAIN dims}] :
     \A k \in DOMAIN dims : e[k] \in 0 .. dims[k] - 1}

\* Row-major order: the last index varies fastest.
Precedes(e, f) ==
  \E k \in DOMAIN f : /\ e[k] < f[k]
                      /\ \A j \in 1 .. k - 1 : e[j] = f[j]

ElementNumber(dims, e) == Cardinality({f \in Elements(dims) : Precedes(f, e)})

Init ==
  /\ path = << >>
  /\ address = 0

Descend(child, e) ==
  /\ Len(path) < MaxDepth
  /\ path' = Append(path, <<child, e>>)
  /\ address' = address + child.offset + child.stride * ElementNumber(child.dims, e)

Next == \E child \in Children : \E e \in Elements(child.dims) : Descend(child, e)

Spec == Init /\ [][Next]_<<path, address>>
=============================================================================
