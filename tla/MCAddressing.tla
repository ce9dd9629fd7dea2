---------------------------- MODULE MCAddressing ----------------------------
(* Instance paths of two levels through scalars and arrays of one to three  *)
(* dimensions of unequal sizes, one of them 1, asked for with every tuple   *)
(* of up to three indices from one below to one past the largest dimension. *)
EXTENDS Addressing

Child(offset, dims, stride) == [offset |-> offset, dims |-> dims, stride |-> stride]
MCChildren ==
  {Child(8, << >>, 0), Child(4, <<3>>, 4), Child(16, <<2, 3>>, 6),
   Child(0, <<3, 1, 2>>, 4), Child(32, <<2, 3, 2>>, 8)}
MCTuples == UNION {[1 .. n -> -1 .. 3] : n \in 0 .. 3}
=============================================================================
