---------------------------- MODULE TensorIndexing ----------------------------
(***************************************************************************)
(* Flat and tensor indices of a TensorSizedContainer: the entries of a     *)
(* Rank-dimensional box, numbered with the first direction fastest.        *)
(***************************************************************************)
EXTENDS Integers

CONSTANT Rank

ASSUME RankAssumption == Rank \in Nat \ {0}

Dir == 0 .. Rank - 1

\* weight[i]: the entries of the box of the first i + 1 directions.
ComputeWeight(size) ==
  LET w[i \in Dir] == IF i = 0 THEN size[0] ELSE w[i - 1] * size[i] IN w

FlatSize(size) == ComputeWeight(size)[Rank - 1]

\* What is left of flat when the directions after i are taken out.
Remainder(flat, weight) ==
  LET l[i \in Dir] == IF i = Rank - 1 THEN flat ELSE l[i + 1] % weight[i] IN l

FlatToTensor(flat, size) ==
  LET weight == ComputeWeight(size)
      l == Remainder(flat, weight)
  IN  [i \in Dir |-> IF i = 0 THEN l[0] ELSE l[i] \div weight[i - 1]]

TensorToFlat(tensor, size) ==
  LET weight == ComputeWeight(size)
      f[i \in Dir] == IF i = 0 THEN tensor[0] ELSE f[i - 1] + weight[i - 1] * tensor[i]
  IN  f[Rank - 1]

\* A variant with the end of every direction inside.
InClosedBox(tensor, size) == \A i \in Dir : tensor[i] >= 0 /\ tensor[i] <= size[i]

InBox(tensor, size) == \A i \in Dir : tensor[i] >= 0 /\ tensor[i] < size[i]
=============================================================================
