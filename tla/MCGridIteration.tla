---------------------------- MODULE MCGridIteration ----------------------------
(***************************************************************************)
(* Instances of GridIteration for TLC: grids of one to three dimensions.   *)
(***************************************************************************)
EXTENDS GridIteration

CONSTANT i1

OneByOne   == [d \in Dir |-> 1]
UnitSteps  == {t \in [Dir -> -1 .. 1] : \E d \in Dir : t[d] # 0}
AnyFlags   == SUBSET (0 .. 2 * 2 - 1)
=============================================================================
