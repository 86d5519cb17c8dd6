----------------------------- MODULE TensorAlgebra -----------------------------
(***************************************************************************)
(* The tensors of base/tensor.h over a field.  A tensor is a function on   *)
(* its multi-indices, sequences of numbers from 0: the entry D[k][i] of    *)
(* the code, the derivative of component i in direction k, is D[<<k, i>>]. *)
(* A number is the tensor on {<<>>}, which lets one definition stand for   *)
(* the overloads on Tdouble and on every rank.                             *)
(***************************************************************************)
EXTENDS PrimeField, Sequences, FiniteSets, FiniteSetsExt, TLC

\* The same function as a table, every value of which TLC evaluates once.
Tabulated(f) == f @@ <<>>

\* The values of the m-th index of A.
Slot(A, m) == {i[m] : i \in DOMAIN A}

SumOver(S, F(_)) == MapThenFoldSet(LAMBDA x, y : x ++ y, 0, F, LAMBDA T : CHOOSE x \in T : TRUE, S)

Negative(x) == 0 -- x
Plus(A, B) == [i \in DOMAIN A |-> A[i] ++ B[i]]
Minus(A, B) == [i \in DOMAIN A |-> A[i] -- B[i]]
Scale(a, A) == [i \in DOMAIN A |-> a ** A[i]]

\* A[k], the entry of the code's operator[].
Entry(A, k) == [i \in {Tail(j) : j \in {l \in DOMAIN A : Head(l) = k}} |-> A[<<k>> \o i]]

\* Tensor::flat_to_tensor_index: the last index runs fastest.
FlatToTensor(dim, rank, flat) ==
  [i \in 1 .. rank |-> (flat \div dim^(rank - i)) % dim]

TensorToFlat(dim, index) ==
  LET f[i \in 0 .. Len(index)] == IF i = 0 THEN 0 ELSE dim * f[i - 1] + index[i] IN f[Len(index)]

-----------------------------------------------------------------------------
\* A(x, ., .)
Action(A, x) ==
  Tabulated([i \in {Tail(j) : j \in DOMAIN A} |-> SumOver(Slot(A, 1), LAMBDA k : A[<<k>> \o i] ** x[<<k>>])])

\* R[k] = action(S, T[k])
Compose(S, T) ==
  Tabulated([i \in {<<k>> \o j : k \in Slot(T, 1), j \in {Tail(l) : l \in DOMAIN S}} |->
               SumOver(Slot(T, 2), LAMBDA k : T[<<i[1], k>>] ** S[<<k>> \o Tail(i)])])

Transpose(A) == [i \in {<<j[2], j[1]>> : j \in DOMAIN A} |-> A[<<i[2], i[1]>>]]

ScalarProduct(A, B) == SumOver(DOMAIN A, LAMBDA i : A[i] ** B[i])

Trace(A) == SumOver(Slot(A, 1), LAMBDA k : A[<<k, k>>])

-----------------------------------------------------------------------------
\* det_ of a square tensor of dimension 1, 2 or 3.
Triple(A, j, k, l) == A[<<0, j>>] ** (A[<<1, k>>] ** A[<<2, l>>])

Det(A) ==
  CASE Cardinality(Slot(A, 1)) = 1 -> A[<<0, 0>>]
    [] Cardinality(Slot(A, 1)) = 2 -> (A[<<0, 0>>] ** A[<<1, 1>>]) -- (A[<<0, 1>>] ** A[<<1, 0>>])
    [] Cardinality(Slot(A, 1)) = 3 ->
         SumTo(3, LAMBDA j : Triple(A, j, (j + 1) % 3, (j + 2) % 3) -- Triple(A, j, (j + 2) % 3, (j + 1) % 3))

\* inverse_: the cofactors, transposed, over the determinant.
Cofactor(A, n, i, j) ==
  CASE n = 1 -> 1
    [] n = 2 -> IF i = j THEN A[<<1 - i, 1 - i>>] ELSE 0 -- A[<<j, i>>]
    [] n = 3 -> (A[<<(i + 1) % 3, (j + 1) % 3>>] ** A[<<(i + 2) % 3, (j + 2) % 3>>])
                  -- (A[<<(i + 1) % 3, (j + 2) % 3>>] ** A[<<(i + 2) % 3, (j + 1) % 3>>])

CofactorsOver(A, det) == Tabulated([i \in DOMAIN A |-> Cofactor(A, Cardinality(Slot(A, 1)), i[2], i[1]) // det])

SquareInverse(A) == CofactorsOver(A, Det(A))

\* DF^t o DF: the scalar products of the tangent vectors.
Gram(DF) == Compose(Transpose(DF), DF)

\* A gradient is square when the mapping fills its space.
IsSquare(DF) == Slot(DF, 1) = Slot(DF, 2)

\* inverse: of a rectangular gradient, the pseudo-inverse.
InverseOf(DF) == IF IsSquare(DF) THEN SquareInverse(DF) ELSE Compose(SquareInverse(Gram(DF)), Transpose(DF))

\* The square of determinant(DF); a field has no square root to offer.
DeterminantSquared(DF) == IF IsSquare(DF) THEN Power(Det(DF), 2) ELSE Det(Gram(DF))
=============================================================================
