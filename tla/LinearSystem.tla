----------------------------- MODULE LinearSystem -----------------------------
(***************************************************************************)
(* The distributed matrix and vectors of a problem, over Trilinos or over  *)
(* PETSc: the graph they are allocated on, the assembly of element         *)
(* matrices, the boundary values put into the system, and its solution.    *)
(*                                                                         *)
(* Reals are the elements of a small prime field, in which the solutions   *)
(* of a system can be listed.  The two libraries are external: what they   *)
(* do is taken from how the code calls them.                               *)
(***************************************************************************)
EXTENDS PrimeField, FiniteSets, Folds, SequencesExt

CONSTANTS
  ElementDofs,     \* element -> its global dofs, as [0 .. n - 1 -> dof]
  LocalMatrices,   \* the matrices an element may have
  LocalVectors,    \* the vectors an element may have
  BoundaryValues   \* the maps of boundary values clients pass

VARIABLES
  backend,      \* the library the code is compiled for
  matrix,       \* the entries of the graph
  fill_active,  \* whether entries may be written
  rhs, solution,
  assembled,    \* element -> the matrix and vector added to the system
  constrained,  \* dof -> the boundary value applied to it
  outcome       \* what the last solve gave

systemVars == <<backend, matrix, fill_active, rhs, solution, assembled, constrained, outcome>>

Elements == DOMAIN ElementDofs
DofsOf(e) == {ElementDofs[e][i] : i \in DOMAIN ElementDofs[e]}
RowDofs == UNION {DofsOf(e) : e \in Elements}
Field == 0 .. Prime - 1

\* The sum of f over a finite set, in the field.
SumOf(S, f(_)) == MapThenFoldSet(LAMBDA a, b : a ++ b, 0, f, LAMBDA T : CHOOSE x \in T : TRUE, S)

-------------------------------------------------------------------------------
(* Graph, matrix and vectors.                                              *)

\* A variant that connects each dof of an element to itself only.
DiagonalPattern == UNION {{<<i, i>> : i \in DofsOf(e)} : e \in Elements}
\* Every dof of an element is connected to every dof of the element.
SparsityPattern == UNION {DofsOf(e) \X DofsOf(e) : e \in Elements}

\* The rows of the matrix are those of the row map; the columns of each are
\* the ones the graph was given for it.
BuildGraph == {<<i, j>> \in RowDofs \X RowDofs : <<i, j>> \in SparsityPattern}
BuildMatrix == [ij \in BuildGraph |-> 0]

\* A finite set of dofs, in the order a std::set has them.
Ordered(S) == CHOOSE f \in [1 .. Cardinality(S) -> S] : \A k, l \in DOMAIN f : k < l => f[k] < f[l]

\* Matrix<petsc>::init: for the row at each position the length of the row that
\* comes there in the pattern, whatever its dof; the matrix takes no more entries.
Preallocation ==
  [k \in 0 .. Cardinality(RowDofs) - 1 |->
     Cardinality({ij \in SparsityPattern : ij[1] = Ordered(RowDofs)[k + 1]})]

\* A PETSc vector is made from the number of dofs, a Trilinos one from the dofs.
VectorIds == IF backend = "petsc" THEN 0 .. Cardinality(RowDofs) - 1 ELSE RowDofs
NewVector == [i \in VectorIds |-> 0]

\* sumIntoGlobalValues, MatSetValue: an entry that is not in the graph is dropped.
SumInto(A, i, j, value) == IF <<i, j>> \in DOMAIN A THEN [A EXCEPT ![<<i, j>>] = @ ++ value] ELSE A

AddEntry(A, i, j, value) == SumInto(A, i, j, value)

\* A variant that adds the transposed block.
AddBlockTransposed(A, dofs, local) ==
  [ij \in DOMAIN A |->
     A[ij] ++ SumOf({kl \in DOMAIN local : dofs[kl[1]] = ij[1] /\ dofs[kl[2]] = ij[2]},
                    LAMBDA kl : local[<<kl[2], kl[1]>>])]
\* add_block, row by row.
AddBlock(A, dofs, local) ==
  [ij \in DOMAIN A |->
     A[ij] ++ SumOf({kl \in DOMAIN local : dofs[kl[1]] = ij[1] /\ dofs[kl[2]] = ij[2]},
                    LAMBDA kl : local[kl])]

\* MatSetValues: a block as one array of its values, row after row.
SetValues(A, dofs, values) ==
  LET n == Cardinality(DOMAIN dofs)
  IN  [ij \in DOMAIN A |->
         A[ij] ++ SumOf({k \in DOMAIN values : dofs[k \div n] = ij[1] /\ dofs[k % n] = ij[2]},
                        LAMBDA k : values[k])]

\* add_block of PETSc, at once.
AddBlockTogether(A, dofs, local) ==
  LET n == Cardinality(DOMAIN dofs)
  IN  SetValues(A, dofs, [k \in 0 .. n * n - 1 |-> local[<<k \div n, k % n>>]])

AddVectorBlock(v, dofs, local) ==
  [i \in DOMAIN v |-> v[i] ++ SumOf({k \in DOMAIN local : dofs[k] = i}, LAMBDA k : local[k])]

\* operator(): the entry, which must be in the graph; PETSc reads others as zero.
ReadEntry(A, i, j) == A[<<i, j>>]
ReadOrZero(A, i, j) == IF <<i, j>> \in DOMAIN A THEN A[<<i, j>>] ELSE 0
ClearRow(A, i) == [ij \in DOMAIN A |-> IF ij[1] = i THEN 0 ELSE A[ij]]

GetLocalCoefs(v, dofs) == [k \in DOMAIN dofs |-> v[dofs[k]]]

\* y = alpha A x + beta y, and the same with A transposed.
MultiplyByRightVector(A, x, y, alpha, beta) ==
  [i \in DOMAIN y |->
     (alpha ** SumOf({ij \in DOMAIN A : ij[1] = i}, LAMBDA ij : A[ij] ** x[ij[2]])) ++ (beta ** y[i])]
MultiplyByLeftVector(A, x, y, alpha, beta) ==
  [j \in DOMAIN y |->
     (alpha ** SumOf({ij \in DOMAIN A : ij[2] = j}, LAMBDA ij : A[ij] ** x[ij[1]])) ++ (beta ** y[j])]

-------------------------------------------------------------------------------
(* Boundary values.                                                        *)

\* A variant that reads the diagonal entry when the row is cleared already.
OneValueClearedFirst(s, i, value) ==
  LET diagonal == ReadEntry(ClearRow(s.matrix, i), i, i)
  IN  [matrix |-> AddEntry(ClearRow(s.matrix, i), i, i, diagonal),
       rhs |-> [s.rhs EXCEPT ![i] = value ** diagonal],
       solution |-> [s.solution EXCEPT ![i] = value]]

\* Trilinos: the row keeps its diagonal entry.
OneValue(s, i, value) ==
  LET diagonal == ReadEntry(s.matrix, i, i)
  IN  [matrix |-> AddEntry(ClearRow(s.matrix, i), i, i, diagonal),
       rhs |-> [s.rhs EXCEPT ![i] = value ** diagonal],
       solution |-> [s.solution EXCEPT ![i] = value]]

\* The map is walked in the order of the dofs.
ApplyRowByRow(s, values) ==
  LET dof == Ordered(DOMAIN values)
      after[k \in 0 .. Cardinality(DOMAIN values)] ==
        IF k = 0 THEN s ELSE OneValue(after[k - 1], dof[k], values[dof[k]])
  IN  after[Cardinality(DOMAIN values)]

\* MatZeroRowsColumns: rows and columns vanish but for the diagonal entries,
\* all set to one number; the columns go to the right-hand side.
ZeroRowsColumns(s, rows, diagonal) ==
  [s EXCEPT
     !.matrix = [ij \in DOMAIN s.matrix |->
       IF ij[1] \in rows \/ ij[2] \in rows
       THEN IF ij[1] = ij[2] THEN diagonal ELSE 0
       ELSE s.matrix[ij]],
     !.rhs = [i \in DOMAIN s.rhs |->
       IF i \in rows THEN diagonal ** s.solution[i]
       ELSE s.rhs[i] -- SumOf({ij \in DOMAIN s.matrix : ij[1] = i /\ ij[2] \in rows},
                              LAMBDA ij : s.matrix[ij] ** s.solution[ij[2]])]]

\* A variant that sets the boundary values in the solution afterwards.
ApplyToZeroSolution(s, values) ==
  LET rows == DOMAIN values
  IN  ZeroRowsColumns(s, rows, ReadEntry(s.matrix, Ordered(rows)[1], Ordered(rows)[1]))
\* PETSc: the diagonal entry of the first of the rows serves them all.
ApplyTogether(s, values) ==
  LET rows == DOMAIN values
      known == [s EXCEPT !.solution =
                  [i \in DOMAIN @ |-> IF i \in rows THEN values[i] ELSE @[i]]]
  IN  ZeroRowsColumns(known, rows, ReadOrZero(s.matrix, Ordered(rows)[1], Ordered(rows)[1]))

System == [matrix |-> matrix, rhs |-> rhs, solution |-> solution]

-------------------------------------------------------------------------------
(* Linear constraints, kept by type in a multimap.                         *)

\* The order of the flags, and the one get_linear_constraints asks in.
TypesByFlag == <<"lagrange", "penalty", "augmented_lagrange">>
TypesAsked == <<"lagrange", "augmented_lagrange", "penalty">>

LinearConstraint(global_dof_id, type, dofs, coeffs, value) ==
  [global_dof_id |-> global_dof_id, type |-> type,
   lhs |-> [k \in DOMAIN dofs |-> <<dofs[k], coeffs[k]>>], rhs |-> value]

NoLinearConstraints == [type \in ToSet(TypesByFlag) |-> <<>>]
AddLinearConstraint(constraints, c) == [constraints EXCEPT ![c.type] = Append(@, c)]

GetLinearConstraints(constraints, types) ==
  FlattenSeq([k \in DOMAIN TypesAsked |-> IF TypesAsked[k] \in types THEN constraints[TypesAsked[k]] ELSE <<>>])

IsDofPresent(c, dof) == \E k \in DOMAIN c.lhs : c.lhs[k][1] = dof

\* The error without its sign; the values are those of the dofs 0, 1, ...
EvalError(c, dof_values) ==
  SumOf(DOMAIN c.lhs, LAMBDA k : c.lhs[k][2] ** dof_values[c.lhs[k][1]]) -- c.rhs

\* The constraints with an error, of any size, in the order of the multimap.
VerifyLinearConstraints(constraints, dof_values) ==
  SelectSeq(FlattenSeq([k \in DOMAIN TypesByFlag |-> constraints[TypesByFlag[k]]]),
            LAMBDA c : EvalError(c, dof_values) # 0)

-------------------------------------------------------------------------------
(* The program that assembles and solves.                                  *)

None == [i \in {} |-> 0]

SystemInit ==
  /\ backend \in {"trilinos", "petsc"}
  /\ matrix = BuildMatrix
  /\ fill_active = TRUE
  /\ rhs = NewVector
  /\ solution = NewVector
  /\ assembled = None
  /\ constrained = None
  /\ outcome = "none"

\* Each element once, before the boundary values.
AssembleElement(e, local, vector) ==
  /\ fill_active /\ constrained = None
  /\ e \notin DOMAIN assembled
  /\ matrix' = IF backend = "petsc" THEN AddBlockTogether(matrix, ElementDofs[e], local)
                                   ELSE AddBlock(matrix, ElementDofs[e], local)
  /\ rhs' = AddVectorBlock(rhs, ElementDofs[e], vector)
  /\ assembled' = [f \in DOMAIN assembled \cup {e} |->
                     IF f = e THEN [matrix |-> local, vector |-> vector] ELSE assembled[f]]
  /\ UNCHANGED <<backend, fill_active, solution, constrained, outcome>>

FillComplete ==
  /\ fill_active
  /\ DOMAIN assembled = Elements
  /\ fill_active' = FALSE
  /\ UNCHANGED <<backend, matrix, rhs, solution, assembled, constrained, outcome>>

\* The matrix and the right-hand side, for the next assembly; only Trilinos.
Clear ==
  /\ backend = "trilinos"
  /\ ~fill_active
  /\ matrix' = [ij \in DOMAIN matrix |-> 0]
  /\ fill_active' = TRUE
  /\ rhs' = [i \in DOMAIN rhs |-> 0]
  /\ assembled' = None
  /\ constrained' = None
  /\ outcome' = "none"
  /\ UNCHANGED <<backend, solution>>

\* The diagonal entries of the rows are not zero (the matrices are those of
\* elliptic forms).  PETSc keeps the part of the right-hand side that the
\* values gave before, so a dof gets its value once there.
CanApply(values) ==
  /\ DOMAIN values # {} /\ DOMAIN values \subseteq RowDofs
  /\ \A i \in DOMAIN values : matrix[<<i, i>>] # 0
  /\ backend = "petsc" => DOMAIN values \cap DOMAIN constrained = {}

ApplyBoundaryValues(values) ==
  /\ ~fill_active
  /\ CanApply(values)
  /\ LET s == IF backend = "petsc" THEN ApplyTogether(System, values) ELSE ApplyRowByRow(System, values)
     IN  /\ matrix' = s.matrix
         /\ rhs' = s.rhs
         /\ solution' = s.solution
  /\ constrained' = [i \in DOMAIN constrained \cup DOMAIN values |->
                       IF i \in DOMAIN values THEN values[i] ELSE constrained[i]]
  /\ outcome' = "none"
  /\ UNCHANGED <<backend, fill_active, assembled>>

AllVectors == [VectorIds -> Field]
Applied(A, x) == MultiplyByRightVector(A, x, NewVector, 1, 0)
SolutionsOf(A, b) == {x \in AllVectors : Applied(A, x) = b}

\* What the iteration finds: the solution, or nothing.
CanSolve == ~fill_active /\ outcome = "none"
Converges == Cardinality(SolutionsOf(matrix, rhs)) = 1

\* Trilinos throws when the iteration does not converge.
Solve ==
  /\ backend = "trilinos" /\ CanSolve
  /\ IF Converges THEN solution' \in SolutionsOf(matrix, rhs) ELSE UNCHANGED solution
  /\ outcome' = IF Converges THEN "converged" ELSE "thrown"
  /\ UNCHANGED <<backend, matrix, fill_active, rhs, assembled, constrained>>

\* PETSc does not look, and leaves what it has.
SolveUnchecked ==
  /\ backend = "petsc" /\ CanSolve
  /\ IF Converges THEN solution' \in SolutionsOf(matrix, rhs) ELSE UNCHANGED solution
  /\ outcome' = IF Converges THEN "converged" ELSE "unchecked"
  /\ UNCHANGED <<backend, matrix, fill_active, rhs, assembled, constrained>>

SystemNext ==
  \/ \E e \in Elements, local \in LocalMatrices, vector \in LocalVectors : AssembleElement(e, local, vector)
  \/ FillComplete
  \/ Clear
  \/ \E values \in BoundaryValues : ApplyBoundaryValues(values)
  \/ Solve
  \/ SolveUnchecked

-------------------------------------------------------------------------------
(* Properties.                                                             *)

\* The form and the load the elements add up to, entry by entry.
Form(i, j) ==
  SumOf(DOMAIN assembled, LAMBDA e :
    SumOf({kl \in DOMAIN assembled[e].matrix : ElementDofs[e][kl[1]] = i /\ ElementDofs[e][kl[2]] = j},
          LAMBDA kl : assembled[e].matrix[kl]))
Load(i) ==
  SumOf(DOMAIN assembled, LAMBDA e :
    SumOf({k \in DOMAIN assembled[e].vector : ElementDofs[e][k] = i}, LAMBDA k : assembled[e].vector[k]))

UnitVector(i) == [NewVector EXCEPT ![i] = 1]

\* The vectors that take the boundary values and satisfy the rows of the
\* other dofs.
ConstrainedSolutions ==
  LET full == [ij \in RowDofs \X RowDofs |-> Form(ij[1], ij[2])]
      load == [i \in RowDofs |-> Load(i)]
  IN  {x \in AllVectors :
        /\ \A i \in DOMAIN constrained : x[i] = constrained[i]
        /\ \A i \in RowDofs \ DOMAIN constrained :
             SumOf(RowDofs, LAMBDA j : full[<<i, j>>] ** x[j]) = load[i]}

\* The problem as the linear constraints of a client: one for each dof, its
\* boundary value or its row.
EquationOf(i) ==
  IF i \in DOMAIN constrained THEN LinearConstraint(i, "penalty", <<i>>, <<1>>, constrained[i])
  ELSE LET dofs == Ordered(RowDofs)
       IN  LinearConstraint(i, "lagrange", dofs, [k \in DOMAIN dofs |-> Form(i, dofs[k])], Load(i))
Equations == FoldFunction(LAMBDA i, cs : AddLinearConstraint(cs, EquationOf(i)), NoLinearConstraints, Ordered(RowDofs))

\* The constraints hold for the solutions; a dof that is changed breaks only
\* constraints it is present in; each type is returned when it is asked for.
ConstraintsVerified ==
  LET all == GetLinearConstraints(Equations, ToSet(TypesAsked))
      failed(x) == ToSet(VerifyLinearConstraints(Equations, x))
  IN  /\ \A x \in AllVectors : failed(x) = {} <=> x \in ConstrainedSolutions
      /\ ToSet(all) = {EquationOf(i) : i \in RowDofs} /\ Len(all) = Cardinality(RowDofs)
      /\ ToSet(GetLinearConstraints(Equations, {"penalty"})) = {EquationOf(i) : i \in DOMAIN constrained}
      /\ outcome = "converged" =>
           \A i \in RowDofs : \A c \in failed([solution EXCEPT ![i] = @ ++ 1]) : IsDofPresent(c, i)

\* The system always has the solutions of the problem its elements and
\* boundary values state, over both libraries, whatever was assembled, cleared
\* and constrained before; the graph drops no entry, the two products with
\* the matrix are adjoint, and a solve that returns has solved it.  Stated as
\* linear constraints the same problem is verified by the same vectors
\* (add_block, apply_boundary_values, LinearSolver::solve,
\* verify_linear_constraints).
SystemsSolved ==
  /\ ConstraintsVerified
  /\ \A i \in RowDofs : Cardinality({ij \in DOMAIN matrix : ij[1] = i}) <= Preallocation[i]
  /\ SolutionsOf(matrix, rhs) = ConstrainedSolutions
  /\ constrained = None =>
       \A i, j \in RowDofs :
         /\ MultiplyByRightVector(matrix, UnitVector(j), NewVector, 1, 0)[i] = Form(i, j)
         /\ MultiplyByLeftVector(matrix, UnitVector(i), NewVector, 1, 0)[j] = Form(i, j)
  /\ outcome = "converged" =>
       /\ MultiplyByRightVector(matrix, solution, rhs, 1, Prime - 1) = NewVector
       /\ \A i \in DOMAIN constrained : solution[i] = constrained[i]
       /\ \A e \in Elements : \A k \in DOMAIN ElementDofs[e] :
            GetLocalCoefs(solution, ElementDofs[e])[k] = solution[ElementDofs[e][k]]
===============================================================================
