------------------------------ MODULE MCServices ------------------------------
(***************************************************************************)
(* The parts of the library the others are built on, each checked in a     *)
(* part of the state space of its own: arrays and products, iteration over *)
(* concatenated views, grids and grid_tools, the removal of redundant      *)
(* constraints, linear systems, and the files and logs that are read and   *)
(* written.                                                                *)
(***************************************************************************)
EXTENDS Sequences, ArrayStructures, ConcatenatedIteration, GridTools, EqualityConstraints, Output

CONSTANTS
  Dof, MaxInitial,                           \* dofs in constraints, constraints of a client
  AttributeValues

VARIABLES
  part,                                      \* the part that runs
  constraints,
  backend, matrix, fill_active, rhs, solution, assembled, constrained, solved,
  written, file, edits, outcome

Vec(s) == [k \in 0 .. Len(s) - 1 |-> s[k + 1]]

-------------------------------------------------------------------------------
(* The inputs of the parts.                                                *)

TheVectors == {Vec(<<2>>), Vec(<<1, 4>>)}

\* Three arrays, read directly, by function or by point; a point view has a stride.
ArrayOf(sizes, first) == FillProgression(MultiArray(Vec(sizes), 0), first)
TheViews ==
  {View(Begin(ArrayOf(<<2>>, 1)), End(ArrayOf(<<2>>, 1))),
   FunctionView(ArrayOf(<<2, 3>>, 10), 1),
   FunctionView(ArrayOf(<<1, 2>>, 20), 0),
   PointView(ArrayOf(<<2, 3>>, 10), 2)}
TheLists == UNION {[0 .. n - 1 -> TheViews] : n \in 1 .. 3}

TheGrids ==
  {Create(Vec(<<Vec(<<0, 8, 16>>)>>)),
   Create(Vec(<<Vec(<<0, 4, 16>>)>>)),
   Create(FilledProgression(Vec(<<Vec(<<0, 16>>), Vec(<<0, 8>>)>>), Vec(<<3, 2>>))),
   Create(Vec(<<Vec(<<0, 16>>), Vec(<<0, 4, 8>>)>>)),
   Create(Vec(<<Vec(<<0, 8>>), Vec(<<0, 4>>), Vec(<<0, 4, 8>>)>>))}

Square(a, b, c, d) == [ij \in (0 .. 1) \X (0 .. 1) |-> IF ij[1] = 0 THEN IF ij[2] = 0 THEN a ELSE b
                                                      ELSE IF ij[2] = 0 THEN c ELSE d]
System == INSTANCE LinearSystem WITH
  Prime <- 3,
  ElementDofs <- [e \in 1 .. 2 |-> Vec(<<e - 1, e>>)],
  LocalMatrices <- {Square(2, 1, 1, 2), Square(1, 2, 0, 1), Square(1, 1, 2, 0)},
  LocalVectors <- {Vec(<<1, 2>>), Vec(<<0, 1>>)},
  BoundaryValues <- {[i \in {0} |-> 2], [i \in {0, 2} |-> i], [i \in {1} |-> 1]},
  outcome <- solved

ScalarComponent(degrees, multiplicities, weights) ==
  [degrees |-> degrees, multiplicities |-> Vec(multiplicities), weights |-> weights]
MappingOf(dim, codim, isNurbs, grid_knots, components, control) ==
  [dim |-> dim, codim |-> codim, isNurbs |-> isNurbs,
   space |-> [grid |-> Vec(grid_knots), components |-> Vec(components)], control |-> control]
\* A NURBS curve in the plane, whose components are written once, and a spline
\* map of the plane with two components.
TheMappings ==
  {LET c == ScalarComponent(<<1>>, << <<1>> >>, <<1, 2, 1>>)
   IN  MappingOf(1, 1, TRUE, << <<0, 1, 2>> >>, <<c, c>>, <<1, 2, 3, 4, 5, 6>>),
   MappingOf(2, 0, FALSE, << <<0, 1, 3>>, <<0, 2>> >>,
             <<ScalarComponent(<<1, 1>>, << <<2>>, <<>> >>, <<>>),
               ScalarComponent(<<2, 0>>, << <<1>>, <<>> >>, <<>>)>>,
             <<1, 2, 3, 4, 5, 6, 7, 8, 1, 2, 3, 4>>)}
Reader == INSTANCE FileReader WITH Mappings <- TheMappings

TheSizes == {Vec(<<2>>), Vec(<<2, 1>>), Vec(<<1, 1, 1>>)}

-------------------------------------------------------------------------------
(* One part runs; the variables of the others keep one value.              *)

constraintVars == <<constraints>>
systemVars == <<backend, matrix, fill_active, rhs, solution, assembled, constrained, solved>>
readerVars == <<written, file, edits, outcome>>

\* What a client may have added: no constraint of a dof with itself.
ConstraintsInit ==
  constraints \in {cs \in SUBSET (Dof \X Dof) : IterationDefined(cs) /\ Cardinality(cs) <= MaxInitial}
ConstraintsNext == IterationDefined(constraints) /\ constraints' = WithoutRedundancies(constraints)

IdleArrays == table = {} /\ product = {}
IdleCursor == CursorInit({[r \in {0} |-> View(Begin(ArrayOf(<<2>>, 1)), End(ArrayOf(<<2>>, 1)))]})
IdleGrids == grid = {} /\ previous = {} /\ other = {}
IdleConstraints == constraints = {}
IdleSystem ==
  /\ backend = {} /\ matrix = {} /\ fill_active = {} /\ rhs = {} /\ solution = {}
  /\ assembled = {} /\ constrained = {} /\ solved = {}
IdleReader == written = {} /\ file = {} /\ edits = {} /\ outcome = {}
IdleWriter == size = {} /\ active = {} /\ writer = {} /\ fields = {} /\ cells = {} /\ saved = None

Init ==
  /\ part \in {"tables", "products", "cursor", "grids", "constraints", "system", "reader", "writer", "log"}
  /\ IF part \in {"tables", "products"} THEN ArraysInit ELSE IdleArrays
  /\ IF part = "cursor" THEN CursorInit(TheLists) ELSE IdleCursor
  /\ IF part = "grids" THEN GridsInit ELSE IdleGrids
  /\ IF part = "constraints" THEN ConstraintsInit ELSE IdleConstraints
  /\ IF part = "system" THEN System!SystemInit ELSE IdleSystem
  /\ IF part = "reader" THEN Reader!ReaderInit ELSE IdleReader
  /\ IF part = "writer" THEN WriterInit ELSE IdleWriter
  /\ LogInit

Keep(unless) ==
  /\ UNCHANGED part
  /\ unless # "arrays" => UNCHANGED arrayVars
  /\ unless # "cursor" => UNCHANGED cursorVars
  /\ unless # "grids" => UNCHANGED gridVars
  /\ unless # "constraints" => UNCHANGED constraintVars
  /\ unless # "system" => UNCHANGED systemVars
  /\ unless # "reader" => UNCHANGED readerVars
  /\ unless # "writer" => UNCHANGED writerVars
  /\ unless # "log" => UNCHANGED logVars

RunTables == part = "tables" /\ TablesNext /\ Keep("arrays")
RunProducts == part = "products" /\ ProductsNext /\ Keep("arrays")
RunCursor == part = "cursor" /\ CursorNext /\ Keep("cursor")
RunGrids == part = "grids" /\ GridsNext /\ Keep("grids")
RunConstraints == part = "constraints" /\ ConstraintsNext /\ Keep("constraints")
RunSystem == part = "system" /\ System!SystemNext /\ Keep("system")
RunReader == part = "reader" /\ Reader!ReaderNext /\ Keep("reader")
RunWriter == part = "writer" /\ WriterNext /\ Keep("writer")
RunLog == part = "log" /\ LogNext /\ Keep("log")

Next ==
  \/ RunTables \/ RunProducts \/ RunCursor \/ RunGrids \/ RunConstraints
  \/ RunSystem \/ RunReader \/ RunWriter \/ RunLog

serviceVars ==
  <<part, arrayVars, cursorVars, gridVars, constraintVars,
    systemVars, readerVars, writerVars, logVars>>

Spec == Init /\ [][Next]_serviceVars

-------------------------------------------------------------------------------
(* Each property is about the part that runs.                              *)

\* Tables are the same through all their views, products agree with the
\* vectors they are made of (DynamicMultiArray, ValueTable,
\* CartesianProductArray; ArrayStructures says what that means).
ArraysAgree == part \in {"tables", "products"} => ViewsAgree /\ ProductsAgree

\* Elements fill the box of their grid, points and faces are found in them,
\* and the maps between united and refined grids lead to the elements they
\* lie in (CartesianGrid, grid_tools).
GridsAgree == part = "grids" => ElementsLocated /\ GridsMapped

\* The dofs that had to be equal before are the ones that have to be after
\* (SpaceManager::remove_equality_constraints_redundancies).
EqualitiesKept == [][SameEqualities(constraints, constraints')]_constraints

\* The system keeps the solutions of the problem that was assembled and
\* constrained, over both libraries, and a solve that returns has found one
\* (Matrix, Vector, LinearSolver, dof_tools).
SystemsSolved == part = "system" => System!SystemsSolved

\* Only what was written is ever read from a file, whatever its order and
\* whatever one edit did to it (get_mapping_from_file).
FilesReadBack == part = "reader" => Reader!FilesReadBack
===============================================================================
