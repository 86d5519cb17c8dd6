---------------------------- MODULE GridRefinement ----------------------------
(***************************************************************************)
(* h-refinement of a CartesianGrid and of the objects built on it.         *)
(*                                                                         *)
(* refine_directions refines the knots and then calls, in the order of     *)
(* their connection, the slots of its signal.  A BSplineSpace connects two *)
(* slots (that of its base SplineSpace and its own), a NURBSSpace one and  *)
(* an IgMapping one; the slot of an object reads what the slots of the     *)
(* objects it was built on have left.  One step per slot: the states in    *)
(* between are those the next slot sees.  Nothing else runs meanwhile.     *)
(*                                                                         *)
(* Objects live while a shared_ptr holds them; a slot holds a bare this.   *)
(* Each GridWrapper stores one connection and disconnects it when it dies. *)
(* Components, weights and control points keep their sizes, not their      *)
(* values: one component, the sizes per direction.                         *)
(***************************************************************************)
EXTENDS KnotRefinement, SequencesExt

CONSTANTS
  Dir,              \* the directions of the grid
  BSpline,          \* names for BSplineSpace objects
  Nurbs,            \* names for NURBSSpace objects
  Map,              \* names for IgMapping objects created from a space
  Cursor,           \* names for IgMapping objects begin() makes on the same data
  Copy,             \* names for copy-constructed IgMapping objects
  Degree,           \* the degree, in every direction
  Multiplicity,     \* multiplicities clients give to the knots of a new space
  SharesTables,     \* clients pass the multiplicity table of another space
  Releasable,       \* the objects clients let go
  InitialKnots,     \* InitialKnots[d]: the knots of the new grid
  Subdivisions,     \* the numbers of subdivisions clients ask for
  MaxRefinements    \* bound: calls of refine

Space   == BSpline \cup Nurbs
Mapping == Map \cup Cursor \cup Copy
Object  == Space \cup Mapping

ASSUME GridRefinementAssumption ==
  /\ Degree \in Nat
  /\ Multiplicity \subseteq 1 .. Degree + 1
  /\ SharesTables \in BOOLEAN
  /\ Releasable \subseteq Object
  /\ InitialKnots \in [Dir -> Seq(Int)]
  /\ BSpline \cap (Nurbs \cup Mapping) = {} /\ Nurbs \cap Mapping = {}
  /\ Map \cap (Cursor \cup Copy) = {} /\ Cursor \cap Copy = {}
  /\ \A d \in Dir : /\ Len(InitialKnots[d]) >= 2
                    /\ \A i, j \in DOMAIN InitialKnots[d] :
                         i < j => InitialKnots[d][i] < InitialKnots[d][j]
  /\ Subdivisions \subseteq Nat \ {0, 1}
  /\ MaxRefinements \in Nat

VARIABLES
  knot_coordinates,      \* per direction
  grid_pre_refinement,   \* the knots before the last refinement, or << >>
  refine_signals,        \* the slots connected so far, <<object, function>>
  disconnected,          \* the connections that have been closed
  refining,              \* inside refine_directions
  refinement_directions, \* the argument of the signal
  pending,               \* the slots still to call
  interior_mult,         \* the multiplicity tables, named by their first space
  bsplines,              \* the live BSplineSpace objects
  nurbs,                 \* the live NURBSSpace objects
  maps,                  \* the live IgMapping objects
  data,                  \* the IgMappingData, named by their first mapping
  held,                  \* the objects a client holds
  born,                  \* the names used so far
  refinements            \* counter behind MaxRefinements

grid_vars   == <<knot_coordinates, grid_pre_refinement, refinements>>
signal_vars == <<refining, refinement_directions, pending>>
object_vars == <<interior_mult, bsplines, nurbs, maps, data>>
client_vars == <<refine_signals, disconnected, held, born>>
vars == <<grid_vars, signal_vars, object_vars, client_vars>>

-----------------------------------------------------------------------------
With(f, x, v) == [y \in DOMAIN f \cup {x} |-> IF y = x THEN v ELSE f[y]]

\* Tables of one row per direction.
NumBasisTable(mult) == [d \in Dir |-> NumBasis(Degree, mult[d])]

TotalBasis(sizes) == FoldFunction(LAMBDA a, b : a * b, 1, sizes)

Mult(s) == interior_mult[bsplines[s].mult]

\* The BSplineSpace behind a reference space.
BSplineOf(o) == IF o \in Nurbs THEN nurbs[o].sp_space ELSE o

\* A variant in which a mapping on a NURBSSpace does not keep its BSplineSpace.
KeepsFirst(o) == CASE o \in BSpline -> {}
                   [] o \in Nurbs   -> {nurbs[o].sp_space}
                   [] o \in Mapping -> {data[maps[o].data].ref_space}

\* What the members of an object keep alive.
Keeps(o) == CASE o \in BSpline -> {}
              [] o \in Nurbs   -> {nurbs[o].sp_space}
              [] o \in Mapping -> LET r == data[maps[o].data].ref_space
                                  IN  {r, BSplineOf(r)}

KeptAlive(roots) == roots \cup UNION {Keeps(o) : o \in roots}

Live == DOMAIN bsplines \cup DOMAIN nurbs \cup DOMAIN maps

\* The connection stored in the GridWrapper of an object: the last one made.
StoredConnection(o) == CASE o \in BSpline -> <<o, "bspline">>
                         [] o \in Nurbs   -> <<o, "weights">>
                         [] o \in Mapping -> maps[o].connection

Slot == (BSpline \X {"spline", "bspline"}) \cup (Nurbs \X {"weights"})
          \cup (Map \X {"control_mesh"})
NoConnection == << >>

Init ==
  /\ knot_coordinates = InitialKnots
  /\ grid_pre_refinement = << >>
  /\ refine_signals = << >>
  /\ disconnected = {}
  /\ refining = FALSE
  /\ refinement_directions = {}
  /\ pending = << >>
  /\ interior_mult = [s \in {} |-> InitialKnots]
  /\ bsplines = [s \in {} |-> InitialKnots]
  /\ nurbs = [s \in {} |-> InitialKnots]
  /\ maps = [s \in {} |-> InitialKnots]
  /\ data = [s \in {} |-> InitialKnots]
  /\ held = {}
  /\ born = {}
  /\ refinements = 0

-----------------------------------------------------------------------------
(* Construction and destruction.                                             *)

Construct(o) ==
  /\ ~refining
  /\ o \notin born
  /\ born' = born \cup {o}
  /\ held' = held \cup {o}
  /\ UNCHANGED <<grid_vars, signal_vars, disconnected>>

\* The slots the constructors of SplineSpace and BSplineSpace connect.
BSplineSlots(s) == << <<s, "spline">>, <<s, "bspline">> >>

NewBSpline(s, table, mult) ==
  bsplines' = With(bsplines, s,
                   [mult |-> table, space_dim |-> NumBasisTable(mult),
                    previous |-> << >>, dofs |-> NumBasisTable(mult)])

\* With a table of its own: maximum regularity, or one the client has filled.
CreateBSplineSpace(s, m) ==
  LET mult == [d \in Dir |-> [i \in 1 .. Len(knot_coordinates[d]) - 2 |-> m]]
  IN  /\ Construct(s)
      /\ interior_mult' = With(interior_mult, s, mult)
      /\ NewBSpline(s, s, mult)
      /\ refine_signals' = refine_signals \o BSplineSlots(s)
      /\ UNCHANGED <<nurbs, maps, data>>

\* With the table of space r, as get_interior_mult() returns it.
CreateOnTableOf(s, r) ==
  /\ SharesTables
  /\ r \in held \cap DOMAIN bsplines
  /\ \A d \in Dir : Len(Mult(r)[d]) = Len(knot_coordinates[d]) - 2
  /\ Construct(s)
  /\ NewBSpline(s, bsplines[r].mult, Mult(r))
  /\ refine_signals' = refine_signals \o BSplineSlots(s)
  /\ UNCHANGED <<interior_mult, nurbs, maps, data>>

\* On a given BSplineSpace.  The constructors that make one of their own do so
\* first: CreateBSplineSpace, this action, and the release of the BSplineSpace.
CreateNURBSSpace(w, s) ==
  /\ s \in held \cap DOMAIN bsplines
  /\ Construct(w)
  /\ nurbs' = With(nurbs, w, [sp_space |-> s, weights |-> bsplines[s].space_dim])
  /\ refine_signals' = Append(refine_signals, <<w, "weights">>)
  /\ UNCHANGED <<interior_mult, bsplines, maps, data>>

CreateIgMapping(m, r) ==
  LET sizes == bsplines[BSplineOf(r)].space_dim
  IN  /\ r \in held \cap (DOMAIN bsplines \cup DOMAIN nurbs)
      /\ Construct(m)
      /\ data' = With(data, m, [ref_space |-> r, ctrl_mesh |-> sizes,
                                control_points |-> TotalBasis(sizes)])
      /\ maps' = With(maps, m, [data |-> m, connection |-> <<m, "control_mesh">>])
      /\ refine_signals' = Append(refine_signals, <<m, "control_mesh">>)
      /\ UNCHANGED <<interior_mult, bsplines, nurbs>>

\* begin(), last(), end() and the element accessors: a mapping on the same
\* data that connects nothing.
ShareIgMappingData(c, m) ==
  /\ m \in held \cap DOMAIN maps
  /\ Construct(c)
  /\ maps' = With(maps, c, [data |-> maps[m].data, connection |-> NoConnection])
  /\ UNCHANGED <<interior_mult, bsplines, nurbs, data, refine_signals>>

\* The copy constructor copies the data and, through the default copy
\* constructor of GridWrapper, the stored connection.
CopyIgMapping(c, m) ==
  /\ m \in held \cap DOMAIN maps
  /\ Construct(c)
  /\ data' = With(data, c, data[maps[m].data])
  /\ maps' = With(maps, c, [data |-> c, connection |-> maps[m].connection])
  /\ UNCHANGED <<interior_mult, bsplines, nurbs, refine_signals>>

\* The client lets go of o; what nothing else keeps alive is destroyed, and
\* each GridWrapper disconnects what it has stored.
Release(o) ==
  LET live == KeptAlive(held \ {o})
      dead == Live \ live
  IN  /\ ~refining
      /\ o \in held \cap Releasable
      /\ held' = held \ {o}
      /\ bsplines' = Restrict(bsplines, DOMAIN bsplines \cap live)
      /\ nurbs' = Restrict(nurbs, DOMAIN nurbs \cap live)
      /\ maps' = Restrict(maps, DOMAIN maps \cap live)
      /\ data' = Restrict(data, {maps[x].data : x \in DOMAIN maps \cap live})
      /\ disconnected' = disconnected \cup {StoredConnection(x) : x \in dead}
      /\ UNCHANGED <<grid_vars, signal_vars, interior_mult, refine_signals, born>>

-----------------------------------------------------------------------------
(* Refinement.                                                               *)

\* A variant that calls the slots of the youngest object first.
YoungestFirst(slots) == Reverse(slots)

\* The order in which the signal calls its slots.
CallOrder(slots) == slots

\* refine_directions up to the emission; refine, refine_direction and the
\* functions of GridWrapper call it.  n[d] is read only in directions dirs.
Refine(dirs, n) ==
  /\ ~refining
  /\ refinements < MaxRefinements
  /\ \A d \in dirs : Divides(n[d], knot_coordinates[d])
  /\ refining' = TRUE
  /\ refinement_directions' = dirs
  /\ pending' = CallOrder(refine_signals)
  /\ grid_pre_refinement' = knot_coordinates
  /\ knot_coordinates' = [d \in Dir |->
                            IF d \in dirs THEN RefineKnots(knot_coordinates[d], n[d])
                                          ELSE knot_coordinates[d]]
  /\ refinements' = refinements + 1
  /\ UNCHANGED <<object_vars, client_vars>>

\* The slot <<o, function>> is called: o must still exist.
Called(o, function) ==
  /\ pending # << >>
  /\ Head(pending) = <<o, function>>
  /\ Head(pending) \notin disconnected
  /\ o \in Live
  /\ pending' = Tail(pending)
  /\ UNCHANGED <<grid_vars, refining, refinement_directions, client_vars>>

\* The signal passes over a connection that has been closed.
PassOver ==
  /\ pending # << >>
  /\ Head(pending) \in disconnected
  /\ pending' = Tail(pending)
  /\ UNCHANGED <<grid_vars, refining, refinement_directions, object_vars, client_vars>>

RefineFactor(d) == Intervals(knot_coordinates[d]) \div Intervals(grid_pre_refinement[d])

RefinedMult(mult) ==
  [d \in Dir |-> IF d \in refinement_directions
                   THEN RefineMultiplicities(mult[d], RefineFactor(d))
                   ELSE mult[d]]

\* SplineSpace::refine_h_after_grid_refinement writes through the pointer to
\* the (const) multiplicity table.
SplineSlot(s) ==
  LET refined == RefinedMult(Mult(s))
  IN  /\ Called(s, "spline")
      /\ interior_mult' = [interior_mult EXCEPT ![bsplines[s].mult] = refined]
      /\ bsplines' = [bsplines EXCEPT
                        ![s].previous = [knots |-> grid_pre_refinement, mult |-> Mult(s)],
                        ![s].space_dim = NumBasisTable(refined)]
      /\ UNCHANGED <<nurbs, maps, data>>

BSplineSlot(s) ==
  /\ Called(s, "bspline")
  /\ bsplines' = [bsplines EXCEPT ![s].dofs = bsplines[s].space_dim]
  /\ UNCHANGED <<interior_mult, nurbs, maps, data>>

\* A variant that takes the number of new intervals for the last new index r.
OneKnotMissed(d) == Len(knot_coordinates[d]) - Len(grid_pre_refinement[d]) - 1

\* r + 1: the knots of the refined grid that the old grid has not.
KnotsAdded(d) == Len(knot_coordinates[d]) - Len(grid_pre_refinement[d])

\* Knot insertion (algorithm A5.4) adds one slice per added knot.
InsertKnots(sizes) ==
  [d \in Dir |-> IF d \in refinement_directions THEN sizes[d] + KnotsAdded(d) ELSE sizes[d]]

WeightsSlot(w) ==
  /\ Called(w, "weights")
  /\ nurbs' = [nurbs EXCEPT ![w].weights = InsertKnots(nurbs[w].weights)]
  /\ UNCHANGED <<interior_mult, bsplines, maps, data>>

ControlMeshSlot(m) ==
  LET d == maps[m].data
  IN  /\ Called(m, "control_mesh")
      /\ data' = [data EXCEPT
                    ![d].ctrl_mesh = InsertKnots(data[d].ctrl_mesh),
                    ![d].control_points =
                        TotalBasis(bsplines[BSplineOf(data[d].ref_space)].space_dim)]
      /\ UNCHANGED <<interior_mult, bsplines, nurbs, maps>>

RefinementDone ==
  /\ refining
  /\ pending = << >>
  /\ refining' = FALSE
  /\ UNCHANGED <<grid_vars, refinement_directions, pending, object_vars, client_vars>>

Next ==
  \/ \E s \in BSpline : \/ \E m \in Multiplicity : CreateBSplineSpace(s, m)
                        \/ \E r \in BSpline : CreateOnTableOf(s, r)
                        \/ \E w \in Nurbs : CreateNURBSSpace(w, s)
                        \/ SplineSlot(s)
                        \/ BSplineSlot(s)
  \/ \E m \in Map, r \in Space : CreateIgMapping(m, r)
  \/ \E m \in Mapping, c \in Cursor : ShareIgMappingData(c, m)
  \/ \E m \in Mapping, c \in Copy : CopyIgMapping(c, m)
  \/ \E o \in Releasable : Release(o)
  \/ \E dirs \in SUBSET Dir : \E n \in [dirs -> Subdivisions] : Refine(dirs, n)
  \/ \E w \in Nurbs : WeightsSlot(w)
  \/ \E m \in Map : ControlMeshSlot(m)
  \/ PassOver
  \/ RefinementDone

Spec == Init /\ [][Next]_vars

-----------------------------------------------------------------------------
(* Properties.                                                               *)

Sizes == [Dir -> Nat]
Table == [Dir -> Seq(1 .. Degree + 1)]

\* No live object, and no client, points to one that is gone, or to a table or to
\* data that nothing holds (the shared_ptr members of spaces and mappings).
ReferencesLive ==
  /\ \A s \in DOMAIN bsplines : bsplines[s].mult \in DOMAIN interior_mult
  /\ \A w \in DOMAIN nurbs : nurbs[w].sp_space \in DOMAIN bsplines
  /\ \A m \in DOMAIN maps : maps[m].data \in DOMAIN data
  /\ \A d \in DOMAIN data : data[d].ref_space \in DOMAIN bsplines \cup DOMAIN nurbs
  /\ held \subseteq Live /\ Live \subseteq born

\* The members keep their types: multiplicities stay between 1 and degree + 1,
\* references are to live objects, and a stored connection is that of a mapping
\* with slots.
TypeOK ==
  /\ DOMAIN knot_coordinates = Dir
  /\ grid_pre_refinement = << >> \/ DOMAIN grid_pre_refinement = Dir
  /\ refine_signals \in Seq(Slot) /\ pending \in Seq(Slot)
  /\ disconnected \subseteq Slot \cup {NoConnection}
  /\ refining \in BOOLEAN /\ refinement_directions \subseteq Dir
  /\ ReferencesLive
  /\ \A s \in DOMAIN interior_mult : interior_mult[s] \in Table
  /\ \A s \in DOMAIN bsplines : bsplines[s].space_dim \in Sizes /\ bsplines[s].dofs \in Sizes
  /\ \A w \in DOMAIN nurbs : nurbs[w].weights \in Sizes
  /\ \A m \in DOMAIN maps : maps[m].connection \in Slot \cup {NoConnection}
  /\ \A d \in DOMAIN data : data[d].ctrl_mesh \in Sizes

\* After a refinement every space has the multiplicities, the dimension and the
\* dofs of the refined grid (the assertion of SplineSpace::init).
SpacesFollowGrid ==
  ~refining => \A s \in DOMAIN bsplines :
    /\ \A d \in Dir : Len(Mult(s)[d]) = Len(knot_coordinates[d]) - 2
    /\ bsplines[s].space_dim = NumBasisTable(Mult(s))
    /\ bsplines[s].dofs = bsplines[s].space_dim

\* After a refinement weights and control points are as many as the basis
\* functions they belong to (the checks of NURBSSpace and IgMapping).
GeometryFollowsSpaces ==
  ~refining =>
    /\ \A w \in DOMAIN nurbs : nurbs[w].weights = bsplines[nurbs[w].sp_space].space_dim
    /\ \A m \in DOMAIN maps :
         LET d == data[maps[m].data]
             dims == bsplines[BSplineOf(d.ref_space)].space_dim
         IN  d.ctrl_mesh = dims /\ d.control_points = TotalBasis(dims)

\* Spaces, weights and control points all are those of the grid once its
\* refinement has returned (CartesianGrid::refine_directions).
ObjectsFollowGrid == SpacesFollowGrid /\ GeometryFollowsSpaces

\* The space that was refined lies in the refined one: knots of the grid before
\* the refinement keep their multiplicity and the knots added have one.
NestedSpaces ==
  ~refining => \A s \in DOMAIN bsplines : bsplines[s].previous # << >> =>
    LET old == bsplines[s].previous
    IN  \A d \in Dir :
          LET oldKnots == {InteriorKnot(old.knots[d], i) : i \in DOMAIN old.mult[d]}
          IN  /\ \A i \in DOMAIN Mult(s)[d] :
                   InteriorKnot(knot_coordinates[d], i) \notin oldKnots => Mult(s)[d][i] = 1
              /\ \A i \in DOMAIN old.mult[d] : \E j \in DOMAIN Mult(s)[d] :
                   /\ InteriorKnot(knot_coordinates[d], j) = InteriorKnot(old.knots[d], i)
                   /\ Mult(s)[d][j] = old.mult[d][i]

\* Knot insertion on coefficients of the given sizes over the space s: the
\* assertions at the head of refine_h_weights and refine_h_control_mesh.
InsertionReady(s, sizes) ==
  LET old == bsplines[s].previous
  IN  /\ old # << >>
      /\ old.knots = grid_pre_refinement
      /\ \A d \in refinement_directions :
           /\ sizes[d] = NumRepeatedKnots(Degree, old.mult[d]) - Degree - 1
           /\ InsertKnots(sizes)[d] = bsplines[s].space_dim[d]

\* The assertions of the slot that is called next hold: whatever it reads was
\* refined before it, and what it refines was not.
SlotPreconditions ==
  pending # << >> /\ Head(pending) \notin disconnected =>
    LET o == Head(pending)[1]
    IN  CASE Head(pending)[2] = "spline" ->
               \A d \in Dir : Len(Mult(o)[d]) = Len(grid_pre_refinement[d]) - 2
          [] Head(pending)[2] = "bspline" ->
               bsplines[o].space_dim = NumBasisTable(Mult(o)) /\ bsplines[o].previous # << >>
          [] Head(pending)[2] = "weights" ->
               InsertionReady(nurbs[o].sp_space, nurbs[o].weights)
          [] Head(pending)[2] = "control_mesh" ->
               InsertionReady(BSplineOf(data[maps[o].data].ref_space),
                              data[maps[o].data].ctrl_mesh)

\* A mapping created from a space stays connected to the grid while it lives.
MappingsStayConnected ==
  \A m \in DOMAIN maps \cap Map :
    <<m, "control_mesh">> \in ToSet(refine_signals) \ disconnected

\* Every slot of the signal belongs to an object that uses the grid.
SlotsOfLiveObjects ==
  \A slot \in ToSet(refine_signals) \ disconnected : slot[1] \in Live

-----------------------------------------------------------------------------
(* The slots together implement the promise of one atomic refinement.        *)

KnotsNow == IF refining THEN grid_pre_refinement ELSE knot_coordinates

\* The multiplicities of s when the refinement in progress began.
MultNow(s) ==
  IF refining /\ \A i \in DOMAIN pending : pending[i] # <<s, "spline">>
    THEN bsplines[s].previous.mult ELSE Mult(s)

BaseNow(o) == BSplineOf(IF o \in Mapping THEN data[maps[o].data].ref_space ELSE o)

SizeNow(o) ==
  CASE refining -> NumBasisTable(MultNow(BaseNow(o)))
    [] ~refining /\ o \in BSpline -> bsplines[o].dofs
    [] ~refining /\ o \in Nurbs   -> nurbs[o].weights
    [] ~refining /\ o \in Mapping -> data[maps[o].data].ctrl_mesh

\* m, a sequence along the interior knots, as a function of their coordinates.
ByCoordinate(knots, m) ==
  [k \in {InteriorKnot(knots, i) : i \in DOMAIN m} |->
     m[CHOOSE i \in DOMAIN m : InteriorKnot(knots, i) = k]]

Promise == INSTANCE HRefinement WITH
  knots <- [d \in Dir |-> ToSet(KnotsNow[d])],
  mult  <- [s \in DOMAIN bsplines |->
              [d \in Dir |-> ByCoordinate(KnotsNow[d], MultNow(s)[d])]],
  base  <- [o \in Live |-> BaseNow(o)],
  size  <- [o \in Live |-> SizeNow(o)]

\* Grid and objects are refined as if in one step.
RefinedTogether == Promise!Spec
=============================================================================
