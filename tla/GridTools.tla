------------------------------- MODULE GridTools -------------------------------
(***************************************************************************)
(* The geometry of a CartesianGrid: its construction, the boxes of its     *)
(* elements and faces, the location of points, the grids of its faces, and *)
(* grid_tools, which unites two grids and maps the elements of a fine grid *)
(* to those of a coarse one.                                               *)
(*                                                                         *)
(* Coordinates are integers; an instance takes knots whose distances the   *)
(* subdivisions, the fractions of points and the halves divide.            *)
(***************************************************************************)
EXTENDS MultiArrays, FiniteSets

CONSTANTS Fraction   \* unit points have coordinates k / Fraction

-------------------------------------------------------------------------------
(* The unit element.                                                       *)

VertexToComponent(i, j) == (i \div 2 ^ j) % 2
NumVertices(r) == 2 ^ r
FaceConstantDirection(face) == face \div 2
FaceSide(face) == face % 2
FaceToComponent(face) == <<face \div 2, IF face % 2 = 0 THEN -1 ELSE 1>>
FaceNormalDirection(face) == IF FaceSide(face) = 0 THEN -1 ELSE 1
FaceActiveDirections(face, r) ==
  [j \in 0 .. r - 2 |-> IF j < FaceConstantDirection(face) THEN j ELSE j + 1]
OppositeVertex(i, r) == 2 ^ r - 1 - i
Element == -1
\* TopologyId: the element, or one of its faces.
ActiveDirectionsOf(topology, r) ==
  IF topology = Element THEN 0 .. r - 1 ELSE (0 .. r - 1) \ {FaceConstantDirection(topology)}

-------------------------------------------------------------------------------
(* Grids.                                                                  *)

Increasing(v) == \A j, k \in DOMAIN v : j < k => v[j] < v[k]
CanCreate(knots) == \A d \in DOMAIN knots : VectorSize(knots[d]) > 1 /\ Increasing(knots[d])

Create(knots) ==
  LET size == [d \in DOMAIN knots |-> VectorSize(knots[d]) - 1]
  IN  [knots |-> CartesianProductArray(knots), size |-> size,
       active |-> MultiArray(size, TRUE)]

FilledProgression(box, n) ==
  [d \in DOMAIN box |->
     LET h == (box[d][1] - box[d][0]) \div (n[d] - 1)
         knot[j \in 0 .. n[d] - 1] == IF j = 0 THEN box[d][0] ELSE knot[j - 1] + h
     IN  knot]

Dim(grid) == RankOf(grid.size)
Directions(grid) == 0 .. Dim(grid) - 1
KnotsIn(grid, d) == grid.knots.data[d]
Last(v) == v[VectorSize(v) - 1]

GetElementLengths(grid) ==
  CartesianProductArray([d \in Directions(grid) |->
    [j \in 0 .. grid.size[d] - 1 |-> KnotsIn(grid, d)[j + 1] - KnotsIn(grid, d)[j]]])

GetBoundingBox(grid) ==
  [d \in Directions(grid) |-> [s \in 0 .. 1 |-> IF s = 0 THEN KnotsIn(grid, d)[0] ELSE Last(KnotsIn(grid, d))]]

AllElements(grid) == 0 .. Flat(grid.size) - 1
NumActive(grid) == Cardinality({e \in AllElements(grid) : grid.active.data[e]})
SetActiveElements(grid, ids) == [grid EXCEPT !.active.data = [e \in DOMAIN @ |-> e \in ids]]

\* Every interval of direction d cut into n[d] equal ones; the flags keep
\* their flat position, and the new ones are set.
RefineKnots(v, n) ==
  [k \in 0 .. n * (VectorSize(v) - 1) |->
     IF k % n = 0 THEN v[k \div n]
     ELSE v[k \div n] + (k % n) * ((v[k \div n + 1] - v[k \div n]) \div n)]
RefineDirections(grid, n) ==
  LET size == [d \in Directions(grid) |-> n[d] * grid.size[d]]
  IN  [knots |-> CartesianProductArray([d \in Directions(grid) |->
                   IF n[d] > 1 THEN RefineKnots(KnotsIn(grid, d), n[d]) ELSE KnotsIn(grid, d)]),
       size |-> size,
       active |-> Resize(grid.active, size, TRUE)]

\* operator== looks at the knots only.
SameGrid(grid, other) == \A d \in Directions(grid) : KnotsIn(grid, d) = KnotsIn(other, d)

-------------------------------------------------------------------------------
(* Elements: a tensor index in a grid.                                     *)

Index(grid, e) == ToTensor(e, grid.size)

\* A variant that takes the two ends of the first direction for all of them.
VertexAlongFirst(grid, t, i) ==
  CartesianProduct(grid.knots, [d \in Directions(grid) |-> t[d] + VertexToComponent(i, 0)])
Vertex(grid, t, i) ==
  CartesianProduct(grid.knots, [d \in Directions(grid) |-> t[d] + VertexToComponent(i, d)])

CoordinateLengths(grid, t) ==
  [d \in Directions(grid) |-> Vertex(grid, t, NumVertices(Dim(grid)) - 1)[d] - Vertex(grid, t, 0)[d]]

Center(grid, t) ==
  [d \in Directions(grid) |->
     (Vertex(grid, t, 0)[d] + Vertex(grid, t, OppositeVertex(0, Dim(grid)))[d]) \div 2]

GetMeasure(grid, t, topology) ==
  MapThenFoldSet(LAMBDA a, b : a * b, 1, LAMBDA d : CoordinateLengths(grid, t)[d],
                 LAMBDA S : CHOOSE x \in S : TRUE, ActiveDirectionsOf(topology, Dim(grid)))

InsideAlong(grid, t, x, d) == KnotsIn(grid, d)[t[d]] < x[d] /\ x[d] < KnotsIn(grid, d)[t[d] + 1]
BoundaryAlong(grid, t, x, d) == x[d] \in {KnotsIn(grid, d)[t[d]], KnotsIn(grid, d)[t[d] + 1]}
IsPointInside(grid, t, x) == \A d \in Directions(grid) : InsideAlong(grid, t, x, d)
IsPointOnBoundary(grid, t, x) ==
  /\ \E d \in Directions(grid) : BoundaryAlong(grid, t, x, d)
  /\ \A d \in Directions(grid) : InsideAlong(grid, t, x, d) \/ BoundaryAlong(grid, t, x, d)

IsBoundaryFace(grid, t, face) ==
  t[FaceConstantDirection(face)] = (grid.size[FaceConstantDirection(face)] - 1) * FaceSide(face)
IsBoundary(grid, t) == \E d \in Directions(grid) : t[d] \in {0, grid.size[d] - 1}

UnitToReference(grid, t, x) ==
  [d \in Directions(grid) |-> (x[d] * CoordinateLengths(grid, t)[d]) \div Fraction + Vertex(grid, t, 0)[d]]
ReferenceToUnit(grid, t, x) ==
  [d \in Directions(grid) |-> ((x[d] - Vertex(grid, t, 0)[d]) * Fraction) \div CoordinateLengths(grid, t)[d]]

-------------------------------------------------------------------------------
(* Points and faces.                                                       *)

\* std::lower_bound: the first knot that is not before x.
LowerBound(v, x) == Cardinality({k \in DOMAIN v : v[k] < x})

\* A variant that does not step back to the beginning of the interval.
IntervalAfter(v, x) == LowerBound(v, x)
\* The interval that ends at or after x and does not begin there.
IntervalOf(v, x) == LET j == LowerBound(v, x) IN IF j > 0 THEN j - 1 ELSE 0

ElementOfPoint(grid, x) ==
  ToFlat([d \in Directions(grid) |-> IntervalOf(KnotsIn(grid, d), x[d])], grid.size)

\* points: the points by their number; the result: element -> numbers of its points.
FindElementsOfPoints(grid, points) ==
  LET element == [k \in DOMAIN points |-> ElementOfPoint(grid, points[k])]
  IN  [e \in {element[k] : k \in DOMAIN points} |-> {k \in DOMAIN points : element[k] = e}]

\* The grid of a face, and the element of the grid each of its elements lies on.
FaceInterval(size, face) == IF FaceSide(face) = 0 THEN 0 ELSE size[FaceConstantDirection(face)] - 1
FaceGrid(grid, face) ==
  Create(GetSubProduct(grid.knots, FaceActiveDirections(face, Dim(grid))).data)
FaceGridMap(grid, face) ==
  [f \in AllElements(FaceGrid(grid, face)) |->
     ToFlat(PutDirection(Index(FaceGrid(grid, face), f), FaceConstantDirection(face),
                         FaceInterval(grid.size, face)), grid.size)]

-------------------------------------------------------------------------------
(* grid_tools.                                                             *)

\* The first interval of the coarse knots that contains interval k of the fine ones.
CoarseIntervals(fine, coarse, k) ==
  {j \in 0 .. VectorSize(coarse) - 2 : fine[k] >= coarse[j] /\ fine[k + 1] <= coarse[j + 1]}
\* A variant that looks at the beginning of the interval only.
CoarseIntervalAtStart(fine, coarse, k) ==
  CHOOSE j \in 0 .. VectorSize(coarse) - 2 : fine[k] >= coarse[j] /\ (j = 0 \/ fine[k] <= coarse[j])
CoarseInterval(fine, coarse, k) == CHOOSE j \in CoarseIntervals(fine, coarse, k) : TRUE

CanMap(fine, coarse) ==
  /\ GetBoundingBox(fine) = GetBoundingBox(coarse)
  /\ \A d \in Directions(fine) : \A k \in 0 .. fine.size[d] - 1 :
       CoarseIntervals(KnotsIn(fine, d), KnotsIn(coarse, d), k) # {}

\* As many fine elements as are active, numbered from the first element on.
BuildMapElements(fine, coarse) ==
  [e \in 0 .. NumActive(fine) - 1 |->
     ToFlat([d \in Directions(fine) |->
               CoarseInterval(KnotsIn(fine, d), KnotsIn(coarse, d), Index(fine, e)[d])],
            coarse.size)]

SortedVector(S) ==
  [k \in 0 .. Cardinality(S) - 1 |-> CHOOSE x \in S : Cardinality({y \in S : y < x}) = k]
ValuesOf(v) == {v[k] : k \in DOMAIN v}

BuildUnion(grid, other) ==
  Create([d \in Directions(grid) |->
            SortedVector(ValuesOf(KnotsIn(grid, d)) \cup ValuesOf(KnotsIn(other, d)))])

-------------------------------------------------------------------------------
(* A CartesianGrid as its clients change it: refined in some directions,   *)
(* united with another grid, with some of its elements switched off.       *)

CONSTANTS
  Grids,          \* the grids clients create
  MaxIntervals    \* bound: intervals of a direction after a refinement

VARIABLES
  grid,       \* the grid
  previous,   \* the grid it was before the last refinement or union
  other       \* another grid

gridVars == <<grid, previous, other>>

GridsInit ==
  /\ grid \in Grids
  /\ previous = grid
  /\ other \in {g \in Grids : Dim(g) = Dim(grid)}

Divides(g, d, n) ==
  \A k \in 0 .. g.size[d] - 1 : (KnotsIn(g, d)[k + 1] - KnotsIn(g, d)[k]) % (2 * n * Fraction) = 0

Refining ==
  \E n \in [Directions(grid) -> {1, 2}] :
    /\ \E d \in Directions(grid) : n[d] > 1
    /\ \A d \in Directions(grid) : Divides(grid, d, n[d]) /\ n[d] * grid.size[d] <= MaxIntervals
    /\ previous' = grid
    /\ grid' = RefineDirections(grid, n)
    /\ UNCHANGED other

Uniting ==
  /\ GetBoundingBox(grid) = GetBoundingBox(other)
  /\ ~SameGrid(grid, BuildUnion(grid, other))
  /\ previous' = grid
  /\ grid' = BuildUnion(grid, other)
  /\ UNCHANGED other

SwitchingOff ==
  /\ NumActive(grid) = Cardinality(AllElements(grid))
  /\ \E e \in AllElements(grid) : grid' = SetActiveElements(grid, AllElements(grid) \ {e})
  /\ UNCHANGED <<previous, other>>

GridsNext == Refining \/ Uniting \/ SwitchingOff

-------------------------------------------------------------------------------
Sum(S, f(_)) == MapThenFoldSet(LAMBDA a, b : a + b, 0, f, LAMBDA T : CHOOSE x \in T : TRUE, S)
Product(S, f(_)) == MapThenFoldSet(LAMBDA a, b : a * b, 1, f, LAMBDA T : CHOOSE x \in T : TRUE, S)

Holds(g, e, x) == IsPointInside(g, Index(g, e), x) \/ IsPointOnBoundary(g, Index(g, e), x)
BoxMeasure(g) ==
  Product(Directions(g), LAMBDA d : GetBoundingBox(g)[d][1] - GetBoundingBox(g)[d][0])
FacesOf(g) == 0 .. 2 * Dim(g) - 1

UnitPoints(g) == [Directions(g) -> 0 .. Fraction]
\* All the points of the grid on knots and in between, as a vector.
SomePoints(g) ==
  LET points(d) == ValuesOf(KnotsIn(g, d)) \cup {Center(g, Index(g, e))[d] : e \in AllElements(g)}
  IN  GetFlatCartesianProduct(CartesianProductArray([d \in Directions(g) |-> SortedVector(points(d))]))

ElementFits(g, e) ==
  LET t == Index(g, e) IN
    /\ IsPointInside(g, t, Center(g, t))
    /\ \A d \in Directions(g) : CoordinateLengths(g, t)[d] = GetElementLengths(g).data[d][t[d]]
    /\ \A i \in 0 .. NumVertices(Dim(g)) - 1 :
         Vertex(g, t, i) =
           UnitToReference(g, t, [d \in Directions(g) |-> Fraction * VertexToComponent(i, d)])
    /\ \A x \in UnitPoints(g) :
         /\ Holds(g, e, UnitToReference(g, t, x))
         /\ ReferenceToUnit(g, t, UnitToReference(g, t, x)) = x
    /\ \A face \in FacesOf(g) :
         GetMeasure(g, t, Element) =
           GetMeasure(g, t, face) * CoordinateLengths(g, t)[FaceConstantDirection(face)]
    /\ IsBoundary(g, t) <=> \E face \in FacesOf(g) : IsBoundaryFace(g, t, face)

\* The elements of the grid of a face are the faces of the elements along it.
FaceFits(g, face) ==
  LET faceGrid == FaceGrid(g, face)
      map == FaceGridMap(g, face)
      d == FaceConstantDirection(face)
  IN  /\ {map[f] : f \in DOMAIN map} = {e \in AllElements(g) : IsBoundaryFace(g, Index(g, e), face)}
      /\ \A f \in DOMAIN map : \A i \in 0 .. NumVertices(Dim(g) - 1) - 1 :
           \E j \in 0 .. NumVertices(Dim(g)) - 1 :
             LET x == Vertex(g, Index(g, map[f]), j) IN
               /\ DropDirection(x, d) = Vertex(faceGrid, Index(faceGrid, f), i)
               /\ x[d] = GetBoundingBox(g)[d][FaceSide(face)]
      /\ \A f \in DOMAIN map :
           GetMeasure(faceGrid, Index(faceGrid, f), Element) = GetMeasure(g, Index(g, map[f]), face)

\* The elements fill the box of the grid, in whatever way it was made and
\* refined: unit and reference coordinates lead back to each other, every
\* point is found in one element, which holds it, and the grids of the faces
\* lie on the elements along the faces (CartesianGrid, CartesianGridElement).
ElementsLocated ==
  /\ CanCreate(grid.knots.data)
  /\ Sum(AllElements(grid), LAMBDA e : GetMeasure(grid, Index(grid, e), Element)) = BoxMeasure(grid)
  /\ \A e \in AllElements(grid) : ElementFits(grid, e)
  /\ LET points == SomePoints(grid)
         found == FindElementsOfPoints(grid, points)
     IN  \A k \in DOMAIN points :
           /\ \E e \in DOMAIN found : k \in found[e] /\ Holds(grid, e, points[k])
           /\ Cardinality({e \in DOMAIN found : k \in found[e]}) = 1
  /\ Dim(grid) > 1 => \A face \in FacesOf(grid) : FaceFits(grid, face)

\* Every element the map has lies in the coarse element it leads to, and
\* when all elements are active the ones that lead to a coarse element fill it.
MapFits(fine, coarse) ==
  LET map == BuildMapElements(fine, coarse) IN
    /\ \A e \in DOMAIN map : \A i \in 0 .. NumVertices(Dim(fine)) - 1 :
         Holds(coarse, map[e], Vertex(fine, Index(fine, e), i))
    /\ DOMAIN map = AllElements(fine) =>
         \A c \in AllElements(coarse) :
           Sum({e \in DOMAIN map : map[e] = c}, LAMBDA e : GetMeasure(fine, Index(fine, e), Element))
             = GetMeasure(coarse, Index(coarse, c), Element)

\* grid_tools: the union of two grids maps to both, a refined grid to the one
\* it was, and mapping through the union is mapping directly.
GridsMapped ==
  /\ MapFits(grid, previous)
  /\ GetBoundingBox(grid) = GetBoundingBox(other) =>
       LET union == BuildUnion(grid, other) IN
         /\ CanMap(union, grid) /\ MapFits(union, grid)
         /\ CanMap(union, other) /\ MapFits(union, other)
         /\ \A e \in DOMAIN BuildMapElements(union, grid) :
              BuildMapElements(union, grid)[e] \in DOMAIN BuildMapElements(grid, previous) =>
                BuildMapElements(grid, previous)[BuildMapElements(union, grid)[e]]
                  = BuildMapElements(union, previous)[e]
===============================================================================
