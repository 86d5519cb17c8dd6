# igatools: a verification project

igatools is a C++ library for isogeometric analysis: spline spaces on Cartesian
grids, geometry maps given by splines, the evaluation of basis functions on the
elements of a grid, and the numbering of the degrees of freedom (dofs) of many
spaces in one linear system. It is a single-threaded library. What makes it hard
is not concurrency in the usual sense. Objects share state and must change
together: a grid and everything built on it when it is refined, spaces that view
one index table when it is renumbered, iterators over a grid whose flags change
under them, caches that outlive what they were filled from, and phases of calls
that the code only partly enforces. Besides these there is much index arithmetic
that is right for the sizes the tests use and may be wrong for others: strides,
offsets of components and directions, tables of a face, sum factorization. Debug
builds check preconditions with `Assert`, release builds compile them out.

Paths below are relative to `src/`; `S/` is `source/`, `I/` is
`include/igatools/`.

## 1. Inventory

| Component | State | Operations | What must be right | Here |
|---|---|---|---|---|
| `SpaceManager` (S/basis_functions/space_manager.cpp) | phase flags, `SpaceInfo` per space with cached extremes, lists of spaces to renumber and renumbered, next offset, published view, blocks, extra pairs, constraints | open and close of each phase, `add_space`, `add_spaces_connection`, `add_dofs_connectivity`, constraints; queries | ids of spaces are disjoint, gap-free and stable once published; caches agree with the dofs; pattern rows agree with row maps | `SpaceManager` |
| Equality constraints (same file, 546-589) | map of slaves per master | `remove_equality_constraints_redundancies` | the same dofs are equal before and after | `EqualityConstraints` |
| `DofDistribution` (S/basis_functions/dof_distribution.cpp) | index table per component, views of the dofs of each element | construction, `add_dofs_offset`, `find_dof_id`, element views | views see the shifted ids; ids per element are those of the functions that live on it | `DofDistribution`, `SpaceManager` |
| `MultiPatchSpace` (S/basis_functions/multi_patch_space.cpp) | patches, interfaces, flags | insertion phases, forwarded to the manager; interfaces, mortar multipliers | calls return; the pattern and the constraints are those of the glued problem | `MultiPatch` |
| `CartesianGrid` (S/geometry/cartesian_grid.cpp) | knots per direction, active flags, grid before the last refinement, refinement signal | construction, refinement, flags, `begin`/`end`, boundary and face queries | connected objects are refined with the grid; elements fill the box, points are found in them | `GridRefinement`, `GridIteration`, `GridTools` |
| `GridWrapper` (S/geometry/grid_wrapper.cpp) | grid, one stored connection | connect, disconnect on destruction | no slot of a dead object, no live object disconnected | `GridRefinement` |
| `SplineSpace`, `BSplineSpace`, `NURBSSpace` | shared multiplicity table, dimension, dof distributions, weights, extraction operators | constructors, refinement slots | the refined space contains the old one and matches the grid; as many weights as functions | `GridRefinement` (sizes), `SplineBasis`, `SplineGeometry` (numbers) |
| `IgMapping` (S/geometry/ig_mapping.cpp) | shared data: reference space, control mesh, control points | constructors (new, shared, copied), control points, refinement slot, evaluation | the geometry is the same after a refinement | `GridRefinement`, `SplineGeometry`, `MappingLibrary` |
| `CartesianGridElement`, `GridForwardIterator` | flat and tensor index | `move_to`, `jump`, `++`, `set_active` | the indices agree; loops visit active elements once | `GridIteration` |
| Element caches (accessors of the grid, of mappings, push-forwards and spaces) | values, flags, what is initialised and filled | `init_cache`, `fill_cache`, `fill_face_cache`, moves | served values were asked for and belong to the element, the face and the grid pointed to | `ValueFlags`, `ElementCaches` |
| Evaluation of bases (accessors of B-spline and NURBS elements) | tables of values per direction and component | values, gradients, hessians, divergences from caches, on faces, at points | they are those of the splines | `SplineBasis`, `BasisEvaluation` |
| Mappings, push-forward, physical spaces | parameters of the map | values and derivatives, inverses, measures, normals, transformations | chain rule; normals orthogonal; both formulas for hessians agree | `MappingLibrary`, `PhysicalElement`, `TensorAlgebra` |
| Spaces and mappings on faces | - | `get_ref_face_space`, `get_face_space`, `MappingSlice` | traces of the functions of the patch under the right dofs | `PhysicalElement` |
| Elliptic operators (I/operators) | - | mass, stiffness, right-hand side of an element by two algorithms | the algorithms agree | `EllipticOperators` |
| `space_tools`, `dof_tools` | system under assembly | projections, boundary values, errors | a function of the space is reproduced | `SpaceTools` |
| Quadrature, tensors, unit element | points and weights | rules, products, collapse to a face; products, inverses | exactness; index order | `EllipticOperators`, `TensorAlgebra`, `PhysicalElement` |
| Containers and views (S/utils, I/utils) | sizes, data, position | indices, strided views, products, concatenated iteration | one order of entries through all views | `TensorIndexing`, `MultiArrays`, `ArrayStructures`, `ConcatenatedIteration` |
| `grid_tools` | - | element map of nested grids, union of grids | the image contains the element | `GridTools` |
| Trilinos/PETSc wrappers, linear solver, linear constraints | matrices, vectors, graph | assembly, reading, clearing, solve | solutions of the problem that was assembled | `LinearSystem` |
| Reader (S/io/reader.cpp) | - | XML file to mapping | what was written is read, or an exception | `FileReader` |
| Writer (S/io/writer.cpp) | points, fields, counts | add fields, save in two formats | blocks lie where the header says | `Output` |
| `LogStream` (S/base/logstream.cpp) | prefixes, depths, file, the buffer of `cerr` | push/pop, print, attach, `log_cerr`, destructor | nothing lost, whole lines, each where its depth allows | `Output` |
| contrib, instantiation scripts, tests | - | - | - | not modelled |

How they interact. A space is built on a grid and connects its slots to the
grid's refinement signal through `GridWrapper`; a `NURBSSpace` holds its
`BSplineSpace`, an `IgMapping` its reference space. `refine_directions` changes
the knots and then calls the slots in the order of connection; each slot reads
what the earlier ones left. A physical space joins a reference space and a
push-forward over a mapping; its element accessor owns accessors of all of them,
passes flags down at `init_cache` and calls `fill_cache` of each on every
element. A `SpaceManager` holds views into the index tables of the spaces and
shifts ids through them; `MultiPatchSpace` is its client. `SparsityPattern` and
the graphs of the matrices are built from the manager's answers; operators fill
element matrices that are added to them. Iterators read the grid's flags at every
increment and nobody tells them of changes.

PROJECT.json lists under "hazards" what is hard to test here, line by line.

## 2. Modules

```
EqualityConstraints ── SpaceManager ─┬ MCSpaceManager
                                     ├ SpaceManagerProofs ──┐
                    DofDistribution ─┼ MultiPatch ──────────┼ MultiPatchProofs
                                     │      └ MCMultiPatch  │
                                     └ IndexingProofs ──────┘
KnotRefinement ── GridRefinement ── MCGridRefinement
      │             ├ HRefinement (its promise)
      │             └ GridRefinementProofs
      │
PrimeField ── SplineBasis ── SplineGeometry ── MCSplineGeometry
TensorAlgebra ── BasisEvaluation ── MappingLibrary ─┐
      │       └ PhysicalElement ────────────────────┼ Evaluation ── SpaceTools ── MCEvaluation
      └ EllipticOperators ──────────────────────────┘
ValueFlags ── ElementCaches ── MCElementCaches, ElementCachesProofs
TensorIndexing ── GridIteration ── MCGridIteration, GridIterationProofs
      └ MultiArrays ── ArrayStructures ─────────────────────┐
              ├ GridTools ──────────────────────────────────┤
              ├ ConcatenatedIteration (SequenceCursor) ─┬───┼ MCServices
              └ Output ─────────────────────────────────┤   │
LinearSystem, FileReader, EqualityConstraints ──────────┼───┘
                                                        └ ServicesProofs
Tensors (TensorIndexing for any rank) ── TensorProofs ── IndexingProofs, GridIterationProofs, ServicesProofs
```

A module right of another uses it. Definitions whose comment begins with "A
variant" are plausible slips of the code, kept next to the definition they
replace; each property is shown to fail when one of them is put in place.
Definitions are named as in the code where TLA+ allows it.

### SpaceManager, EqualityConstraints

One variable per member of the class, and `index_table` for the tables of the
`DofDistribution` objects the spaces view (`TableOf[s]` says which: two spaces
may view one). A call whose debug assertions fail is no step. The loop of
`perform_space_dofs_renumbering` is one step per iteration (`closing` is true
meanwhile): nothing else runs then, but the invariants hold in between as well.
With `DocumentedUse = FALSE` every order of calls the assertions accept is a
behaviour; with `TRUE` clients keep to what the class documentation asks for:
spaces are added in the insertion phase, ids are used after it. The two-space form of
`add_spaces_connection` never uses the dofs of the space, as in the code.
Coefficients, printing and the order inside `std::list`s that no code reads are
left out; a multimap of extra pairs is a set. Row ids without columns cannot arise.

`remove_equality_constraints_redundancies` walks a `std::map` of slaves per
master, absorbs the rows of slaves into the row of their master and clears them.
`LiveRow` states what a row holds when the walk reaches it, as a recursive
function on the masters below; `RowReadBy` what a master finds in the row of a
slave. `IterationDefined` is the condition under which the walk does not clear
the row it stands on.

### DofDistribution, MultiPatch

`DofDistribution` has the numbering of components and tensor indices, the dofs of
an element by the runs the code stores as views (one direction contiguous, the
others by start positions; dimensions 1 to 3) and the search `find_dof_id`.

A call of a `MultiPatchSpace` is a sequence of calls of its manager. The
variable `todo` is the rest of the call in progress, and a step executes its head
as the action of `SpaceManager`, with that action's assertions: a call that meets
a false assertion halfway never empties `todo`, which is what `CallsReturn`
denies. Several `MultiPatchSpace`s share the manager, as its documentation allows.
Clients of the model keep one phase open at a time among the objects that share a
manager, insert patches before interfaces, and glue two patches strongly along at
most one face; without these an assertion of the manager fails (section 5).

### KnotRefinement, GridRefinement, HRefinement

Knots are integers (only order and midpoints matter; the bounds divide evenly).
Tables keep their sizes and multiplicities, not the weights and coordinates in
them; one component. Actions are the constructors, the release of a `shared_ptr`
by a client (with the destruction of what nothing else holds and the disconnection
of the stored connection), `Refine` (up to the emission of the signal), one
action per slot, and the end of the emission. A closed connection stays in the list
(`disconnected`) and is passed over when the signal is emitted, as boost::signals2 does. A slot of an object that is gone is
undefined behaviour: the model has no step for it and stops, and
`SlotsOfLiveObjects` says it. Periodic spaces, extraction operators and dof
offsets are left out.

`HRefinement` is the abstract specification. It knows the set of knots per
direction, multiplicities by coordinate, and the sizes of every object, and it
refines all of them in one step. `Promise` maps the detailed state to it: while
slots are pending, the abstract state is still that of the grid before the
refinement.

### TensorIndexing, GridIteration

An element keeps its position twice, as a flat and a tensor index. `Jump` moves
the tensor index even when it leaves the grid, as the code does. Incrementing an
iterator that is marked invalid reads a flag before the array: a nondeterministic
choice. Iterators keep both indices over a refinement. The loop of the
documentation is one client; between two of its rounds any client may change any
flag. Influence flags and boundary queries are left out. Refinement happens
outside the loop, but not outside the life of other iterators.

### ValueFlags, ElementCaches

A value of the enumeration `ValueFlags` is the set of its one bits, and the
operators on it convert to `int` and back as types.h does: bit 31 is the sign,
bits above are lost. `ElementCaches` is one element of a physical space over a
B-spline or NURBS space with an `IgMapping`: the caches of its grid element, of
the mapping, of the push-forward and of the reference space, each with what it
was initialised for and what every value was filled from (element, face, grid).
`init_cache`, `fill_cache` and `fill_face_cache` are one step each, with all the
calls on the inner accessors in the order of the code; moves, refinements and the
borrowing of the mapping's accessor by an evaluation at points are steps of other
clients. A failed assertion ends the run in a state `NeverStops` excludes.
`Servable` says which requests an element serves: something of the basis on every topology
they name (the accessors assert that there is something to hold), no second derivatives
together with faces (finding `caches_hessian`), divergences with gradients and a measure
with something it is computed for. TLC evaluates it for the requests of both runs.

### PrimeField and what is computed in it

Coordinates, weights and values are `Real`s in the code. What the properties say
of them are identities between rational functions with small integer
coefficients, so the modules on splines compute in the field of the integers
modulo a prime: an identity that holds there at sample points that are not special
and in hundreds of combinations is not an accident, and a wrong index shows. Order
comparisons (bisection, sorting, location of points) are made on integer knots
and never in the field. Rounding, tolerances and overflow of reals are out of
this abstraction. Two ways around roots:

* where the code takes a square root (measures, lengths of normals) the model
  keeps the square;
* sine and cosine are the rational parameterization of the circle, with the
  derivatives that belong to it, so that mappings and their derivatives are
  polynomial identities in them;
* the nodes of the quadrature rules are roots of Legendre polynomials and of their
  derivatives. The prime 44351 of the run `evaluation` splits those of the Gauss
  rules of up to 5 points (`MaxRulePoints` 4 are used) and of the Lobatto rules, and -1 is no square in it.
  The iteration of Newton or Halley that finds them is its fixed point.

`SplineBasis` has the univariate machinery: knots with repetition, Bernstein
polynomials, extraction operators, the table of an interval, `find_span` and
knot insertion. Its last
section is Cox-de Boor, the reference, and is nowhere in the library.
`SplineGeometry` is an `IgMapping` with the numbers of its control mesh, control
points and weights through refinements and changes of control points.

`BasisEvaluation` builds the values and derivatives of the functions of an element
from these tables, for B-splines of several components (shared ones included) and
NURBS, from the caches and at points, in the loops of the code. `MappingLibrary` has
the mappings of mapping_lib, `IdentityMapping` and `IgMapping`; `PhysicalElement`
the inverses, measures, normals and transformations, and the spaces and
mappings of faces; `EllipticOperators` the rules of quadrature and the two algorithms for element matrices,
with the intermediate arrays of sum factorization.
`Evaluation` is the state machine: a client walks an element iterator, fills the
caches of the element, of a face or of the space on a face, or evaluates at points, and the operators
use what was filled. The tables of `init_cache` are state: an iterator that moves keeps
them. `SpaceTools` adds the assembly of projections, element by element and face by
face, and boundary values. The reference for derivatives are the jets of `Evaluation`:
functions with their first and second derivatives under sums, products and composition.

Components of a space have equally many functions on an element here: with others
the code places them wrong (section 5).

### Containers, grids, systems, files, log

`MultiArrays` has arrays with their flat and strided iterators and views, and the
Cartesian and tensor products; `ArrayStructures` the operations that change them. `ConcatenatedIteration` is the iterator over several
ranges as the code advances it (range, position in the range), and implements
`SequenceCursor`, which knows one sequence and a position. `GridTools` has
the geometry of a grid, the maps between grids, and the clients of both.

`LinearSystem` assembles and constrains a system over Trilinos or PETSc. The two
libraries are external and modelled from the calls; reals are the field of three
elements, in which the solutions of a system can be listed, and an error of a
linear constraint is any nonzero number instead of one of a tolerance or more. Clients
keep what the code takes for granted: diagonals that are not zero, dofs that are
dense, and with PETSc a boundary value given to a dof once.

`FileReader` has the XML tree as a record and one edit of it (a number, an element, an
attribute or an order changed); the reader with the assertions of the objects it
creates. Numbers of elements stated in the file are those of the file, and directions
are in range. `Output` has the Writer with the appended and the text format, with the offsets
and lengths of the blocks; the grid does not change while a writer lives, and cell
data has one entry per VTK cell; and the log with the stack of prefixes, depths and the
threshold below which a number is printed as zero. Its console is the standard error
stream (`std_out`), and `cerr` says what that leads to: `log_cerr` puts the buffer of the attached
file in the place of the console's, after which heads and texts for the console go to that
file (`Send`), also when it is detached or another one attached, until `log_cerr` is called again. The
destructor ends a line that has begun while `cerr` still leads there, and leads it back then. Files
live as long as the log; `log_cerr` is only called with a file attached, or to switch back; and
`LogStream::Prefix` objects are not used (section 5).

`MCServices` runs these parts beside each other: a variable says which part a
behaviour is about, and each property is about its part.

## 3. Runs

| Run | Instance | Shows |
|---|---|---|
| `manager_numbering` | three spaces with tables of their own, one shifted before; up to three insertion phases, closed with or without renumbering; spaces added at any time | types, `RenumberedDisjoint`, `InfoCurrent` |
| `manager_documented` | two spaces, two phases, up to two blocks, one extra pair, one constraint | the view is complete, the numbering has no gap, no stored id goes stale, published ids never change, pattern and maps agree |
| `multi_patch` | two `MultiPatchSpace`s on one manager, three plane patches with two components, two multiplier spaces; patches in any order, closed with and without renumbering | every call returns; the pattern and the constraints are those of the glued problem; `global_to_local` finds the functions |
| `refinement_follow` | plane grid of 2 x 1 intervals, a `BSplineSpace`, a `NURBSSpace`, a mapping and an iteration over it; two refinements by 2 or 3 in any set of directions | spaces and geometry follow the grid, spaces are nested, slots find their assertions true, and the slots implement `HRefinement` |
| `refinement_lifetimes` | one direction; shared tables, a copied mapping, every order of construction and release | no live object points to one that is gone |
| `refinement_dangling` (violation) | a `BSplineSpace` is released | one of its two slots stays |
| `iteration` | a plane grid of one element, refined once in any directions; the loop and another iterator that jumps by one in all directions, up to two elements outside; any flags at any time | the indices agree after every move; the loop visits each element at most once, the ones that stay active, and ends |
| `caches_serve` | B-splines and NURBS, two elements, one refinement, five requests of flags | what is served was asked for, is of its own element, face and grid, and nothing stops |
| `caches_hessian` (violation) | second derivatives on elements, values on faces | bit 31 of the flags is lost |
| `geometry_refine` | a mapping with components of degrees (2,1) and (1,2), B-splines and NURBS, refined twice in one or both directions, control points set in between | values of the geometry are kept, the two meshes agree |
| `evaluation` | eleven spaces in one to three dimensions with every kind of mapping, walked element by element | basis, mappings, transformations, faces, operators and projections against textbook definitions |
| `services` | arrays, lists of views, five grids, up to five constraints between four dofs, a system of two elements, two files, three grids to write, two line ends and numbers of a log with one file | the properties of the supporting parts |

Why the bounds are enough.

* Numbering depends on the phase a space was added in and on whether it was
  renumbered: three spaces and three phases give every combination of a space
  before, in and after a phase; tables of two and three dofs tell sizes from last
  ids, and the table shifted before makes a first id different from zero.
* Patches: three patches make a chain in which a patch is glued on two faces; two
  components of different degrees and sizes in the two directions tell components
  and directions apart; two multipliers let one mortar follow another and one
  `MultiPatchSpace` number between the phases of the other.
* Refinement: two refinements reach a slot that runs on already refined tables;
  two directions and factors 2 and 3 tell the sizes of directions apart;
  multiplicities 1 and 3 with degree 2 are the least and the largest a space can
  have (from the smoothest to a discontinuous one).
* Iteration: the grid has one element, then up to four in two directions; jumps
  leave it on every side by more than its size. Flags change between any two
  increments, inside and outside the body of the loop.
* Caches: two elements and one refinement give each cache a way to be of another
  element, face or grid. The requests are the combinations the tutorials and tests use,
  and one that mixes element and face flags.
* Geometry: one inner knot simple, one repeated, and refinements that put new knots
  between and beside them; degrees differ between directions and components.
* Evaluation: degrees 1 to 3 and multiplicities 1 and 2; dimensions differ in degree
  and in number of elements and points, components in degree or weights, so that every two
  indices that could be swapped have different ranges; points that are no nodes.
* Services: chains, forks and cycles of constraints need at most four dofs; a point view
  of a table has a stride, a function view none; grids have dimensions one to three and
  unequal intervals; the file of each kind has one edit, so that every error is seen
  alone; NURBS components are written once or twice. One file is enough for a log to have its
  two copies of a line together and apart; that `cerr` leads to one file while another is
  attached is in the theorem only, which has any set of files.

Deadlock is not checked where nothing is left to do at the bounds (all objects
and refinements used up in `GridRefinement`; `Evaluation`, where the last answer was
evaluated; `MCServices`), nor in `caches_hessian`, where a failed assertion is the end
of the program.

Fairness. `FairSpec` of `GridIteration`: weak fairness of the rounds of the loop,
because its body returns; other clients have none, and may change flags for ever.
`MultiPatchSpec`: weak fairness of `Continue`, because a call that has begun goes on;
no client has to call anything. The other specifications state safety only.

`refinement_follow` does not release the mapping while an iteration lives on its
data: see section 5.

## 4. Theorems

`SpaceManagerProofs`, checked by TLAPS for any finite or infinite set of spaces,
any tables and any bounds, under `SpaceManagerAssumption` (types of the constants)
and, where ids must be disjoint, under the assumption of a theorem that no two
spaces view one table (a `NURBSSpace` and its `BSplineSpace` do: put in one manager they
are a counterexample, section 5). What else a theorem assumes is said with it.

* `TypeCorrect`: `Spec => []TypeOK`.
* `InductiveInvariant`: `IInv` is an invariant. `RenumberedDisjoint` is not
  inductive: that a space may be shifted by the offset needs that every id of a
  renumbered space lies below the offset, that the lists of spaces to renumber
  and renumbered hold each added space once, and that the cached maximum, from
  which the next offset is computed, is the true one. `IInv` says these.
* `NumberingIsDisjoint`, `CachedExtremesAreCurrent`: from `IInv`.
* `PublishedDofsNeverChange`: a step renumbers only spaces that are not in the
  published view.
* `ViewIsComplete`: under the documented use.
* `NumberingHasNoGap`: `NumberingDense`, when the tables are fresh (every first id is 0).
  Needed besides `IInv`: a space that waits to be renumbered still has the ids it came
  with, so that the shift by the offset starts its block where the last one ended.
* `StoredIdsStayLive`: `StoredIdsLive` under the documented use, when the insertion phase
  is always closed with renumbering. What is stored names renumbered spaces
  (`ViewComplete` and `ViewRenumbered`: all added spaces are, once the phase is closed),
  and a step changes no id of a renumbered space; removing redundancies constrains no
  other dof.
* `PatternHasRowsOfMaps`: `PatternMatchesMaps`, when every dof of a space has an active
  element in its support. A block uses the dofs of its spaces only if it is diagonal, and
  then its elements give a row and a column to each of them.

`TensorProofs`, for boxes of any dimension and any sizes:

* `TensorRoundTrip`, `FlatRoundTrip`: on the entries of a box the flat index of
  `tensor_to_flat_index` and the tensor index of `flat_to_tensor_index` are each
  other's inverse. The weights, remainders and sums are recursive along the directions.
  Each function is shown to exist by induction on its last direction (`NatInSet`, from
  the well-foundedness of the naturals); then a partial sum over the first directions is less than their
  weight, and so it is the remainder that the division leaves (`QuotientAndRest`, `DigitAndRest`).

`GridIterationProofs`, for grids of any dimension and size, any iterators
and any changes of the flags:

* `LoopInvariant`: `LoopInv` is an invariant. `LoopVisitsActive` says only at the
  end of a loop that the kept elements are visited; `LoopInv` adds that at any
  point a kept element is visited or not behind the loop, that kept elements are
  active, and that the loop is at an element or past the end. It rests on
  `NextActiveIsFirst`: what `operator++` skips is not active.
* `LoopVisitsEveryActive`: from `LoopInv`.

* `PositionsWellTyped`: `TypeOK`. A step of the loop stays on elements because of
  `LoopInv`; a refinement keeps positions because boxes with larger sizes have more
  entries (`FlatSizeGrows`).
* `IndicesNameOneElement`: `IndicesAgree`, an action property, from `TypeOK` and the two
  round trips, for `move_to`, `jump` and `operator++`. It says nothing of an iterator that does
  not move during a refinement: its indices no longer agree (a hazard without property).

The last two need `GridIterationAssumption` (types of the constants). Liveness of the
loop (`LoopsEnd`) stays with TLC.

`GridRefinementProofs`, for grids of any dimension, spaces of any degree and
multiplicities, any objects and any order of their construction and release, under
`GridRefinementAssumption` (types of the constants; objects of different kinds have different
names). Some theorems need more, each because the code needs it (section 5):

* `~SharesTables`: a table of two spaces is refined by the first slot, and again by the second.
* `OneOwner`: besides, no mapping is copied (a copy is not connected to the grid, and
  its death disconnects the original) and clients keep the mappings they made from a space
  (their slot is the only one of data that others may use).
* `Releasable \cap BSpline = {}`: clients keep their spaces (one that dies leaves
  the slot of its base class in the signal).

The theorems:

* `ReferencesStayLive`: `ReferencesLive`, the part of `TypeOK` about life times, with
  shared tables and copied mappings too. It needs the kinds of objects (`Members`): that a
  mapping on a `NURBSSpace` keeps the `BSplineSpace` behind it, and that what is kept is
  never a mapping, so that everything alive is held, or kept by something that is.
* `ObjectsWellTyped`: `TypeOK`, with nothing assumed either. The invariant `TypeInv` adds
  that the knots are those of a grid and that the sizes kept before a refinement are sizes
  too, since they are used after it.
* `RefinementInvariant` (`~SharesTables`): `IInv` is an invariant. That a space fits the grid between
  refinements is not inductive: while slots are pending, some spaces fit the grid before
  the refinement and some the one after it. `IInv` says which: those whose first slot is
  still to be called, and the others. For this, both slots of a live space must be in the
  signal, once each, the one of the base class first, and neither closed: that no other
  object's death closes them is part of it. That a refined table fits the refined knots
  and contains the old one (`RefinedSpace`) is arithmetic of quotient and rest: knot and
  multiplicity i become number i * n.
* `SpacesAlwaysFollow`, `SpacesAreNested` (`~SharesTables`): from `IInv`. The first one is the part of
  `ObjectsFollowGrid` about the sizes per direction.
* `CoefficientsInvariant` (`OneOwner`): `FollowInv` is an invariant. Weights and control points follow only
  when their own slot is called, later than those of their space. `FollowInv` says what
  holds in between: a space that is refined remembers the table it had (`Remembers`), the sizes of
  weights and control points are those of the remembered table while their slot waits and
  of the table itself otherwise (`Carries`), and their slot comes after those of the space
  (`Attached`). The step is `InsertedNumber`: inserting the knots that are new gives
  as many coefficients as the refined space has functions. It rests on `RefinedNumber`, a
  count of repeated knots: a table is refined by putting multiplicities one between
  those it had.
* `ObjectsAlwaysFollow` (`OneOwner`): `ObjectsFollowGrid`, from `FollowInv`.
* `SlotsFindWhatTheyNeed` (`OneOwner`, clients keep their spaces): `SlotPreconditions`,
  from `FollowInv` for the slot at the head of the list.

* `RefinementKeepsPromise` (`OneOwner`): `Spec => RefinedTogether`, the refinement mapping
  `Promise`: a constructor is a `Create` of the promise, a release a `Drop`, the end of
  the emission a `Refine`, and every slot a stutter (`Creates`, `Released`, `Refines`,
  `SlotsStutter`). The invariant is `PromiseInv`: `FollowInv`, and the knots are in order
  and cut by divisors of their distances (`CutOk`). From it follows that the sizes the
  promise sees are those of the multiplicities it sees (`Consistent`), in the middle of a
  refinement too, where a space that has followed remembers them. The rest is about one
  direction: the promise knows knots as a set and multiplicities by coordinate, the
  code both by index. That the two agree (`AtCoordinate`, `CountedByCoordinate`), that
  the refined knots are those of the promise (`CutIsRefined`) and still in order
  (`RefinedIncreasing`), and that multiplicities are those it makes
  (`FollowedDirection`) needs that the knots are increasing, and that the subdivisions divide their
  distances, as the guard of `Refine` says (knots are integers here).

`ElementCachesProofs`, for any kinds of reference space, any requests (sets of the flags),
any number of elements and of refinements, under `ElementCachesAssumption` (types of the
constants) and `BSplinesJump`: clients jump only elements over B-splines, since
`NURBSElementAccessor` leaves its inner accessor behind when it jumps (section 5).

* `CachesInvariant`: `CachesInv` is an invariant. That what is served is current is not
  inductive: `fill_cache` computes values of the space from the caches of its reference
  space, of its mapping and of the geometry of the grid, and those have to be of the same
  element. `CachesInv` says that the accessors moved by one client are together
  (`Together`: one element, tables of intervals of one refinement) and that everything in
  the caches of space, mapping and reference space was computed from the stamp (element,
  topology, refinement) current since the last move, if the cache was filled
  since (`FreshClean`). The geometry of an `IgMapping` is not in it: others may borrow it
  between two fillings, but a filling moves it to its own element first. There is one lemma
  for each filling (`FilledOnly`: which caches it changes; `Clean`: what they then hold)
  and one for each initialisation (`Initialised`).
* `ServedIsCurrent`: `ServedCurrent`, what every getter returns after a filling, from `CachesInv`.
* `FieldIsCurrent`: `FieldCurrent`, when clients ask for gradients of a field on elements
  (`FieldTopologies \subseteq {"element"}`): on a face the inverse gradients of the element
  are taken (section 5).
* `ServingInvariant`, `NeverFails`, `RequestsAreServed`: `NeverStops` and `RequestedServed`
  for any requests that can be served (`RequestsServable`: each is `Servable`, and if one
  asks for normals all that name a face do, see section 5), with gradients of a field
  on elements. The flags pass six functions on their way from the physical space to its reference space, its
  push-forward, its mapping, the grid and the geometry; what each makes of them is a lemma
  (`ReferenceAdds`, `PushForwardAdds`, `MappingAdds`, `MappingCacheAdds`, `GridAdds`,
  `GeometryAdds`, `NurbsAdds`), over flags below the sign bit, where the conversion to
  `int` changes nothing (`LowOperators`). `Plan(flags, o, t)` is what cache `t` of accessor `o` is then to
  hold. That a servable request plans all that its filling needs is `ServableComplete`, that no
  assertion fails in `init_cache` is `ServableInitialises`, that each getter's quantity is planned
  is `GettersPlanned`. The invariant `Serving` says that the caches of every topology of the last
  request are made to its plan (`Planned`), that those filled since hold it (`Holds`),
  and that normals are only kept if some request asks for them. It is inductive with
  `CachesInv`, which puts all accessors at the boundary element the client is at.

`IndexingProofs`, for tables of any number of components and directions and of any sizes
whose elements lie inside their components (`ShapeOK`):

* `FindDofIdFinds`: in a table whose ids are all different `FindDofId` gives the function that
  has an id, and nothing for an id the table does not have.
* `ElementViewExact`: the runs that `ElementView` takes from the table, row after row, are
  the dofs of the functions that live on the element, of every component and no others.

Weights, sums of sizes and remainders are recursive along the directions. What they
compute is proved by induction over a set of numbers (`NatInSet`, from the least
number outside it), which needs no theorem with an operator as parameter. Flat and tensor indices
lead back to each other (`TensorRoundTrip`, `FlatRoundTrip`), the blocks of the components
lie behind one another (`OffsetsApart`, `NumDofsBehind`), and a step in the first direction is a step
of one in the table (`FlatShift`, `RowStarts`): that is why a row of an element is a run.

`MultiPatchProofs`, for any `MultiPatchSpace`s, patches, contacts and multipliers, under
`SpaceManagerAssumption`, `MultiPatchAssumption` (types of the constants, tables as above,
patches of two directions or more, faces the patches have) and `TablesDistinct`, that no
two spaces view one table:

* `MultiPatchNumbers`: `IInv` of the manager is an invariant of its clients, since every step
  of a call is an action of the manager or leaves its numbering alone.
* `FunctionsFoundById`: `DofsFound`. The ids of renumbered spaces are disjoint (`IInv`)
  and those of one space differ, so at most one patch has an id (`FindsInPatches`), and
  `FindDofIdFinds` does the rest.
* `CouplingInvariant`, `PatchesCoupled`: `SystemCoupled`. It speaks of the time between two
  calls, and is false within one: it is not inductive. `CouplingInv` says of any moment that each block,
  pair and constraint of the glued problem is there or made by a call still in `todo`
  (`BlocksExpected`, `FacesConnected`, `MultipliersConstrained`). For the step of one call
  that is not enough. The calls left come in the order of the stages (`CallsInOrder`): every
  space has its final ids before pairs and constraints name them (`NumbersFirst`), and
  ids of renumbered spaces stay (`StepsKeepIds`), so that what was stored for an earlier
  interface is not made stale by the numbering of a later one. A multiplier belongs to one interface
  (`MultipliersOnce`), so that two interfaces do not write to one block, and a call for
  constraints has one left to add (`OneLeft`). With nothing left to do `CouplingInv` gives `SystemCoupled`
  (`InvariantCouples`), by two facts about the numbering:
  `FaceDofsAreOnFace` (the dofs of a face space, taken through the active directions and
  the constant index of the face, are those of the outermost layer of the patch) and
  `PatternOfPatch` (pairs of dofs that share an element are those of functions that overlap,
  from `ElementViewExact`).

`ServicesProofs` has two parts. The first one is about the iterator over several ranges, for any number of ranges of any lengths and strides, over
arrays of up to four directions of any sizes. `ListOK` says what the code asserts: iterators
begin and end within their array or pass its end, no range is empty, and the steps that
`operator-` counts from the beginning lead to the end (`StepsLead`).

* `IterationIsCursor`: `CursorImplemented`, the refinement of `SequenceCursor`. The invariant
  `CursorInv` says that the iterator stands at one position of the sequence: k entries into
  range r with k less than its entries, or at the end of the last range (`At`, `Stands`). A range
  is a number of places a stride apart, the first in the array and the end the place
  behind the last one, even when a stride passes the end of the array (`RangeSpaced`). From that
  follow the distances (`PlaceDistances`), the entry `operator[]` finds
  (`PlaceEntry`), and that a step, or a jump of n, leads to the next position, or the n-th
  (`StepStands`, `StepsStand`). The entries of the ranges before are a sum, a
  recursive function; what it is for one range more (`SumsGrow`, `FirstOfGrows`) is proved with
  induction over a set of numbers (`NatInSet`, from the least number not in it), since the
  induction theorem of the library takes an operator.

The second one is about the files of a Writer and the lines of a log: grids of one to three
directions of any sizes, any elements switched off before the writer is made, two points or more in
every direction (the constructor asserts it), any fields and cell data (`FilesAssumption`); any set of files to attach, of
which the console is none, and depths that are numbers (`LogAssumption`).

* `OutputIsWhole`: `OutputWhole`, of the writer and the log next to each other. The invariant
  `WriterInv` says that what the constructor counted is still what the grid has (`GridOK` and
  `writer` is `NewWriter` of some points), that every field has the values of the active elements in their order and
  cell data one number for every cell (`DataOK`), and that the last file is well formed.
  A file is a fact about its source alone (`FileFits`), so that it stays one while further fields
  are added, and the work is in one `Save`: unless the program stops, the active elements are all
  there are (`AllElements`, see the hazard of switched-off elements), the k-th tuple of the points is a point of the element that the
  quotient of k names (`PointFound`), the k-th cell is a cell of it (`CellFound`) whose corners differ by a
  unit in the directions VTK expects (`CellFitsCorners`), different cells have different first corners
  (`FirstCornersDiffer`), the k-th value of a field is of that point and component (`FieldFits`),
  and the block at an offset is the one of the header, since lengths are positive and blocks
  do not overlap (`BeforeGrows`, `AppendedIsRead`). Sequences joined from parts of equal length
  have their k-th entry in the part the quotient names (`JoinOfEqual`). `LinesWhole` is about
  everything printed to the log and every place it goes to. The history `lines` has what held at the end of each line: sections,
  depths, the file, what `cerr` led to. From that follows what the console and each file must hold (`Shown`), and
  the texts of the lines with the one that has begun are all that was printed, the destructor
  included (`Texts`). A line is whole wherever one copy of it arrives, so always on the console. Where `log_cerr` has led the console's copy to
  the attached file, that file gets both heads and then both texts (`PieceOf`), which the code does
  and no comment announces (section 5). `LogInv` adds types; the step is the end of a line
  (`LineKept`), from what one mark leaves in each place (`SentIs`) and what a line more
  adds to what is shown (`LineAdds`).

Model-checked only: the reduction of constraints (a fold over data), that every call of a
`MultiPatchSpace` returns and every loop of an iterator ends (liveness, and the assertions of
the manager along a call), all that is computed in the prime field (identities at sample points: for
other constants they are other identities), and the supporting parts in `services`
other than the iterator over several ranges, the files and the log: arrays and grids under the operations that
change them, systems and their solutions (listed in a field of three elements), and the reader.

## 5. Disagreements seen while modelling

Two are findings with a run. The others were met while the modules were written;
"reproduced" means that TLC shows it with the same modules and other constants.

Numbering and patches

* `add_space` outside the insertion phase is accepted and leaves the space out of
  the view, against space_manager.h:92 (reproduced).
* A space whose phase was closed without renumbering is renumbered by the next
  phase (space_manager.cpp:81, against space_manager.h:325).
* A `NURBSSpace` and its `BSplineSpace` view one index table: in one manager both are
  shifted and share every id (reproduced).
* Of the constraints 0 -> 1 and 1 -> 0 the reduction makes one of a dof with itself
  (space_manager.cpp:575; equality_constraint.cpp:26-36 asserts they differ;
  reproduced). A slave of two tied masters keeps both constraints (564).
* The `SparsityPattern` of the PETSc build ignores
  `use_dofs_connectivity_from_space` (sparsity_pattern.cpp:64, space_manager.h:170).
* `MultiPatchSpace`: a second closing of the patch phase adds the blocks of patches again
  (assertion); a patch phase opened during the interface phase is closed by
  `add_interface_mortar`; two strong interfaces between the same two patches pass the
  test for duplicates and fail in the manager; overlapping phases of two objects on one
  manager fail an assertion. `compute_constraints` and the interfaces' `process` are not
  implemented.

Grids, spaces and mappings under refinement

* A copied `IgMapping` shares the stored connection: destroying the copy disconnects the
  original (`MappingsStayConnected` of `GridRefinement`, reproduced).
* Two spaces on one multiplicity table refine it twice (spline_space.cpp:168, reproduced).
* An `IgMapping` that is released while an iterator works on its data takes the
  only slot of the data with it (ig_mapping.cpp:179).
* Refinement keeps the old active flags at their old flat index
  (cartesian_grid.cpp:441, which its own comment calls wrong).
* `is_valid` compares a flat index with the number of active elements
  (cartesian_grid_element.cpp:345, against cartesian_grid_element.h:225); `last()` of
  bspline_space.cpp:174 and integrate_difference and the Writer index in the same way;
  `build_map_elements_between_cartesian_grids` maps the elements 0 to that number, active
  or not (grid_tools.cpp:75).
* The space kept from before a refinement has no end behaviour and no periodicity.
* The copy constructor of `IdentityMapping` drops the gradient (identity_mapping.cpp:45),
  that of `MappingSlice` the element map (48-57).

Evaluation

* `comp_offset_` adds the number of functions of a component itself instead of the one
  before (space_element_accessor-inline.h:57, 87): with degrees (2,1) and (1,1) the functions
  of the two components overlap (reproduced with `BasisExact`).
* `face_hessian` is bit 31 (finding `caches_hessian`). `divergence`, `map_inv_gradient`
  and `map_inv_hessian` asked for alone fail an assertion; `measure` is not passed
  on to the mapping and can be got only if something else needs measures.
* `NURBSElementAccessor` does not override `jump` (nurbs_element_accessor.cpp:896-925),
  so that the inner accessor stays (reproduced; `JumpingKinds` leaves it out).
* Gradients of a field on a face use the inverse gradients of the element
  (physical_space_element_accessor.cpp:388, reproduced with `FieldTopologies` on faces).
* `fill_normals_` stays set (mapping_element_accessor.cpp:369): once a request has asked for
  normals, one for a face without them clears their storage (line 292) and the next filling
  fails an assertion (525 or 533; reproduced with both in `Requests`).
* At points, components that share their functions are copied from component 0 of the
  active one; the gradients of NURBS copy the tensor entry with the number of the component,
  and the iterators walk active components only.
* `NURBSSpace::get_ref_face_space` gives weights of one (nurbs_space.cpp:247, marked TODO).
  `MappingSlice` puts 0 and 1 in place of the coordinate of the face.
* The normals of faces 7 and 8 of `UnitElement<4>` are swapped (unit_element.cpp:403).
* `SphereMapping` lacks the radius in the last component of its hessian;
  `CylindricalAnnulus` ignores `theta0_`; `BallMapping` at points overwrites its tables for
  elements; `LinearMapping`, `SphereMapping` and `IdentityMapping` have no evaluation at
  points; `IgMapping` at points moves the shared accessor.
* `transform_hessians` fills the square block only when the codimension is positive.
  Measures are signed determinants.
* The template of `SumFactorizationIntegrator` for four dimensions and more is wrong in its
  branch that is not symmetric (elliptic_operators_sf_integration.h:489-532); no build uses it.
* `Tensor::operator-()` negates the tensor in place (tensor-inline.h:413).
* `find_span` may not end with degree zero; a point on a knot is put into the element before.

Systems and containers

* PETSc: `Vector::operator()` returns a reference to a temporary; the constructor from ids uses
  only their number; rows are allocated by position; `MatCreate` is called twice;
  boundary values for rows already constrained leave the old ones in the right-hand side; one diagonal
  value is used for all rows; the result of `KSPSolve` is not looked at, while with Trilinos a
  solve that fails throws.
* `LinearConstraint::eval_absolute_error` indexes by dof id a vector of as many entries as
  there are column dofs.
* Difference of strided iterators is a floor division, so that the assertions of
  multi_array_iterator-inline.h:264-292 fail for point views of tables of one function (reproduced).
  `ConcatenatedIterator::operator+` moves the iterator; `[]` counts from the begin of the ranges.
* `unique_container` (spline_space.h:464) runs `std::unique` on a map that is not sorted.

Input and output

* The reader writes the end behaviour of two directions whatever the dimension; duplicate
  directions are caught by debug assertions only; a comment at top level is rejected.
* The Writer counts elements once; a refinement of the grid in its life shifts its blocks. Sizes of
  cell data are not checked.
* `log_cerr` takes all output for the console along: it replaces the buffer of `std::cerr`, which
  `std_out` is (logstream.cpp:22, 201). Until the next call the console gets nothing, and the attached
  file gets each line that both depths show as head, head, text, text, and lines too deep for
  it that the console's depth shows; against logstream.h:475-477 ("a copy of the output is to go to") and 185 ("Reroutes cerr to
  LogStream"). `PieceOf` says so; that every line is written once and whole is violated (reproduced).
* `LogStream`: `log_cerr` without a file dereferences null; `Prefix` owns the address of the
  stream; `print_thread_id` is not initialised.

## 6. Plan, and what is not modelled

Done: everything in section 2. What would come next, in this order:

1. The composition of `SpaceManager` and `GridRefinement`: after a refinement
   the offset is lost and views point into a replaced table (bspline_space.cpp:288).
   No property covers it, because the code has no operation that recovers from it.
   An abstract numbering (disjoint intervals handed out in order) that
   `SpaceManager` implements.
2. Proofs: `ObjectsFollowGrid` with copied mappings, for those still connected.
3. Periodic spaces, and spaces with several multiplicities under refinement with inactive elements.

Not modelled, and why:

* contrib, the instantiation scripts and generated code: not igatools' own logic.
* Functions of function_lib, the printing of every class, timers, memory
  estimates: no control and no state.
* Rounding and tolerances of reals; the iterations of the linear solvers.
* The reader of format 1.0 (it throws; the rest is compiled out), `h_div`
  and `h_curl` transformations, hessians on a `MappingSlice`, process functions of interfaces: the code stops with
  `NotImplemented`.
* Influence flags and boundary ids of grids, the boost graph of a `MultiPatchSpace`:
  data that is stored and handed back.
* `StaticMultiArray` and the arithmetic of whole arrays: entry by entry, without indices.
* Several processes: the maps of Trilinos are used with a serial communicator.
