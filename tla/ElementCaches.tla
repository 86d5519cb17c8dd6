----------------------------- MODULE ElementCaches -----------------------------
(***************************************************************************)
(* The caches behind an element of a physical space.  The element is three *)
(* accessors that move together, one on the space, one on the mapping and  *)
(* one on the reference space; a NURBS reference space holds a fourth on   *)
(* its B-splines, and an IgMapping a fifth on the space of its control     *)
(* points, which it moves itself.  Each has caches for the element and for *)
(* the faces, initialised for some quadrature and filled, position by      *)
(* position, from the caches of the others.                                *)
(*                                                                         *)
(* A value in a cache is the set of stamps of what it was computed from:   *)
(* element, topology and refinement of the grid.  The elements stand in a  *)
(* row; only the first and the last have a boundary face.                  *)
(***************************************************************************)
EXTENDS ValueFlags, FiniteSets

CONSTANTS
  Kinds,           \* kinds of the reference space: "bspline", "nurbs"
  JumpingKinds,    \* kinds whose elements clients jump
  Requests,        \* the flags clients ask for
  FieldTopologies, \* topologies clients evaluate gradients of a field on
  NumElements,     \* elements of the new grid
  MaxRefinements   \* bound: refinements of the grid

ASSUME ElementCachesAssumption ==
  /\ Kinds \subseteq {"bspline", "nurbs"} /\ JumpingKinds \subseteq Kinds
  /\ Requests \subseteq SUBSET Flag
  /\ NumElements \in Nat \ {0} /\ MaxRefinements \in Nat

VARIABLES
  kind,       \* kind of the reference space
  generation, \* refinements of the grid so far
  at,         \* at[part]: the element an accessor is at
  built,      \* built[part]: the refinement its tables of intervals were made for
  cache,      \* cache[part][topology]
  normals,    \* whether the face caches of the mapping are to hold normals
  requested,  \* the flags of the last initialisation
  fresh,      \* topologies filled since the accessors moved, or the caches were initialised
  field,      \* the stamps of the last gradients of a field, and what they are of
  stopped     \* an assertion of the code has failed

vars == <<kind, generation, at, built, cache, normals, requested, fresh, field, stopped>>

Faces == {"first", "last"}
Topology == {"element"} \cup Faces
Parts == {"space", "map", "nurbs", "spline", "geometry"}
Owner == Parts \cup {"grid"}        \* grid: the caches of the mapping's grid accessor

Elements == 0 .. NumElements * 2 ^ generation - 1
IsBoundary(elem, topology) ==
  CASE topology = "first" -> elem = 0
    [] topology = "last"  -> elem = NumElements * 2 ^ generation - 1
    [] OTHER -> TRUE

Stamp(elem, topology, made) == [elem |-> elem, topology |-> topology, generation |-> made]
Empty == [status |-> "none", fills |-> {}, has |-> << >>]

Ref == IF kind = "nurbs" THEN "nurbs" ELSE "spline"

\* The part of the state the accessors change, and whether every assertion held.
Now == [at |-> at, built |-> built, cache |-> cache, normals |-> normals, ok |-> TRUE]
Require(s, condition) == [s EXCEPT !.ok = @ /\ condition]

-----------------------------------------------------------------------------
(* Initialisation.                                                         *)

\* Element and face caches are reset apart from each other, when there is
\* something to hold.
ResetCaches(s, owner, elem, face) ==
  [s EXCEPT !.cache[owner] = [t \in Topology |->
     LET fills == IF t = "element" THEN elem ELSE face
     IN  IF fills = {} THEN @[t] ELSE [status |-> "initialized", fills |-> fills, has |-> << >>]]]

ResetBasis(s, owner, flags) ==
  ResetCaches(Require(s, Fills(BasisElem, flags) \cup Fills(BasisFace, flags) # {}),
              owner, Fills(BasisElem, flags), Fills(BasisFace, flags))

\* A variant that keeps the tables of intervals it has.
SplineInitOnce(s, owner, flags) ==
  ResetBasis(Require(s, Admits(SpaceAdmissible, flags)), owner, SplineCacheFlags(flags))

SplineInit(s, owner, flags) ==
  ResetBasis([Require(s, Admits(SpaceAdmissible, flags)) EXCEPT !.built[owner] = generation],
             owner, SplineCacheFlags(flags))

NurbsInit(s, flags) ==
  ResetBasis(SplineInit(s, "spline", NurbsSplineFlags(flags)), "nurbs", flags)

GridInit(s, flags) ==
  LET r == [s EXCEPT !.built["map"] = generation,
                     !.cache["grid"] = [t \in Topology |->
                        [status |-> "initialized", has |-> << >>,
                         fills |-> Fills(IF t = "element" THEN GridElem ELSE GridFace, flags)]]]
  IN  Require(r, Admits(GridAdmissible, flags))

\* Normals, once asked for, stay asked for.
MapInit(s, flags) ==
  LET f    == MappingCacheFlags(flags)
      elem == Fills(MappingElem, f)
      face == Fills(MappingFace, f)
      r    == GridInit(Require(s, Admits(MappingAdmissible, flags) /\ elem \cup face # {}),
                       MappingGridFlags(flags))
  IN  SplineInit(ResetCaches([r EXCEPT !.normals = @ \/ "normals" \in face], "map", elem, face),
                 "geometry", GeometryFlags(f))

SpaceInit(s, flags) ==
  LET ref == ReferenceSpaceFlags(flags)
      r   == IF kind = "nurbs" THEN NurbsInit(s, ref) ELSE SplineInit(s, "spline", ref)
  IN  ResetBasis(MapInit(r, MappingFlags(PushForwardFlags(flags))), "space", flags)

-----------------------------------------------------------------------------
(* Filling, at the position each accessor has.                             *)

\* Cache t of owner holds, for each quantity it is to hold, the stamps of.
Hold(s, owner, t, of) ==
  [s EXCEPT !.cache[owner][t] =
     [status |-> "filled", fills |-> @.fills, has |-> [q \in @.fills |-> of[q]]]]

Holds(s, owner, t, quantities) ==
  s.cache[owner][t].status = "filled" /\ quantities \subseteq DOMAIN s.cache[owner][t].has

Of(s, owner, t, quantities) ==
  UNION {s.cache[owner][t].has[q] : q \in quantities \cap DOMAIN s.cache[owner][t].has}

CanFill(s, owner, t) == s.cache[owner][t].status # "none" /\ IsBoundary(s.at[owner], t)

\* The tables of a face have one interval across it, whatever the element.
SplineFill(s, owner, t) ==
  LET stamp == {Stamp(s.at[owner], t, s.built[owner])}
      fills == s.cache[owner][t].fills
  IN  Hold(Require(s, CanFill(s, owner, t)), owner, t, [q \in fills |-> stamp])

\* The weights are those of the element of the NURBS accessor itself.
NurbsFill(s, t) ==
  LET r     == SplineFill(Require(s, CanFill(s, "nurbs", t)), "spline", t)
      fills == s.cache["nurbs"][t].fills
      needs == [q \in {"values", "gradients", "hessians"} |->
                  CASE q = "values" -> {"values"}
                    [] q = "gradients" -> {"values", "gradients"}
                    [] OTHER -> {"values", "gradients", "hessians"}]
      weights == {Stamp(s.at["nurbs"], t, generation)}
      computed == fills \cap DOMAIN needs
  IN  [Require(r, \A q \in computed : Holds(r, "spline", t, needs[q])) EXCEPT
         !.cache["nurbs"][t] =
            [status |-> "filled", fills |-> @.fills,
             has |-> [q \in computed |-> weights \cup Of(r, "spline", t, needs[q])]]]

RefFill(s, t) == IF kind = "nurbs" THEN NurbsFill(s, t) ELSE SplineFill(s, "spline", t)

GridFill(s, t) ==
  Hold(Require(s, CanFill([s EXCEPT !.at = [o \in Owner |-> @["map"]]], "grid", t)), "grid", t,
       [q \in {"measures", "w_measures"} |-> {Stamp(s.at["map"], t, s.built["map"])}])

\* A variant that leaves the geometry where it was filled last.
MapFillInPlace(s, t) ==
  LET r       == SplineFill(GridFill(s, t), "geometry", t)
      from(q) == Of(r, "geometry", t, {q})
  IN  Hold(r, "map", t,
        [values |-> from("values"), gradients |-> from("gradients"), hessians |-> from("hessians"),
         inv_gradients |-> from("gradients"), inv_hessians |-> from("gradients") \cup from("hessians"),
         measures |-> from("gradients"), normals |-> from("gradients"),
         w_measures |-> from("gradients") \cup Of(r, "grid", t, {"w_measures"})])

\* The assertions on the way: what is computed has been filled before, and has storage.
MapReady(s, t) ==
  LET fills == s.cache["map"][t].fills
  IN  /\ CanFill(s, "map", t)
      /\ \A q \in fills \cap {"values", "gradients", "hessians"} : Holds(s, "geometry", t, {q})
      /\ fills \cap {"inv_gradients", "measures", "w_measures"} # {} => "gradients" \in fills
      /\ "inv_hessians" \in fills => {"hessians", "inv_gradients"} \subseteq fills
      /\ "w_measures" \in fills => Holds(s, "grid", t, {"w_measures"})
      /\ normals /\ t # "element" => {"inv_gradients", "normals"} \subseteq fills

\* The geometry is moved to the element of the mapping and filled first.
MapFill(s, t) ==
  LET moved   == [s EXCEPT !.at["geometry"] = s.at["map"]]
      r       == SplineFill(GridFill(moved, t), "geometry", t)
      from(q) == Of(r, "geometry", t, {q})
  IN  Hold(Require(r, MapReady(r, t)), "map", t,
        [values |-> from("values"), gradients |-> from("gradients"), hessians |-> from("hessians"),
         inv_gradients |-> from("gradients"), inv_hessians |-> from("gradients") \cup from("hessians"),
         measures |-> from("gradients"), normals |-> from("gradients"),
         w_measures |-> from("gradients") \cup Of(r, "grid", t, {"w_measures"})])

SpaceFill(s, t) ==
  LET r     == RefFill(MapFill(Require(s, CanFill(s, "space", t)), t), t)
      fills == s.cache["space"][t].fills
      ref(quantities) == Of(r, Ref, t, quantities)
      map(quantities) == Of(r, "map", t, quantities)
      checked ==
        Require(r,
          /\ "values" \in fills => Holds(r, Ref, t, {"values"})
          /\ "gradients" \in fills =>
               Holds(r, Ref, t, {"gradients"}) /\ Holds(r, "map", t, {"inv_gradients"})
          /\ "hessians" \in fills =>
               /\ Holds(r, Ref, t, {"gradients", "hessians"})
               /\ Holds(r, "map", t, {"inv_gradients", "hessians"})
          /\ "divergences" \in fills => "gradients" \in fills)
      gradients == ref({"gradients"}) \cup map({"inv_gradients"})
  IN  Hold(checked, "space", t,
        [values |-> ref({"values"}), gradients |-> gradients, divergences |-> gradients,
         hessians |-> gradients \cup ref({"hessians"}) \cup map({"hessians"})])

-----------------------------------------------------------------------------
\* What becomes of the state when the accessors end in s: nothing after a failed
\* assertion, which ends the program.
Become(s) ==
  /\ stopped' = ~s.ok
  /\ at' = (IF s.ok THEN s.at ELSE at)
  /\ built' = (IF s.ok THEN s.built ELSE built)
  /\ cache' = (IF s.ok THEN s.cache ELSE cache)
  /\ normals' = (IF s.ok THEN s.normals ELSE normals)

Init ==
  /\ kind \in Kinds
  /\ generation = 0
  /\ at = [p \in Parts |-> 0]
  /\ built = [p \in Parts |-> 0]
  /\ cache = [o \in Owner |-> [t \in Topology |-> Empty]]
  /\ normals = FALSE
  /\ requested = {}
  /\ fresh = {}
  /\ field = << >>
  /\ stopped = FALSE

\* init_values: with the same flags for the life of the element, or others later.
InitCache(flags) ==
  /\ ~stopped
  /\ Become(SpaceInit(Now, flags))
  /\ requested' = flags
  /\ fresh' = {}
  /\ field' = << >>
  /\ UNCHANGED <<kind, generation>>

FlagsOf(topology) ==
  IF topology = "element"
    THEN {point, measure, w_measure, value, gradient, hessian, divergence}
    ELSE {face_point, face_w_measure, face_normal, face_value, face_gradient, face_hessian,
          face_divergence}

\* fill_values and fill_face_values, for what the client has asked for since the
\* grid was last refined.
FillCache(topology) ==
  /\ ~stopped
  /\ requested \cap FlagsOf(topology) # {}
  /\ built["map"] = generation
  /\ IsBoundary(at["space"], topology)
  /\ Become(SpaceFill(Now, topology))
  /\ fresh' = (IF stopped' THEN fresh ELSE fresh \cup {topology})
  /\ UNCHANGED <<kind, generation, requested, field>>

Moved(elem, parts) ==
  /\ at' = [p \in Parts |-> IF p \in parts THEN elem ELSE at[p]]
  /\ fresh' = {}
  /\ field' = << >>
  /\ UNCHANGED <<kind, generation, built, cache, normals, requested, stopped>>

Advance ==
  /\ ~stopped
  /\ at["space"] + 1 \in Elements
  /\ Moved(at["space"] + 1, {"space", "map", "nurbs", "spline"})

MoveTo(elem) ==
  /\ ~stopped
  /\ elem \in Elements
  /\ Moved(elem, {"space", "map", "nurbs", "spline"})

\* A NURBS accessor has the jump of the grid element: its B-splines stay.
Jump(increment) ==
  /\ ~stopped
  /\ kind \in JumpingKinds
  /\ at["space"] + increment \in Elements
  /\ Moved(at["space"] + increment,
           {"space", "map"} \cup (IF kind = "nurbs" THEN {"nurbs"} ELSE {"nurbs", "spline"}))

\* evaluate_at_points of the mapping borrows the accessor of the geometry.
EvaluateMapAtPoints(elem) ==
  /\ ~stopped
  /\ elem \in Elements
  /\ at' = [at EXCEPT !["geometry"] = elem]
  /\ UNCHANGED <<kind, generation, built, cache, normals, requested, fresh, field, stopped>>

\* evaluate_field_gradients: the reference gradients on the topology, pushed
\* forward with the inverse gradients of the default topology, the element.
EvaluateFieldGradients(topology) ==
  /\ ~stopped
  /\ topology \in fresh
  /\ "gradients" \in cache["space"][topology].fills
  /\ stopped' = ~(Holds(Now, Ref, topology, {"gradients"}) /\ Holds(Now, "map", "element", {"inv_gradients"}))
  /\ field' = [topology |-> topology,
               stamps |-> Of(Now, Ref, topology, {"gradients"})
                            \cup Of(Now, "map", "element", {"inv_gradients"})]
  /\ UNCHANGED <<kind, generation, at, built, cache, normals, requested, fresh>>

Refine ==
  /\ ~stopped
  /\ generation < MaxRefinements
  /\ generation' = generation + 1
  /\ fresh' = {}
  /\ field' = << >>
  /\ UNCHANGED <<kind, at, built, cache, normals, requested, stopped>>

AllElements == 0 .. NumElements * 2 ^ MaxRefinements - 1

Next ==
  \/ \E flags \in Requests : InitCache(flags)
  \/ \E topology \in Topology : FillCache(topology)
  \/ Advance
  \/ \E elem \in AllElements : MoveTo(elem) \/ EvaluateMapAtPoints(elem)
  \/ \E increment \in {-2, -1, 1, 2} : Jump(increment)
  \/ \E topology \in FieldTopologies : EvaluateFieldGradients(topology)
  \/ Refine

Spec == Init /\ [][Next]_vars

-----------------------------------------------------------------------------
(* The requests an element serves.                                         *)

\* What clients ask an element for, without the two flags the operators lose.
Asks(S) ==
  S \subseteq {point, measure, w_measure, value, gradient, hessian, divergence,
               face_point, face_w_measure, face_normal, face_value, face_gradient}

\* The requests an element can serve: on each topology they name a quantity of the basis,
\* none with hessians a face, a divergence comes with gradients and a measure with something
\* it is computed for.
Servable(flags) ==
  /\ flags # {} /\ Asks(flags)
  /\ flags \cap FlagsOf("element") # {} => flags \cap {value, gradient, hessian, divergence} # {}
  /\ flags \cap FlagsOf("first") # {} => flags \cap {face_value, face_gradient} # {}
  /\ hessian \in flags => flags \cap FlagsOf("first") = {}
  /\ divergence \in flags => flags \cap {gradient, hessian} # {}
  /\ measure \in flags => flags \cap {w_measure, gradient, hessian, face_gradient} # {}

NormalsAsked == \E flags \in Requests : face_normal \in flags

\* Every request can be served; when one asks for normals, which stay asked for while a
\* later request without them clears their storage, every request for a face does.
RequestsServable ==
  /\ \A flags \in Requests : Servable(flags)
  /\ NormalsAsked =>
       \A flags \in Requests : flags \cap FlagsOf("first") # {} => face_normal \in flags

-----------------------------------------------------------------------------
(* Properties.                                                             *)

\* Where each getter of the element looks.
Getter(flag) ==
  CASE flag \in {value, face_value} -> <<"space", "values">>
    [] flag \in {gradient, face_gradient} -> <<"space", "gradients">>
    [] flag \in {hessian, face_hessian} -> <<"space", "hessians">>
    [] flag \in {divergence, face_divergence} -> <<"space", "divergences">>
    [] flag \in {point, face_point} -> <<"map", "values">>
    [] flag = measure -> <<"map", "measures">>
    [] flag \in {w_measure, face_w_measure} -> <<"map", "w_measures">>
    [] OTHER -> <<"map", "normals">>

Asked(topology) == requested \cap FlagsOf(topology)

\* After a topology is filled, every quantity the client asked for on it can be got:
\* the flags reach every accessor that has a part in it (init_cache of the spaces, the
\* push-forward and the mapping).
RequestedServed ==
  \A t \in fresh : \A f \in Asked(t) :
    LET g == Getter(f) IN Holds(Now, g[1], t, {g[2]})

\* What can be got comes from the element the client is at, from the topology it asked
\* for and from the grid as it is now, in every one of the accessors it was computed
\* from: after moves, other fillings, refinements and borrowings of the geometry.
ServedCurrent ==
  \A t \in fresh : \A f \in Asked(t) :
    LET g == Getter(f)
    IN  Of(Now, g[1], t, {g[2]}) \subseteq {Stamp(at["space"], t, generation)}

\* A client that fills what it asked for, on the boundary where it is a face, meets no
\* failed assertion.
NeverStops == ~stopped

\* The gradients of a field on a topology are computed from that topology.
FieldCurrent ==
  field # << >> => field.stamps \subseteq {Stamp(at["space"], field.topology, generation)}
=============================================================================
