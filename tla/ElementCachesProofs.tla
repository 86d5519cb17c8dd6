-------------------------- MODULE ElementCachesProofs --------------------------
(***************************************************************************)
(* Proofs about the caches of an element: what a client gets after filling *)
(* was computed from the element it is at, the topology it asked for and   *)
(* the grid as it is, in every accessor behind the element; for any        *)
(* requests, any number of elements and any moves, refinements and         *)
(* borrowings of the geometry.  And that it gets what it asked for, and    *)
(* meets no failed assertion, for any requests an element can serve.       *)
(***************************************************************************)
EXTENDS ElementCaches, TLAPS

-----------------------------------------------------------------------------
(* The inductive invariant.                                                  *)

SpaceQuantities == {"values", "gradients", "hessians", "divergences"}
MapQuantities == {"values", "gradients", "hessians", "inv_gradients", "inv_hessians",
                  "measures", "w_measures", "normals"}

IsCache(c) == c = [status |-> c.status, fills |-> c.fills, has |-> c.has]

\* The state of the accessors, and what the caches of space and mapping are to hold.
WellFormed(s) ==
  /\ DOMAIN s = {"at", "built", "cache", "normals", "ok"}
  /\ DOMAIN s.at = Parts /\ DOMAIN s.built = Parts
  /\ DOMAIN s.cache = Owner
  /\ \A o \in Owner : DOMAIN s.cache[o] = Topology
  /\ \A o \in Owner, t \in Topology : IsCache(s.cache[o][t])
  /\ \A t \in Topology : /\ s.cache["space"][t].fills \subseteq SpaceQuantities
                         /\ s.cache["map"][t].fills \subseteq MapQuantities

\* Everything in cache t of owner o was computed from stamp alone.
Clean(s, o, t, stamp) == \A q \in DOMAIN s.cache[o][t].has : s.cache[o][t].has[q] \subseteq {stamp}

\* r is s but for the caches t of the owners os, which keep what they are to hold.
FilledOnly(r, s, os, t) ==
  /\ WellFormed(r)
  /\ r.at = s.at /\ r.built = s.built
  /\ \A o \in Owner, u \in Topology : o \notin os \/ u # t => r.cache[o][u] = s.cache[o][u]
  /\ \A o \in Owner, u \in Topology : r.cache[o][u].fills = s.cache[o][u].fills

\* The accessors the client moves are at one element, their tables of one refinement,
\* and the caches filled since are those of that element.
Together ==
  /\ at["map"] = at["space"] /\ at["nurbs"] = at["space"] /\ at["spline"] = at["space"]
  /\ built["spline"] = built["map"] /\ built["geometry"] = built["map"]

FreshClean ==
  \A t \in fresh : \A o \in {"space", "map", Ref} :
    Clean(Now, o, t, Stamp(at["space"], t, generation))

CachesInv ==
  /\ kind \in Kinds
  /\ fresh \subseteq Topology
  /\ WellFormed(Now)
  /\ Together
  /\ FreshClean

-----------------------------------------------------------------------------
\* An assertion changes nothing that is cached.
LEMMA RequireKeeps ==
  ASSUME NEW s, WellFormed(s), NEW c
  PROVE  /\ WellFormed(Require(s, c))
         /\ Require(s, c).at = s.at /\ Require(s, c).built = s.built
         /\ Require(s, c).cache = s.cache /\ Require(s, c).normals = s.normals
<1>1. PICK r : r = Require(s, c)
  OBVIOUS
<1>2. /\ DOMAIN r = DOMAIN s /\ r.at = s.at /\ r.built = s.built /\ r.cache = s.cache
      /\ r.normals = s.normals
  BY <1>1 DEF Require, WellFormed
<1> QED BY <1>1, <1>2 DEF WellFormed

\* Cache t of owner o with new contents.
Replaced(s, o, t, status, has) ==
  [s EXCEPT !.cache[o][t] = [status |-> status, fills |-> @.fills, has |-> has]]

\* Only that cache changes.
LEMMA ReplaceOne ==
  ASSUME NEW s, WellFormed(s), NEW o \in Owner, NEW t \in Topology,
         NEW status, NEW has, NEW r, r = Replaced(s, o, t, status, has)
  PROVE  /\ FilledOnly(r, s, {o}, t)
         /\ r.cache[o][t].has = has
<1>1. PICK c : c = s.cache
  OBVIOUS
<1>2. PICK new : new = [status |-> status, fills |-> c[o][t].fills, has |-> has]
  OBVIOUS
<1>3. IsCache(new) /\ new.fills = c[o][t].fills /\ new.has = has
  BY <1>2 DEF IsCache
<1>4. r = [s EXCEPT !.cache = [c EXCEPT ![o] = [c[o] EXCEPT ![t] = new]]]
  BY <1>1, <1>2 DEF WellFormed, Replaced
<1>5. /\ DOMAIN r = DOMAIN s /\ r.at = s.at /\ r.built = s.built
      /\ r.cache = [c EXCEPT ![o] = [c[o] EXCEPT ![t] = new]]
  BY <1>4 DEF WellFormed
<1>6. DOMAIN c = Owner /\ \A p \in Owner : DOMAIN c[p] = Topology
  BY <1>1 DEF WellFormed
<1>7. /\ DOMAIN r.cache = Owner
      /\ \A p \in Owner : DOMAIN r.cache[p] = Topology
      /\ r.cache[o][t] = new
      /\ \A p \in Owner, u \in Topology : p # o \/ u # t => r.cache[p][u] = c[p][u]
  BY <1>5, <1>6
<1>8. \A p \in Owner, u \in Topology :
        IsCache(r.cache[p][u]) /\ r.cache[p][u].fills = c[p][u].fills
  <2>1. ASSUME NEW p \in Owner, NEW u \in Topology
        PROVE  IsCache(r.cache[p][u]) /\ r.cache[p][u].fills = c[p][u].fills
    <3>1. CASE p = o /\ u = t
      BY <1>3, <1>7, <3>1
    <3>2. CASE p # o \/ u # t
      BY <1>1, <1>7, <3>2 DEF WellFormed
    <3> QED BY <3>1, <3>2
  <2> QED BY <2>1
<1>9. \A u \in Topology : /\ r.cache["space"][u].fills \subseteq SpaceQuantities
                          /\ r.cache["map"][u].fills \subseteq MapQuantities
  BY <1>1, <1>8 DEF WellFormed, Owner, Parts
<1>10. WellFormed(r)
  BY <1>5, <1>7, <1>8, <1>9 DEF WellFormed
<1> QED BY <1>1, <1>3, <1>5, <1>7, <1>8, <1>10 DEF FilledOnly

\* Filling one cache.
LEMMA HoldFills ==
  ASSUME NEW s, WellFormed(s), NEW o \in Owner, NEW t \in Topology, NEW of
  PROVE  /\ FilledOnly(Hold(s, o, t, of), s, {o}, t)
         /\ Hold(s, o, t, of).cache[o][t].has = [q \in s.cache[o][t].fills |-> of[q]]
<1>1. PICK has : has = [q \in s.cache[o][t].fills |-> of[q]]
  OBVIOUS
<1>2. PICK r : r = Replaced(s, o, t, "filled", has)
  OBVIOUS
<1>3. FilledOnly(r, s, {o}, t) /\ r.cache[o][t].has = has
  BY <1>2, ReplaceOne
<1>4. Hold(s, o, t, of) = r
  BY <1>1, <1>2 DEF Hold, Replaced, WellFormed
<1> QED BY <1>1, <1>3, <1>4

\* Filling in one step, and then in another, is filling what both fill.
LEMMA FilledTwice ==
  ASSUME NEW s, NEW r, NEW x, NEW os, NEW ps, NEW t,
         FilledOnly(r, s, os, t), FilledOnly(x, r, ps, t)
  PROVE  FilledOnly(x, s, os \cup ps, t)
  BY DEF FilledOnly

\* An assertion before a filling is none of it.
LEMMA FilledRequire ==
  ASSUME NEW s, WellFormed(s), NEW c, NEW r, NEW os, NEW t,
         FilledOnly(r, Require(s, c), os, t)
  PROVE  FilledOnly(r, s, os, t)
  BY RequireKeeps DEF FilledOnly

\* Nor is one after it.
LEMMA RequireFilled ==
  ASSUME NEW s, NEW c, NEW r, NEW os, NEW t, FilledOnly(r, s, os, t)
  PROVE  FilledOnly(Require(r, c), s, os, t) /\ Require(r, c).cache = r.cache
<1>1. WellFormed(r)
  BY DEF FilledOnly
<1> QED BY <1>1, RequireKeeps DEF FilledOnly

\* A spline accessor fills from its own tables, at its own element.
LEMMA SplineFillClean ==
  ASSUME NEW s, WellFormed(s), NEW o \in {"spline", "geometry"}, NEW t \in Topology
  PROVE  /\ FilledOnly(SplineFill(s, o, t), s, {o}, t)
         /\ Clean(SplineFill(s, o, t), o, t, Stamp(s.at[o], t, s.built[o]))
<1>1. PICK stamp : stamp = Stamp(s.at[o], t, s.built[o])
  OBVIOUS
<1>2. PICK of : of = [q \in s.cache[o][t].fills |-> {stamp}]
  OBVIOUS
<1>3. PICK x : x = Require(s, CanFill(s, o, t))
  OBVIOUS
<1>4. o \in Owner
  BY DEF Owner, Parts
<1>5. WellFormed(x) /\ x.cache = s.cache
  BY <1>3, RequireKeeps
<1>6. PICK r : r = Hold(x, o, t, of)
  OBVIOUS
<1>7. FilledOnly(r, x, {o}, t) /\ r.cache[o][t].has = [q \in s.cache[o][t].fills |-> of[q]]
  BY <1>4, <1>5, <1>6, HoldFills
<1>8. SplineFill(s, o, t) = r
  BY <1>1, <1>2, <1>3, <1>6 DEF SplineFill
<1>9. FilledOnly(r, s, {o}, t)
  BY <1>3, <1>7, FilledRequire
<1>10. Clean(r, o, t, stamp)
  BY <1>2, <1>7 DEF Clean
<1> QED BY <1>1, <1>8, <1>9, <1>10

\* A NURBS accessor fills from the weights of its element and from its B-splines.
LEMMA NurbsFillClean ==
  ASSUME NEW s, WellFormed(s), NEW t \in Topology,
         s.at["spline"] = s.at["nurbs"], s.built["spline"] = generation
  PROVE  /\ FilledOnly(NurbsFill(s, t), s, {"nurbs", "spline"}, t)
         /\ Clean(NurbsFill(s, t), "nurbs", t, Stamp(s.at["nurbs"], t, generation))
<1>1. PICK stamp : stamp = Stamp(s.at["nurbs"], t, generation)
  OBVIOUS
<1>2. PICK x : x = Require(s, CanFill(s, "nurbs", t))
  OBVIOUS
<1>3. WellFormed(x) /\ x.at = s.at /\ x.built = s.built
  BY <1>2, RequireKeeps
<1>4. PICK r : r = SplineFill(x, "spline", t)
  OBVIOUS
<1>5. FilledOnly(r, x, {"spline"}, t) /\ Clean(r, "spline", t, stamp)
  BY <1>1, <1>3, <1>4, SplineFillClean
<1>6. FilledOnly(r, s, {"spline"}, t)
  BY <1>2, <1>5, FilledRequire
<1>7. PICK needs : needs = [q \in {"values", "gradients", "hessians"} |->
                              CASE q = "values" -> {"values"}
                                [] q = "gradients" -> {"values", "gradients"}
                                [] OTHER -> {"values", "gradients", "hessians"}]
  OBVIOUS
<1>8. PICK computed : computed = s.cache["nurbs"][t].fills \cap DOMAIN needs
  OBVIOUS
<1>a. PICK c : c = \A q \in computed : Holds(r, "spline", t, needs[q])
  OBVIOUS
<1>9. PICK y : y = Require(r, c)
  OBVIOUS
<1>10. FilledOnly(y, s, {"spline"}, t) /\ y.cache = r.cache
  BY <1>6, <1>9, RequireFilled
<1>11. PICK has : has = [q \in computed |-> {stamp} \cup Of(r, "spline", t, needs[q])]
  OBVIOUS
<1>12. NurbsFill(s, t) = Replaced(y, "nurbs", t, "filled", has)
  <2>1. SplineFill(Require(s, CanFill(s, "nurbs", t)), "spline", t) = r
    BY <1>2, <1>4
  <2>2. r.cache["nurbs"][t].fills = s.cache["nurbs"][t].fills
    BY <1>6 DEF FilledOnly, Owner, Parts
  <2> QED BY <1>1, <1>7, <1>8, <1>a, <1>9, <1>11, <2>1, <2>2 DEF NurbsFill, Replaced
<1>13. WellFormed(y) /\ "nurbs" \in Owner
  BY <1>10 DEF FilledOnly, Owner, Parts
<1>14. PICK z : z = Replaced(y, "nurbs", t, "filled", has)
  OBVIOUS
<1>15. FilledOnly(z, y, {"nurbs"}, t) /\ z.cache["nurbs"][t].has = has
  BY <1>13, <1>14, ReplaceOne
<1>16. FilledOnly(z, s, {"spline"} \cup {"nurbs"}, t)
  BY <1>10, <1>15, FilledTwice
<1>17. \A q : Of(r, "spline", t, q) \subseteq {stamp}
  BY <1>5 DEF Of, Clean
<1>18. Clean(z, "nurbs", t, stamp)
  BY <1>11, <1>15, <1>17 DEF Clean
<1>19. {"spline"} \cup {"nurbs"} = {"nurbs", "spline"}
  OBVIOUS
<1> QED BY <1>1, <1>12, <1>14, <1>16, <1>18, <1>19

\* The accessor of the reference space, whatever its kind.
LEMMA RefFillClean ==
  ASSUME NEW s, WellFormed(s), NEW t \in Topology,
         s.at["spline"] = s.at["nurbs"], s.built["spline"] = generation
  PROVE  /\ FilledOnly(RefFill(s, t), s, {"nurbs", "spline"}, t)
         /\ Clean(RefFill(s, t), Ref, t, Stamp(s.at["nurbs"], t, generation))
<1>1. CASE kind = "nurbs"
  BY <1>1, NurbsFillClean DEF RefFill, Ref
<1>2. CASE kind # "nurbs"
  <2>1. /\ FilledOnly(SplineFill(s, "spline", t), s, {"spline"}, t)
        /\ Clean(SplineFill(s, "spline", t), "spline", t,
                 Stamp(s.at["spline"], t, s.built["spline"]))
    BY SplineFillClean
  <2>2. FilledOnly(SplineFill(s, "spline", t), s, {"nurbs", "spline"}, t)
    BY <2>1 DEF FilledOnly
  <2> QED BY <1>2, <2>1, <2>2 DEF RefFill, Ref
<1> QED BY <1>1, <1>2

\* The caches of the grid accessor of the mapping.
LEMMA GridFillClean ==
  ASSUME NEW s, WellFormed(s), NEW t \in Topology
  PROVE  /\ FilledOnly(GridFill(s, t), s, {"grid"}, t)
         /\ Of(GridFill(s, t), "grid", t, {"w_measures"})
              \subseteq {Stamp(s.at["map"], t, s.built["map"])}
<1>1. PICK stamp : stamp = Stamp(s.at["map"], t, s.built["map"])
  OBVIOUS
<1>2. PICK of : of = [q \in {"measures", "w_measures"} |-> {stamp}]
  OBVIOUS
<1>3. PICK c : c = CanFill([s EXCEPT !.at = [o \in Owner |-> @["map"]]], "grid", t)
  OBVIOUS
<1>4. PICK x : x = Require(s, c)
  OBVIOUS
<1>5. WellFormed(x) /\ x.at = s.at /\ x.built = s.built /\ x.cache = s.cache /\ "grid" \in Owner
  BY <1>4, RequireKeeps DEF Owner
<1>6. PICK r : r = Hold(x, "grid", t, of)
  OBVIOUS
<1>7. /\ FilledOnly(r, x, {"grid"}, t)
      /\ r.cache["grid"][t].has = [q \in s.cache["grid"][t].fills |-> of[q]]
  BY <1>5, <1>6, HoldFills
<1>8. FilledOnly(r, s, {"grid"}, t)
  BY <1>4, <1>7, FilledRequire
<1>9. GridFill(s, t) = r
  BY <1>1, <1>2, <1>3, <1>4, <1>6 DEF GridFill
<1>10. Of(r, "grid", t, {"w_measures"}) \subseteq {stamp}
  BY <1>2, <1>7 DEF Of
<1> QED BY <1>1, <1>8, <1>9, <1>10

\* The state in which the geometry has been moved to the element of the mapping.
GeometryMoved(s) == [s EXCEPT !.at["geometry"] = s.at["map"]]

\* Moving the geometry touches nothing else.
LEMMA MovedWellFormed ==
  ASSUME NEW s, WellFormed(s)
  PROVE  /\ WellFormed(GeometryMoved(s))
         /\ GeometryMoved(s).built = s.built /\ GeometryMoved(s).cache = s.cache
         /\ GeometryMoved(s).at["geometry"] = s.at["map"]
         /\ \A p \in Parts : p # "geometry" => GeometryMoved(s).at[p] = s.at[p]
<1>1. PICK r : r = GeometryMoved(s)
  OBVIOUS
<1>2. PICK pos : pos = [s.at EXCEPT !["geometry"] = s.at["map"]]
  OBVIOUS
<1>3. DOMAIN s.at = Parts /\ "at" \in DOMAIN s /\ "geometry" \in Parts
  BY DEF WellFormed, Parts
<1>4. r = [s EXCEPT !.at = pos]
  BY <1>1, <1>2, <1>3 DEF GeometryMoved
<1>5. /\ DOMAIN r = DOMAIN s /\ r.at = pos /\ r.built = s.built /\ r.cache = s.cache
  BY <1>3, <1>4
<1>6. /\ DOMAIN pos = Parts /\ pos["geometry"] = s.at["map"]
      /\ \A p \in Parts : p # "geometry" => pos[p] = s.at[p]
  BY <1>2, <1>3
<1>7. WellFormed(r)
  BY <1>5, <1>6 DEF WellFormed
<1> QED BY <1>1, <1>5, <1>6, <1>7

\* The mapping fills from the geometry, which it moves to its element, and from the grid.
LEMMA MapFillClean ==
  ASSUME NEW s, WellFormed(s), NEW t \in Topology, s.built["geometry"] = s.built["map"]
  PROVE  /\ FilledOnly(MapFill(s, t), GeometryMoved(s), {"grid", "geometry", "map"}, t)
         /\ Clean(MapFill(s, t), "map", t, Stamp(s.at["map"], t, s.built["map"]))
<1>1. PICK stamp : stamp = Stamp(s.at["map"], t, s.built["map"])
  OBVIOUS
<1>2. PICK moved : moved = GeometryMoved(s)
  OBVIOUS
<1>3. /\ WellFormed(moved) /\ moved.built = s.built /\ moved.cache = s.cache
      /\ moved.at["geometry"] = s.at["map"] /\ moved.at["map"] = s.at["map"]
  BY <1>2, MovedWellFormed DEF Parts
<1>4. PICK x : x = GridFill(moved, t)
  OBVIOUS
<1>5. FilledOnly(x, moved, {"grid"}, t) /\ Of(x, "grid", t, {"w_measures"}) \subseteq {stamp}
  BY <1>1, <1>3, <1>4, GridFillClean
<1>6. PICK r : r = SplineFill(x, "geometry", t)
  OBVIOUS
<1>7. FilledOnly(r, x, {"geometry"}, t) /\ Clean(r, "geometry", t, stamp)
  <2>1. WellFormed(x) /\ Stamp(x.at["geometry"], t, x.built["geometry"]) = stamp
    BY <1>1, <1>3, <1>5 DEF FilledOnly
  <2> QED BY <1>6, <2>1, SplineFillClean
<1>8. FilledOnly(r, moved, {"grid"} \cup {"geometry"}, t)
  BY <1>5, <1>7, FilledTwice
<1>9. Of(r, "grid", t, {"w_measures"}) \subseteq {stamp}
  BY <1>5, <1>7 DEF FilledOnly, Of, Owner
<1>10. \A q : Of(r, "geometry", t, {q}) \subseteq {stamp}
  BY <1>7 DEF Of, Clean
<1>a. PICK v, g, h, w : /\ v = Of(r, "geometry", t, {"values"})
                        /\ g = Of(r, "geometry", t, {"gradients"})
                        /\ h = Of(r, "geometry", t, {"hessians"})
                        /\ w = Of(r, "grid", t, {"w_measures"})
  OBVIOUS
<1>11. PICK of : of = [values |-> v, gradients |-> g, hessians |-> h,
                       inv_gradients |-> g, inv_hessians |-> g \cup h,
                       measures |-> g, normals |-> g, w_measures |-> g \cup w]
  OBVIOUS
<1>12. \A q \in MapQuantities : of[q] \subseteq {stamp}
  <2>1. v \subseteq {stamp} /\ g \subseteq {stamp} /\ h \subseteq {stamp} /\ w \subseteq {stamp}
    BY <1>9, <1>10, <1>a
  <2>2. g \cup h \subseteq {stamp} /\ g \cup w \subseteq {stamp}
    BY <2>1
  <2> QED BY <1>11, <2>1, <2>2 DEF MapQuantities
<1>13. PICK c : c = MapReady(r, t)
  OBVIOUS
<1>14. MapFill(s, t) = Hold(Require(r, c), "map", t, of)
  BY <1>2, <1>4, <1>6, <1>a, <1>11, <1>13 DEF MapFill, GeometryMoved
<1>15. PICK y : y = Require(r, c)
  OBVIOUS
<1>16. FilledOnly(y, moved, {"grid"} \cup {"geometry"}, t) /\ WellFormed(y) /\ "map" \in Owner
  <2>1. FilledOnly(y, moved, {"grid"} \cup {"geometry"}, t)
    BY <1>8, <1>15, RequireFilled
  <2> QED BY <2>1 DEF FilledOnly, Owner, Parts
<1>17. PICK z : z = Hold(y, "map", t, of)
  OBVIOUS
<1>18. /\ FilledOnly(z, y, {"map"}, t)
       /\ z.cache["map"][t].has = [q \in y.cache["map"][t].fills |-> of[q]]
  BY <1>16, <1>17, HoldFills
<1>19. FilledOnly(z, moved, ({"grid"} \cup {"geometry"}) \cup {"map"}, t)
  BY <1>16, <1>18, FilledTwice
<1>20. y.cache["map"][t].fills \subseteq MapQuantities
  BY <1>16 DEF WellFormed
<1>21. Clean(z, "map", t, stamp)
  BY <1>12, <1>18, <1>20 DEF Clean
<1>22. ({"grid"} \cup {"geometry"}) \cup {"map"} = {"grid", "geometry", "map"}
  OBVIOUS
<1> QED BY <1>1, <1>2, <1>14, <1>15, <1>17, <1>19, <1>21, <1>22

\* The element of the physical space fills from the reference space and the mapping.
LEMMA SpaceFillClean ==
  ASSUME NEW s, WellFormed(s), NEW t \in Topology,
         s.at["map"] = s.at["space"], s.at["nurbs"] = s.at["space"], s.at["spline"] = s.at["space"],
         s.built["geometry"] = s.built["map"], s.built["spline"] = s.built["map"],
         s.built["map"] = generation
  PROVE  /\ FilledOnly(SpaceFill(s, t), GeometryMoved(s), Owner, t)
         /\ \A o \in {"space", "map", Ref} :
              Clean(SpaceFill(s, t), o, t, Stamp(s.at["space"], t, generation))
<1>1. PICK stamp : stamp = Stamp(s.at["space"], t, generation)
  OBVIOUS
<1>2. PICK c1 : c1 = CanFill(s, "space", t)
  OBVIOUS
<1>3. PICK x : x = Require(s, c1)
  OBVIOUS
<1>4. WellFormed(x) /\ x.at = s.at /\ x.built = s.built /\ x.cache = s.cache
  BY <1>3, RequireKeeps
<1>5. PICK moved : moved = GeometryMoved(x)
  OBVIOUS
<1>6. PICK y : y = MapFill(x, t)
  OBVIOUS
<1>7. FilledOnly(y, moved, {"grid", "geometry", "map"}, t) /\ Clean(y, "map", t, stamp)
  BY <1>1, <1>4, <1>5, <1>6, MapFillClean
<1>8. /\ y.at["spline"] = s.at["space"] /\ y.at["nurbs"] = s.at["space"]
      /\ y.built["spline"] = generation /\ WellFormed(y)
  BY <1>4, <1>5, <1>7, MovedWellFormed DEF FilledOnly, Parts
<1>9. PICK r : r = RefFill(y, t)
  OBVIOUS
<1>10. FilledOnly(r, y, {"nurbs", "spline"}, t) /\ Clean(r, Ref, t, stamp)
  BY <1>1, <1>8, <1>9, RefFillClean
<1>11. Clean(r, "map", t, stamp)
  BY <1>7, <1>10 DEF FilledOnly, Clean, Owner, Parts
<1>12. FilledOnly(r, moved, {"grid", "geometry", "map"} \cup {"nurbs", "spline"}, t)
  BY <1>7, <1>10, FilledTwice
<1>13. \A q : Of(r, Ref, t, q) \subseteq {stamp} /\ Of(r, "map", t, q) \subseteq {stamp}
  BY <1>10, <1>11 DEF Of, Clean
<1>14. PICK gradients : gradients = Of(r, Ref, t, {"gradients"}) \cup Of(r, "map", t, {"inv_gradients"})
  OBVIOUS
<1>15. PICK of : of =
         [values |-> Of(r, Ref, t, {"values"}), gradients |-> gradients, divergences |-> gradients,
          hessians |-> gradients \cup Of(r, Ref, t, {"hessians"}) \cup Of(r, "map", t, {"hessians"})]
  OBVIOUS
<1>16. \A q \in SpaceQuantities : of[q] \subseteq {stamp}
  BY <1>13, <1>14, <1>15 DEF SpaceQuantities
<1>17. \E c : SpaceFill(s, t) = Hold(Require(r, c), "space", t, of)
  BY <1>2, <1>3, <1>6, <1>9, <1>14, <1>15 DEF SpaceFill
<1>18. PICK c : SpaceFill(s, t) = Hold(Require(r, c), "space", t, of)
  BY <1>17
<1>19. PICK u : u = Require(r, c)
  OBVIOUS
<1>20. /\ FilledOnly(u, moved, {"grid", "geometry", "map"} \cup {"nurbs", "spline"}, t)
       /\ u.cache = r.cache /\ WellFormed(u) /\ "space" \in Owner
  <2>1. /\ FilledOnly(u, moved, {"grid", "geometry", "map"} \cup {"nurbs", "spline"}, t)
        /\ u.cache = r.cache
    BY <1>12, <1>19, RequireFilled
  <2> QED BY <2>1 DEF FilledOnly, Owner, Parts
<1>21. PICK z : z = Hold(u, "space", t, of)
  OBVIOUS
<1>22. /\ FilledOnly(z, u, {"space"}, t)
       /\ z.cache["space"][t].has = [q \in u.cache["space"][t].fills |-> of[q]]
  BY <1>20, <1>21, HoldFills
<1>23. FilledOnly(z, moved, ({"grid", "geometry", "map"} \cup {"nurbs", "spline"}) \cup {"space"}, t)
  BY <1>20, <1>22, FilledTwice
<1>24. u.cache["space"][t].fills \subseteq SpaceQuantities
  BY <1>20 DEF WellFormed
<1>25. Clean(z, "space", t, stamp)
  BY <1>16, <1>22, <1>24 DEF Clean
<1>26. Clean(z, "map", t, stamp) /\ Clean(z, Ref, t, stamp)
  <2>1. \A o \in {"map", Ref} : o \in Owner /\ o # "space"
    BY DEF Owner, Parts, Ref
  <2>2. \A o \in {"map", Ref} : z.cache[o][t] = r.cache[o][t]
    BY <1>20, <1>22, <2>1 DEF FilledOnly
  <2> QED BY <1>10, <1>11, <2>2 DEF Clean
<1>27. ({"grid", "geometry", "map"} \cup {"nurbs", "spline"}) \cup {"space"} = Owner
  BY DEF Owner, Parts
<1>28. FilledOnly(z, GeometryMoved(s), Owner, t)
  <2>1. /\ moved.at = GeometryMoved(s).at /\ moved.built = GeometryMoved(s).built
        /\ moved.cache = GeometryMoved(s).cache
    BY <1>4, <1>5, MovedWellFormed DEF GeometryMoved, WellFormed
  <2> QED BY <1>23, <1>27, <2>1 DEF FilledOnly
<1> QED BY <1>1, <1>18, <1>19, <1>21, <1>25, <1>26, <1>28

-----------------------------------------------------------------------------
(* Initialisation.                                                           *)

\* r is s with other caches, and with the tables of the parts ps made for the current grid.
Initialised(r, s, ps) ==
  /\ WellFormed(r)
  /\ r.at = s.at
  /\ \A p \in Parts : r.built[p] = IF p \in ps THEN generation ELSE s.built[p]

\* Two initialisations are one of all parts they build.
LEMMA InitialisedTwice ==
  ASSUME NEW s, NEW r, NEW x, NEW ps, NEW qs, Initialised(r, s, ps), Initialised(x, r, qs)
  PROVE  Initialised(x, s, ps \cup qs)
  BY DEF Initialised

\* The handlers fill nothing but what their caches have a place for.
LEMMA FillsNamed ==
  ASSUME NEW flags
  PROVE  /\ Fills(BasisElem, flags) \subseteq SpaceQuantities
         /\ Fills(BasisFace, flags) \subseteq SpaceQuantities
         /\ Fills(MappingElem, flags) \subseteq MapQuantities
         /\ Fills(MappingFace, flags) \subseteq MapQuantities
<1>1. ASSUME NEW table, NEW Q, \A row \in table : row[2] \subseteq Q
      PROVE  Fills(table, flags) \subseteq Q
  BY <1>1 DEF Fills
<1>2. /\ \A row \in BasisElem : row[2] \subseteq SpaceQuantities
      /\ \A row \in BasisFace : row[2] \subseteq SpaceQuantities
  BY DEF BasisElem, BasisFace, BasisTable, SpaceQuantities
<1>3. \A row \in MappingElem : row[2] \subseteq MapQuantities
  BY DEF MappingElem, MappingTable, MapQuantities
<1>4. \A row \in MappingFace : row[2] \subseteq MapQuantities
  BY DEF MappingFace, MappingTable, MapQuantities
<1> QED BY <1>1, <1>2, <1>3, <1>4

\* Resetting caches moves no accessor and leaves its tables.
LEMMA ResetKeeps ==
  ASSUME NEW s, WellFormed(s), NEW o \in Owner, NEW elem, NEW face,
         o = "space" => elem \cup face \subseteq SpaceQuantities,
         o = "map" => elem \cup face \subseteq MapQuantities
  PROVE  Initialised(ResetCaches(s, o, elem, face), s, {})
<1>1. PICK c : c = s.cache
  OBVIOUS
<1>2. PICK new : new = [t \in Topology |->
                          IF (IF t = "element" THEN elem ELSE face) = {} THEN c[o][t]
                          ELSE [status |-> "initialized", has |-> << >>,
                                fills |-> IF t = "element" THEN elem ELSE face]]
  OBVIOUS
<1>3. PICK r : r = ResetCaches(s, o, elem, face)
  OBVIOUS
<1>4. DOMAIN c = Owner /\ "cache" \in DOMAIN s
  BY <1>1 DEF WellFormed
<1>5. r = [s EXCEPT !.cache = [c EXCEPT ![o] = new]]
  BY <1>1, <1>2, <1>3, <1>4 DEF ResetCaches
<1>6. /\ DOMAIN r = DOMAIN s /\ r.at = s.at /\ r.built = s.built
      /\ r.cache = [c EXCEPT ![o] = new]
  BY <1>4, <1>5 DEF WellFormed
<1>7. DOMAIN r.cache = Owner /\ \A p \in Owner : r.cache[p] = IF p = o THEN new ELSE c[p]
  BY <1>4, <1>6
<1>8. ASSUME NEW t \in Topology
      PROVE  /\ IsCache(new[t])
             /\ new[t].fills = c[o][t].fills \/ new[t].fills = elem \/ new[t].fills = face
  <2>1. CASE (IF t = "element" THEN elem ELSE face) = {}
    BY <1>1, <1>2, <2>1 DEF WellFormed
  <2>2. CASE (IF t = "element" THEN elem ELSE face) # {}
    BY <1>2, <2>2 DEF IsCache
  <2> QED BY <2>1, <2>2
<1>9. DOMAIN new = Topology
  BY <1>2
<1>10. ASSUME NEW t \in Topology
       PROVE  /\ r.cache["space"][t].fills \subseteq SpaceQuantities
              /\ r.cache["map"][t].fills \subseteq MapQuantities
  <2>1. "space" \in Owner /\ "map" \in Owner
    BY DEF Owner, Parts
  <2>2. c["space"][t].fills \subseteq SpaceQuantities /\ c["map"][t].fills \subseteq MapQuantities
    BY <1>1 DEF WellFormed
  <2>3. r.cache["space"][t].fills \subseteq SpaceQuantities
    BY <1>7, <1>8, <2>1, <2>2
  <2>4. r.cache["map"][t].fills \subseteq MapQuantities
    BY <1>7, <1>8, <2>1, <2>2
  <2> QED BY <2>3, <2>4
<1>11. \A p \in Owner : DOMAIN r.cache[p] = Topology
  BY <1>1, <1>7, <1>9 DEF WellFormed
<1>12. \A p \in Owner, t \in Topology : IsCache(r.cache[p][t])
  BY <1>1, <1>7, <1>8 DEF WellFormed
<1>13. WellFormed(r)
  BY <1>6, <1>7, <1>10, <1>11, <1>12 DEF WellFormed
<1> QED BY <1>3, <1>6, <1>13 DEF Initialised

\* So does any cache of a basis.
LEMMA ResetBasisKeeps ==
  ASSUME NEW s, WellFormed(s), NEW o \in Owner \ {"map"}, NEW flags
  PROVE  Initialised(ResetBasis(s, o, flags), s, {})
<1>1. PICK elem, face : elem = Fills(BasisElem, flags) /\ face = Fills(BasisFace, flags)
  OBVIOUS
<1>2. elem \cup face \subseteq SpaceQuantities
  BY <1>1, FillsNamed
<1>3. PICK c : c = (elem \cup face # {})
  OBVIOUS
<1>4. PICK x : x = Require(s, c)
  OBVIOUS
<1>5. WellFormed(x) /\ x.at = s.at /\ x.built = s.built
  BY <1>4, RequireKeeps
<1>6. Initialised(ResetCaches(x, o, elem, face), x, {})
  BY <1>2, <1>5, ResetKeeps
<1>7. ResetBasis(s, o, flags) = ResetCaches(x, o, elem, face)
  BY <1>1, <1>3, <1>4 DEF ResetBasis
<1> QED BY <1>5, <1>6, <1>7 DEF Initialised

\* A spline accessor makes its tables for the grid as it is.
LEMMA SplineInitBuilds ==
  ASSUME NEW s, WellFormed(s), NEW o \in {"spline", "geometry"}, NEW flags
  PROVE  Initialised(SplineInit(s, o, flags), s, {o})
<1>1. PICK c : c = Admits(SpaceAdmissible, flags)
  OBVIOUS
<1>2. PICK x : x = Require(s, c)
  OBVIOUS
<1>3. WellFormed(x) /\ x.at = s.at /\ x.built = s.built
  BY <1>2, RequireKeeps
<1>4. PICK y : y = [x EXCEPT !.built[o] = generation]
  OBVIOUS
<1>5. Initialised(y, x, {o})
  <2>1. PICK b : b = [x.built EXCEPT ![o] = generation]
    OBVIOUS
  <2>2. y = [x EXCEPT !.built = b] /\ "built" \in DOMAIN x /\ DOMAIN x.built = Parts /\ o \in Parts
    BY <1>3, <1>4, <2>1 DEF WellFormed, Parts
  <2>3. DOMAIN y = DOMAIN x /\ y.at = x.at /\ y.cache = x.cache /\ y.built = b
    BY <1>3, <2>2 DEF WellFormed
  <2>4. DOMAIN b = Parts /\ \A p \in Parts : b[p] = IF p \in {o} THEN generation ELSE x.built[p]
    BY <2>1, <2>2
  <2>5. WellFormed(y)
    BY <1>3, <2>3, <2>4 DEF WellFormed
  <2> QED BY <2>3, <2>4, <2>5 DEF Initialised
<1>6. Initialised(y, s, {o})
  BY <1>3, <1>5 DEF Initialised
<1>7. SplineInit(s, o, flags) = ResetBasis(y, o, SplineCacheFlags(flags))
  BY <1>1, <1>2, <1>4 DEF SplineInit
<1>8. Initialised(ResetBasis(y, o, SplineCacheFlags(flags)), y, {})
  BY <1>5, ResetBasisKeeps DEF Initialised, Owner, Parts
<1> QED BY <1>6, <1>7, <1>8 DEF Initialised

\* The grid accessor of the mapping too.
LEMMA GridInitBuilds ==
  ASSUME NEW s, WellFormed(s), NEW flags
  PROVE  Initialised(GridInit(s, flags), s, {"map"})
<1>1. PICK new : new = [t \in Topology |->
                          [status |-> "initialized", has |-> << >>,
                           fills |-> Fills(IF t = "element" THEN GridElem ELSE GridFace, flags)]]
  OBVIOUS
<1>2. PICK b, c : /\ b = [s.built EXCEPT !["map"] = generation]
                  /\ c = [s.cache EXCEPT !["grid"] = new]
  OBVIOUS
<1>3. PICK r : r = [[s EXCEPT !.built = b] EXCEPT !.cache = c]
  OBVIOUS
<1>4. \E z : GridInit(s, flags) = Require(r, z)
  <2>1. /\ {"built", "cache"} \subseteq DOMAIN s /\ "map" \in DOMAIN s.built /\ "grid" \in DOMAIN s.cache
    BY DEF WellFormed, Parts, Owner
  <2>2. r = [s EXCEPT !.built["map"] = generation, !.cache["grid"] = new]
    BY <1>2, <1>3, <2>1
  <2> QED BY <1>1, <2>2 DEF GridInit
<1>5. /\ DOMAIN r = DOMAIN s /\ r.at = s.at /\ r.built = b /\ r.cache = c
  BY <1>3 DEF WellFormed
<1>6. DOMAIN b = Parts /\ \A p \in Parts : b[p] = IF p \in {"map"} THEN generation ELSE s.built[p]
  BY <1>2 DEF WellFormed, Parts
<1>7. /\ DOMAIN c = Owner /\ \A o \in Owner : c[o] = IF o = "grid" THEN new ELSE s.cache[o]
  BY <1>2 DEF WellFormed, Owner
<1>8. DOMAIN new = Topology /\ \A t \in Topology : IsCache(new[t])
  BY <1>1 DEF IsCache
<1>9. /\ \A o \in Owner : DOMAIN c[o] = Topology
      /\ \A o \in Owner, t \in Topology : IsCache(c[o][t])
  BY <1>7, <1>8 DEF WellFormed
<1>10. c["space"] = s.cache["space"] /\ c["map"] = s.cache["map"]
  BY <1>7 DEF Owner, Parts
<1>11. WellFormed(r)
  BY <1>5, <1>6, <1>7, <1>9, <1>10 DEF WellFormed
<1> QED BY <1>4, <1>5, <1>6, <1>11, RequireKeeps DEF Initialised

\* The mapping: its grid accessor, its own caches, and the space of its control points.
LEMMA MapInitBuilds ==
  ASSUME NEW s, WellFormed(s), NEW flags
  PROVE  Initialised(MapInit(s, flags), s, {"map", "geometry"})
<1>1. PICK f : f = MappingCacheFlags(flags)
  OBVIOUS
<1>2. PICK elem, face : elem = Fills(MappingElem, f) /\ face = Fills(MappingFace, f)
  OBVIOUS
<1>3. PICK c : c = (Admits(MappingAdmissible, flags) /\ elem \cup face # {})
  OBVIOUS
<1>4. PICK x : x = Require(s, c)
  OBVIOUS
<1>5. WellFormed(x) /\ x.at = s.at /\ x.built = s.built
  BY <1>4, RequireKeeps
<1>6. PICK r : r = GridInit(x, MappingGridFlags(flags))
  OBVIOUS
<1>7. Initialised(r, x, {"map"})
  BY <1>5, <1>6, GridInitBuilds
<1>8. PICK n : n = [r EXCEPT !.normals = @ \/ "normals" \in face]
  OBVIOUS
<1>9. Initialised(n, r, {})
  <2>1. DOMAIN n = DOMAIN r /\ n.at = r.at /\ n.built = r.built /\ n.cache = r.cache
    BY <1>7, <1>8 DEF Initialised, WellFormed
  <2> QED BY <1>7, <2>1 DEF Initialised, WellFormed
<1>10. PICK y : y = ResetCaches(n, "map", elem, face)
  OBVIOUS
<1>11. Initialised(y, n, {})
  <2>1. elem \cup face \subseteq MapQuantities
    BY <1>2, FillsNamed
  <2>2. WellFormed(n) /\ "map" \in Owner
    BY <1>9 DEF Initialised, Owner, Parts
  <2> QED BY <1>10, <2>1, <2>2, ResetKeeps
<1>12. Initialised(y, s, {"map"})
  BY <1>5, <1>7, <1>9, <1>11 DEF Initialised
<1>13. MapInit(s, flags) = SplineInit(y, "geometry", GeometryFlags(f))
  BY <1>1, <1>2, <1>3, <1>4, <1>6, <1>8, <1>10 DEF MapInit
<1>14. Initialised(SplineInit(y, "geometry", GeometryFlags(f)), y, {"geometry"})
  BY <1>12, SplineInitBuilds DEF Initialised
<1>15. {"map"} \cup {"geometry"} = {"map", "geometry"}
  OBVIOUS
<1> QED BY <1>12, <1>13, <1>14, <1>15, InitialisedTwice

\* The physical space: everything is made for the grid as it is.
LEMMA SpaceInitBuilds ==
  ASSUME NEW s, WellFormed(s), NEW flags
  PROVE  /\ WellFormed(SpaceInit(s, flags))
         /\ SpaceInit(s, flags).at = s.at
         /\ \A p \in {"map", "spline", "geometry"} : SpaceInit(s, flags).built[p] = generation
<1>1. PICK ref : ref = ReferenceSpaceFlags(flags)
  OBVIOUS
<1>2. PICK r : r = IF kind = "nurbs" THEN NurbsInit(s, ref) ELSE SplineInit(s, "spline", ref)
  OBVIOUS
<1>3. Initialised(r, s, {"spline"})
  <2>1. CASE kind = "nurbs"
    <3>1. PICK x : x = SplineInit(s, "spline", NurbsSplineFlags(ref))
      OBVIOUS
    <3>2. Initialised(x, s, {"spline"})
      BY <3>1, SplineInitBuilds
    <3>3. "nurbs" \in Owner \ {"map"}
      BY DEF Owner, Parts
    <3>4. Initialised(ResetBasis(x, "nurbs", ref), x, {})
      BY <3>2, <3>3, ResetBasisKeeps DEF Initialised
    <3>5. r = ResetBasis(x, "nurbs", ref)
      BY <1>2, <2>1, <3>1 DEF NurbsInit
    <3> QED BY <3>2, <3>4, <3>5 DEF Initialised
  <2>2. CASE kind # "nurbs"
    BY <1>2, <2>2, SplineInitBuilds
  <2> QED BY <2>1, <2>2
<1>4. PICK m : m = MapInit(r, MappingFlags(PushForwardFlags(flags)))
  OBVIOUS
<1>5. Initialised(m, r, {"map", "geometry"})
  BY <1>3, <1>4, MapInitBuilds DEF Initialised
<1>6. Initialised(m, s, {"spline"} \cup {"map", "geometry"})
  BY <1>3, <1>5, InitialisedTwice
<1>7. "space" \in Owner \ {"map"}
  BY DEF Owner, Parts
<1>8. Initialised(ResetBasis(m, "space", flags), m, {})
  BY <1>6, <1>7, ResetBasisKeeps DEF Initialised
<1>9. SpaceInit(s, flags) = ResetBasis(m, "space", flags)
  BY <1>1, <1>2, <1>4 DEF SpaceInit
<1> QED BY <1>6, <1>8, <1>9 DEF Initialised, Parts

-----------------------------------------------------------------------------
(* The steps.                                                                *)

\* Clients jump only elements whose accessors all jump.
BSplinesJump == JumpingKinds \subseteq {"bspline"}

\* The state the accessors begin a step in.
LEMMA NowIs ==
  /\ Now.at = at /\ Now.built = built /\ Now.cache = cache
  /\ DOMAIN Now = {"at", "built", "cache", "normals", "ok"}
  BY DEF Now

\* Nothing is filled at first.
LEMMA CachesInit ==
  ASSUME Init
  PROVE  CachesInv
<1>1. /\ DOMAIN at = Parts /\ DOMAIN built = Parts /\ DOMAIN cache = Owner
      /\ \A o \in Owner : DOMAIN cache[o] = Topology
      /\ \A o \in Owner, t \in Topology : cache[o][t] = Empty
  BY DEF Init
<1>2. IsCache(Empty) /\ Empty.fills = {}
  BY DEF IsCache, Empty
<1>3. "space" \in Owner /\ "map" \in Owner
  BY DEF Owner, Parts
<1>4. WellFormed(Now)
  BY <1>1, <1>2, <1>3, NowIs DEF WellFormed
<1>5. Together
  BY DEF Init, Together, Parts
<1>6. fresh = {} /\ kind \in Kinds
  BY DEF Init
<1> QED BY <1>4, <1>5, <1>6 DEF CachesInv, FreshClean

\* The state the accessors end a step in, when every assertion held.
LEMMA BecomeWellFormed ==
  ASSUME WellFormed(Now), NEW s, WellFormed(s), Become(s)
  PROVE  /\ WellFormed(Now)'
         /\ stopped' => at' = at /\ built' = built /\ cache' = cache
         /\ ~stopped' => at' = s.at /\ built' = s.built /\ cache' = s.cache
<1>1. /\ Now.at' = at' /\ Now.built' = built' /\ Now.cache' = cache'
      /\ DOMAIN Now' = {"at", "built", "cache", "normals", "ok"}
  BY DEF Now
<1>2. /\ stopped' => at' = at /\ built' = built /\ cache' = cache
      /\ ~stopped' => at' = s.at /\ built' = s.built /\ cache' = s.cache
  BY DEF Become
<1>3. \/ at' = Now.at /\ built' = Now.built /\ cache' = Now.cache
      \/ at' = s.at /\ built' = s.built /\ cache' = s.cache
  BY <1>2, NowIs
<1> QED BY <1>1, <1>2, <1>3 DEF WellFormed

\* init_cache leaves nothing filled, and builds every table for the grid as it is.
LEMMA InitCacheStep ==
  ASSUME CachesInv, NEW flags, InitCache(flags)
  PROVE  CachesInv'
<1>1. PICK s : s = SpaceInit(Now, flags)
  OBVIOUS
<1>2. /\ WellFormed(s) /\ s.at = at
      /\ \A p \in {"map", "spline", "geometry"} : s.built[p] = generation
  BY <1>1, SpaceInitBuilds, NowIs DEF CachesInv
<1>3. Become(s) /\ fresh' = {} /\ kind' = kind
  BY <1>1 DEF InitCache
<1>4. WellFormed(Now)'
  BY <1>2, <1>3, BecomeWellFormed DEF CachesInv
<1>5. Together'
  <2>1. /\ stopped' => at' = at /\ built' = built
        /\ ~stopped' => at' = at /\ built' = s.built
    BY <1>2, <1>3, BecomeWellFormed DEF CachesInv
  <2> QED BY <1>2, <2>1 DEF CachesInv, Together
<1> QED BY <1>3, <1>4, <1>5 DEF CachesInv, FreshClean

\* fill_cache fills one topology from the element all accessors are at.
LEMMA FillCacheStep ==
  ASSUME CachesInv, NEW topology \in Topology, FillCache(topology)
  PROVE  CachesInv'
<1>1. PICK s : s = SpaceFill(Now, topology)
  OBVIOUS
<1>2. PICK moved : moved = GeometryMoved(Now)
  OBVIOUS
<1>3. PICK e : e = at["space"]
  OBVIOUS
<1>4. /\ FilledOnly(s, moved, Owner, topology)
      /\ \A o \in {"space", "map", Ref} : Clean(s, o, topology, Stamp(e, topology, generation))
  BY <1>1, <1>2, <1>3, SpaceFillClean, NowIs DEF CachesInv, Together, FillCache
<1>5. /\ \A p \in Parts : p # "geometry" => moved.at[p] = at[p]
      /\ moved.built = built /\ moved.cache = cache
  BY <1>2, MovedWellFormed, NowIs DEF CachesInv
<1>6. /\ WellFormed(s) /\ \A p \in Parts : p # "geometry" => s.at[p] = at[p]
      /\ s.built = built
      /\ \A o \in Owner, u \in Topology : u # topology => s.cache[o][u] = cache[o][u]
  BY <1>4, <1>5 DEF FilledOnly
<1>7. Become(s) /\ kind' = kind /\ generation' = generation
      /\ fresh' = IF stopped' THEN fresh ELSE fresh \cup {topology}
  BY <1>1 DEF FillCache
<1>8. /\ WellFormed(Now)'
      /\ stopped' => at' = at /\ built' = built /\ cache' = cache
      /\ ~stopped' => at' = s.at /\ built' = s.built /\ cache' = s.cache
  BY <1>6, <1>7, BecomeWellFormed DEF CachesInv
<1>9. at'["space"] = e /\ at'["map"] = at["map"] /\ at'["nurbs"] = at["nurbs"]
      /\ at'["spline"] = at["spline"] /\ built' = built
  BY <1>3, <1>6, <1>8 DEF Parts
<1>10. Together'
  BY <1>3, <1>9 DEF CachesInv, Together
<1>11. ASSUME NEW t \in fresh', NEW o \in {"space", "map", Ref}
       PROVE  Clean(Now, o, t, Stamp(e, t, generation))'
  <2>1. PICK stamp : stamp = Stamp(e, t, generation)
    OBVIOUS
  <2>2. t \in Topology /\ o \in Owner
    BY <1>7 DEF CachesInv, Owner, Parts, Ref
  <2>3. \A q \in DOMAIN cache'[o][t].has : cache'[o][t].has[q] \subseteq {stamp}
    <3>1. CASE t = topology /\ ~stopped'
      BY <1>4, <1>8, <2>1, <3>1 DEF Clean
    <3>2. CASE t # topology \/ stopped'
      <4>1. t \in fresh /\ cache'[o][t] = cache[o][t]
        BY <1>6, <1>7, <1>8, <2>2, <3>2
      <4>2. Clean(Now, o, t, stamp)
        BY <1>3, <2>1, <4>1 DEF CachesInv, FreshClean
      <4>3. \A q \in DOMAIN cache[o][t].has : cache[o][t].has[q] \subseteq {stamp}
        BY <4>2, NowIs DEF Clean
      <4> QED BY <4>1, <4>3
    <3> QED BY <3>1, <3>2
  <2>4. stamp = Stamp(e, t, generation)' /\ Now.cache' = cache'
    BY <1>7, <2>1 DEF Now, Stamp
  <2> QED BY <2>3, <2>4 DEF Clean
<1>12. FreshClean'
  BY <1>7, <1>9, <1>11 DEF FreshClean, Ref
<1> QED BY <1>7, <1>8, <1>10, <1>12 DEF CachesInv

\* Moving the element moves all accessors but the geometry.
LEMMA MoveStep ==
  ASSUME CachesInv, NEW elem, Moved(elem, {"space", "map", "nurbs", "spline"})
  PROVE  CachesInv'
<1>1. /\ at' = [p \in Parts |-> IF p \in {"space", "map", "nurbs", "spline"} THEN elem ELSE at[p]]
      /\ fresh' = {} /\ kind' = kind /\ built' = built /\ cache' = cache
  BY DEF Moved
<1>2. WellFormed(Now)'
  <2>1. DOMAIN at' = Parts
    BY <1>1
  <2> QED BY <1>1, <2>1 DEF CachesInv, WellFormed, Now
<1>3. Together'
  BY <1>1 DEF CachesInv, Together, Parts
<1> QED BY <1>1, <1>2, <1>3 DEF CachesInv, FreshClean

\* The geometry is moved behind the back of the mapping, which will move it back.
LEMMA BorrowStep ==
  ASSUME CachesInv, NEW elem, EvaluateMapAtPoints(elem)
  PROVE  CachesInv'
<1>1. /\ at' = [at EXCEPT !["geometry"] = elem]
      /\ fresh' = fresh /\ kind' = kind /\ built' = built /\ cache' = cache
      /\ generation' = generation
  BY DEF EvaluateMapAtPoints
<1>2. DOMAIN at = Parts
  BY NowIs DEF CachesInv, WellFormed
<1>3. /\ DOMAIN at' = Parts /\ at'["space"] = at["space"] /\ at'["map"] = at["map"]
      /\ at'["nurbs"] = at["nurbs"] /\ at'["spline"] = at["spline"]
  BY <1>1, <1>2 DEF Parts
<1>4. WellFormed(Now)'
  BY <1>1, <1>3 DEF CachesInv, WellFormed, Now
<1>5. Together'
  BY <1>1, <1>3 DEF CachesInv, Together
<1>6. FreshClean'
  BY <1>1, <1>3 DEF CachesInv, FreshClean, Clean, Ref, Now
<1> QED BY <1>1, <1>4, <1>5, <1>6 DEF CachesInv

\* Whatever clients do, what has been filled since the last move stays current.
LEMMA CachesStep ==
  ASSUME ElementCachesAssumption, BSplinesJump, CachesInv, [Next]_vars
  PROVE  CachesInv'
<1>1. ASSUME NEW flags \in Requests, InitCache(flags)
      PROVE  CachesInv'
  BY <1>1, InitCacheStep
<1>2. ASSUME NEW topology \in Topology, FillCache(topology)
      PROVE  CachesInv'
  BY <1>2, FillCacheStep
<1>3. CASE Advance
  BY <1>3, MoveStep DEF Advance
<1>4. ASSUME NEW elem, MoveTo(elem)
      PROVE  CachesInv'
  BY <1>4, MoveStep DEF MoveTo
<1>5. ASSUME NEW elem, EvaluateMapAtPoints(elem)
      PROVE  CachesInv'
  BY <1>5, BorrowStep
<1>6. ASSUME NEW increment, Jump(increment)
      PROVE  CachesInv'
  <2>1. kind = "bspline"
    BY <1>6 DEF Jump, BSplinesJump
  <2>2. {"space", "map"} \cup {"nurbs", "spline"} = {"space", "map", "nurbs", "spline"}
    OBVIOUS
  <2> QED BY <1>6, <2>1, <2>2, MoveStep DEF Jump
<1>7. ASSUME NEW topology, EvaluateFieldGradients(topology)
      PROVE  CachesInv'
  BY <1>7 DEF EvaluateFieldGradients, CachesInv, WellFormed, Together, FreshClean, Clean, Ref, Now
<1>8. CASE Refine
  BY <1>8 DEF Refine, CachesInv, WellFormed, Together, FreshClean, Now
<1>9. CASE UNCHANGED vars
  BY <1>9 DEF vars, CachesInv, WellFormed, Together, FreshClean, Clean, Ref, Now
<1> QED BY <1>1, <1>2, <1>3, <1>4, <1>5, <1>6, <1>7, <1>8, <1>9 DEF Next

-----------------------------------------------------------------------------
(* The theorems.                                                             *)

\* The accessors stay together, and what they have filled is of one element.
THEOREM CachesInvariant ==
  ASSUME ElementCachesAssumption, BSplinesJump
  PROVE  Spec => []CachesInv
  BY CachesInit, CachesStep, PTL DEF Spec

\* Values, gradients, points, measures and normals a client gets after filling come from
\* its element, the topology it asked for and the grid as it is, whatever was requested,
\* moved, refined or evaluated before, on any number of elements.
THEOREM ServedIsCurrent ==
  ASSUME ElementCachesAssumption, BSplinesJump
  PROVE  Spec => []ServedCurrent
<1>1. ASSUME CachesInv, NEW t \in fresh, NEW f
      PROVE  Of(Now, Getter(f)[1], t, {Getter(f)[2]}) \subseteq {Stamp(at["space"], t, generation)}
  <2>1. Getter(f)[1] \in {"space", "map"}
    BY DEF Getter
  <2>2. Clean(Now, Getter(f)[1], t, Stamp(at["space"], t, generation))
    BY <1>1, <2>1 DEF CachesInv, FreshClean
  <2> QED BY <2>2 DEF Of, Clean
<1>2. CachesInv => ServedCurrent
  BY <1>1 DEF ServedCurrent, Asked
<1> QED BY <1>2, CachesInvariant, PTL

\* The gradients of a field on the element are those of that element on the grid as it
\* is (on a face they are not: the inverse gradients are taken from the element).
THEOREM FieldIsCurrent ==
  ASSUME ElementCachesAssumption, BSplinesJump, FieldTopologies \subseteq {"element"}
  PROVE  Spec => []FieldCurrent
<1>1. Init => FieldCurrent
  BY DEF Init, FieldCurrent
<1>2. CachesInv /\ FieldCurrent /\ [Next]_vars => FieldCurrent'
  <2>1. SUFFICES ASSUME CachesInv, FieldCurrent, [Next]_vars
                 PROVE  FieldCurrent'
    OBVIOUS
  <2>2. ASSUME NEW topology \in FieldTopologies, EvaluateFieldGradients(topology)
        PROVE  FieldCurrent'
    <3>1. PICK stamp : stamp = Stamp(at["space"], topology, generation)
      OBVIOUS
    <3>2. topology = "element" /\ topology \in fresh
      BY <2>2 DEF EvaluateFieldGradients
    <3>3. Clean(Now, Ref, topology, stamp) /\ Clean(Now, "map", topology, stamp)
      BY <2>1, <3>1, <3>2 DEF CachesInv, FreshClean
    <3>4. /\ Of(Now, Ref, topology, {"gradients"}) \subseteq {stamp}
          /\ Of(Now, "map", topology, {"inv_gradients"}) \subseteq {stamp}
      BY <3>3 DEF Of, Clean
    <3>5. /\ field'.topology = topology /\ field'.stamps \subseteq {stamp}
      BY <2>2, <3>2, <3>4 DEF EvaluateFieldGradients
    <3>6. at' = at /\ generation' = generation
      BY <2>2 DEF EvaluateFieldGradients
    <3> QED BY <3>1, <3>5, <3>6 DEF FieldCurrent, Stamp
  <2>3. ASSUME field' = << >>
        PROVE  FieldCurrent'
    BY <2>3 DEF FieldCurrent
  <2>4. ASSUME field' = field, at'["space"] = at["space"], generation' = generation
        PROVE  FieldCurrent'
    BY <2>1, <2>4 DEF FieldCurrent, Stamp
  <2>5. ASSUME NEW topology \in Topology, FillCache(topology)
        PROVE  at'["space"] = at["space"]
    <3>1. PICK s : s = SpaceFill(Now, topology)
      OBVIOUS
    <3>2. FilledOnly(s, GeometryMoved(Now), Owner, topology)
      BY <2>1, <2>5, <3>1, SpaceFillClean, NowIs DEF CachesInv, Together, FillCache
    <3>3. WellFormed(s) /\ s.at["space"] = at["space"]
      BY <2>1, <3>2, MovedWellFormed, NowIs DEF CachesInv, FilledOnly, Parts
    <3> QED BY <2>5, <3>1, <3>3 DEF FillCache, Become
  <2>6. ASSUME NEW elem, EvaluateMapAtPoints(elem)
        PROVE  at'["space"] = at["space"]
    <3>1. DOMAIN at = Parts
      BY <2>1, NowIs DEF CachesInv, WellFormed
    <3> QED BY <2>6, <3>1 DEF EvaluateMapAtPoints, Parts
  <2>7. \/ field' = << >>
        \/ \E topology \in FieldTopologies : EvaluateFieldGradients(topology)
        \/ field' = field /\ generation' = generation /\ at'["space"] = at["space"]
    BY <2>1, <2>5, <2>6 DEF Next, InitCache, FillCache, Advance, MoveTo, Jump, Moved,
                            EvaluateMapAtPoints, Refine, vars
  <2> QED BY <2>2, <2>3, <2>4, <2>7
<1> QED BY <1>1, <1>2, CachesInvariant, PTL DEF Spec

-----------------------------------------------------------------------------
(* Flags below the sign bit.                                                 *)

\* On these the conversion to int and back changes nothing.
Low == 0 .. 30

\* Widening changes no flags below the sign bit.
LEMMA LowWidens ==
  ASSUME NEW S, S \subseteq Low
  PROVE  Widen(S) = S
<1>1. S \cap (0 .. 31) = S
  <2>1. \A x \in S : x \in 0 .. 31
    BY DEF Low
  <2> QED BY <2>1
<1>2. 31 \notin S
  BY DEF Low
<1> QED BY <1>1, <1>2 DEF Widen

\* There, the operators are union and membership.
LEMMA LowOperators ==
  ASSUME NEW S, S \subseteq Low
  PROVE  /\ \A T : T \subseteq Low => Or(S, T) = S \cup T
         /\ \A T : And(S, T) = S \cap T
         /\ \A f : ContainsFlag(S, {f}) <=> f \in S
<1>1. ASSUME NEW T, T \subseteq Low
      PROVE  Or(S, T) = S \cup T
  BY <1>1, LowWidens DEF Or
<1>2. ASSUME NEW T
      PROVE  And(S, T) = S \cap T
  BY LowWidens DEF And
<1>3. ASSUME NEW f
      PROVE  ContainsFlag(S, {f}) <=> f \in S
  BY <1>2 DEF ContainsFlag
<1> QED BY <1>1, <1>2, <1>3

\* What rows add.
LEMMA LowAdd ==
  ASSUME NEW rows, NEW tested, NEW start, tested \subseteq Low, start \subseteq Low,
         \A r \in rows : r[1] \in tested => r[2] \subseteq Low
  PROVE  /\ Add(rows, tested, start) \subseteq Low
         /\ \A x : x \in Add(rows, tested, start) <=>
                     x \in start \/ (\E r \in rows : r[1] \in tested /\ x \in r[2])
<1>1. PICK more : more = UNION {row[2] : row \in {r \in rows : ContainsFlag(tested, {r[1]})}}
  OBVIOUS
<1>2. \A x : x \in more <=> \E r \in rows : r[1] \in tested /\ x \in r[2]
  <2>1. {r \in rows : ContainsFlag(tested, {r[1]})} = {r \in rows : r[1] \in tested}
    BY LowOperators
  <2> QED BY <1>1, <2>1
<1>3. more \subseteq Low
  BY <1>2
<1>4. Add(rows, tested, start) = start \cup more
  BY <1>1, <1>3, LowOperators DEF Add
<1> QED BY <1>2, <1>3, <1>4

\* What one row adds.
LEMMA LowAddTo ==
  ASSUME NEW S, NEW f, NEW more, S \subseteq Low, more \subseteq Low
  PROVE  /\ AddTo(S, f, more) \subseteq Low
         /\ \A x : x \in AddTo(S, f, more) <=> x \in S \/ (f \in S /\ x \in more)
<1>1. AddTo(S, f, more) = IF f \in S THEN S \cup more ELSE S
  BY LowOperators DEF AddTo
<1> QED BY <1>1

\* What a handler fills.
LEMMA LowFills ==
  ASSUME NEW table, NEW S, S \subseteq Low
  PROVE  \A q : q \in Fills(table, S) <=> \E r \in table : r[1] \in S /\ q \in r[2]
<1>1. {r \in table : ContainsFlag(S, {r[1]})} = {r \in table : r[1] \in S}
  BY LowOperators
<1>2. Fills(table, S) = UNION {r[2] : r \in {r \in table : r[1] \in S}}
  BY <1>1 DEF Fills
<1> QED BY <1>2

\* The sign bit and those above it are contained in nothing.
LEMMA OnlyLowContained ==
  ASSUME NEW S, NEW f \in Flag
  PROVE  ContainsFlag(S, {f}) <=> f \in S /\ f \in Low
<1>1. And(S, {f}) = IF f \in S THEN Widen({f}) ELSE Widen({})
  <2>1. S \cap {f} = IF f \in S THEN {f} ELSE {}
    OBVIOUS
  <2> QED BY <2>1 DEF And
<1>2. Widen({}) = {}
  BY LowWidens
<1>3. CASE f \in Low
  <2>1. Widen({f}) = {f}
    BY <1>3, LowWidens
  <2> QED BY <1>1, <1>2, <1>3, <2>1 DEF ContainsFlag
<1>4. CASE f \notin Low
  <2>1. CASE f = 31
    <3>1. {f} \cap (0 .. 31) = {31}
      BY <2>1
    <3>2. 32 \in Widen({f})
      BY <3>1 DEF Widen
    <3> QED BY <1>1, <1>2, <1>4, <2>1, <3>2 DEF ContainsFlag
  <2>2. CASE f # 31
    <3>1. {f} \cap (0 .. 31) = {}
      BY <1>4, <2>2 DEF Flag, Low
    <3>2. Widen({f}) = {}
      BY <3>1 DEF Widen
    <3> QED BY <1>1, <1>2, <1>4, <3>2 DEF ContainsFlag
  <2> QED BY <2>1, <2>2
<1> QED BY <1>3, <1>4

\* The caches of a basis: hessians and divergences of faces are never asked for.
LEMMA BasisFills ==
  ASSUME NEW S
  PROVE  /\ "values" \in Fills(BasisElem, S) <=> value \in S
         /\ "gradients" \in Fills(BasisElem, S) <=> gradient \in S \/ divergence \in S
         /\ "hessians" \in Fills(BasisElem, S) <=> hessian \in S
         /\ "divergences" \in Fills(BasisElem, S) <=> divergence \in S
         /\ "values" \in Fills(BasisFace, S) <=> face_value \in S
         /\ "gradients" \in Fills(BasisFace, S) <=> face_gradient \in S
         /\ "hessians" \notin Fills(BasisFace, S) /\ "divergences" \notin Fills(BasisFace, S)
<1>1. PICK seen : seen = S \cap Low
  OBVIOUS
<1>2. /\ value \in seen <=> value \in S
      /\ gradient \in seen <=> gradient \in S
      /\ hessian \in seen <=> hessian \in S
      /\ divergence \in seen <=> divergence \in S
      /\ face_value \in seen <=> face_value \in S
      /\ face_gradient \in seen <=> face_gradient \in S
      /\ face_hessian \notin seen /\ face_divergence \notin seen
  BY <1>1 DEF Low, value, gradient, hessian, divergence, face_value, face_gradient,
              face_hessian, face_divergence
<1>3. ASSUME NEW table, \A r \in table : r[1] \in Flag
      PROVE  \A q : q \in Fills(table, S) <=> \E r \in table : r[1] \in seen /\ q \in r[2]
  <2>1. {r \in table : ContainsFlag(S, {r[1]})} = {r \in table : r[1] \in seen}
    BY <1>1, <1>3, OnlyLowContained
  <2> QED BY <2>1 DEF Fills
<1>4. /\ \A r \in BasisElem : r[1] \in Flag
      /\ \A r \in BasisFace : r[1] \in Flag
  BY DEF Flag, BasisElem, BasisFace, BasisTable, value, gradient, hessian, divergence,
         face_value, face_gradient, face_hessian, face_divergence
<1>5. ASSUME NEW q
      PROVE  q \in Fills(BasisElem, S) <=>
               \/ value \in S /\ q = "values"
               \/ gradient \in S /\ q = "gradients"
               \/ hessian \in S /\ q = "hessians"
               \/ divergence \in S /\ q \in {"gradients", "divergences"}
  <2>1. (\E r \in BasisElem : r[1] \in seen /\ q \in r[2]) <=>
               \/ value \in seen /\ q = "values"
               \/ gradient \in seen /\ q = "gradients"
               \/ hessian \in seen /\ q = "hessians"
               \/ divergence \in seen /\ q \in {"gradients", "divergences"}
    BY DEF BasisElem, BasisTable
  <2> QED BY <1>2, <1>3, <1>4, <2>1
<1>6. ASSUME NEW q
      PROVE  q \in Fills(BasisFace, S) <=>
               \/ face_value \in S /\ q = "values"
               \/ face_gradient \in S /\ q = "gradients"
  <2>1. (\E r \in BasisFace : r[1] \in seen /\ q \in r[2]) <=>
               \/ face_value \in seen /\ q = "values"
               \/ face_gradient \in seen /\ q = "gradients"
               \/ face_hessian \in seen /\ q = "hessians"
               \/ face_divergence \in seen /\ q \in {"gradients", "divergences"}
    BY DEF BasisFace, BasisTable
  <2> QED BY <1>2, <1>3, <1>4, <2>1
<1>7. /\ "values" \in Fills(BasisElem, S) <=> value \in S
      /\ "gradients" \in Fills(BasisElem, S) <=> gradient \in S \/ divergence \in S
      /\ "hessians" \in Fills(BasisElem, S) <=> hessian \in S
      /\ "divergences" \in Fills(BasisElem, S) <=> divergence \in S
  BY <1>5
<1>8. /\ "values" \in Fills(BasisFace, S) <=> face_value \in S
      /\ "gradients" \in Fills(BasisFace, S) <=> face_gradient \in S
      /\ "hessians" \notin Fills(BasisFace, S) /\ "divergences" \notin Fills(BasisFace, S)
  BY <1>6
<1> QED BY <1>7, <1>8

\* The caches of the grid accessor and of the mapping.
LEMMA LowMapping ==
  ASSUME NEW S, S \subseteq Low
  PROVE  /\ \A q : q \in Fills(GridElem, S) <=>
                     \/ measure \in S /\ q = "measures"
                     \/ w_measure \in S /\ q \in {"measures", "w_measures"}
         /\ \A q : q \in Fills(GridFace, S) <=>
                     \/ face_measure \in S /\ q = "measures"
                     \/ face_w_measure \in S /\ q \in {"measures", "w_measures"}
         /\ \A q : q \in Fills(MappingElem, S) <=>
                     \/ point \in S /\ q = "values"
                     \/ map_gradient \in S /\ q = "gradients"
                     \/ map_hessian \in S /\ q = "hessians"
                     \/ map_inv_gradient \in S /\ q \in {"gradients", "measures", "inv_gradients"}
                     \/ map_inv_hessian \in S /\ q \in {"hessians", "inv_hessians"}
                     \/ measure \in S /\ q \in {"gradients", "measures"}
                     \/ w_measure \in S /\ q \in {"gradients", "measures", "w_measures"}
         /\ \A q : q \in Fills(MappingFace, S) <=>
                     \/ face_point \in S /\ q = "values"
                     \/ map_face_gradient \in S /\ q = "gradients"
                     \/ map_face_hessian \in S /\ q = "hessians"
                     \/ map_face_inv_gradient \in S /\ q \in {"gradients", "measures", "inv_gradients"}
                     \/ map_face_inv_hessian \in S /\ q \in {"hessians", "inv_hessians"}
                     \/ face_measure \in S /\ q \in {"gradients", "measures"}
                     \/ face_w_measure \in S /\ q \in {"gradients", "measures", "w_measures"}
                     \/ face_normal \in S /\ q = "normals"
<1>1. ASSUME NEW q
      PROVE  q \in Fills(GridElem, S) <=>
                     \/ measure \in S /\ q = "measures"
                     \/ w_measure \in S /\ q \in {"measures", "w_measures"}
  <2>1. (\E r \in GridElem : r[1] \in S /\ q \in r[2]) <=>
                     \/ measure \in S /\ q = "measures"
                     \/ w_measure \in S /\ q \in {"measures", "w_measures"}
    BY DEF GridElem, MeasureTable
  <2> QED BY <2>1, LowFills
<1>2. ASSUME NEW q
      PROVE  q \in Fills(GridFace, S) <=>
                     \/ face_measure \in S /\ q = "measures"
                     \/ face_w_measure \in S /\ q \in {"measures", "w_measures"}
  <2>1. (\E r \in GridFace : r[1] \in S /\ q \in r[2]) <=>
                     \/ face_measure \in S /\ q = "measures"
                     \/ face_w_measure \in S /\ q \in {"measures", "w_measures"}
    BY DEF GridFace, MeasureTable
  <2> QED BY <2>1, LowFills
<1>3. ASSUME NEW q
      PROVE  q \in Fills(MappingElem, S) <=>
                     \/ point \in S /\ q = "values"
                     \/ map_gradient \in S /\ q = "gradients"
                     \/ map_hessian \in S /\ q = "hessians"
                     \/ map_inv_gradient \in S /\ q \in {"gradients", "measures", "inv_gradients"}
                     \/ map_inv_hessian \in S /\ q \in {"hessians", "inv_hessians"}
                     \/ measure \in S /\ q \in {"gradients", "measures"}
                     \/ w_measure \in S /\ q \in {"gradients", "measures", "w_measures"}
  <2>1. (\E r \in MappingElem : r[1] \in S /\ q \in r[2]) <=>
                     \/ point \in S /\ q = "values"
                     \/ map_gradient \in S /\ q = "gradients"
                     \/ map_hessian \in S /\ q = "hessians"
                     \/ map_inv_gradient \in S /\ q \in {"gradients", "measures", "inv_gradients"}
                     \/ map_inv_hessian \in S /\ q \in {"hessians", "inv_hessians"}
                     \/ measure \in S /\ q \in {"gradients", "measures"}
                     \/ w_measure \in S /\ q \in {"gradients", "measures", "w_measures"}
    BY DEF MappingElem, MappingTable
  <2> QED BY <2>1, LowFills
<1>4. ASSUME NEW q
      PROVE  q \in Fills(MappingFace, S) <=>
                     \/ face_point \in S /\ q = "values"
                     \/ map_face_gradient \in S /\ q = "gradients"
                     \/ map_face_hessian \in S /\ q = "hessians"
                     \/ map_face_inv_gradient \in S /\ q \in {"gradients", "measures", "inv_gradients"}
                     \/ map_face_inv_hessian \in S /\ q \in {"hessians", "inv_hessians"}
                     \/ face_measure \in S /\ q \in {"gradients", "measures"}
                     \/ face_w_measure \in S /\ q \in {"gradients", "measures", "w_measures"}
                     \/ face_normal \in S /\ q = "normals"
  <2>1. (\E r \in MappingFace : r[1] \in S /\ q \in r[2]) <=>
                     \/ face_point \in S /\ q = "values"
                     \/ map_face_gradient \in S /\ q = "gradients"
                     \/ map_face_hessian \in S /\ q = "hessians"
                     \/ map_face_inv_gradient \in S /\ q \in {"gradients", "measures", "inv_gradients"}
                     \/ map_face_inv_hessian \in S /\ q \in {"hessians", "inv_hessians"}
                     \/ face_measure \in S /\ q \in {"gradients", "measures"}
                     \/ face_w_measure \in S /\ q \in {"gradients", "measures", "w_measures"}
                     \/ face_normal \in S /\ q = "normals"
    BY DEF MappingFace, MappingTable
  <2> QED BY <2>1, LowFills
<1> QED BY <1>1, <1>2, <1>3, <1>4

-----------------------------------------------------------------------------
(* Flags on their way from a physical space.                                 *)

\* Those are below the sign bit.
LEMMA AsksLow ==
  ASSUME NEW S, Asks(S)
  PROVE  S \subseteq Low
  BY DEF Asks, Low, point, measure, w_measure, value, gradient, hessian, divergence,
         face_point, face_w_measure, face_normal, face_value, face_gradient

\* What the reference space is asked for.
LEMMA ReferenceAdds ==
  ASSUME NEW S, Asks(S)
  PROVE  /\ ReferenceSpaceFlags(S) \subseteq Low
         /\ \A x : x \in ReferenceSpaceFlags(S) <=>
                     \/ value \in S /\ x = value
                     \/ gradient \in S /\ x = gradient
                     \/ hessian \in S /\ x \in {gradient, hessian}
                     \/ face_value \in S /\ x = face_value
                     \/ face_gradient \in S /\ x = face_gradient
                     \/ measure \in S /\ x = measure
<1>1. PICK rows : rows =
        {<<value, {value}>>, <<gradient, {gradient}>>, <<hessian, {gradient, hessian}>>,
         <<face_value, {face_value}>>, <<face_gradient, {face_gradient}>>,
         <<face_hessian, {face_gradient, face_hessian}>>, <<measure, {measure}>>}
  OBVIOUS
<1>2. S \subseteq Low
  BY AsksLow
<1>3. face_hessian \notin S
  BY <1>2 DEF Low, face_hessian
<1>4. ASSUME NEW x
      PROVE  (\E r \in rows : r[1] \in S /\ x \in r[2]) <=>
               \/ value \in S /\ x = value
               \/ gradient \in S /\ x = gradient
               \/ hessian \in S /\ x \in {gradient, hessian}
               \/ face_value \in S /\ x = face_value
               \/ face_gradient \in S /\ x = face_gradient
               \/ measure \in S /\ x = measure
  BY <1>1, <1>3
<1>5. ASSUME NEW r \in rows, r[1] \in S
      PROVE  r[2] \subseteq Low
  <2>1. \A x \in r[2] : x \in {value, gradient, hessian, face_value, face_gradient, measure}
    BY <1>4, <1>5
  <2> QED BY <2>1 DEF Low, value, gradient, hessian, face_value, face_gradient, measure
<1>6. ReferenceSpaceFlags(S) = Add(rows, S, {})
  BY <1>1 DEF ReferenceSpaceFlags
<1>7. /\ Add(rows, S, {}) \subseteq Low
      /\ \A x : x \in Add(rows, S, {}) <=> x \in {} \/ (\E r \in rows : r[1] \in S /\ x \in r[2])
  BY <1>2, <1>5, LowAdd
<1> QED BY <1>4, <1>6, <1>7

\* What the B-splines under a NURBS are asked for.
LEMMA NurbsAdds ==
  ASSUME NEW S, S \subseteq Low
  PROVE  /\ NurbsSplineFlags(S) \subseteq Low
         /\ \A x : x \in NurbsSplineFlags(S) <=>
                     \/ x \in S
                     \/ gradient \in S /\ x \in {value, gradient}
                     \/ face_gradient \in S /\ x \in {face_value, face_gradient}
                     \/ hessian \in S /\ x \in {value, gradient, hessian}
<1>1. PICK rows : rows =
        {<<gradient, {value, gradient}>>, <<face_gradient, {face_value, face_gradient}>>,
         <<hessian, {value, gradient, hessian}>>,
         <<face_hessian, {face_value, face_gradient, face_hessian}>>}
  OBVIOUS
<1>2. face_hessian \notin S
  BY DEF Low, face_hessian
<1>3. ASSUME NEW x
      PROVE  (\E r \in rows : r[1] \in S /\ x \in r[2]) <=>
               \/ gradient \in S /\ x \in {value, gradient}
               \/ face_gradient \in S /\ x \in {face_value, face_gradient}
               \/ hessian \in S /\ x \in {value, gradient, hessian}
  BY <1>1, <1>2
<1>4. ASSUME NEW r \in rows, r[1] \in S
      PROVE  r[2] \subseteq Low
  <2>1. \A x \in r[2] : x \in {value, gradient, hessian, face_value, face_gradient}
    BY <1>3, <1>4
  <2> QED BY <2>1 DEF Low, value, gradient, hessian, face_value, face_gradient
<1>5. NurbsSplineFlags(S) = Add(rows, S, S)
  BY <1>1 DEF NurbsSplineFlags
<1>6. /\ Add(rows, S, S) \subseteq Low
      /\ \A x : x \in Add(rows, S, S) <=> x \in S \/ (\E r \in rows : r[1] \in S /\ x \in r[2])
  BY <1>4, LowAdd
<1> QED BY <1>3, <1>5, <1>6

\* Divergences are no part of what a spline space below is asked for.
LEMMA SplineAddsNothing ==
  ASSUME NEW S, divergence \notin S
  PROVE  SplineCacheFlags(S) = S
<1>1. ~ContainsFlag(S, {divergence}) /\ ~ContainsFlag(S, {face_divergence})
  BY OnlyLowContained DEF Flag, Low, divergence, face_divergence
<1> QED BY <1>1 DEF SplineCacheFlags, AddTo

\* What the push-forward is asked for.
LEMMA PushForwardAdds ==
  ASSUME NEW S, Asks(S)
  PROVE  /\ PushForwardFlags(S) \subseteq Low
         /\ \A x : x \in PushForwardFlags(S) <=>
                     \/ x \in S \cap {point, measure, w_measure, face_point, face_w_measure, face_normal}
                     \/ (value \in S \/ face_value \in S) /\ x = tran_value
                     \/ (gradient \in S \/ face_gradient \in S) /\ x = tran_gradient
                     \/ hessian \in S /\ x = tran_hessian
<1>1. PICK rows : rows =
        {<<value, {tran_value}>>, <<face_value, {tran_value}>>,
         <<gradient, {tran_gradient}>>, <<face_gradient, {tran_gradient}>>,
         <<hessian, {tran_hessian}>>, <<face_hessian, {tran_hessian}>>}
  OBVIOUS
<1>2. PICK start : start = And(S, MappingAdmissible \ {face_measure})
  OBVIOUS
<1>3. S \subseteq Low
  BY AsksLow
<1>4. face_hessian \notin S
  BY <1>3 DEF Low, face_hessian
<1>5. start = S \cap {point, measure, w_measure, face_point, face_w_measure, face_normal}
  <2>1. start = S \cap (MappingAdmissible \ {face_measure})
    BY <1>2, <1>3, LowOperators
  <2>2. \A x \in S : x \in MappingAdmissible \ {face_measure} <=>
                       x \in {point, measure, w_measure, face_point, face_w_measure, face_normal}
    BY DEF Asks, MappingAdmissible, point, measure, w_measure, value, gradient, hessian, divergence,
           face_point, face_measure, face_w_measure, face_normal, face_value, face_gradient,
           map_gradient, map_face_inv_hessian
  <2> QED BY <2>1, <2>2
<1>6. ASSUME NEW x
      PROVE  (\E r \in rows : r[1] \in S /\ x \in r[2]) <=>
               \/ (value \in S \/ face_value \in S) /\ x = tran_value
               \/ (gradient \in S \/ face_gradient \in S) /\ x = tran_gradient
               \/ hessian \in S /\ x = tran_hessian
  BY <1>1, <1>4
<1>7. ASSUME NEW r \in rows, r[1] \in S
      PROVE  r[2] \subseteq Low
  <2>1. \A x \in r[2] : x \in {tran_value, tran_gradient, tran_hessian}
    BY <1>6, <1>7
  <2> QED BY <2>1 DEF Low, tran_value, tran_gradient, tran_hessian
<1>8. PushForwardFlags(S) = Add(rows, S, start)
  BY <1>1, <1>2 DEF PushForwardFlags
<1>9. /\ Add(rows, S, start) \subseteq Low
      /\ \A x : x \in Add(rows, S, start) <=>
                  x \in start \/ (\E r \in rows : r[1] \in S /\ x \in r[2])
  <2>1. start \subseteq Low
    BY <1>3, <1>5
  <2> QED BY <1>3, <1>7, <2>1, LowAdd
<1> QED BY <1>5, <1>6, <1>8, <1>9

\* What the mapping is asked for.
LEMMA MappingAdds ==
  ASSUME NEW P,
         P \subseteq {point, measure, w_measure, face_point, face_w_measure, face_normal,
                      tran_value, tran_gradient, tran_hessian}
  PROVE  /\ MappingFlags(P) \subseteq Low
         /\ \A x : x \in MappingFlags(P) <=>
              \/ x \in P \cap {point, w_measure, face_point, face_w_measure, face_normal}
              \/ w_measure \in P /\ x \in {measure, map_gradient, map_face_gradient}
              \/ face_w_measure \in P /\ x \in {face_measure, map_face_gradient}
              \/ face_normal \in P /\ x \in {map_face_inv_gradient, map_face_gradient}
              \/ tran_hessian \in P /\ x \in {map_hessian, map_face_hessian, map_face_inv_hessian}
              \/ tran_value \in P /\ x \in {point, face_point}
              \/ /\ tran_gradient \in P \/ tran_hessian \in P
                 /\ x \in {map_gradient, map_inv_gradient, map_face_gradient,
                           map_face_inv_gradient, measure, face_measure}
<1>1. PICK rows : rows =
        {<<w_measure, {measure, map_gradient}>>,
         <<face_w_measure, {face_measure, map_face_gradient}>>,
         <<face_normal, {map_face_inv_gradient, map_face_gradient}>>,
         <<tran_hessian, {map_hessian, map_inv_gradient, map_face_hessian,
                          map_face_inv_hessian, map_face_inv_gradient}>>,
         <<tran_value, {point, face_point}>>,
         <<tran_gradient, {map_gradient, map_inv_gradient, map_face_gradient,
                           map_face_inv_gradient}>>}
  OBVIOUS
<1>2. PICK named : named = {point, measure, w_measure, face_point, face_measure, face_w_measure,
                            face_normal, tran_value, tran_gradient, tran_hessian, map_gradient,
                            map_hessian, map_inv_gradient, map_inv_hessian, map_face_gradient,
                            map_face_hessian, map_face_inv_gradient, map_face_inv_hessian}
  OBVIOUS
<1>3. named \subseteq Low /\ P \subseteq named
  BY <1>2 DEF Low, point, measure, w_measure, face_point, face_measure, face_w_measure,
              face_normal, tran_value, tran_gradient, tran_hessian, map_gradient,
              map_hessian, map_inv_gradient, map_inv_hessian, map_face_gradient,
              map_face_hessian, map_face_inv_gradient, map_face_inv_hessian
<1>4. PICK tested : tested = AddTo(P, tran_hessian, {tran_gradient})
  OBVIOUS
<1>5. tested \subseteq Low /\ \A x : x \in tested <=> x \in P \/ (tran_hessian \in P /\ x = tran_gradient)
  BY <1>2, <1>3, <1>4, LowAddTo
<1>6. PICK common : common = And(P, MappingAdmissible \ {measure, face_measure})
  OBVIOUS
<1>7. common = P \cap {point, w_measure, face_point, face_w_measure, face_normal}
  <2>1. common = P \cap (MappingAdmissible \ {measure, face_measure})
    BY <1>3, <1>6, LowOperators
  <2>2. \A x \in P : x \in MappingAdmissible \ {measure, face_measure} <=>
                       x \in {point, w_measure, face_point, face_w_measure, face_normal}
    BY DEF MappingAdmissible, point, measure, w_measure, face_point, face_measure,
           face_w_measure, face_normal, tran_value, tran_gradient, tran_hessian,
           map_gradient, map_face_inv_hessian
  <2> QED BY <2>1, <2>2
<1>8. ASSUME NEW x
      PROVE  (\E r \in rows : r[1] \in tested /\ x \in r[2]) <=>
               \/ w_measure \in tested /\ x \in {measure, map_gradient}
               \/ face_w_measure \in tested /\ x \in {face_measure, map_face_gradient}
               \/ face_normal \in tested /\ x \in {map_face_inv_gradient, map_face_gradient}
               \/ tran_hessian \in tested /\ x \in {map_hessian, map_inv_gradient,
                    map_face_hessian, map_face_inv_hessian, map_face_inv_gradient}
               \/ tran_value \in tested /\ x \in {point, face_point}
               \/ tran_gradient \in tested /\ x \in {map_gradient, map_inv_gradient,
                    map_face_gradient, map_face_inv_gradient}
  BY <1>1
<1>9. ASSUME NEW r \in rows, r[1] \in tested
      PROVE  r[2] \subseteq Low
  <2>1. \A x \in r[2] : x \in named
    BY <1>2, <1>8, <1>9
  <2> QED BY <1>3, <2>1
<1>10. /\ w_measure \in tested <=> w_measure \in P
       /\ face_w_measure \in tested <=> face_w_measure \in P
       /\ face_normal \in tested <=> face_normal \in P
       /\ tran_hessian \in tested <=> tran_hessian \in P
       /\ tran_value \in tested <=> tran_value \in P
       /\ tran_gradient \in tested <=> tran_gradient \in P \/ tran_hessian \in P
  BY <1>5 DEF w_measure, face_w_measure, face_normal, tran_hessian, tran_value, tran_gradient
<1>11. PICK asked : asked = Add(rows, tested, common)
  OBVIOUS
<1>12. /\ asked \subseteq Low
       /\ \A x : x \in asked <=>
              \/ x \in P \cap {point, w_measure, face_point, face_w_measure, face_normal}
              \/ w_measure \in P /\ x \in {measure, map_gradient}
              \/ face_w_measure \in P /\ x \in {face_measure, map_face_gradient}
              \/ face_normal \in P /\ x \in {map_face_inv_gradient, map_face_gradient}
              \/ tran_hessian \in P /\ x \in {map_hessian, map_face_hessian, map_face_inv_hessian}
              \/ tran_value \in P /\ x \in {point, face_point}
              \/ /\ tran_gradient \in P \/ tran_hessian \in P
                 /\ x \in {map_gradient, map_inv_gradient, map_face_gradient, map_face_inv_gradient}
  <2>1. common \subseteq Low
    BY <1>3, <1>7
  <2>2. /\ asked \subseteq Low
        /\ \A x : x \in asked <=> x \in common \/ (\E r \in rows : r[1] \in tested /\ x \in r[2])
    BY <1>5, <1>9, <1>11, <2>1, LowAdd
  <2> QED BY <1>7, <1>8, <1>10, <2>2
<1>13. measure \in asked <=> w_measure \in P
  BY <1>12 DEF point, measure, w_measure, face_point, face_measure, face_w_measure,
              face_normal, map_gradient, map_hessian, map_inv_gradient, map_face_gradient,
              map_face_hessian, map_face_inv_gradient, map_face_inv_hessian
<1>14. PICK lengths : lengths = AddTo(asked, measure, {map_gradient, map_face_gradient})
  OBVIOUS
<1>15. /\ lengths \subseteq Low
       /\ \A x : x \in lengths <=> x \in asked \/ (w_measure \in P /\ x \in {map_gradient, map_face_gradient})
  <2>1. {map_gradient, map_face_gradient} \subseteq Low
    BY <1>2, <1>3
  <2> QED BY <1>12, <1>13, <1>14, <2>1, LowAddTo
<1>16. /\ map_inv_gradient \in lengths <=> tran_gradient \in P \/ tran_hessian \in P
       /\ map_inv_hessian \notin lengths
  BY <1>12, <1>15 DEF point, measure, w_measure, face_point, face_measure, face_w_measure,
              face_normal, map_gradient, map_hessian, map_inv_gradient, map_inv_hessian,
              map_face_gradient, map_face_hessian, map_face_inv_gradient, map_face_inv_hessian
<1>17. PICK inverse : inverse = AddTo(lengths, map_inv_gradient,
                                      {map_gradient, measure, map_face_gradient, face_measure})
  OBVIOUS
<1>18. /\ inverse \subseteq Low
       /\ \A x : x \in inverse <=>
                   \/ x \in lengths
                   \/ /\ tran_gradient \in P \/ tran_hessian \in P
                      /\ x \in {map_gradient, measure, map_face_gradient, face_measure}
  <2>1. {map_gradient, measure, map_face_gradient, face_measure} \subseteq Low
    BY <1>2, <1>3
  <2> QED BY <1>15, <1>16, <1>17, <2>1, LowAddTo
<1>19. map_inv_hessian \notin inverse
  BY <1>16, <1>18 DEF measure, face_measure, map_gradient, map_face_gradient, map_inv_hessian
<1>20. MappingFlags(P) = inverse
  <2>1. AddTo(inverse, map_inv_hessian, {map_hessian, map_face_hessian}) = inverse
    BY <1>18, <1>19, LowOperators DEF AddTo
  <2> QED BY <1>1, <1>4, <1>6, <1>11, <1>14, <1>17, <2>1 DEF MappingFlags
<1> QED BY <1>12, <1>15, <1>18, <1>20

\* What the caches of the mapping are made for.
LEMMA MappingCacheAdds ==
  ASSUME NEW S, S \subseteq Low
  PROVE  /\ MappingCacheFlags(S) \subseteq Low
         /\ \A x : x \in MappingCacheFlags(S) <=>
              \/ x \in S
              \/ w_measure \in S /\ x \in {measure, map_gradient}
              \/ measure \in S /\ x = map_gradient
              \/ face_w_measure \in S /\ x \in {face_measure, map_face_gradient}
              \/ face_measure \in S /\ x = map_face_gradient
              \/ face_normal \in S /\ x \in {map_face_gradient, map_face_inv_gradient}
<1>1. /\ {measure} \subseteq Low /\ {map_gradient} \subseteq Low /\ {face_measure} \subseteq Low
      /\ {map_face_gradient} \subseteq Low /\ {map_face_gradient, map_face_inv_gradient} \subseteq Low
  BY DEF Low, measure, map_gradient, face_measure, map_face_gradient, map_face_inv_gradient
<1>2. PICK a : a = AddTo(S, w_measure, {measure})
  OBVIOUS
<1>3. a \subseteq Low /\ \A x : x \in a <=> x \in S \/ (w_measure \in S /\ x = measure)
  BY <1>1, <1>2, LowAddTo
<1>4. PICK b : b = AddTo(a, measure, {map_gradient})
  OBVIOUS
<1>5. b \subseteq Low /\ \A x : x \in b <=> x \in a \/ (measure \in a /\ x = map_gradient)
  BY <1>1, <1>3, <1>4, LowAddTo
<1>6. PICK c : c = AddTo(b, face_w_measure, {face_measure})
  OBVIOUS
<1>7. /\ c \subseteq Low
      /\ \A x : x \in c <=> x \in b \/ (face_w_measure \in S /\ x = face_measure)
  <2>1. face_w_measure \in b <=> face_w_measure \in S
    BY <1>3, <1>5 DEF face_w_measure, measure, map_gradient
  <2> QED BY <1>1, <1>5, <1>6, <2>1, LowAddTo
<1>8. PICK d : d = AddTo(c, face_measure, {map_face_gradient})
  OBVIOUS
<1>9. /\ d \subseteq Low
      /\ \A x : x \in d <=>
           x \in c \/ ((face_measure \in S \/ face_w_measure \in S) /\ x = map_face_gradient)
  <2>1. face_measure \in c <=> face_measure \in S \/ face_w_measure \in S
    BY <1>3, <1>5, <1>7 DEF face_measure, measure, map_gradient
  <2> QED BY <1>1, <1>7, <1>8, <2>1, LowAddTo
<1>10. PICK e : e = AddTo(d, face_normal, {map_face_gradient, map_face_inv_gradient})
  OBVIOUS
<1>11. /\ e \subseteq Low
       /\ \A x : x \in e <=>
            x \in d \/ (face_normal \in S /\ x \in {map_face_gradient, map_face_inv_gradient})
  <2>1. face_normal \in d <=> face_normal \in S
    BY <1>3, <1>5, <1>7, <1>9 DEF face_normal, face_measure, measure, map_gradient, map_face_gradient
  <2> QED BY <1>1, <1>9, <1>10, <2>1, LowAddTo
<1>12. MappingCacheFlags(S) = e
  BY <1>2, <1>4, <1>6, <1>8, <1>10 DEF MappingCacheFlags
<1> QED BY <1>3, <1>5, <1>7, <1>9, <1>11, <1>12

\* What the grid accessor of the mapping is asked for.
LEMMA GridAdds ==
  ASSUME NEW S, S \subseteq Low
  PROVE  /\ MappingGridFlags(S) \subseteq Low
         /\ \A x : x \in MappingGridFlags(S) <=>
              \/ x \in S \cap {point, w_measure, face_point, face_w_measure}
              \/ face_normal \in S /\ x = face_point
<1>1. PICK rows : rows =
        {<<point, {point}>>, <<w_measure, {w_measure}>>, <<face_point, {face_point}>>,
         <<face_w_measure, {face_w_measure}>>, <<face_normal, {face_point}>>}
  OBVIOUS
<1>2. ASSUME NEW x
      PROVE  (\E r \in rows : r[1] \in S /\ x \in r[2]) <=>
               \/ x \in S \cap {point, w_measure, face_point, face_w_measure}
               \/ face_normal \in S /\ x = face_point
  BY <1>1
<1>3. ASSUME NEW r \in rows, r[1] \in S
      PROVE  r[2] \subseteq Low
  <2>1. \A x \in r[2] : x \in {point, w_measure, face_point, face_w_measure}
    BY <1>2, <1>3
  <2> QED BY <2>1 DEF Low, point, w_measure, face_point, face_w_measure
<1>4. MappingGridFlags(S) = Add(rows, S, {})
  BY <1>1 DEF MappingGridFlags
<1>5. /\ Add(rows, S, {}) \subseteq Low
      /\ \A x : x \in Add(rows, S, {}) <=> x \in {} \/ (\E r \in rows : r[1] \in S /\ x \in r[2])
  BY <1>3, LowAdd
<1> QED BY <1>2, <1>4, <1>5

\* What the space of the control points is asked for: with second derivatives the sign
\* bit too, which is then copied to those above it.
LEMMA GeometryAdds ==
  ASSUME NEW S, S \subseteq Low
  PROVE  /\ Admits(SpaceAdmissible, GeometryFlags(S))
         /\ divergence \notin GeometryFlags(S)
         /\ value \in GeometryFlags(S) <=> point \in S
         /\ face_value \in GeometryFlags(S) <=> face_point \in S
         /\ gradient \in GeometryFlags(S) <=> map_gradient \in S
         /\ face_gradient \in GeometryFlags(S) <=> map_face_gradient \in S
         /\ hessian \in GeometryFlags(S) <=> map_hessian \in S
<1>1. PICK rows : rows =
        {<<point, {value}>>, <<face_point, {face_value}>>, <<map_gradient, {gradient}>>,
         <<map_face_gradient, {face_gradient}>>, <<map_hessian, {hessian}>>,
         <<map_face_hessian, {face_hessian}>>}
  OBVIOUS
<1>2. PICK more : more = UNION {row[2] : row \in {r \in rows : ContainsFlag(S, {r[1]})}}
  OBVIOUS
<1>3. ASSUME NEW x
      PROVE  x \in more <=>
               \/ point \in S /\ x = value
               \/ face_point \in S /\ x = face_value
               \/ map_gradient \in S /\ x = gradient
               \/ map_face_gradient \in S /\ x = face_gradient
               \/ map_hessian \in S /\ x = hessian
               \/ map_face_hessian \in S /\ x = face_hessian
  <2>1. (\E r \in rows : r[1] \in S /\ x \in r[2]) <=>
               \/ point \in S /\ x = value
               \/ face_point \in S /\ x = face_value
               \/ map_gradient \in S /\ x = gradient
               \/ map_face_gradient \in S /\ x = face_gradient
               \/ map_hessian \in S /\ x = hessian
               \/ map_face_hessian \in S /\ x = face_hessian
    BY <1>1
  <2>2. {r \in rows : ContainsFlag(S, {r[1]})} = {r \in rows : r[1] \in S}
    BY LowOperators
  <2> QED BY <1>2, <2>1, <2>2
<1>4. PICK G : G = GeometryFlags(S)
  OBVIOUS
<1>5. G = Widen(more)
  <2>1. Add(rows, S, {}) = Or({}, more)
    BY <1>2 DEF Add
  <2>2. Or({}, more) = Widen(more)
    <3>1. {} \cup more = more
      OBVIOUS
    <3> QED BY <3>1 DEF Or
  <2> QED BY <1>1, <1>4, <2>1, <2>2 DEF GeometryFlags
<1>6. \A x \in more : x \in {25, 26, 27, 29, 30, 31}
  BY <1>3 DEF value, face_value, gradient, face_gradient, hessian, face_hessian
<1>7. /\ \A x \in 0 .. 31 : x \in G <=> x \in more
      /\ \A x \in G : x \in more \/ x \in 32 .. 63
  <2>1. more \cap (0 .. 31) = more
    BY <1>6
  <2> QED BY <1>5, <2>1 DEF Widen
<1>8. Admits(SpaceAdmissible, G)
  <2>1. PICK A : A = {point, measure, w_measure, face_point, face_w_measure} \cup (value .. face_divergence)
    OBVIOUS
  <2>2. 31 \in A /\ {25, 26, 27, 29, 30, 31} \subseteq A
    BY <2>1 DEF value, face_divergence
  <2>3. SpaceAdmissible = (A \cap (0 .. 31)) \cup (32 .. 63)
    BY <2>1, <2>2 DEF SpaceAdmissible, Widen
  <2>4. \A x : x \in (G \cup SpaceAdmissible) \cap (0 .. 31) <=> x \in A \cap (0 .. 31)
    <3>1. \A x \in 0 .. 31 : x \notin 32 .. 63
      OBVIOUS
    <3> QED BY <1>6, <1>7, <2>2, <2>3, <3>1
  <2>5. (G \cup SpaceAdmissible) \cap (0 .. 31) = A \cap (0 .. 31)
    BY <2>4
  <2> QED BY <2>2, <2>3, <2>5 DEF Admits, Or, Widen
<1>9. \A x \in {value, face_value, gradient, face_gradient, hessian, divergence} : x \in G <=> x \in more
  BY <1>7 DEF value, face_value, gradient, face_gradient, hessian, divergence
<1>10. /\ divergence \notin more
       /\ value \in more <=> point \in S
       /\ face_value \in more <=> face_point \in S
       /\ gradient \in more <=> map_gradient \in S
       /\ face_gradient \in more <=> map_face_gradient \in S
       /\ hessian \in more <=> map_hessian \in S
  BY <1>3 DEF value, face_value, gradient, face_gradient, hessian, divergence, face_hessian
<1> QED BY <1>4, <1>8, <1>9, <1>10

\* Flags a kind of accessor names are flags it admits.
LEMMA LowAdmits ==
  ASSUME NEW S, NEW T, S \subseteq Low, S \subseteq T, Widen(T) = T
  PROVE  Admits(T, S)
  BY DEF Admits, Or

-----------------------------------------------------------------------------
(* What the caches are to hold after an initialisation.                      *)

BasisHandler(t) == IF t = "element" THEN BasisElem ELSE BasisFace
MappingHandler(t) == IF t = "element" THEN MappingElem ELSE MappingFace
GridHandler(t) == IF t = "element" THEN GridElem ELSE GridFace

AskedMapping(flags) == MappingFlags(PushForwardFlags(flags))
AskedGeometry(flags) == GeometryFlags(MappingCacheFlags(AskedMapping(flags)))
AskedSplines(flags) ==
  IF kind = "nurbs" THEN NurbsSplineFlags(ReferenceSpaceFlags(flags)) ELSE ReferenceSpaceFlags(flags)

\* What cache t of each owner is to hold after init_cache(flags).
Plan(flags, o, t) ==
  CASE o = "space"    -> Fills(BasisHandler(t), flags)
    [] o = "nurbs"    -> Fills(BasisHandler(t), ReferenceSpaceFlags(flags))
    [] o = "spline"   -> Fills(BasisHandler(t), SplineCacheFlags(AskedSplines(flags)))
    [] o = "map"      -> Fills(MappingHandler(t), MappingCacheFlags(AskedMapping(flags)))
    [] o = "geometry" -> Fills(BasisHandler(t), SplineCacheFlags(AskedGeometry(flags)))
    [] o = "grid"     -> Fills(GridHandler(t), MappingGridFlags(AskedMapping(flags)))

AsksPoints(flags) == flags \cap {value, face_value} # {}
AsksInverse(flags) == flags \cap {gradient, face_gradient, hessian} # {}

\* The flags the caches of the mapping are made for.
LEMMA MappingIsAsked ==
  ASSUME NEW F, Asks(F), NEW m, m = MappingCacheFlags(AskedMapping(F))
  PROVE  /\ AskedMapping(F) \subseteq Low /\ m \subseteq Low
         /\ AskedMapping(F) \subseteq MappingAdmissible
         /\ w_measure \in AskedMapping(F) <=> w_measure \in F
         /\ face_w_measure \in AskedMapping(F) <=> face_w_measure \in F
         /\ point \in m <=> point \in F \/ AsksPoints(F)
         /\ face_point \in m <=> face_point \in F \/ AsksPoints(F)
         /\ w_measure \in m <=> w_measure \in F
         /\ face_w_measure \in m <=> face_w_measure \in F
         /\ face_normal \in m <=> face_normal \in F
         /\ measure \in m <=> w_measure \in F \/ AsksInverse(F)
         /\ face_measure \in m <=> face_w_measure \in F \/ AsksInverse(F)
         /\ map_gradient \in m <=> w_measure \in F \/ AsksInverse(F)
         /\ map_face_gradient \in m <=> {w_measure, face_w_measure, face_normal} \cap F # {} \/ AsksInverse(F)
         /\ map_hessian \in m <=> hessian \in F
         /\ map_face_hessian \in m <=> hessian \in F
         /\ map_inv_gradient \in m <=> AsksInverse(F)
         /\ map_face_inv_gradient \in m <=> face_normal \in F \/ AsksInverse(F)
         /\ map_inv_hessian \notin m
         /\ map_face_inv_hessian \in m <=> hessian \in F
<1>1. PICK p : p = PushForwardFlags(F)
  OBVIOUS
<1>2. \A x : x \in p <=>
              \/ x \in F \cap {point, measure, w_measure, face_point, face_w_measure, face_normal}
              \/ (value \in F \/ face_value \in F) /\ x = tran_value
              \/ (gradient \in F \/ face_gradient \in F) /\ x = tran_gradient
              \/ hessian \in F /\ x = tran_hessian
  BY <1>1, PushForwardAdds
<1>3. p \subseteq {point, measure, w_measure, face_point, face_w_measure, face_normal,
                   tran_value, tran_gradient, tran_hessian}
  BY <1>2
<1>4. PICK a : a = AskedMapping(F)
  OBVIOUS
<1>5. a = MappingFlags(p)
  BY <1>1, <1>4 DEF AskedMapping
<1>6. /\ a \subseteq Low
      /\ \A x : x \in a <=>
              \/ x \in p \cap {point, w_measure, face_point, face_w_measure, face_normal}
              \/ w_measure \in p /\ x \in {measure, map_gradient, map_face_gradient}
              \/ face_w_measure \in p /\ x \in {face_measure, map_face_gradient}
              \/ face_normal \in p /\ x \in {map_face_inv_gradient, map_face_gradient}
              \/ tran_hessian \in p /\ x \in {map_hessian, map_face_hessian, map_face_inv_hessian}
              \/ tran_value \in p /\ x \in {point, face_point}
              \/ /\ tran_gradient \in p \/ tran_hessian \in p
                 /\ x \in {map_gradient, map_inv_gradient, map_face_gradient,
                           map_face_inv_gradient, measure, face_measure}
  BY <1>3, <1>5, MappingAdds
<1>7. /\ point \in p <=> point \in F
      /\ face_point \in p <=> face_point \in F
      /\ w_measure \in p <=> w_measure \in F
      /\ face_w_measure \in p <=> face_w_measure \in F
      /\ face_normal \in p <=> face_normal \in F
      /\ tran_value \in p <=> AsksPoints(F)
      /\ tran_gradient \in p <=> gradient \in F \/ face_gradient \in F
      /\ tran_hessian \in p <=> hessian \in F
  BY <1>2 DEF AsksPoints, point, face_point, measure, w_measure, face_w_measure, face_normal,
              tran_value, tran_gradient, tran_hessian
<1>8. (tran_gradient \in p \/ tran_hessian \in p) <=> AsksInverse(F)
  BY <1>7 DEF AsksInverse
<1>9. \A x : x \in a <=>
              \/ x \in F \cap {point, w_measure, face_point, face_w_measure, face_normal}
              \/ w_measure \in F /\ x \in {measure, map_gradient, map_face_gradient}
              \/ face_w_measure \in F /\ x \in {face_measure, map_face_gradient}
              \/ face_normal \in F /\ x \in {map_face_inv_gradient, map_face_gradient}
              \/ hessian \in F /\ x \in {map_hessian, map_face_hessian, map_face_inv_hessian}
              \/ AsksPoints(F) /\ x \in {point, face_point}
              \/ /\ AsksInverse(F)
                 /\ x \in {map_gradient, map_inv_gradient, map_face_gradient,
                           map_face_inv_gradient, measure, face_measure}
  BY <1>6, <1>7, <1>8
<1>10. /\ w_measure \in a <=> w_measure \in F
       /\ face_w_measure \in a <=> face_w_measure \in F
       /\ face_normal \in a <=> face_normal \in F
       /\ point \in a <=> point \in F \/ AsksPoints(F)
       /\ face_point \in a <=> face_point \in F \/ AsksPoints(F)
       /\ measure \in a <=> w_measure \in F \/ AsksInverse(F)
       /\ face_measure \in a <=> face_w_measure \in F \/ AsksInverse(F)
       /\ map_gradient \in a <=> w_measure \in F \/ AsksInverse(F)
       /\ map_face_gradient \in a <=> {w_measure, face_w_measure, face_normal} \cap F # {} \/ AsksInverse(F)
       /\ map_hessian \in a <=> hessian \in F
       /\ map_face_hessian \in a <=> hessian \in F
       /\ map_inv_gradient \in a <=> AsksInverse(F)
       /\ map_face_inv_gradient \in a <=> face_normal \in F \/ AsksInverse(F)
       /\ map_inv_hessian \notin a
       /\ map_face_inv_hessian \in a <=> hessian \in F
  BY <1>9 DEF point, face_point, measure, w_measure, face_measure, face_w_measure, face_normal,
              map_gradient, map_hessian, map_inv_gradient, map_inv_hessian, map_face_gradient,
              map_face_hessian, map_face_inv_gradient, map_face_inv_hessian
<1>11. /\ m \subseteq Low
       /\ \A x : x \in m <=>
              \/ x \in a
              \/ w_measure \in a /\ x \in {measure, map_gradient}
              \/ measure \in a /\ x = map_gradient
              \/ face_w_measure \in a /\ x \in {face_measure, map_face_gradient}
              \/ face_measure \in a /\ x = map_face_gradient
              \/ face_normal \in a /\ x \in {map_face_gradient, map_face_inv_gradient}
  BY <1>4, <1>6, MappingCacheAdds
<1>12. m = a
  BY <1>10, <1>11
<1>13. a \subseteq MappingAdmissible
  BY <1>9 DEF MappingAdmissible, point, face_point, measure, w_measure, face_measure,
              face_w_measure, face_normal, map_gradient, map_hessian, map_inv_gradient,
              map_inv_hessian, map_face_gradient, map_face_hessian, map_face_inv_gradient,
              map_face_inv_hessian
<1> QED BY <1>4, <1>6, <1>10, <1>12, <1>13

\* The flags the caches of the reference space, and of its B-splines, are made for.
LEMMA ReferenceIsAsked ==
  ASSUME NEW F, Asks(F), NEW r, r = ReferenceSpaceFlags(F),
         NEW s, s = SplineCacheFlags(AskedSplines(F))
  PROVE  /\ s = AskedSplines(F) /\ Admits(SpaceAdmissible, s)
         /\ divergence \notin r /\ divergence \notin s
         /\ value \in r <=> value \in F
         /\ gradient \in r <=> gradient \in F \/ hessian \in F
         /\ hessian \in r <=> hessian \in F
         /\ face_value \in r <=> face_value \in F
         /\ face_gradient \in r <=> face_gradient \in F
         /\ gradient \in s <=> gradient \in F \/ hessian \in F
         /\ hessian \in s <=> hessian \in F
         /\ face_gradient \in s <=> face_gradient \in F
         /\ value \in F => value \in s
         /\ face_value \in F => face_value \in s
         /\ kind = "nurbs" /\ (gradient \in F \/ hessian \in F) => value \in s
         /\ kind = "nurbs" /\ face_gradient \in F => face_value \in s
         /\ kind # "nurbs" => s = r
<1>1. /\ r \subseteq Low
      /\ \A x : x \in r <=>
                  \/ value \in F /\ x = value
                  \/ gradient \in F /\ x = gradient
                  \/ hessian \in F /\ x \in {gradient, hessian}
                  \/ face_value \in F /\ x = face_value
                  \/ face_gradient \in F /\ x = face_gradient
                  \/ measure \in F /\ x = measure
  BY ReferenceAdds
<1>2. /\ divergence \notin r
      /\ value \in r <=> value \in F
      /\ gradient \in r <=> gradient \in F \/ hessian \in F
      /\ hessian \in r <=> hessian \in F
      /\ face_value \in r <=> face_value \in F
      /\ face_gradient \in r <=> face_gradient \in F
  BY <1>1 DEF value, gradient, hessian, divergence, face_value, face_gradient, measure
<1>3. PICK u : u = AskedSplines(F)
  OBVIOUS
<1>4. /\ u \subseteq Low
      /\ kind = "nurbs" =>
           \A x : x \in u <=>
                    \/ x \in r
                    \/ gradient \in r /\ x \in {value, gradient}
                    \/ face_gradient \in r /\ x \in {face_value, face_gradient}
                    \/ hessian \in r /\ x \in {value, gradient, hessian}
      /\ kind # "nurbs" => u = r
  <2>1. CASE kind = "nurbs"
    BY <1>1, <1>3, <2>1, NurbsAdds DEF AskedSplines
  <2>2. CASE kind # "nurbs"
    BY <1>1, <1>3, <2>2 DEF AskedSplines
  <2> QED BY <2>1, <2>2
<1>5. /\ divergence \notin u
      /\ gradient \in u <=> gradient \in F \/ hessian \in F
      /\ hessian \in u <=> hessian \in F
      /\ face_gradient \in u <=> face_gradient \in F
      /\ value \in F => value \in u
      /\ face_value \in F => face_value \in u
      /\ kind = "nurbs" /\ (gradient \in F \/ hessian \in F) => value \in u
      /\ kind = "nurbs" /\ face_gradient \in F => face_value \in u
  BY <1>2, <1>4 DEF value, gradient, hessian, divergence, face_value, face_gradient
<1>6. s = u
  BY <1>3, <1>5, SplineAddsNothing
<1>7. \A x \in u : x \in {value, gradient, hessian, face_value, face_gradient, measure}
  BY <1>1, <1>4
<1>8. Admits(SpaceAdmissible, u)
  <2>1. PICK A : A = {point, measure, w_measure, face_point, face_w_measure} \cup (value .. face_divergence)
    OBVIOUS
  <2>2. 31 \in A /\ \A x \in u : x \in A /\ x \in 0 .. 31
    BY <1>7, <2>1 DEF value, gradient, hessian, face_value, face_gradient, measure, face_divergence
  <2>3. SpaceAdmissible = (A \cap (0 .. 31)) \cup (32 .. 63)
    BY <2>1, <2>2 DEF SpaceAdmissible, Widen
  <2>4. u \cup SpaceAdmissible = SpaceAdmissible
    BY <2>2, <2>3
  <2>5. SpaceAdmissible \cap (0 .. 31) = A \cap (0 .. 31)
    <3>1. \A x \in 0 .. 31 : x \notin 32 .. 63
      OBVIOUS
    <3> QED BY <2>3, <3>1
  <2> QED BY <2>2, <2>3, <2>4, <2>5 DEF Admits, Or, Widen
<1> QED BY <1>2, <1>3, <1>4, <1>5, <1>6, <1>8

\* What a NURBS computes a quantity from.
Weighted(q) ==
  CASE q = "values" -> {"values"}
    [] q = "gradients" -> {"values", "gradients"}
    [] OTHER -> {"values", "gradients", "hessians"}

\* The caches for topology t hold what the accessors above them need.
Complete(flags, t) ==
  LET plan(o) == Plan(flags, o, t)
  IN  /\ \A o \in {"space", "map", "geometry", "spline", "nurbs"} : plan(o) # {}
      /\ plan("nurbs") \subseteq {"values", "gradients", "hessians"}
      /\ kind = "nurbs" => \A q \in plan("nurbs") : Weighted(q) \subseteq plan("spline")
      /\ plan("map") \cap {"values", "gradients", "hessians"} \subseteq plan("geometry")
      /\ plan("map") \cap {"inv_gradients", "measures", "w_measures"} # {} => "gradients" \in plan("map")
      /\ "inv_hessians" \in plan("map") => {"hessians", "inv_gradients"} \subseteq plan("map")
      /\ "w_measures" \in plan("map") => "w_measures" \in plan("grid")
      /\ "values" \in plan("space") => "values" \in plan(Ref)
      /\ "gradients" \in plan("space") => "gradients" \in plan(Ref) /\ "inv_gradients" \in plan("map")
      /\ "hessians" \in plan("space") =>
           {"gradients", "hessians"} \subseteq plan(Ref) /\ {"inv_gradients", "hessians"} \subseteq plan("map")
      /\ "divergences" \in plan("space") => "gradients" \in plan("space")

\* No assertion fails while the caches are initialised.
Initialises(flags) ==
  /\ Admits(SpaceAdmissible, AskedSplines(flags))
  /\ Admits(GridAdmissible, MappingGridFlags(AskedMapping(flags)))
  /\ Admits(MappingAdmissible, AskedMapping(flags))
  /\ Admits(SpaceAdmissible, AskedGeometry(flags))
  /\ \A o \in {"space", "map", "geometry", "spline", "nurbs"} :
       Plan(flags, o, "element") \cup Plan(flags, o, "first") # {}

\* The caches of the mapping, of the geometry and of the grid.
LEMMA MappingPlan ==
  ASSUME NEW F, Asks(F)
  PROVE  /\ \A q : q \in Plan(F, "map", "element") <=>
              \/ (point \in F \/ AsksPoints(F)) /\ q = "values"
              \/ (w_measure \in F \/ AsksInverse(F)) /\ q \in {"gradients", "measures"}
              \/ hessian \in F /\ q = "hessians"
              \/ AsksInverse(F) /\ q = "inv_gradients"
              \/ w_measure \in F /\ q = "w_measures"
         /\ \A q : \A t \in Faces : q \in Plan(F, "map", t) <=>
              \/ (face_point \in F \/ AsksPoints(F)) /\ q = "values"
              \/ ({w_measure, face_w_measure, face_normal} \cap F # {} \/ AsksInverse(F)) /\ q = "gradients"
              \/ ({face_w_measure, face_normal} \cap F # {} \/ AsksInverse(F)) /\ q = "measures"
              \/ hessian \in F /\ q \in {"hessians", "inv_hessians"}
              \/ (face_normal \in F \/ AsksInverse(F)) /\ q = "inv_gradients"
              \/ face_w_measure \in F /\ q = "w_measures"
              \/ face_normal \in F /\ q = "normals"
         /\ "values" \in Plan(F, "geometry", "element") <=> point \in F \/ AsksPoints(F)
         /\ "gradients" \in Plan(F, "geometry", "element") <=> w_measure \in F \/ AsksInverse(F)
         /\ "hessians" \in Plan(F, "geometry", "element") <=> hessian \in F
         /\ \A t \in Faces :
              /\ "values" \in Plan(F, "geometry", t) <=> face_point \in F \/ AsksPoints(F)
              /\ "gradients" \in Plan(F, "geometry", t) <=>
                   {w_measure, face_w_measure, face_normal} \cap F # {} \/ AsksInverse(F)
         /\ w_measure \in F => "w_measures" \in Plan(F, "grid", "element")
         /\ face_w_measure \in F => \A t \in Faces : "w_measures" \in Plan(F, "grid", t)
<1>1. PICK a, m : a = AskedMapping(F) /\ m = MappingCacheFlags(a)
  OBVIOUS
<1>2. m = MappingCacheFlags(AskedMapping(F))
  BY <1>1
<1>3. \A t \in Faces : t # "element"
  BY DEF Faces
<1>4. m \subseteq Low
  BY <1>2, MappingIsAsked
<1>5. ASSUME NEW q
      PROVE  q \in Plan(F, "map", "element") <=>
              \/ (point \in F \/ AsksPoints(F)) /\ q = "values"
              \/ (w_measure \in F \/ AsksInverse(F)) /\ q \in {"gradients", "measures"}
              \/ hessian \in F /\ q = "hessians"
              \/ AsksInverse(F) /\ q = "inv_gradients"
              \/ w_measure \in F /\ q = "w_measures"
  <2>1. Plan(F, "map", "element") = Fills(MappingElem, m)
    BY <1>2 DEF Plan, MappingHandler
  <2>2. q \in Fills(MappingElem, m) <=>
                     \/ point \in m /\ q = "values"
                     \/ map_gradient \in m /\ q = "gradients"
                     \/ map_hessian \in m /\ q = "hessians"
                     \/ map_inv_gradient \in m /\ q \in {"gradients", "measures", "inv_gradients"}
                     \/ map_inv_hessian \in m /\ q \in {"hessians", "inv_hessians"}
                     \/ measure \in m /\ q \in {"gradients", "measures"}
                     \/ w_measure \in m /\ q \in {"gradients", "measures", "w_measures"}
    BY <1>4, LowMapping
  <2>3. /\ point \in m <=> point \in F \/ AsksPoints(F)
        /\ w_measure \in m <=> w_measure \in F
        /\ measure \in m <=> w_measure \in F \/ AsksInverse(F)
        /\ map_gradient \in m <=> w_measure \in F \/ AsksInverse(F)
        /\ map_hessian \in m <=> hessian \in F
        /\ map_inv_gradient \in m <=> AsksInverse(F)
        /\ map_inv_hessian \notin m
    BY <1>2, MappingIsAsked
  <2> QED BY <2>1, <2>2, <2>3
<1>6. ASSUME NEW q, NEW t \in Faces
      PROVE  q \in Plan(F, "map", t) <=>
              \/ (face_point \in F \/ AsksPoints(F)) /\ q = "values"
              \/ ({w_measure, face_w_measure, face_normal} \cap F # {} \/ AsksInverse(F)) /\ q = "gradients"
              \/ ({face_w_measure, face_normal} \cap F # {} \/ AsksInverse(F)) /\ q = "measures"
              \/ hessian \in F /\ q \in {"hessians", "inv_hessians"}
              \/ (face_normal \in F \/ AsksInverse(F)) /\ q = "inv_gradients"
              \/ face_w_measure \in F /\ q = "w_measures"
              \/ face_normal \in F /\ q = "normals"
  <2>1. Plan(F, "map", t) = Fills(MappingFace, m)
    BY <1>2, <1>3 DEF Plan, MappingHandler
  <2>2. q \in Fills(MappingFace, m) <=>
                     \/ face_point \in m /\ q = "values"
                     \/ map_face_gradient \in m /\ q = "gradients"
                     \/ map_face_hessian \in m /\ q = "hessians"
                     \/ map_face_inv_gradient \in m /\ q \in {"gradients", "measures", "inv_gradients"}
                     \/ map_face_inv_hessian \in m /\ q \in {"hessians", "inv_hessians"}
                     \/ face_measure \in m /\ q \in {"gradients", "measures"}
                     \/ face_w_measure \in m /\ q \in {"gradients", "measures", "w_measures"}
                     \/ face_normal \in m /\ q = "normals"
    BY <1>4, LowMapping
  <2>3. /\ face_point \in m <=> face_point \in F \/ AsksPoints(F)
        /\ face_w_measure \in m <=> face_w_measure \in F
        /\ face_normal \in m <=> face_normal \in F
        /\ face_measure \in m <=> face_w_measure \in F \/ AsksInverse(F)
        /\ map_face_gradient \in m <=> {w_measure, face_w_measure, face_normal} \cap F # {} \/ AsksInverse(F)
        /\ map_face_hessian \in m <=> hessian \in F
        /\ map_face_inv_gradient \in m <=> face_normal \in F \/ AsksInverse(F)
        /\ map_face_inv_hessian \in m <=> hessian \in F
    BY <1>2, MappingIsAsked
  <2> QED BY <2>1, <2>2, <2>3
<1>7. PICK g : g = AskedGeometry(F)
  OBVIOUS
<1>8. g = GeometryFlags(m)
  BY <1>2, <1>7 DEF AskedGeometry
<1>9. /\ divergence \notin g
      /\ value \in g <=> point \in F \/ AsksPoints(F)
      /\ face_value \in g <=> face_point \in F \/ AsksPoints(F)
      /\ gradient \in g <=> w_measure \in F \/ AsksInverse(F)
      /\ face_gradient \in g <=> {w_measure, face_w_measure, face_normal} \cap F # {} \/ AsksInverse(F)
      /\ hessian \in g <=> hessian \in F
  <2>1. /\ divergence \notin GeometryFlags(m)
        /\ value \in GeometryFlags(m) <=> point \in m
        /\ face_value \in GeometryFlags(m) <=> face_point \in m
        /\ gradient \in GeometryFlags(m) <=> map_gradient \in m
        /\ face_gradient \in GeometryFlags(m) <=> map_face_gradient \in m
        /\ hessian \in GeometryFlags(m) <=> map_hessian \in m
    BY <1>4, GeometryAdds
  <2>2. /\ point \in m <=> point \in F \/ AsksPoints(F)
        /\ face_point \in m <=> face_point \in F \/ AsksPoints(F)
        /\ map_gradient \in m <=> w_measure \in F \/ AsksInverse(F)
        /\ map_face_gradient \in m <=> {w_measure, face_w_measure, face_normal} \cap F # {} \/ AsksInverse(F)
        /\ map_hessian \in m <=> hessian \in F
    BY <1>2, MappingIsAsked
  <2> QED BY <1>8, <2>1, <2>2
<1>10. SplineCacheFlags(g) = g
  BY <1>9, SplineAddsNothing
<1>11. /\ Plan(F, "geometry", "element") = Fills(BasisElem, g)
       /\ \A t \in Faces : Plan(F, "geometry", t) = Fills(BasisFace, g)
  BY <1>3, <1>7, <1>10 DEF Plan, BasisHandler
<1>12. /\ "values" \in Fills(BasisElem, g) <=> point \in F \/ AsksPoints(F)
       /\ "gradients" \in Fills(BasisElem, g) <=> w_measure \in F \/ AsksInverse(F)
       /\ "hessians" \in Fills(BasisElem, g) <=> hessian \in F
       /\ "values" \in Fills(BasisFace, g) <=> face_point \in F \/ AsksPoints(F)
       /\ "gradients" \in Fills(BasisFace, g) <=>
            {w_measure, face_w_measure, face_normal} \cap F # {} \/ AsksInverse(F)
  BY <1>9, BasisFills
<1>13. /\ w_measure \in F => "w_measures" \in Plan(F, "grid", "element")
       /\ face_w_measure \in F => \A t \in Faces : "w_measures" \in Plan(F, "grid", t)
  <2>1. PICK b : b = MappingGridFlags(a)
    OBVIOUS
  <2>2. /\ Plan(F, "grid", "element") = Fills(GridElem, b)
        /\ \A t \in Faces : Plan(F, "grid", t) = Fills(GridFace, b)
    BY <1>1, <1>3, <2>1 DEF Plan, GridHandler
  <2>3. a \subseteq Low /\ (w_measure \in a <=> w_measure \in F) /\ (face_w_measure \in a <=> face_w_measure \in F)
    BY <1>1, MappingIsAsked
  <2>4. /\ b \subseteq Low /\ (w_measure \in F => w_measure \in b)
        /\ (face_w_measure \in F => face_w_measure \in b)
    BY <2>1, <2>3, GridAdds
  <2>5. /\ w_measure \in b => "w_measures" \in Fills(GridElem, b)
        /\ face_w_measure \in b => "w_measures" \in Fills(GridFace, b)
    BY <2>4, LowMapping
  <2> QED BY <2>2, <2>4, <2>5
<1> QED BY <1>5, <1>6, <1>11, <1>12, <1>13

\* The caches of the space, of its reference space and of the B-splines under a NURBS.
LEMMA BasisPlan ==
  ASSUME NEW F, Asks(F)
  PROVE  /\ "values" \in Plan(F, "space", "element") <=> value \in F
         /\ "gradients" \in Plan(F, "space", "element") <=> gradient \in F \/ divergence \in F
         /\ "hessians" \in Plan(F, "space", "element") <=> hessian \in F
         /\ "divergences" \in Plan(F, "space", "element") <=> divergence \in F
         /\ "values" \in Plan(F, "nurbs", "element") <=> value \in F
         /\ "gradients" \in Plan(F, "nurbs", "element") <=> gradient \in F \/ hessian \in F
         /\ "hessians" \in Plan(F, "nurbs", "element") <=> hessian \in F
         /\ "divergences" \notin Plan(F, "nurbs", "element")
         /\ value \in F => "values" \in Plan(F, "spline", "element")
         /\ kind = "nurbs" /\ (gradient \in F \/ hessian \in F) => "values" \in Plan(F, "spline", "element")
         /\ "gradients" \in Plan(F, "spline", "element") <=> gradient \in F \/ hessian \in F
         /\ "hessians" \in Plan(F, "spline", "element") <=> hessian \in F
         /\ \A t \in Faces :
              /\ "values" \in Plan(F, "space", t) <=> face_value \in F
              /\ "gradients" \in Plan(F, "space", t) <=> face_gradient \in F
              /\ "hessians" \notin Plan(F, "space", t) /\ "divergences" \notin Plan(F, "space", t)
              /\ "values" \in Plan(F, "nurbs", t) <=> face_value \in F
              /\ "gradients" \in Plan(F, "nurbs", t) <=> face_gradient \in F
              /\ "hessians" \notin Plan(F, "nurbs", t) /\ "divergences" \notin Plan(F, "nurbs", t)
              /\ face_value \in F => "values" \in Plan(F, "spline", t)
              /\ kind = "nurbs" /\ face_gradient \in F => "values" \in Plan(F, "spline", t)
              /\ "gradients" \in Plan(F, "spline", t) <=> face_gradient \in F
<1>1. PICK r : r = ReferenceSpaceFlags(F)
  OBVIOUS
<1>2. PICK s : s = SplineCacheFlags(AskedSplines(F))
  OBVIOUS
<1>3. /\ divergence \notin r /\ divergence \notin s
      /\ value \in r <=> value \in F
      /\ gradient \in r <=> gradient \in F \/ hessian \in F
      /\ hessian \in r <=> hessian \in F
      /\ face_value \in r <=> face_value \in F
      /\ face_gradient \in r <=> face_gradient \in F
      /\ gradient \in s <=> gradient \in F \/ hessian \in F
      /\ hessian \in s <=> hessian \in F
      /\ face_gradient \in s <=> face_gradient \in F
      /\ value \in F => value \in s
      /\ face_value \in F => face_value \in s
      /\ kind = "nurbs" /\ (gradient \in F \/ hessian \in F) => value \in s
      /\ kind = "nurbs" /\ face_gradient \in F => face_value \in s
  BY <1>1, <1>2, ReferenceIsAsked
<1>4. \A t \in Faces : t # "element"
  BY DEF Faces
<1>5. /\ Plan(F, "space", "element") = Fills(BasisElem, F)
      /\ Plan(F, "nurbs", "element") = Fills(BasisElem, r)
      /\ Plan(F, "spline", "element") = Fills(BasisElem, s)
  BY <1>1, <1>2 DEF Plan, BasisHandler
<1>6. ASSUME NEW t \in Faces
      PROVE  /\ Plan(F, "space", t) = Fills(BasisFace, F)
             /\ Plan(F, "nurbs", t) = Fills(BasisFace, r)
             /\ Plan(F, "spline", t) = Fills(BasisFace, s)
  BY <1>1, <1>2, <1>4 DEF Plan, BasisHandler
<1>7. /\ "values" \in Plan(F, "space", "element") <=> value \in F
      /\ "gradients" \in Plan(F, "space", "element") <=> gradient \in F \/ divergence \in F
      /\ "hessians" \in Plan(F, "space", "element") <=> hessian \in F
      /\ "divergences" \in Plan(F, "space", "element") <=> divergence \in F
  BY <1>5, BasisFills
<1>8. /\ "values" \in Plan(F, "nurbs", "element") <=> value \in F
      /\ "gradients" \in Plan(F, "nurbs", "element") <=> gradient \in F \/ hessian \in F
      /\ "hessians" \in Plan(F, "nurbs", "element") <=> hessian \in F
      /\ "divergences" \notin Plan(F, "nurbs", "element")
  BY <1>3, <1>5, BasisFills
<1>9. /\ value \in F => "values" \in Plan(F, "spline", "element")
      /\ kind = "nurbs" /\ (gradient \in F \/ hessian \in F) => "values" \in Plan(F, "spline", "element")
      /\ "gradients" \in Plan(F, "spline", "element") <=> gradient \in F \/ hessian \in F
      /\ "hessians" \in Plan(F, "spline", "element") <=> hessian \in F
  BY <1>3, <1>5, BasisFills
<1>10. ASSUME NEW t \in Faces
       PROVE  /\ "values" \in Plan(F, "space", t) <=> face_value \in F
              /\ "gradients" \in Plan(F, "space", t) <=> face_gradient \in F
              /\ "hessians" \notin Plan(F, "space", t) /\ "divergences" \notin Plan(F, "space", t)
              /\ "values" \in Plan(F, "nurbs", t) <=> face_value \in F
              /\ "gradients" \in Plan(F, "nurbs", t) <=> face_gradient \in F
              /\ "hessians" \notin Plan(F, "nurbs", t) /\ "divergences" \notin Plan(F, "nurbs", t)
              /\ face_value \in F => "values" \in Plan(F, "spline", t)
              /\ kind = "nurbs" /\ face_gradient \in F => "values" \in Plan(F, "spline", t)
              /\ "gradients" \in Plan(F, "spline", t) <=> face_gradient \in F
  BY <1>3, <1>6, BasisFills
<1> QED BY <1>7, <1>8, <1>9, <1>10

\* A servable request plans, on each topology it names, all that its filling needs.
LEMMA ServableComplete ==
  ASSUME NEW F, Servable(F), NEW t \in Topology, F \cap FlagsOf(t) # {}
  PROVE  Complete(F, t)
<1>1. Asks(F)
  BY DEF Servable
<1>2. (Ref = "nurbs" /\ kind = "nurbs") \/ (Ref = "spline" /\ kind # "nurbs")
  BY DEF Ref
<1>3. CASE t = "element"
  <2>1. value \in F \/ gradient \in F \/ hessian \in F
    BY <1>3 DEF Servable
  <2>2. divergence \in F => gradient \in F \/ hessian \in F
    BY DEF Servable
  <2>3. /\ value \in F => AsksPoints(F)
        /\ gradient \in F \/ hessian \in F => AsksInverse(F)
    BY DEF AsksPoints, AsksInverse
  <2>4. /\ \A q : q \in Plan(F, "map", "element") <=>
              \/ (point \in F \/ AsksPoints(F)) /\ q = "values"
              \/ (w_measure \in F \/ AsksInverse(F)) /\ q \in {"gradients", "measures"}
              \/ hessian \in F /\ q = "hessians"
              \/ AsksInverse(F) /\ q = "inv_gradients"
              \/ w_measure \in F /\ q = "w_measures"
        /\ "values" \in Plan(F, "geometry", "element") <=> point \in F \/ AsksPoints(F)
        /\ "gradients" \in Plan(F, "geometry", "element") <=> w_measure \in F \/ AsksInverse(F)
        /\ "hessians" \in Plan(F, "geometry", "element") <=> hessian \in F
        /\ w_measure \in F => "w_measures" \in Plan(F, "grid", "element")
    BY <1>1, MappingPlan
  <2>5. /\ "values" \in Plan(F, "space", "element") <=> value \in F
        /\ "gradients" \in Plan(F, "space", "element") <=> gradient \in F \/ divergence \in F
        /\ "hessians" \in Plan(F, "space", "element") <=> hessian \in F
        /\ "divergences" \in Plan(F, "space", "element") <=> divergence \in F
        /\ "values" \in Plan(F, "nurbs", "element") <=> value \in F
        /\ "gradients" \in Plan(F, "nurbs", "element") <=> gradient \in F \/ hessian \in F
        /\ "hessians" \in Plan(F, "nurbs", "element") <=> hessian \in F
        /\ "divergences" \notin Plan(F, "nurbs", "element")
        /\ value \in F => "values" \in Plan(F, "spline", "element")
        /\ kind = "nurbs" /\ (gradient \in F \/ hessian \in F) => "values" \in Plan(F, "spline", "element")
        /\ "gradients" \in Plan(F, "spline", "element") <=> gradient \in F \/ hessian \in F
        /\ "hessians" \in Plan(F, "spline", "element") <=> hessian \in F
    BY <1>1, BasisPlan
  <2>6. /\ Plan(F, "space", "element") # {} /\ Plan(F, "nurbs", "element") # {}
        /\ Plan(F, "spline", "element") # {} /\ Plan(F, "map", "element") # {}
        /\ Plan(F, "geometry", "element") # {}
    BY <2>1, <2>3, <2>4, <2>5
  <2>7. Plan(F, "nurbs", "element") \subseteq {"values", "gradients", "hessians"}
    <3>1. Plan(F, "nurbs", "element") \subseteq SpaceQuantities
      BY FillsNamed DEF Plan, BasisHandler
    <3> QED BY <2>5, <3>1 DEF SpaceQuantities
  <2>8. kind = "nurbs" =>
          \A q \in Plan(F, "nurbs", "element") : Weighted(q) \subseteq Plan(F, "spline", "element")
    BY <2>5, <2>7 DEF Weighted
  <2>9. /\ Plan(F, "map", "element") \cap {"values", "gradients", "hessians"} \subseteq Plan(F, "geometry", "element")
        /\ "gradients" \in Plan(F, "map", "element") <=> w_measure \in F \/ AsksInverse(F)
        /\ "hessians" \in Plan(F, "map", "element") <=> hessian \in F
        /\ "inv_gradients" \in Plan(F, "map", "element") <=> AsksInverse(F)
        /\ "inv_hessians" \notin Plan(F, "map", "element")
        /\ "w_measures" \in Plan(F, "map", "element") <=> w_measure \in F
        /\ "measures" \in Plan(F, "map", "element") <=> w_measure \in F \/ AsksInverse(F)
    BY <2>4
  <2>10. /\ "values" \in Plan(F, "space", "element") => "values" \in Plan(F, Ref, "element")
         /\ "gradients" \in Plan(F, "space", "element") => "gradients" \in Plan(F, Ref, "element")
         /\ "hessians" \in Plan(F, "space", "element") => {"gradients", "hessians"} \subseteq Plan(F, Ref, "element")
    BY <1>2, <2>2, <2>5
  <2>11. /\ "gradients" \in Plan(F, "space", "element") => AsksInverse(F)
         /\ "hessians" \in Plan(F, "space", "element") => AsksInverse(F)
    BY <2>2, <2>3, <2>5
  <2> QED BY <1>3, <2>4, <2>5, <2>6, <2>7, <2>8, <2>9, <2>10, <2>11 DEF Complete
<1>4. CASE t # "element"
  <2>a. t \in Faces /\ FlagsOf(t) = FlagsOf("first")
    BY <1>4 DEF Topology, FlagsOf
  <2>1. (face_value \in F \/ face_gradient \in F) /\ hessian \notin F
    BY <2>a DEF Servable
  <2>3. /\ face_value \in F => AsksPoints(F)
        /\ face_gradient \in F => AsksInverse(F)
    BY DEF AsksPoints, AsksInverse
  <2>4. /\ \A q : q \in Plan(F, "map", t) <=>
              \/ (face_point \in F \/ AsksPoints(F)) /\ q = "values"
              \/ ({w_measure, face_w_measure, face_normal} \cap F # {} \/ AsksInverse(F)) /\ q = "gradients"
              \/ ({face_w_measure, face_normal} \cap F # {} \/ AsksInverse(F)) /\ q = "measures"
              \/ hessian \in F /\ q \in {"hessians", "inv_hessians"}
              \/ (face_normal \in F \/ AsksInverse(F)) /\ q = "inv_gradients"
              \/ face_w_measure \in F /\ q = "w_measures"
              \/ face_normal \in F /\ q = "normals"
        /\ "values" \in Plan(F, "geometry", t) <=> face_point \in F \/ AsksPoints(F)
        /\ "gradients" \in Plan(F, "geometry", t) <=>
             {w_measure, face_w_measure, face_normal} \cap F # {} \/ AsksInverse(F)
        /\ face_w_measure \in F => "w_measures" \in Plan(F, "grid", t)
    BY <1>1, <2>a, MappingPlan
  <2>5. /\ "values" \in Plan(F, "space", t) <=> face_value \in F
        /\ "gradients" \in Plan(F, "space", t) <=> face_gradient \in F
        /\ "hessians" \notin Plan(F, "space", t) /\ "divergences" \notin Plan(F, "space", t)
        /\ "values" \in Plan(F, "nurbs", t) <=> face_value \in F
        /\ "gradients" \in Plan(F, "nurbs", t) <=> face_gradient \in F
        /\ "hessians" \notin Plan(F, "nurbs", t) /\ "divergences" \notin Plan(F, "nurbs", t)
        /\ face_value \in F => "values" \in Plan(F, "spline", t)
        /\ kind = "nurbs" /\ face_gradient \in F => "values" \in Plan(F, "spline", t)
        /\ "gradients" \in Plan(F, "spline", t) <=> face_gradient \in F
    BY <1>1, <2>a, BasisPlan
  <2>6. /\ Plan(F, "space", t) # {} /\ Plan(F, "nurbs", t) # {}
        /\ Plan(F, "spline", t) # {} /\ Plan(F, "map", t) # {}
        /\ Plan(F, "geometry", t) # {}
    BY <2>1, <2>3, <2>4, <2>5
  <2>7. Plan(F, "nurbs", t) \subseteq {"values", "gradients", "hessians"}
    <3>1. Plan(F, "nurbs", t) \subseteq SpaceQuantities
      BY FillsNamed DEF Plan, BasisHandler
    <3> QED BY <2>5, <3>1 DEF SpaceQuantities
  <2>8. kind = "nurbs" =>
          \A q \in Plan(F, "nurbs", t) : Weighted(q) \subseteq Plan(F, "spline", t)
    BY <2>5, <2>7 DEF Weighted
  <2>9. /\ Plan(F, "map", t) \cap {"values", "gradients", "hessians"} \subseteq Plan(F, "geometry", t)
        /\ Plan(F, "map", t) \cap {"inv_gradients", "measures", "w_measures"} # {} => "gradients" \in Plan(F, "map", t)
        /\ AsksInverse(F) => "inv_gradients" \in Plan(F, "map", t)
        /\ "inv_hessians" \notin Plan(F, "map", t)
        /\ "w_measures" \in Plan(F, "map", t) => face_w_measure \in F
    BY <2>1, <2>4
  <2>10. /\ "values" \in Plan(F, "space", t) => "values" \in Plan(F, Ref, t)
         /\ "gradients" \in Plan(F, "space", t) => "gradients" \in Plan(F, Ref, t)
    BY <1>2, <2>5
  <2>11. "gradients" \in Plan(F, "space", t) => AsksInverse(F)
    BY <2>3, <2>5
  <2> QED BY <2>4, <2>5, <2>6, <2>7, <2>8, <2>9, <2>10, <2>11 DEF Complete
<1> QED BY <1>3, <1>4

\* While it initialises the caches, no assertion fails.
LEMMA ServableInitialises ==
  ASSUME NEW F, Servable(F)
  PROVE  Initialises(F)
<1>1. Asks(F)
  BY DEF Servable
<1>2. \E t \in {"element", "first"} : F \cap FlagsOf(t) # {}
  <2>1. \A f \in F : f \in FlagsOf("element") \/ f \in FlagsOf("first")
    BY <1>1 DEF Asks, FlagsOf
  <2> QED BY <2>1 DEF Servable
<1>3. \E t \in {"element", "first"} : Complete(F, t)
  BY <1>2, ServableComplete DEF Topology, Faces
<1>4. \A o \in {"space", "map", "geometry", "spline", "nurbs"} :
        Plan(F, o, "element") \cup Plan(F, o, "first") # {}
  BY <1>3 DEF Complete
<1>5. Admits(SpaceAdmissible, AskedSplines(F))
  BY <1>1, ReferenceIsAsked
<1>6. PICK a, m : a = AskedMapping(F) /\ m = MappingCacheFlags(AskedMapping(F))
  OBVIOUS
<1>7. a \subseteq Low /\ m \subseteq Low /\ a \subseteq MappingAdmissible
  BY <1>1, <1>6, MappingIsAsked
<1>8. Admits(SpaceAdmissible, AskedGeometry(F))
  BY <1>6, <1>7, GeometryAdds DEF AskedGeometry
<1>9. Admits(MappingAdmissible, a)
  <2>1. \A x \in MappingAdmissible : x \in Low
    BY DEF MappingAdmissible, Low, measure, w_measure, face_point, face_measure, face_w_measure,
           face_normal, point, map_gradient, map_face_inv_hessian
  <2> QED BY <1>7, <2>1, LowWidens, LowAdmits
<1>10. Admits(GridAdmissible, MappingGridFlags(a))
  <2>1. \A x \in GridAdmissible : x \in Low
    BY DEF GridAdmissible, Low, measure, w_measure, face_point, face_measure, face_w_measure,
           face_normal, point
  <2>2. /\ MappingGridFlags(a) \subseteq Low
        /\ \A x \in MappingGridFlags(a) : x \in {point, w_measure, face_point, face_w_measure}
    BY <1>7, GridAdds
  <2>3. MappingGridFlags(a) \subseteq GridAdmissible
    BY <2>2 DEF GridAdmissible
  <2> QED BY <2>1, <2>2, <2>3, LowWidens, LowAdmits
<1> QED BY <1>4, <1>5, <1>6, <1>8, <1>9, <1>10 DEF Initialises

\* What it asked for is planned in the cache its getter looks in.
LEMMA GettersPlanned ==
  ASSUME NEW F, Servable(F), NEW t \in Topology, NEW f \in F \cap FlagsOf(t)
  PROVE  Getter(f)[1] \in {"space", "map"} /\ Getter(f)[2] \in Plan(F, Getter(f)[1], t)
<1>1. Asks(F)
  BY DEF Servable
<1>2. CASE t = "element"
  <2>1. f \in {point, measure, w_measure, value, gradient, hessian, divergence}
    BY <1>2 DEF FlagsOf
  <2>2. /\ Getter(value) = <<"space", "values">> /\ Getter(gradient) = <<"space", "gradients">>
        /\ Getter(hessian) = <<"space", "hessians">> /\ Getter(divergence) = <<"space", "divergences">>
        /\ Getter(point) = <<"map", "values">> /\ Getter(measure) = <<"map", "measures">>
        /\ Getter(w_measure) = <<"map", "w_measures">>
    BY DEF Getter, point, measure, w_measure, value, gradient, hessian, divergence, face_value,
           face_gradient, face_hessian, face_divergence, face_point, face_w_measure
  <2>3. measure \in F => w_measure \in F \/ AsksInverse(F)
    BY DEF Servable, AsksInverse
  <2>4. /\ point \in F => "values" \in Plan(F, "map", "element")
        /\ measure \in F => "measures" \in Plan(F, "map", "element")
        /\ w_measure \in F => "w_measures" \in Plan(F, "map", "element")
    BY <1>1, <2>3, MappingPlan
  <2>5. /\ value \in F => "values" \in Plan(F, "space", "element")
        /\ gradient \in F => "gradients" \in Plan(F, "space", "element")
        /\ hessian \in F => "hessians" \in Plan(F, "space", "element")
        /\ divergence \in F => "divergences" \in Plan(F, "space", "element")
    BY <1>1, BasisPlan
  <2> QED BY <1>2, <2>1, <2>2, <2>4, <2>5
<1>3. CASE t # "element"
  <2>1. t \in Faces /\ f \in {face_point, face_w_measure, face_normal, face_value, face_gradient}
    <3>1. f \in {point, measure, w_measure, value, gradient, hessian, divergence,
                 face_point, face_w_measure, face_normal, face_value, face_gradient}
      BY <1>1 DEF Asks
    <3>2. f \in {face_point, face_w_measure, face_normal, face_value, face_gradient, face_hessian,
                 face_divergence}
      BY <1>3 DEF FlagsOf
    <3>3. f # face_hessian /\ f # face_divergence
      BY <3>1 DEF point, measure, w_measure, value, gradient, hessian, divergence, face_value,
           face_gradient, face_hessian, face_divergence, face_point, face_w_measure, face_normal
    <3> QED BY <1>3, <3>2, <3>3 DEF Topology
  <2>2. /\ Getter(face_value) = <<"space", "values">> /\ Getter(face_gradient) = <<"space", "gradients">>
        /\ Getter(face_point) = <<"map", "values">> /\ Getter(face_normal) = <<"map", "normals">>
        /\ Getter(face_w_measure) = <<"map", "w_measures">>
    BY DEF Getter, point, measure, w_measure, value, gradient, hessian, divergence, face_value,
           face_gradient, face_hessian, face_divergence, face_point, face_w_measure, face_normal
  <2>4. /\ face_point \in F => "values" \in Plan(F, "map", t)
        /\ face_normal \in F => "normals" \in Plan(F, "map", t)
        /\ face_w_measure \in F => "w_measures" \in Plan(F, "map", t)
    BY <1>1, <2>1, MappingPlan
  <2>5. /\ face_value \in F => "values" \in Plan(F, "space", t)
        /\ face_gradient \in F => "gradients" \in Plan(F, "space", t)
    BY <1>1, <2>1, BasisPlan
  <2> QED BY <2>1, <2>2, <2>4, <2>5
<1> QED BY <1>2, <1>3

-----------------------------------------------------------------------------
(* What an element that serves its requests keeps true.                      *)

\* The accessors behind the element.
Used == IF kind = "nurbs" THEN Owner ELSE Owner \ {"nurbs"}

\* Their caches of topology t are made for flags.
Planned(s, flags, t) ==
  \A o \in Used : s.cache[o][t].status # "none" /\ s.cache[o][t].fills = Plan(flags, o, t)

Serving ==
  /\ ~stopped
  /\ requested # {} => requested \in Requests
  /\ \A t \in Topology : requested \cap FlagsOf(t) # {} => Planned(Now, requested, t)
  /\ normals => NormalsAsked
  /\ \A t \in fresh :
       /\ requested \cap FlagsOf(t) # {}
       /\ \A o \in {"space", "map", Ref} : Holds(Now, o, t, Plan(requested, o, t))

\* r is s but for the caches of owner o, which are made to hold elem and face.
ResetTo(r, s, o, elem, face) ==
  /\ WellFormed(r)
  /\ r.ok = s.ok /\ r.normals = s.normals
  /\ \A p \in Owner \ {o} : r.cache[p] = s.cache[p]
  /\ \A t \in Topology :
       LET fills == IF t = "element" THEN elem ELSE face
       IN  fills # {} => r.cache[o][t].status # "none" /\ r.cache[o][t].fills = fills

\* An assertion that holds.
LEMMA RequireHolds ==
  ASSUME NEW s, WellFormed(s), s.ok = TRUE, NEW c, c
  PROVE  Require(s, c).ok = TRUE
<1>1. "ok" \in DOMAIN s
  BY DEF WellFormed
<1> QED BY <1>1 DEF Require

\* Resetting caches.
LEMMA ResetCachesTo ==
  ASSUME NEW s, WellFormed(s), NEW o \in Owner, NEW elem, NEW face,
         o = "space" => elem \cup face \subseteq SpaceQuantities,
         o = "map" => elem \cup face \subseteq MapQuantities
  PROVE  ResetTo(ResetCaches(s, o, elem, face), s, o, elem, face)
<1>1. PICK c : c = s.cache
  OBVIOUS
<1>2. PICK new : new = [t \in Topology |->
                          IF (IF t = "element" THEN elem ELSE face) = {} THEN c[o][t]
                          ELSE [status |-> "initialized", has |-> << >>,
                                fills |-> IF t = "element" THEN elem ELSE face]]
  OBVIOUS
<1>3. PICK r : r = ResetCaches(s, o, elem, face)
  OBVIOUS
<1>4. DOMAIN c = Owner /\ {"cache", "ok", "normals"} \subseteq DOMAIN s
  BY <1>1 DEF WellFormed
<1>5. r = [s EXCEPT !.cache = [c EXCEPT ![o] = new]]
  BY <1>1, <1>2, <1>3, <1>4 DEF ResetCaches
<1>6. r.ok = s.ok /\ r.normals = s.normals /\ r.cache = [c EXCEPT ![o] = new]
  BY <1>4, <1>5
<1>7. \A p \in Owner : r.cache[p] = IF p = o THEN new ELSE c[p]
  BY <1>4, <1>6
<1>8. ASSUME NEW t \in Topology, (IF t = "element" THEN elem ELSE face) # {}
      PROVE  /\ r.cache[o][t].status # "none"
             /\ r.cache[o][t].fills = IF t = "element" THEN elem ELSE face
  <2>1. new[t].status = "initialized" /\ new[t].fills = IF t = "element" THEN elem ELSE face
    BY <1>2, <1>8
  <2> QED BY <1>7, <2>1
<1>9. WellFormed(r)
  BY <1>3, ResetKeeps DEF Initialised
<1> QED BY <1>1, <1>3, <1>6, <1>7, <1>8, <1>9 DEF ResetTo

\* Resetting the caches of a basis that is to hold something.
LEMMA ResetBasisTo ==
  ASSUME NEW s, WellFormed(s), s.ok = TRUE, NEW o \in Owner \ {"map"}, NEW flags,
         Fills(BasisElem, flags) \cup Fills(BasisFace, flags) # {}
  PROVE  ResetTo(ResetBasis(s, o, flags), s, o, Fills(BasisElem, flags), Fills(BasisFace, flags))
<1>1. PICK elem, face : elem = Fills(BasisElem, flags) /\ face = Fills(BasisFace, flags)
  OBVIOUS
<1>2. elem \cup face \subseteq SpaceQuantities
  BY <1>1, FillsNamed
<1>3. PICK x : x = Require(s, elem \cup face # {})
  OBVIOUS
<1>4. WellFormed(x) /\ x.normals = s.normals /\ x.cache = s.cache /\ x.ok = TRUE
  BY <1>1, <1>3, RequireKeeps, RequireHolds
<1>5. ResetTo(ResetCaches(x, o, elem, face), x, o, elem, face)
  BY <1>2, <1>4, ResetCachesTo
<1>6. ResetBasis(s, o, flags) = ResetCaches(x, o, elem, face)
  BY <1>1, <1>3 DEF ResetBasis
<1> QED BY <1>1, <1>4, <1>5, <1>6 DEF ResetTo

\* A spline accessor.
LEMMA SplineInitTo ==
  ASSUME NEW s, WellFormed(s), s.ok = TRUE, NEW o \in {"spline", "geometry"}, NEW flags,
         Admits(SpaceAdmissible, flags), NEW f, f = SplineCacheFlags(flags),
         Fills(BasisElem, f) \cup Fills(BasisFace, f) # {}
  PROVE  ResetTo(SplineInit(s, o, flags), s, o, Fills(BasisElem, f), Fills(BasisFace, f))
<1>1. PICK x : x = Require(s, Admits(SpaceAdmissible, flags))
  OBVIOUS
<1>2. WellFormed(x) /\ x.normals = s.normals /\ x.cache = s.cache /\ x.ok = TRUE
  BY <1>1, RequireKeeps, RequireHolds
<1>3. PICK b : b = [x.built EXCEPT ![o] = generation]
  OBVIOUS
<1>4. PICK y : y = [x EXCEPT !.built = b]
  OBVIOUS
<1>5. "built" \in DOMAIN x /\ DOMAIN x.built = Parts /\ o \in Owner \ {"map"}
  BY <1>2 DEF WellFormed, Owner, Parts
<1>6. /\ DOMAIN y = DOMAIN x /\ y.at = x.at /\ y.cache = x.cache /\ y.built = b
      /\ y.ok = TRUE /\ y.normals = x.normals
  BY <1>2, <1>4 DEF WellFormed
<1>7. WellFormed(y)
  <2>1. DOMAIN b = Parts
    BY <1>3, <1>5
  <2> QED BY <1>2, <1>6, <2>1 DEF WellFormed
<1>8. SplineInit(s, o, flags) = ResetBasis(y, o, f)
  <2>1. y = [x EXCEPT !.built[o] = generation]
    BY <1>3, <1>4, <1>5
  <2> QED BY <1>1, <2>1 DEF SplineInit
<1>9. ResetTo(ResetBasis(y, o, f), y, o, Fills(BasisElem, f), Fills(BasisFace, f))
  BY <1>5, <1>6, <1>7, ResetBasisTo
<1> QED BY <1>2, <1>6, <1>8, <1>9 DEF ResetTo

\* The grid accessor of the mapping.
LEMMA GridInitTo ==
  ASSUME NEW s, WellFormed(s), s.ok = TRUE, NEW flags, Admits(GridAdmissible, flags)
  PROVE  ResetTo(GridInit(s, flags), s, "grid", Fills(GridElem, flags), Fills(GridFace, flags))
         /\ \A t \in Topology :
              /\ GridInit(s, flags).cache["grid"][t].status # "none"
              /\ GridInit(s, flags).cache["grid"][t].fills = Fills(GridHandler(t), flags)
<1>1. PICK new : new = [t \in Topology |->
                          [status |-> "initialized", has |-> << >>,
                           fills |-> Fills(IF t = "element" THEN GridElem ELSE GridFace, flags)]]
  OBVIOUS
<1>2. PICK b, c : /\ b = [s.built EXCEPT !["map"] = generation]
                  /\ c = [s.cache EXCEPT !["grid"] = new]
  OBVIOUS
<1>3. PICK r : r = [[s EXCEPT !.built = b] EXCEPT !.cache = c]
  OBVIOUS
<1>4. GridInit(s, flags) = Require(r, Admits(GridAdmissible, flags))
  <2>1. /\ {"built", "cache"} \subseteq DOMAIN s /\ "map" \in DOMAIN s.built /\ "grid" \in DOMAIN s.cache
    BY DEF WellFormed, Parts, Owner
  <2>2. r = [s EXCEPT !.built["map"] = generation, !.cache["grid"] = new]
    BY <1>2, <1>3, <2>1
  <2> QED BY <1>1, <2>2 DEF GridInit
<1>5. /\ DOMAIN r = DOMAIN s /\ r.at = s.at /\ r.built = b /\ r.cache = c
      /\ r.ok = TRUE /\ r.normals = s.normals
  BY <1>3 DEF WellFormed
<1>6. DOMAIN b = Parts
  BY <1>2 DEF WellFormed, Parts
<1>7. /\ DOMAIN c = Owner /\ \A o \in Owner : c[o] = IF o = "grid" THEN new ELSE s.cache[o]
  BY <1>2 DEF WellFormed, Owner
<1>8. DOMAIN new = Topology /\ \A t \in Topology : IsCache(new[t])
  BY <1>1 DEF IsCache
<1>9. /\ \A o \in Owner : DOMAIN c[o] = Topology
      /\ \A o \in Owner, t \in Topology : IsCache(c[o][t])
  BY <1>7, <1>8 DEF WellFormed
<1>10. c["space"] = s.cache["space"] /\ c["map"] = s.cache["map"]
  BY <1>7 DEF Owner, Parts
<1>11. WellFormed(r)
  BY <1>5, <1>6, <1>7, <1>9, <1>10 DEF WellFormed
<1>12. PICK z : z = Require(r, Admits(GridAdmissible, flags))
  OBVIOUS
<1>13. WellFormed(z) /\ z.ok = TRUE /\ z.normals = s.normals /\ z.cache = c
  BY <1>5, <1>11, <1>12, RequireKeeps, RequireHolds
<1>14. \A t \in Topology : /\ c["grid"][t].status # "none"
                           /\ c["grid"][t].fills = Fills(GridHandler(t), flags)
  BY <1>1, <1>7 DEF GridHandler, Owner
<1>15. ResetTo(z, s, "grid", Fills(GridElem, flags), Fills(GridFace, flags))
  BY <1>7, <1>13, <1>14 DEF ResetTo, GridHandler
<1> QED BY <1>4, <1>12, <1>13, <1>14, <1>15

\* r is s after the mapping has been initialised for what flags F of a space ask of it.
MapPlanned(r, s, F) ==
  /\ WellFormed(r) /\ r.ok = TRUE
  /\ r.normals => s.normals \/ "normals" \in Plan(F, "map", "first")
  /\ \A o \in {"space", "nurbs", "spline"} : r.cache[o] = s.cache[o]
  /\ \A o \in {"map", "geometry"}, t \in Topology : Plan(F, o, t) # {} =>
       r.cache[o][t].status # "none" /\ r.cache[o][t].fills = Plan(F, o, t)
  /\ \A t \in Topology :
       r.cache["grid"][t].status # "none" /\ r.cache["grid"][t].fills = Plan(F, "grid", t)

\* The caches of the mapping, of its grid accessor and of the geometry.
LEMMA MapInitPlans ==
  ASSUME NEW s, WellFormed(s), s.ok = TRUE, NEW F, Initialises(F),
         NEW r, r = MapInit(s, AskedMapping(F))
  PROVE  MapPlanned(r, s, F)
<1>1. PICK a, m : a = AskedMapping(F) /\ m = MappingCacheFlags(a)
  OBVIOUS
<1>2. PICK elem, face : elem = Fills(MappingElem, m) /\ face = Fills(MappingFace, m)
  OBVIOUS
<1>3. \A t \in Topology : t # "element" => t \in Faces
  BY DEF Topology
<1>4. /\ Plan(F, "map", "element") = elem
      /\ Plan(F, "map", "first") = face
      /\ \A t \in Topology : Plan(F, "map", t) = IF t = "element" THEN elem ELSE face
  BY <1>1, <1>2 DEF Plan, MappingHandler
<1>5. PICK c : c = (Admits(MappingAdmissible, a) /\ elem \cup face # {})
  OBVIOUS
<1>6. c
  BY <1>1, <1>4, <1>5 DEF Initialises
<1>7. PICK x : x = Require(s, c)
  OBVIOUS
<1>8. WellFormed(x) /\ x.cache = s.cache /\ x.normals = s.normals /\ x.ok = TRUE
  BY <1>6, <1>7, RequireKeeps, RequireHolds
<1>9. PICK b : b = MappingGridFlags(a)
  OBVIOUS
<1>10. PICK g : g = GridInit(x, b)
  OBVIOUS
<1>11. Admits(GridAdmissible, b)
  BY <1>1, <1>9 DEF Initialises
<1>12. /\ WellFormed(g) /\ g.ok = TRUE /\ g.normals = s.normals
       /\ \A p \in Owner \ {"grid"} : g.cache[p] = s.cache[p]
       /\ \A t \in Topology :
            g.cache["grid"][t].status # "none" /\ g.cache["grid"][t].fills = Fills(GridHandler(t), b)
  <2>1. /\ ResetTo(g, x, "grid", Fills(GridElem, b), Fills(GridFace, b))
        /\ \A t \in Topology : /\ g.cache["grid"][t].status # "none"
                               /\ g.cache["grid"][t].fills = Fills(GridHandler(t), b)
    BY <1>8, <1>10, <1>11, GridInitTo
  <2> QED BY <1>8, <2>1 DEF ResetTo
<1>13. PICK n : n = [g EXCEPT !.normals = @ \/ "normals" \in face]
  OBVIOUS
<1>14. /\ DOMAIN n = DOMAIN g /\ n.at = g.at /\ n.built = g.built /\ n.cache = g.cache /\ n.ok = TRUE
       /\ n.normals = (g.normals \/ "normals" \in face)
  BY <1>12, <1>13 DEF WellFormed
<1>15. WellFormed(n)
  BY <1>12, <1>14 DEF WellFormed
<1>16. PICK y : y = ResetCaches(n, "map", elem, face)
  OBVIOUS
<1>17. ResetTo(y, n, "map", elem, face)
  <2>1. elem \cup face \subseteq MapQuantities
    BY <1>2, FillsNamed
  <2>2. "map" \in Owner
    BY DEF Owner, Parts
  <2> QED BY <1>15, <1>16, <2>1, <2>2, ResetCachesTo
<1>18. PICK h, f : h = GeometryFlags(m) /\ f = SplineCacheFlags(h)
  OBVIOUS
<1>19. /\ Admits(SpaceAdmissible, h)
       /\ \A t \in Topology : Plan(F, "geometry", t) = IF t = "element" THEN Fills(BasisElem, f)
                                                       ELSE Fills(BasisFace, f)
  BY <1>1, <1>18 DEF Initialises, AskedGeometry, Plan, BasisHandler
<1>20. Fills(BasisElem, f) \cup Fills(BasisFace, f) # {}
  <2>1. Plan(F, "geometry", "element") \cup Plan(F, "geometry", "first") # {}
    BY DEF Initialises
  <2> QED BY <1>19, <2>1 DEF Topology, Faces
<1>21. PICK z : z = SplineInit(y, "geometry", h)
  OBVIOUS
<1>22. ResetTo(z, y, "geometry", Fills(BasisElem, f), Fills(BasisFace, f))
  <2>1. WellFormed(y) /\ y.ok = TRUE
    BY <1>14, <1>17 DEF ResetTo
  <2> QED BY <1>18, <1>19, <1>20, <1>21, <2>1, SplineInitTo
<1>23. r = z
  BY <1>1, <1>2, <1>5, <1>7, <1>9, <1>10, <1>13, <1>16, <1>18, <1>21 DEF MapInit
<1>24. {"space", "nurbs", "spline", "map", "geometry", "grid"} = Owner
  BY DEF Owner, Parts
<1>25. WellFormed(z) /\ z.ok = TRUE /\ z.normals = n.normals
  BY <1>14, <1>17, <1>22 DEF ResetTo
<1>26. /\ \A o \in {"space", "nurbs", "spline"} : z.cache[o] = s.cache[o]
       /\ z.cache["grid"] = g.cache["grid"] /\ z.cache["map"] = y.cache["map"]
  BY <1>12, <1>14, <1>17, <1>22, <1>24 DEF ResetTo
<1>27. ASSUME NEW t \in Topology, Plan(F, "map", t) # {}
       PROVE  y.cache["map"][t].status # "none" /\ y.cache["map"][t].fills = Plan(F, "map", t)
  BY <1>4, <1>17, <1>27 DEF ResetTo
<1>28. ASSUME NEW t \in Topology, Plan(F, "geometry", t) # {}
       PROVE  z.cache["geometry"][t].status # "none" /\ z.cache["geometry"][t].fills = Plan(F, "geometry", t)
  BY <1>19, <1>22, <1>28 DEF ResetTo
<1>29. ASSUME NEW t \in Topology
       PROVE  g.cache["grid"][t].status # "none" /\ g.cache["grid"][t].fills = Plan(F, "grid", t)
  <2>1. Plan(F, "grid", t) = Fills(GridHandler(t), b)
    BY <1>1, <1>9 DEF Plan
  <2> QED BY <1>12, <2>1
<1>30. n.normals => s.normals \/ "normals" \in Plan(F, "map", "first")
  BY <1>4, <1>12, <1>14
<1> QED BY <1>23, <1>25, <1>26, <1>27, <1>28, <1>29, <1>30 DEF MapPlanned

\* All caches behind the element.
LEMMA SpaceInitPlans ==
  ASSUME NEW s, WellFormed(s), s.ok = TRUE, NEW F, Servable(F), NEW r, r = SpaceInit(s, F)
  PROVE  /\ r.ok = TRUE
         /\ r.normals => s.normals \/ face_normal \in F
         /\ \A t \in Topology : F \cap FlagsOf(t) # {} => Planned(r, F, t)
<1>1. Initialises(F) /\ Asks(F)
  BY ServableInitialises DEF Servable
<1>2. PICK ref : ref = ReferenceSpaceFlags(F)
  OBVIOUS
<1>3. PICK u : u = AskedSplines(F)
  OBVIOUS
<1>4. PICK f : f = SplineCacheFlags(u)
  OBVIOUS
<1>5. /\ Admits(SpaceAdmissible, u)
      /\ \A t \in Topology : /\ Plan(F, "spline", t) = IF t = "element" THEN Fills(BasisElem, f)
                                                       ELSE Fills(BasisFace, f)
                             /\ Plan(F, "nurbs", t) = IF t = "element" THEN Fills(BasisElem, ref)
                                                      ELSE Fills(BasisFace, ref)
                             /\ Plan(F, "space", t) = IF t = "element" THEN Fills(BasisElem, F)
                                                      ELSE Fills(BasisFace, F)
  BY <1>1, <1>2, <1>3, <1>4 DEF Initialises, Plan, BasisHandler
<1>6. /\ Fills(BasisElem, f) \cup Fills(BasisFace, f) # {}
      /\ Fills(BasisElem, ref) \cup Fills(BasisFace, ref) # {}
      /\ Fills(BasisElem, F) \cup Fills(BasisFace, F) # {}
  <2>1. /\ Plan(F, "spline", "element") \cup Plan(F, "spline", "first") # {}
        /\ Plan(F, "nurbs", "element") \cup Plan(F, "nurbs", "first") # {}
        /\ Plan(F, "space", "element") \cup Plan(F, "space", "first") # {}
    BY <1>1 DEF Initialises
  <2> QED BY <1>5, <2>1 DEF Topology, Faces
<1>7. {"space", "nurbs", "spline", "map", "geometry", "grid"} = Owner
  BY DEF Owner, Parts
<1>8. PICK x : x = SplineInit(s, "spline", u)
  OBVIOUS
<1>9. ResetTo(x, s, "spline", Fills(BasisElem, f), Fills(BasisFace, f))
  BY <1>4, <1>5, <1>6, <1>8, SplineInitTo
<1>10. PICK y : y = IF kind = "nurbs" THEN NurbsInit(s, ref) ELSE SplineInit(s, "spline", ref)
  OBVIOUS
<1>11. /\ WellFormed(y) /\ y.ok = TRUE /\ y.normals = s.normals
       /\ \A t \in Topology : Plan(F, "spline", t) # {} =>
            y.cache["spline"][t].status # "none" /\ y.cache["spline"][t].fills = Plan(F, "spline", t)
       /\ kind = "nurbs" => \A t \in Topology : Plan(F, "nurbs", t) # {} =>
            y.cache["nurbs"][t].status # "none" /\ y.cache["nurbs"][t].fills = Plan(F, "nurbs", t)
  <2>1. ASSUME NEW t \in Topology, Plan(F, "spline", t) # {}
        PROVE  x.cache["spline"][t].status # "none" /\ x.cache["spline"][t].fills = Plan(F, "spline", t)
    BY <1>5, <1>9, <2>1 DEF ResetTo
  <2>2. WellFormed(x) /\ x.ok = TRUE /\ x.normals = s.normals
    BY <1>9 DEF ResetTo
  <2>3. CASE kind = "nurbs"
    <3>1. y = ResetBasis(x, "nurbs", ref)
      BY <1>2, <1>3, <1>8, <1>10, <2>3 DEF NurbsInit, AskedSplines
    <3>2. "nurbs" \in Owner \ {"map"} /\ "spline" \in Owner \ {"nurbs"}
      BY <1>7
    <3>3. ResetTo(y, x, "nurbs", Fills(BasisElem, ref), Fills(BasisFace, ref))
      BY <1>6, <2>2, <3>1, <3>2, ResetBasisTo
    <3>4. WellFormed(y) /\ y.ok = TRUE /\ y.normals = s.normals /\ y.cache["spline"] = x.cache["spline"]
      BY <2>2, <3>2, <3>3 DEF ResetTo
    <3>5. ASSUME NEW t \in Topology, Plan(F, "nurbs", t) # {}
          PROVE  y.cache["nurbs"][t].status # "none" /\ y.cache["nurbs"][t].fills = Plan(F, "nurbs", t)
      BY <1>5, <3>3, <3>5 DEF ResetTo
    <3> QED BY <2>1, <3>4, <3>5
  <2>4. CASE kind # "nurbs"
    <3>1. y = x
      BY <1>2, <1>3, <1>8, <1>10, <2>4 DEF AskedSplines
    <3> QED BY <2>1, <2>2, <2>4, <3>1
  <2> QED BY <2>3, <2>4
<1>12. PICK m : m = MapInit(y, AskedMapping(F))
  OBVIOUS
<1>13. /\ WellFormed(m) /\ m.ok = TRUE
       /\ m.normals => y.normals \/ "normals" \in Plan(F, "map", "first")
       /\ \A o \in {"space", "nurbs", "spline"} : m.cache[o] = y.cache[o]
       /\ \A o \in {"map", "geometry"}, t \in Topology : Plan(F, o, t) # {} =>
            m.cache[o][t].status # "none" /\ m.cache[o][t].fills = Plan(F, o, t)
       /\ \A t \in Topology :
            m.cache["grid"][t].status # "none" /\ m.cache["grid"][t].fills = Plan(F, "grid", t)
  <2>1. WellFormed(y) /\ y.ok = TRUE /\ Initialises(F)
    BY <1>1, <1>11
  <2>2. MapPlanned(m, y, F)
    BY <1>12, <2>1, MapInitPlans
  <2> QED BY <2>2 DEF MapPlanned
<1>14. r = ResetBasis(m, "space", F)
  BY <1>2, <1>10, <1>12 DEF SpaceInit, AskedMapping
<1>15. ResetTo(r, m, "space", Fills(BasisElem, F), Fills(BasisFace, F))
  <2>1. "space" \in Owner \ {"map"}
    BY <1>7
  <2> QED BY <1>6, <1>13, <1>14, <2>1, ResetBasisTo
<1>16. r.ok = TRUE /\ r.normals = m.normals /\ \A p \in Owner \ {"space"} : r.cache[p] = m.cache[p]
  BY <1>13, <1>15 DEF ResetTo
<1>17. ASSUME NEW t \in Topology, F \cap FlagsOf(t) # {}
       PROVE  Planned(r, F, t)
  <2>1. \A o \in {"space", "map", "geometry", "spline", "nurbs"} : Plan(F, o, t) # {}
    BY <1>17, ServableComplete DEF Complete
  <2>2. r.cache["space"][t].status # "none" /\ r.cache["space"][t].fills = Plan(F, "space", t)
    BY <1>5, <1>15, <2>1 DEF ResetTo
  <2>3. \A o \in {"map", "geometry", "grid"} :
          r.cache[o][t].status # "none" /\ r.cache[o][t].fills = Plan(F, o, t)
    BY <1>7, <1>13, <1>16, <2>1
  <2>4. r.cache["spline"][t].status # "none" /\ r.cache["spline"][t].fills = Plan(F, "spline", t)
    BY <1>7, <1>11, <1>13, <1>16, <2>1
  <2>5. kind = "nurbs" =>
          r.cache["nurbs"][t].status # "none" /\ r.cache["nurbs"][t].fills = Plan(F, "nurbs", t)
    BY <1>7, <1>11, <1>13, <1>16, <2>1
  <2> QED BY <1>7, <2>2, <2>3, <2>4, <2>5 DEF Planned, Used
<1>18. "normals" \in Plan(F, "map", "first") => face_normal \in F
  BY <1>1, MappingPlan DEF Faces
<1> QED BY <1>11, <1>13, <1>16, <1>17, <1>18

\* Filling a cache with another status and contents leaves the outcome of the assertions.
LEMMA ReplaceStatus ==
  ASSUME NEW s, WellFormed(s), NEW o \in Owner, NEW t \in Topology, NEW status, NEW has,
         NEW r, r = Replaced(s, o, t, status, has)
  PROVE  r.ok = s.ok /\ r.cache[o][t].status = status /\ r.cache[o][t].has = has
<1>1. PICK c : c = s.cache
  OBVIOUS
<1>2. PICK new : new = [status |-> status, fills |-> c[o][t].fills, has |-> has]
  OBVIOUS
<1>3. new.status = status /\ new.has = has
  BY <1>2
<1>4. r = [s EXCEPT !.cache = [c EXCEPT ![o] = [c[o] EXCEPT ![t] = new]]]
  BY <1>1, <1>2 DEF WellFormed, Replaced
<1>5. r.ok = s.ok /\ r.cache = [c EXCEPT ![o] = [c[o] EXCEPT ![t] = new]]
  BY <1>4 DEF WellFormed
<1>6. DOMAIN c = Owner /\ DOMAIN c[o] = Topology
  BY <1>1 DEF WellFormed
<1> QED BY <1>3, <1>5, <1>6

\* Then it holds what it was to hold.
LEMMA HoldHolds ==
  ASSUME NEW s, WellFormed(s), NEW o \in Owner, NEW t \in Topology, NEW of,
         NEW r, r = Hold(s, o, t, of)
  PROVE  r.ok = s.ok /\ Holds(r, o, t, s.cache[o][t].fills)
<1>1. PICK has : has = [q \in s.cache[o][t].fills |-> of[q]]
  OBVIOUS
<1>2. r = Replaced(s, o, t, "filled", has)
  BY <1>1 DEF Hold, Replaced, WellFormed
<1>3. r.ok = s.ok /\ r.cache[o][t].status = "filled" /\ r.cache[o][t].has = has
  BY <1>2, ReplaceStatus
<1> QED BY <1>1, <1>3 DEF Holds

\* A cache that has been filled was and stays made for the flags.
LEMMA FilledStaysPlanned ==
  ASSUME NEW s, NEW r, NEW F, NEW t \in Topology, NEW o \in Owner, Planned(s, F, t),
         FilledOnly(r, s, {o}, t), r.cache[o][t].status = "filled"
  PROVE  Planned(r, F, t)
<1>1. ASSUME NEW p \in Used
      PROVE  r.cache[p][t].status # "none" /\ r.cache[p][t].fills = Plan(F, p, t)
  <2>1. p \in Owner
    BY DEF Used
  <2>2. /\ r.cache[p][t].fills = s.cache[p][t].fills
        /\ p # o => r.cache[p][t] = s.cache[p][t]
    BY <2>1 DEF FilledOnly
  <2> QED BY <2>2 DEF Planned
<1> QED BY <1>1 DEF Planned

\* A spline accessor at the boundary it is to fill.
LEMMA SplineFillServes ==
  ASSUME NEW s, WellFormed(s), s.ok = TRUE, NEW F, NEW t \in Topology, Planned(s, F, t),
         NEW o \in {"spline", "geometry"}, IsBoundary(s.at[o], t), NEW r, r = SplineFill(s, o, t)
  PROVE  /\ FilledOnly(r, s, {o}, t) /\ r.ok = TRUE /\ Planned(r, F, t)
         /\ Holds(r, o, t, Plan(F, o, t))
<1>1. PICK of : of = [q \in s.cache[o][t].fills |-> {Stamp(s.at[o], t, s.built[o])}]
  OBVIOUS
<1>2. PICK x : x = Require(s, CanFill(s, o, t))
  OBVIOUS
<1>3. o \in Owner /\ o \in Used
  BY DEF Used, Owner, Parts
<1>4. CanFill(s, o, t)
  BY <1>3 DEF CanFill, Planned
<1>5. WellFormed(x) /\ x.cache = s.cache /\ x.ok = TRUE
  BY <1>2, <1>4, RequireKeeps, RequireHolds
<1>6. r = Hold(x, o, t, of)
  BY <1>1, <1>2 DEF SplineFill
<1>7. r.ok = TRUE /\ Holds(r, o, t, s.cache[o][t].fills)
  BY <1>3, <1>5, <1>6, HoldHolds
<1>8. FilledOnly(r, s, {o}, t)
  BY SplineFillClean
<1>9. r.cache[o][t].status = "filled"
  BY <1>7 DEF Holds
<1>10. s.cache[o][t].fills = Plan(F, o, t)
  BY <1>3 DEF Planned
<1> QED BY <1>3, <1>7, <1>8, <1>9, <1>10, FilledStaysPlanned

\* The grid accessor of the mapping.
LEMMA GridFillServes ==
  ASSUME NEW s, WellFormed(s), s.ok = TRUE, NEW F, NEW t \in Topology, Planned(s, F, t),
         IsBoundary(s.at["map"], t), NEW r, r = GridFill(s, t)
  PROVE  /\ FilledOnly(r, s, {"grid"}, t) /\ r.ok = TRUE /\ Planned(r, F, t)
         /\ Holds(r, "grid", t, Plan(F, "grid", t))
<1>1. PICK of : of = [q \in {"measures", "w_measures"} |-> {Stamp(s.at["map"], t, s.built["map"])}]
  OBVIOUS
<1>2. PICK g : g = [s EXCEPT !.at = [o \in Owner |-> @["map"]]]
  OBVIOUS
<1>3. g.cache = s.cache /\ g.at["grid"] = s.at["map"]
  <2>1. {"at", "cache"} \subseteq DOMAIN s /\ "grid" \in Owner
    BY DEF WellFormed, Owner
  <2> QED BY <1>2, <2>1
<1>4. "grid" \in Used /\ "grid" \in Owner
  BY DEF Used, Owner
<1>5. CanFill(g, "grid", t)
  BY <1>3, <1>4 DEF CanFill, Planned
<1>6. PICK x : x = Require(s, CanFill(g, "grid", t))
  OBVIOUS
<1>7. WellFormed(x) /\ x.cache = s.cache /\ x.ok = TRUE
  BY <1>5, <1>6, RequireKeeps, RequireHolds
<1>8. r = Hold(x, "grid", t, of)
  BY <1>1, <1>2, <1>6 DEF GridFill
<1>9. r.ok = TRUE /\ Holds(r, "grid", t, s.cache["grid"][t].fills)
  BY <1>4, <1>7, <1>8, HoldHolds
<1>10. FilledOnly(r, s, {"grid"}, t)
  BY GridFillClean
<1>11. r.cache["grid"][t].status = "filled" /\ s.cache["grid"][t].fills = Plan(F, "grid", t)
  BY <1>4, <1>9 DEF Holds, Planned
<1> QED BY <1>4, <1>9, <1>10, <1>11, FilledStaysPlanned

\* The mapping, after its grid accessor and the geometry.
LEMMA MapFillServes ==
  ASSUME NEW s, WellFormed(s), s.ok = TRUE, NEW F, NEW t \in Topology,
         Planned(s, F, t), Complete(F, t), IsBoundary(s.at["map"], t),
         s.built["geometry"] = s.built["map"],
         normals /\ t # "element" => {"inv_gradients", "normals"} \subseteq Plan(F, "map", t),
         NEW z, z = MapFill(s, t)
  PROVE  z.ok = TRUE /\ Planned(z, F, t) /\ Holds(z, "map", t, Plan(F, "map", t))
<1>1. PICK moved : moved = GeometryMoved(s)
  OBVIOUS
<1>2. /\ WellFormed(moved) /\ moved.cache = s.cache
      /\ moved.at["geometry"] = s.at["map"] /\ moved.at["map"] = s.at["map"]
  BY <1>1, MovedWellFormed DEF Parts
<1>3. moved.ok = TRUE
  BY <1>1 DEF GeometryMoved, WellFormed
<1>4. Planned(moved, F, t)
  BY <1>2 DEF Planned
<1>5. PICK x : x = GridFill(moved, t)
  OBVIOUS
<1>6. /\ FilledOnly(x, moved, {"grid"}, t) /\ x.ok = TRUE /\ Planned(x, F, t)
      /\ Holds(x, "grid", t, Plan(F, "grid", t))
  BY <1>2, <1>3, <1>4, <1>5, GridFillServes
<1>7. WellFormed(x) /\ x.at = moved.at
  BY <1>6 DEF FilledOnly
<1>8. PICK r : r = SplineFill(x, "geometry", t)
  OBVIOUS
<1>9. /\ FilledOnly(r, x, {"geometry"}, t) /\ r.ok = TRUE /\ Planned(r, F, t)
      /\ Holds(r, "geometry", t, Plan(F, "geometry", t))
  <2>1. IsBoundary(x.at["geometry"], t)
    BY <1>2, <1>7
  <2> QED BY <1>6, <1>7, <1>8, <2>1, SplineFillServes
<1>10. WellFormed(r) /\ r.at = moved.at /\ r.cache["grid"][t] = x.cache["grid"][t]
  BY <1>7, <1>9 DEF FilledOnly, Owner
<1>11. Holds(r, "grid", t, Plan(F, "grid", t))
  BY <1>6, <1>10 DEF Holds
<1>12. "map" \in Used /\ "map" \in Owner
  BY DEF Used, Owner, Parts
<1>13. r.cache["map"][t].fills = Plan(F, "map", t) /\ r.cache["map"][t].status # "none"
  BY <1>9, <1>12 DEF Planned
<1>14. MapReady(r, t)
  <2>1. CanFill(r, "map", t)
    BY <1>2, <1>10, <1>13 DEF CanFill
  <2>2. \A q \in Plan(F, "map", t) \cap {"values", "gradients", "hessians"} : Holds(r, "geometry", t, {q})
    BY <1>9 DEF Holds, Complete
  <2>3. "w_measures" \in Plan(F, "map", t) => Holds(r, "grid", t, {"w_measures"})
    BY <1>11 DEF Holds, Complete
  <2>4. /\ Plan(F, "map", t) \cap {"inv_gradients", "measures", "w_measures"} # {} =>
             "gradients" \in Plan(F, "map", t)
        /\ "inv_hessians" \in Plan(F, "map", t) =>
             {"hessians", "inv_gradients"} \subseteq Plan(F, "map", t)
    BY DEF Complete
  <2> QED BY <1>13, <2>1, <2>2, <2>3, <2>4 DEF MapReady
<1>15. PICK y : y = Require(r, MapReady(r, t))
  OBVIOUS
<1>16. WellFormed(y) /\ y.ok = TRUE /\ y.cache = r.cache
  BY <1>9, <1>10, <1>14, <1>15, RequireKeeps, RequireHolds
<1>17. PICK of : z = Hold(y, "map", t, of)
  BY <1>1, <1>5, <1>8, <1>15 DEF MapFill, GeometryMoved
<1>18. z.ok = TRUE /\ Holds(z, "map", t, Plan(F, "map", t))
  BY <1>12, <1>13, <1>16, <1>17, HoldHolds
<1>19. FilledOnly(z, y, {"map"}, t)
  <2>1. FilledOnly(Hold(y, "map", t, of), y, {"map"}, t)
    BY <1>12, <1>16, HoldFills
  <2> QED BY <1>17, <2>1
<1>20. Planned(y, F, t)
  BY <1>9, <1>16 DEF Planned
<1>21. z.cache["map"][t].status = "filled"
  BY <1>18 DEF Holds
<1> QED BY <1>12, <1>18, <1>19, <1>20, <1>21, FilledStaysPlanned

\* A NURBS accessor, after its B-splines.
LEMMA NurbsFillServes ==
  ASSUME NEW s, WellFormed(s), s.ok = TRUE, NEW F, NEW t \in Topology, kind = "nurbs",
         Planned(s, F, t), Complete(F, t),
         IsBoundary(s.at["nurbs"], t), IsBoundary(s.at["spline"], t),
         NEW z, z = NurbsFill(s, t)
  PROVE  /\ FilledOnly(z, s, {"nurbs", "spline"}, t) /\ z.ok = TRUE /\ Planned(z, F, t)
         /\ Holds(z, "nurbs", t, Plan(F, "nurbs", t))
<1>1. "nurbs" \in Owner /\ "nurbs" \in Used
  BY DEF Owner, Parts, Used
<1>2. PICK x : x = Require(s, CanFill(s, "nurbs", t))
  OBVIOUS
<1>3. CanFill(s, "nurbs", t)
  BY <1>1 DEF CanFill, Planned
<1>4. WellFormed(x) /\ x.at = s.at /\ x.cache = s.cache /\ x.ok = TRUE
  BY <1>2, <1>3, RequireKeeps, RequireHolds
<1>5. Planned(x, F, t)
  BY <1>4 DEF Planned
<1>6. PICK r : r = SplineFill(x, "spline", t)
  OBVIOUS
<1>7. /\ FilledOnly(r, x, {"spline"}, t) /\ r.ok = TRUE /\ Planned(r, F, t)
      /\ Holds(r, "spline", t, Plan(F, "spline", t))
  BY <1>4, <1>5, <1>6, SplineFillServes
<1>8. FilledOnly(r, s, {"spline"}, t)
  BY <1>2, <1>7, FilledRequire
<1>9. PICK needs : needs = [q \in {"values", "gradients", "hessians"} |->
                              CASE q = "values" -> {"values"}
                                [] q = "gradients" -> {"values", "gradients"}
                                [] OTHER -> {"values", "gradients", "hessians"}]
  OBVIOUS
<1>10. s.cache["nurbs"][t].fills = Plan(F, "nurbs", t)
  BY <1>1 DEF Planned
<1>11. PICK computed : computed = s.cache["nurbs"][t].fills \cap DOMAIN needs
  OBVIOUS
<1>12. computed = Plan(F, "nurbs", t)
  BY <1>9, <1>10, <1>11 DEF Complete
<1>13. PICK c : c = \A q \in computed : Holds(r, "spline", t, needs[q])
  OBVIOUS
<1>14. \A q \in computed : Holds(r, "spline", t, needs[q])
  <2>1. ASSUME NEW q \in computed
        PROVE  needs[q] \subseteq Plan(F, "spline", t)
    <3>1. Weighted(q) \subseteq Plan(F, "spline", t)
      BY <1>12 DEF Complete
    <3>2. needs[q] = Weighted(q)
      BY <1>9, <1>11 DEF Weighted
    <3> QED BY <3>1, <3>2
  <2> QED BY <1>7, <2>1 DEF Holds
<1>15. PICK y : y = Require(r, c)
  OBVIOUS
<1>16. FilledOnly(y, s, {"spline"}, t) /\ y.cache = r.cache /\ WellFormed(y)
  <2>1. FilledOnly(y, s, {"spline"}, t) /\ y.cache = r.cache
    BY <1>8, <1>15, RequireFilled
  <2> QED BY <2>1 DEF FilledOnly
<1>17. y.ok = TRUE
  <2>1. WellFormed(r)
    BY <1>7 DEF FilledOnly
  <2> QED BY <1>7, <1>13, <1>14, <1>15, <2>1, RequireHolds
<1>18. PICK stamp : stamp = Stamp(s.at["nurbs"], t, generation)
  OBVIOUS
<1>19. PICK has : has = [q \in computed |-> {stamp} \cup Of(r, "spline", t, needs[q])]
  OBVIOUS
<1>20. z = Replaced(y, "nurbs", t, "filled", has)
  <2>1. SplineFill(Require(s, CanFill(s, "nurbs", t)), "spline", t) = r
    BY <1>2, <1>6
  <2>2. r.cache["nurbs"][t].fills = s.cache["nurbs"][t].fills
    BY <1>8 DEF FilledOnly, Owner, Parts
  <2> QED BY <1>9, <1>11, <1>13, <1>15, <1>18, <1>19, <2>1, <2>2 DEF NurbsFill, Replaced
<1>21. z.ok = TRUE /\ z.cache["nurbs"][t].status = "filled" /\ z.cache["nurbs"][t].has = has
  BY <1>1, <1>16, <1>17, <1>20, ReplaceStatus
<1>22. Holds(z, "nurbs", t, Plan(F, "nurbs", t))
  <2>1. DOMAIN has = Plan(F, "nurbs", t)
    BY <1>12, <1>19
  <2> QED BY <1>21, <2>1 DEF Holds
<1>23. FilledOnly(z, y, {"nurbs"}, t)
  BY <1>1, <1>16, <1>20, ReplaceOne
<1>24. FilledOnly(z, s, {"spline"} \cup {"nurbs"}, t)
  BY <1>16, <1>23, FilledTwice
<1>25. Planned(y, F, t)
  BY <1>7, <1>16 DEF Planned
<1>26. Planned(z, F, t)
  BY <1>1, <1>21, <1>23, <1>25, FilledStaysPlanned
<1>27. {"spline"} \cup {"nurbs"} = {"nurbs", "spline"}
  OBVIOUS
<1> QED BY <1>21, <1>22, <1>24, <1>26, <1>27

\* The accessor of the reference space, whatever its kind.
LEMMA RefFillServes ==
  ASSUME NEW s, WellFormed(s), s.ok = TRUE, NEW F, NEW t \in Topology,
         Planned(s, F, t), Complete(F, t),
         IsBoundary(s.at["nurbs"], t), IsBoundary(s.at["spline"], t),
         NEW z, z = RefFill(s, t)
  PROVE  /\ FilledOnly(z, s, {"nurbs", "spline"}, t) /\ z.ok = TRUE /\ Planned(z, F, t)
         /\ Holds(z, Ref, t, Plan(F, Ref, t))
<1>1. CASE kind = "nurbs"
  <2>1. z = NurbsFill(s, t) /\ Ref = "nurbs"
    BY <1>1 DEF RefFill, Ref
  <2> QED BY <1>1, <2>1, NurbsFillServes
<1>2. CASE kind # "nurbs"
  <2>1. z = SplineFill(s, "spline", t) /\ Ref = "spline"
    BY <1>2 DEF RefFill, Ref
  <2>2. /\ FilledOnly(z, s, {"spline"}, t) /\ z.ok = TRUE /\ Planned(z, F, t)
        /\ Holds(z, "spline", t, Plan(F, "spline", t))
    BY <2>1, SplineFillServes
  <2>3. FilledOnly(z, s, {"nurbs", "spline"}, t)
    BY <2>2 DEF FilledOnly
  <2> QED BY <2>1, <2>2, <2>3
<1> QED BY <1>1, <1>2

\* r asks for normals where s does.
SameNormals(r, s) == DOMAIN r = DOMAIN s /\ r.normals = s.normals

\* Assertions, contents of caches and moves of the geometry ask for none.
LEMMA StepsKeepNormals ==
  ASSUME NEW s, "normals" \in DOMAIN s
  PROVE  /\ \A c : SameNormals(Require(s, c), s)
         /\ \A o, t, of : SameNormals(Hold(s, o, t, of), s)
         /\ \A o, t, status, has : SameNormals(Replaced(s, o, t, status, has), s)
         /\ SameNormals(GeometryMoved(s), s)
<1>1. ASSUME NEW c
      PROVE  SameNormals(Require(s, c), s)
  BY DEF Require, SameNormals
<1>2. ASSUME NEW o, NEW t, NEW of
      PROVE  SameNormals(Hold(s, o, t, of), s)
  BY DEF Hold, SameNormals
<1>3. ASSUME NEW o, NEW t, NEW status, NEW has
      PROVE  SameNormals(Replaced(s, o, t, status, has), s)
  BY DEF Replaced, SameNormals
<1>4. SameNormals(GeometryMoved(s), s)
  BY DEF GeometryMoved, SameNormals
<1> QED BY <1>1, <1>2, <1>3, <1>4

\* So does filling a spline accessor.
LEMMA SplineFillKeepsNormals ==
  ASSUME NEW s, "normals" \in DOMAIN s, NEW o, NEW t
  PROVE  SameNormals(SplineFill(s, o, t), s)
<1>1. PICK x : x = Require(s, CanFill(s, o, t))
  OBVIOUS
<1>2. SameNormals(x, s)
  BY <1>1, StepsKeepNormals
<1>3. \E of : SplineFill(s, o, t) = Hold(x, o, t, of)
  BY <1>1 DEF SplineFill
<1>4. PICK of : SplineFill(s, o, t) = Hold(x, o, t, of)
  BY <1>3
<1>5. SameNormals(Hold(x, o, t, of), x)
  BY <1>2, StepsKeepNormals DEF SameNormals
<1> QED BY <1>2, <1>4, <1>5 DEF SameNormals

\* And filling the mapping.
LEMMA MapFillKeepsNormals ==
  ASSUME NEW s, "normals" \in DOMAIN s, NEW t
  PROVE  SameNormals(MapFill(s, t), s)
<1>1. PICK moved : moved = GeometryMoved(s)
  OBVIOUS
<1>2. SameNormals(moved, s)
  BY <1>1, StepsKeepNormals
<1>3. PICK c : c = CanFill([moved EXCEPT !.at = [o \in Owner |-> @["map"]]], "grid", t)
  OBVIOUS
<1>4. PICK x : x = Require(moved, c)
  OBVIOUS
<1>5. SameNormals(x, moved)
  BY <1>2, <1>4, StepsKeepNormals DEF SameNormals
<1>6. PICK g : g = GridFill(moved, t)
  OBVIOUS
<1>7. \E of : g = Hold(x, "grid", t, of)
  BY <1>3, <1>4, <1>6 DEF GridFill
<1>8. SameNormals(g, x)
  <2>1. PICK of : g = Hold(x, "grid", t, of)
    BY <1>7
  <2>2. SameNormals(Hold(x, "grid", t, of), x)
    BY <1>2, <1>5, StepsKeepNormals DEF SameNormals
  <2> QED BY <2>1, <2>2
<1>9. PICK r : r = SplineFill(g, "geometry", t)
  OBVIOUS
<1>10. SameNormals(r, g)
  BY <1>2, <1>5, <1>8, <1>9, SplineFillKeepsNormals DEF SameNormals
<1>11. PICK y : y = Require(r, MapReady(r, t))
  OBVIOUS
<1>12. SameNormals(y, r)
  BY <1>2, <1>5, <1>8, <1>10, <1>11, StepsKeepNormals DEF SameNormals
<1>13. \E of : MapFill(s, t) = Hold(y, "map", t, of)
  BY <1>1, <1>6, <1>9, <1>11 DEF MapFill, GeometryMoved
<1>14. SameNormals(MapFill(s, t), y)
  <2>1. PICK of : MapFill(s, t) = Hold(y, "map", t, of)
    BY <1>13
  <2>2. "normals" \in DOMAIN y
    BY <1>2, <1>5, <1>8, <1>10, <1>12 DEF SameNormals
  <2>3. SameNormals(Hold(y, "map", t, of), y)
    BY <2>2, StepsKeepNormals
  <2> QED BY <2>1, <2>3
<1> QED BY <1>2, <1>5, <1>8, <1>10, <1>12, <1>14 DEF SameNormals

\* And filling a NURBS accessor.
LEMMA NurbsFillKeepsNormals ==
  ASSUME NEW s, WellFormed(s), NEW t \in Topology
  PROVE  SameNormals(NurbsFill(s, t), s)
<1>1. PICK x : x = Require(s, CanFill(s, "nurbs", t))
  OBVIOUS
<1>2. WellFormed(x) /\ x.cache = s.cache
  BY <1>1, RequireKeeps
<1>3. "normals" \in DOMAIN s
  BY DEF WellFormed
<1>4. SameNormals(x, s)
  BY <1>1, <1>3, StepsKeepNormals
<1>5. PICK r : r = SplineFill(x, "spline", t)
  OBVIOUS
<1>6. SameNormals(r, x)
  BY <1>3, <1>4, <1>5, SplineFillKeepsNormals DEF SameNormals
<1>7. \E c : \E y : \E has : y = Require(r, c) /\ NurbsFill(s, t) = Replaced(y, "nurbs", t, "filled", has)
  <2>1. SplineFill(Require(s, CanFill(s, "nurbs", t)), "spline", t) = r
    BY <1>1, <1>5
  <2> QED BY <2>1 DEF NurbsFill, Replaced
<1>8. PICK c, y, has : y = Require(r, c) /\ NurbsFill(s, t) = Replaced(y, "nurbs", t, "filled", has)
  BY <1>7
<1>9. SameNormals(y, r)
  BY <1>3, <1>4, <1>6, <1>8, StepsKeepNormals DEF SameNormals
<1>10. SameNormals(Replaced(y, "nurbs", t, "filled", has), y)
  <2>1. "normals" \in DOMAIN y
    BY <1>3, <1>4, <1>6, <1>9 DEF SameNormals
  <2> QED BY <2>1, StepsKeepNormals
<1> QED BY <1>4, <1>6, <1>8, <1>9, <1>10 DEF SameNormals

\* And filling the element of the physical space.
LEMMA SpaceFillKeepsNormals ==
  ASSUME NEW s, WellFormed(s), NEW t \in Topology, s.built["geometry"] = s.built["map"]
  PROVE  SpaceFill(s, t).normals = s.normals
<1>1. PICK x : x = Require(s, CanFill(s, "space", t))
  OBVIOUS
<1>2. "normals" \in DOMAIN s
  BY DEF WellFormed
<1>3. SameNormals(x, s)
  BY <1>1, <1>2, StepsKeepNormals
<1>4. PICK y : y = MapFill(x, t)
  OBVIOUS
<1>5. SameNormals(y, x)
  BY <1>2, <1>3, <1>4, MapFillKeepsNormals DEF SameNormals
<1>6. WellFormed(y)
  <2>1. WellFormed(x) /\ x.built = s.built
    BY <1>1, RequireKeeps
  <2> QED BY <1>4, <2>1, MapFillClean DEF FilledOnly
<1>7. PICK r : r = RefFill(y, t)
  OBVIOUS
<1>8. SameNormals(r, y)
  <2>1. "normals" \in DOMAIN y
    BY <1>6 DEF WellFormed
  <2> QED BY <1>6, <1>7, <2>1, NurbsFillKeepsNormals, SplineFillKeepsNormals DEF RefFill
<1>9. \E c : \E u : \E of : u = Require(r, c) /\ SpaceFill(s, t) = Hold(u, "space", t, of)
  BY <1>1, <1>4, <1>7 DEF SpaceFill
<1>10. PICK c, u, of : u = Require(r, c) /\ SpaceFill(s, t) = Hold(u, "space", t, of)
  BY <1>9
<1>11. SameNormals(u, r)
  BY <1>2, <1>3, <1>5, <1>8, <1>10, StepsKeepNormals DEF SameNormals
<1>12. SameNormals(Hold(u, "space", t, of), u)
  <2>1. "normals" \in DOMAIN u
    BY <1>2, <1>3, <1>5, <1>8, <1>11 DEF SameNormals
  <2> QED BY <2>1, StepsKeepNormals
<1> QED BY <1>3, <1>5, <1>8, <1>10, <1>11, <1>12 DEF SameNormals

\* Then the element of the physical space holds all that was planned for it.
LEMMA SpaceFillServes ==
  ASSUME NEW s, WellFormed(s), s.ok = TRUE, NEW F, NEW t \in Topology,
         Planned(s, F, t), Complete(F, t), IsBoundary(s.at["space"], t),
         s.at["map"] = s.at["space"], s.at["nurbs"] = s.at["space"], s.at["spline"] = s.at["space"],
         s.built["geometry"] = s.built["map"],
         normals /\ t # "element" => {"inv_gradients", "normals"} \subseteq Plan(F, "map", t),
         NEW z, z = SpaceFill(s, t)
  PROVE  /\ z.ok = TRUE /\ z.normals = s.normals /\ Planned(z, F, t)
         /\ \A o \in {"space", "map", Ref} : Holds(z, o, t, Plan(F, o, t))
<1>1. "space" \in Owner /\ "space" \in Used /\ "map" \in Used /\ "map" \in Owner
  BY DEF Owner, Parts, Used
<1>2. PICK x : x = Require(s, CanFill(s, "space", t))
  OBVIOUS
<1>3. CanFill(s, "space", t)
  BY <1>1 DEF CanFill, Planned
<1>4. /\ WellFormed(x) /\ x.at = s.at /\ x.built = s.built /\ x.cache = s.cache
      /\ x.normals = s.normals /\ x.ok = TRUE
  BY <1>2, <1>3, RequireKeeps, RequireHolds
<1>5. Planned(x, F, t)
  BY <1>4 DEF Planned
<1>6. PICK y : y = MapFill(x, t)
  OBVIOUS
<1>7. y.ok = TRUE /\ Planned(y, F, t) /\ Holds(y, "map", t, Plan(F, "map", t))
  BY <1>4, <1>5, <1>6, MapFillServes
<1>8. FilledOnly(y, GeometryMoved(x), {"grid", "geometry", "map"}, t)
  BY <1>4, <1>6, MapFillClean
<1>9. WellFormed(y) /\ y.at["nurbs"] = s.at["nurbs"] /\ y.at["spline"] = s.at["spline"]
  BY <1>4, <1>8, MovedWellFormed DEF FilledOnly, Parts
<1>10. PICK r : r = RefFill(y, t)
  OBVIOUS
<1>11. /\ FilledOnly(r, y, {"nurbs", "spline"}, t) /\ r.ok = TRUE /\ Planned(r, F, t)
       /\ Holds(r, Ref, t, Plan(F, Ref, t))
  BY <1>7, <1>9, <1>10, RefFillServes
<1>12. WellFormed(r) /\ r.cache["map"][t] = y.cache["map"][t]
  BY <1>1, <1>11 DEF FilledOnly
<1>13. Holds(r, "map", t, Plan(F, "map", t))
  BY <1>7, <1>12 DEF Holds
<1>14. s.cache["space"][t].fills = Plan(F, "space", t)
  BY <1>1 DEF Planned
<1>15. PICK c : c = (/\ "values" \in Plan(F, "space", t) => Holds(r, Ref, t, {"values"})
                     /\ "gradients" \in Plan(F, "space", t) =>
                          Holds(r, Ref, t, {"gradients"}) /\ Holds(r, "map", t, {"inv_gradients"})
                     /\ "hessians" \in Plan(F, "space", t) =>
                          /\ Holds(r, Ref, t, {"gradients", "hessians"})
                          /\ Holds(r, "map", t, {"inv_gradients", "hessians"})
                     /\ "divergences" \in Plan(F, "space", t) => "gradients" \in Plan(F, "space", t))
  OBVIOUS
<1>16. c
  <2>1. \A q : q \subseteq Plan(F, Ref, t) => Holds(r, Ref, t, q)
    BY <1>11 DEF Holds
  <2>2. \A q : q \subseteq Plan(F, "map", t) => Holds(r, "map", t, q)
    BY <1>13 DEF Holds
  <2>3. "values" \in Plan(F, "space", t) => Holds(r, Ref, t, {"values"})
    BY <2>1 DEF Complete
  <2>4. "gradients" \in Plan(F, "space", t) =>
          Holds(r, Ref, t, {"gradients"}) /\ Holds(r, "map", t, {"inv_gradients"})
    BY <2>1, <2>2 DEF Complete
  <2>5. "hessians" \in Plan(F, "space", t) =>
          Holds(r, Ref, t, {"gradients", "hessians"}) /\ Holds(r, "map", t, {"inv_gradients", "hessians"})
    BY <2>1, <2>2 DEF Complete
  <2>6. "divergences" \in Plan(F, "space", t) => "gradients" \in Plan(F, "space", t)
    BY DEF Complete
  <2> QED BY <1>15, <2>3, <2>4, <2>5, <2>6
<1>17. PICK u : u = Require(r, c)
  OBVIOUS
<1>18. WellFormed(u) /\ u.ok = TRUE /\ u.cache = r.cache
  BY <1>11, <1>12, <1>16, <1>17, RequireKeeps, RequireHolds
<1>19. PICK gradients : gradients = Of(r, Ref, t, {"gradients"}) \cup Of(r, "map", t, {"inv_gradients"})
  OBVIOUS
<1>20. PICK of : of =
         [values |-> Of(r, Ref, t, {"values"}), gradients |-> gradients, divergences |-> gradients,
          hessians |-> gradients \cup Of(r, Ref, t, {"hessians"}) \cup Of(r, "map", t, {"hessians"})]
  OBVIOUS
<1>21. z = Hold(u, "space", t, of)
  BY <1>2, <1>6, <1>10, <1>14, <1>15, <1>17, <1>19, <1>20 DEF SpaceFill
<1>22. z.ok = TRUE /\ Holds(z, "space", t, u.cache["space"][t].fills)
  BY <1>1, <1>18, <1>21, HoldHolds
<1>23. FilledOnly(z, u, {"space"}, t)
  <2>1. FilledOnly(Hold(u, "space", t, of), u, {"space"}, t)
    BY <1>1, <1>18, HoldFills
  <2> QED BY <1>21, <2>1
<1>24. Planned(u, F, t)
  BY <1>11, <1>18 DEF Planned
<1>25. Holds(z, "space", t, Plan(F, "space", t)) /\ z.cache["space"][t].status = "filled"
  <2>1. u.cache["space"][t].fills = Plan(F, "space", t)
    BY <1>1, <1>24 DEF Planned
  <2> QED BY <1>22, <2>1 DEF Holds
<1>26. Planned(z, F, t)
  BY <1>1, <1>23, <1>24, <1>25, FilledStaysPlanned
<1>27. Holds(z, "map", t, Plan(F, "map", t)) /\ Holds(z, Ref, t, Plan(F, Ref, t))
  <2>1. \A o \in {"map", Ref} : o \in Owner /\ o # "space"
    BY DEF Owner, Parts, Ref
  <2>2. \A o \in {"map", Ref} : z.cache[o][t] = r.cache[o][t]
    BY <1>18, <1>23, <2>1 DEF FilledOnly
  <2> QED BY <1>11, <1>13, <2>2 DEF Holds
<1>28. z.normals = s.normals
  BY SpaceFillKeepsNormals
<1> QED BY <1>22, <1>25, <1>26, <1>27, <1>28

-----------------------------------------------------------------------------
(* The steps keep an element serving its requests.                           *)

\* The kind of the reference space is fixed, and with it what caches are planned for.
LEMMA PlanStays ==
  ASSUME kind' = kind, NEW F, requested' = F
  PROVE  /\ Used' = Used /\ Ref' = Ref
         /\ \A o, t : Plan(requested, o, t)' = Plan(F, o, t)
  BY DEF Used, Ref, Plan, AskedSplines, BasisHandler, MappingHandler, GridHandler,
         AskedMapping, AskedGeometry

\* The caches of s, which a step makes the caches of the element, are made for what is
\* requested then.
LEMMA PlannedNext ==
  ASSUME kind' = kind, NEW F, requested' = F, NEW s, cache' = s.cache, NEW t, Planned(s, F, t)
  PROVE  Planned(Now, requested, t)'
<1>1. /\ Used' = Used /\ \A o : Plan(requested, o, t)' = Plan(F, o, t)
  BY PlanStays
<1>2. Now.cache' = s.cache
  BY DEF Now
<1>3. \A o \in Used' : /\ Now.cache'[o][t].status # "none"
                       /\ Now.cache'[o][t].fills = Plan(requested, o, t)'
  BY <1>1, <1>2 DEF Planned
<1> QED BY <1>3 DEF Planned

\* And hold it.
LEMMA HeldNext ==
  ASSUME kind' = kind, NEW F, requested' = F, NEW s, cache' = s.cache, NEW t,
         \A o \in {"space", "map", Ref} : Holds(s, o, t, Plan(F, o, t))
  PROVE  (\A o \in {"space", "map", Ref} : Holds(Now, o, t, Plan(requested, o, t)))'
<1>1. Ref' = Ref /\ \A o : Plan(requested, o, t)' = Plan(F, o, t)
  BY PlanStays
<1>2. Now.cache' = s.cache
  BY DEF Now
<1>3. \A o \in {"space", "map", Ref'} :
        /\ Now.cache'[o][t].status = "filled"
        /\ Plan(requested, o, t)' \subseteq DOMAIN Now.cache'[o][t].has
  BY <1>1, <1>2 DEF Holds
<1> QED BY <1>3 DEF Holds

\* Nothing is requested at first.
LEMMA ServingInit ==
  ASSUME Init
  PROVE  Serving
  BY DEF Init, Serving

\* Steps that leave the caches, and have nothing more filled.
LEMMA ServingStays ==
  ASSUME Serving, kind' = kind, requested' = requested, ~stopped', normals' = normals,
         cache' = cache, fresh' \subseteq fresh
  PROVE  Serving'
<1>1. PICK F : F = requested
  OBVIOUS
<1>2. Now.cache = cache
  BY DEF Now
<1>3. ASSUME NEW t \in Topology, F \cap FlagsOf(t) # {}
      PROVE  Planned(Now, requested, t)'
  <2>1. Planned(Now, F, t)
    BY <1>1, <1>3 DEF Serving
  <2>2. PICK s : s = Now
    OBVIOUS
  <2>3. Planned(s, F, t) /\ cache' = s.cache /\ requested' = F
    BY <1>1, <1>2, <2>1, <2>2
  <2> QED BY <2>3, PlannedNext
<1>4. ASSUME NEW t \in fresh'
      PROVE  /\ F \cap FlagsOf(t) # {}
             /\ (\A o \in {"space", "map", Ref} : Holds(Now, o, t, Plan(requested, o, t)))'
  <2>1. PICK s : s = Now
    OBVIOUS
  <2>2. F \cap FlagsOf(t) # {} /\ \A o \in {"space", "map", Ref} : Holds(s, o, t, Plan(F, o, t))
    BY <1>1, <1>4, <2>1 DEF Serving
  <2>3. cache' = s.cache /\ requested' = F
    BY <1>1, <1>2, <2>1
  <2> QED BY <2>2, <2>3, HeldNext
<1>5. \A t : FlagsOf(t)' = FlagsOf(t)
  BY DEF FlagsOf
<1>6. requested' # {} => requested' \in Requests
  BY DEF Serving
<1>7. normals' => NormalsAsked
  BY DEF Serving
<1> QED BY <1>1, <1>3, <1>4, <1>5, <1>6, <1>7 DEF Serving, NormalsAsked

\* What the accessors end a step in when every assertion held.
LEMMA BecomeServing ==
  ASSUME NEW s, s.ok = TRUE, Become(s)
  PROVE  ~stopped' /\ cache' = s.cache /\ normals' = s.normals
  BY DEF Become

\* A request that can be served is planned for.
LEMMA ServingInitCache ==
  ASSUME CachesInv, Serving, RequestsServable, NEW flags \in Requests, InitCache(flags)
  PROVE  Serving'
<1>1. PICK n : n = Now
  OBVIOUS
<1>2. WellFormed(n) /\ n.ok = TRUE /\ n.normals = normals
  BY <1>1 DEF CachesInv, Now
<1>3. PICK s : s = SpaceInit(n, flags)
  OBVIOUS
<1>4. Servable(flags)
  BY DEF RequestsServable
<1>5. /\ s.ok = TRUE
      /\ s.normals => normals \/ face_normal \in flags
      /\ \A t \in Topology : flags \cap FlagsOf(t) # {} => Planned(s, flags, t)
  <2>1. /\ s.ok = TRUE
        /\ s.normals => n.normals \/ face_normal \in flags
        /\ \A t \in Topology : flags \cap FlagsOf(t) # {} => Planned(s, flags, t)
    BY <1>2, <1>3, <1>4, SpaceInitPlans
  <2> QED BY <1>2, <2>1
<1>6. Become(s) /\ requested' = flags /\ fresh' = {} /\ kind' = kind
  BY <1>1, <1>3 DEF InitCache
<1>7. ~stopped' /\ cache' = s.cache /\ normals' = s.normals
  BY <1>5, <1>6, BecomeServing
<1>8. ASSUME NEW t \in Topology, flags \cap FlagsOf(t) # {}
      PROVE  Planned(Now, requested, t)'
  BY <1>5, <1>6, <1>7, <1>8, PlannedNext
<1>9. normals' => NormalsAsked
  BY <1>5, <1>7 DEF Serving, NormalsAsked
<1>10. \A t : FlagsOf(t)' = FlagsOf(t)
  BY DEF FlagsOf
<1> QED BY <1>6, <1>7, <1>8, <1>9, <1>10 DEF Serving, NormalsAsked

\* Filling a topology of the request serves it, and leaves the others as they were.
LEMMA ServingFillCache ==
  ASSUME CachesInv, Serving, RequestsServable, NEW topology \in Topology, FillCache(topology)
  PROVE  Serving'
<1>1. PICK F : F = requested
  OBVIOUS
<1>2. PICK n : n = Now
  OBVIOUS
<1>3. /\ WellFormed(n) /\ n.ok = TRUE /\ n.normals = normals /\ n.at = at /\ n.built = built
      /\ n.cache = cache
  BY <1>2 DEF CachesInv, Now
<1>4. F \cap FlagsOf(topology) # {} /\ F \in Requests /\ Servable(F)
  BY <1>1 DEF FillCache, Serving, RequestsServable
<1>5. Planned(n, F, topology) /\ Complete(F, topology)
  BY <1>1, <1>2, <1>4, ServableComplete DEF Serving
<1>6. normals /\ topology # "element" => {"inv_gradients", "normals"} \subseteq Plan(F, "map", topology)
  <2>1. SUFFICES ASSUME normals, topology # "element"
                 PROVE  {"inv_gradients", "normals"} \subseteq Plan(F, "map", topology)
    OBVIOUS
  <2>2. topology \in Faces /\ FlagsOf(topology) = FlagsOf("first")
    BY <2>1 DEF Topology, FlagsOf
  <2>3. NormalsAsked
    BY <2>1 DEF Serving
  <2>4. face_normal \in F
    BY <1>4, <2>2, <2>3 DEF RequestsServable
  <2>5. Asks(F)
    BY <1>4 DEF Servable
  <2>6. "inv_gradients" \in Plan(F, "map", topology) /\ "normals" \in Plan(F, "map", topology)
    BY <2>2, <2>4, <2>5, MappingPlan
  <2> QED BY <2>6
<1>7. PICK s : s = SpaceFill(n, topology)
  OBVIOUS
<1>8. /\ n.at["map"] = n.at["space"] /\ n.at["nurbs"] = n.at["space"]
      /\ n.at["spline"] = n.at["space"]
      /\ n.built["geometry"] = n.built["map"] /\ n.built["spline"] = n.built["map"]
      /\ n.built["map"] = generation /\ IsBoundary(n.at["space"], topology)
  BY <1>3 DEF CachesInv, Together, FillCache
<1>9. /\ s.ok = TRUE /\ s.normals = n.normals /\ Planned(s, F, topology)
      /\ \A o \in {"space", "map", Ref} : Holds(s, o, topology, Plan(F, o, topology))
  BY <1>3, <1>5, <1>6, <1>7, <1>8, SpaceFillServes
<1>10. \A o \in Owner, u \in Topology : u # topology => s.cache[o][u] = cache[o][u]
  <2>1. FilledOnly(s, GeometryMoved(n), Owner, topology)
    BY <1>3, <1>7, <1>8, SpaceFillClean
  <2>2. GeometryMoved(n).cache = cache
    BY <1>3, MovedWellFormed
  <2> QED BY <2>1, <2>2 DEF FilledOnly
<1>11. Become(s) /\ kind' = kind /\ requested' = F
  BY <1>1, <1>2, <1>7 DEF FillCache
<1>12. ~stopped' /\ cache' = s.cache /\ normals' = normals
  BY <1>3, <1>9, <1>11, BecomeServing
<1>13. fresh' = fresh \cup {topology}
  BY <1>12 DEF FillCache
<1>14. ASSUME NEW t \in Topology, F \cap FlagsOf(t) # {}
       PROVE  Planned(Now, requested, t)'
  <2>1. Planned(s, F, t)
    <3>1. CASE t = topology
      BY <1>9, <3>1
    <3>2. CASE t # topology
      <4>1. Planned(n, F, t) /\ Used \subseteq Owner
        BY <1>1, <1>2, <1>14 DEF Serving, Used
      <4>2. \A o \in Used : s.cache[o][t] = n.cache[o][t]
        BY <1>3, <1>10, <3>2, <4>1
      <4> QED BY <4>1, <4>2 DEF Planned
    <3> QED BY <3>1, <3>2
  <2> QED BY <1>11, <1>12, <2>1, PlannedNext
<1>15. ASSUME NEW t \in fresh'
       PROVE  /\ F \cap FlagsOf(t) # {}
              /\ (\A o \in {"space", "map", Ref} : Holds(Now, o, t, Plan(requested, o, t)))'
  <2>1. /\ F \cap FlagsOf(t) # {}
        /\ \A o \in {"space", "map", Ref} : Holds(s, o, t, Plan(F, o, t))
    <3>1. CASE t = topology
      BY <1>4, <1>9, <3>1
    <3>2. CASE t # topology
      <4>1. t \in fresh /\ t \in Topology
        BY <1>13, <1>15, <3>2 DEF CachesInv
      <4>2. /\ F \cap FlagsOf(t) # {}
            /\ \A o \in {"space", "map", Ref} : Holds(n, o, t, Plan(F, o, t))
        BY <1>1, <1>2, <4>1 DEF Serving
      <4>3. \A o \in {"space", "map", Ref} : s.cache[o][t] = n.cache[o][t]
        BY <1>3, <1>10, <3>2, <4>1 DEF Owner, Parts, Ref
      <4> QED BY <4>2, <4>3 DEF Holds
    <3> QED BY <3>1, <3>2
  <2> QED BY <1>11, <1>12, <2>1, HeldNext
<1>16. \A t : FlagsOf(t)' = FlagsOf(t)
  BY DEF FlagsOf
<1>17. F # {} => F \in Requests
  BY <1>4
<1>18. normals' => NormalsAsked
  BY <1>12 DEF Serving
<1> QED BY <1>11, <1>12, <1>14, <1>15, <1>16, <1>17, <1>18 DEF Serving, NormalsAsked

\* What the gradients of a field are computed from has been filled.
LEMMA ServingField ==
  ASSUME CachesInv, Serving, RequestsServable, EvaluateFieldGradients("element")
  PROVE  Serving'
<1>1. PICK F : F = requested
  OBVIOUS
<1>2. "element" \in fresh /\ "gradients" \in cache["space"]["element"].fills
  BY DEF EvaluateFieldGradients
<1>3. /\ F \cap FlagsOf("element") # {}
      /\ \A o \in {"space", "map", Ref} : Holds(Now, o, "element", Plan(F, o, "element"))
  BY <1>1, <1>2 DEF Serving
<1>4. Servable(F) /\ Planned(Now, F, "element")
  BY <1>1, <1>3 DEF Serving, RequestsServable, Topology
<1>5. "gradients" \in Plan(F, "space", "element")
  <2>1. "space" \in Used /\ Now.cache = cache
    BY DEF Used, Owner, Parts, Now
  <2> QED BY <1>2, <1>4, <2>1 DEF Planned
<1>6. Complete(F, "element")
  BY <1>3, <1>4, ServableComplete DEF Topology
<1>7. "gradients" \in Plan(F, Ref, "element") /\ "inv_gradients" \in Plan(F, "map", "element")
  BY <1>5, <1>6 DEF Complete
<1>8. Holds(Now, Ref, "element", {"gradients"}) /\ Holds(Now, "map", "element", {"inv_gradients"})
  BY <1>3, <1>7 DEF Holds
<1>9. /\ ~stopped' /\ kind' = kind /\ requested' = requested /\ normals' = normals
      /\ cache' = cache /\ fresh' = fresh
  BY <1>8 DEF EvaluateFieldGradients
<1> QED BY <1>9, ServingStays

\* Whatever clients do, the element serves them.
LEMMA ServingStep ==
  ASSUME CachesInv, Serving, RequestsServable, FieldTopologies \subseteq {"element"}, [Next]_vars
  PROVE  Serving'
<1>1. ASSUME NEW flags \in Requests, InitCache(flags)
      PROVE  Serving'
  BY <1>1, ServingInitCache
<1>2. ASSUME NEW topology \in Topology, FillCache(topology)
      PROVE  Serving'
  BY <1>2, ServingFillCache
<1>3. ASSUME NEW topology \in FieldTopologies, EvaluateFieldGradients(topology)
      PROVE  Serving'
  <2>1. topology = "element"
    OBVIOUS
  <2> QED BY <1>3, <2>1, ServingField
<1>4. ASSUME NEW elem, NEW parts, Moved(elem, parts), ~stopped
      PROVE  Serving'
  BY <1>4, ServingStays DEF Moved
<1>5. ASSUME NEW elem, EvaluateMapAtPoints(elem)
      PROVE  Serving'
  BY <1>5, ServingStays DEF EvaluateMapAtPoints
<1>6. CASE Refine
  BY <1>6, ServingStays DEF Refine
<1>7. CASE UNCHANGED vars
  <2>1. ~stopped
    BY DEF Serving
  <2> QED BY <1>7, <2>1, ServingStays DEF vars
<1>8. ASSUME NEW elem, MoveTo(elem)
      PROVE  Serving'
  BY <1>4, <1>8 DEF MoveTo
<1>9. ASSUME NEW increment, Jump(increment)
      PROVE  Serving'
  BY <1>4, <1>9 DEF Jump
<1>10. CASE Advance
  BY <1>4, <1>10 DEF Advance
<1> QED BY <1>1, <1>2, <1>3, <1>5, <1>6, <1>7, <1>8, <1>9, <1>10 DEF Next

-----------------------------------------------------------------------------
(* The theorems about requests.                                              *)

\* The caches are made for what is requested, and what has been filled holds it.
THEOREM ServingInvariant ==
  ASSUME ElementCachesAssumption, BSplinesJump, RequestsServable,
         FieldTopologies \subseteq {"element"}
  PROVE  Spec => []Serving
<1>1. CachesInv /\ Serving /\ [Next]_vars => Serving'
  BY ServingStep
<1> QED BY <1>1, ServingInit, CachesInvariant, PTL DEF Spec

\* A client that fills what it asked for, in any order, on any elements and after any
\* refinements, meets no failed assertion, whatever servable requests it makes.
THEOREM NeverFails ==
  ASSUME ElementCachesAssumption, BSplinesJump, RequestsServable,
         FieldTopologies \subseteq {"element"}
  PROVE  Spec => []NeverStops
<1>1. Serving => NeverStops
  BY DEF Serving, NeverStops
<1> QED BY <1>1, ServingInvariant, PTL

\* After a topology is filled, every getter finds what the client asked for: the flags of
\* any servable request reach every accessor that has a part in serving it.
THEOREM RequestsAreServed ==
  ASSUME ElementCachesAssumption, BSplinesJump, RequestsServable,
         FieldTopologies \subseteq {"element"}
  PROVE  Spec => []RequestedServed
<1>1. ASSUME CachesInv, Serving, NEW t \in fresh, NEW f \in Asked(t)
      PROVE  Holds(Now, Getter(f)[1], t, {Getter(f)[2]})
  <2>1. t \in Topology /\ f \in requested \cap FlagsOf(t) /\ Servable(requested)
    BY <1>1 DEF CachesInv, Asked, Serving, RequestsServable
  <2>2. /\ Getter(f)[1] \in {"space", "map"}
        /\ Getter(f)[2] \in Plan(requested, Getter(f)[1], t)
    BY <2>1, GettersPlanned
  <2>3. Holds(Now, Getter(f)[1], t, Plan(requested, Getter(f)[1], t))
    BY <1>1, <2>2 DEF Serving
  <2> QED BY <2>2, <2>3 DEF Holds
<1>2. CachesInv /\ Serving => RequestedServed
  BY <1>1 DEF RequestedServed
<1> QED BY <1>2, ServingInvariant, CachesInvariant, PTL
================================================================================
