------------------------------ MODULE FileReader ------------------------------
(***************************************************************************)
(* The reading of an IgMapping from an XML file of format 2.0, and what    *)
(* becomes of it when the file is edited: its elements put in another      *)
(* order, commented, repeated or left out, an attribute changed.           *)
(*                                                                         *)
(* A file is the tree boost::property_tree makes of it; tags that differ   *)
(* in case are one tag.  Numbers are what the text of an element holds.    *)
(***************************************************************************)
EXTENDS Integers, Sequences, SequencesExt, FiniteSets

CONSTANTS
  Mappings,         \* the mappings that were written
  AttributeValues   \* the values an edited attribute may get

VARIABLES
  written,   \* the mapping the file was written for
  file,      \* the tree of the file
  edits,     \* "none", "harmless" or "any": what the file went through
  outcome    \* what reading it gave

readerVars == <<written, file, edits, outcome>>

-------------------------------------------------------------------------------
(* reader_utils: elements of a tree.                                       *)

Node(tag, attributes, data, elements) ==
  [tag |-> tag, attributes |-> attributes, data |-> data, elements |-> elements]

ElementVector(tree, tag) == SelectSeq(tree.elements, LAMBDA e : e.tag = tag)
CountSameTag(tree, tag) == Len(ElementVector(tree, tag))
IsUnique(tree, tag) == CountSameTag(tree, tag) = 1
TheElement(tree, tag) == ElementVector(tree, tag)[1]

\* The elements of a tag each give the numbers of one direction and how many
\* they are.  Two of the same direction leave another without numbers.
CanReadDirections(tree, tag, dim) ==
  /\ tree.attributes.Dim = dim
  /\ CountSameTag(tree, tag) = dim
  /\ \A k \in 1 .. dim : LET e == ElementVector(tree, tag)[k] IN e.attributes.Size = Len(e.data)

\* A variant that takes the elements in the order of the file.
DirectionsByPosition(tree, tag, dim) == [d \in 0 .. dim - 1 |-> ElementVector(tree, tag)[d + 1].data]
ReadDirections(tree, tag, dim) ==
  [d \in 0 .. dim - 1 |->
     LET ofDirection == SelectSeq(ElementVector(tree, tag), LAMBDA e : e.attributes.Direction = d)
     IN  IF ofDirection = <<>> THEN <<>> ELSE ofDirection[Len(ofDirection)].data]

-------------------------------------------------------------------------------
(* The grid, the spline space and the mapping.                             *)

CanReadGrid(tree, dim) ==
  /\ IsUnique(tree, "CartesianGrid")
  /\ CanReadDirections(TheElement(tree, "CartesianGrid"), "Knots", dim)
\* CartesianGrid throws unless the knots of a direction increase.
GridAccepts(knots) ==
  \A d \in DOMAIN knots :
    Len(knots[d]) > 1 /\ \A k \in 1 .. Len(knots[d]) - 1 : knots[d][k] < knots[d][k + 1]
ReadGrid(tree, dim) == ReadDirections(TheElement(tree, "CartesianGrid"), "Knots", dim)

CountIs(e, name, n) == e.attributes[name] = n /\ Len(e.data) = n
Flat(v) == FoldLeft(LAMBDA a, b : a * b, 1, v)

CanReadComponent(e, dim, range, isNurbs) ==
  /\ e.attributes.Id \in 0 .. range - 1
  /\ \A tag \in {"DofsTensorSize", "Degrees", "InteriorMultiplicities"} : IsUnique(e, tag)
  /\ CountIs(TheElement(e, "DofsTensorSize"), "Dim", dim)
  /\ CountIs(TheElement(e, "Degrees"), "Dim", dim)
  /\ CanReadDirections(TheElement(e, "InteriorMultiplicities"), "InteriorMultiplicity", dim)
  /\ isNurbs =>
       /\ IsUnique(e, "Weights")
       /\ CountIs(TheElement(e, "Weights"), "Size", Flat(TheElement(e, "DofsTensorSize").data))

ReadComponent(e, dim, isNurbs) ==
  [degrees |-> TheElement(e, "Degrees").data,
   multiplicities |-> ReadDirections(TheElement(e, "InteriorMultiplicities"), "InteriorMultiplicity", dim),
   weights |-> IF isNurbs THEN TheElement(e, "Weights").data ELSE <<>>]

SpaceTag(isNurbs) == IF isNurbs THEN "NURBSSpace" ELSE "BSplineSpace"
ComponentsOf(tree, isNurbs) == TheElement(tree, SpaceTag(isNurbs) \o "ScalarComponents")
ComponentVector(tree, isNurbs) ==
  ElementVector(ComponentsOf(tree, isNurbs), SpaceTag(isNurbs) \o "ScalarComponent")
MapElement(tree, isNurbs) == TheElement(ComponentsOf(tree, isNurbs), "ComponentsMap")

CanReadSpace(space, dim, range, isNurbs) ==
  /\ space.attributes.Dim = dim /\ space.attributes.Range = range /\ space.attributes.Rank = 1
  /\ CanReadGrid(space, dim) /\ GridAccepts(ReadGrid(space, dim))
  /\ IsUnique(space, SpaceTag(isNurbs) \o "ScalarComponents")
  /\ ComponentsOf(space, isNurbs).attributes.Size \in 1 .. range
  /\ IsUnique(ComponentsOf(space, isNurbs), "ComponentsMap")
  /\ MapElement(space, isNurbs).attributes.Size = range
  /\ LET components == ComponentVector(space, isNurbs) IN
       /\ Len(components) = ComponentsOf(space, isNurbs).attributes.Size
       /\ Len(components) = Cardinality(Range(MapElement(space, isNurbs).data))
       /\ \A k \in DOMAIN components : CanReadComponent(components[k], dim, range, isNurbs)

\* The tables are indexed through the map of components, when they are written
\* and when they are read; a component no element names keeps nothing.
NoComponent(dim) ==
  [degrees |-> [k \in 1 .. dim |-> 0], multiplicities |-> [d \in 0 .. dim - 1 |-> <<>>], weights |-> <<>>]
ReadSpace(space, dim, range, isNurbs) ==
  LET map == MapElement(space, isNurbs).data
      slots(c) == SelectSeq(ComponentVector(space, isNurbs),
                            LAMBDA e : map[e.attributes.Id + 1] = map[c + 1])
  IN  [grid |-> ReadGrid(space, dim),
       components |-> [c \in 0 .. range - 1 |->
         IF slots(c) = <<>> THEN NoComponent(dim)
         ELSE ReadComponent(Last(slots(c)), dim, isNurbs)]]

Total(v) == FoldLeft(LAMBDA a, b : a + b, 0, v)
NumBasis(component, dim) ==
  Flat([k \in 1 .. dim |-> component.degrees[k] + 1 + Total(component.multiplicities[k - 1])])

\* The assertions of SplineSpace and NURBSSpace.
SpaceAccepts(space, dim, isNurbs) ==
  \A c \in DOMAIN space.components :
    /\ \A d \in 0 .. dim - 1 :
         LET mult == space.components[c].multiplicities[d] IN
           /\ Len(mult) = Len(space.grid[d]) - 2
           /\ \A k \in DOMAIN mult : mult[k] \in 1 .. space.components[c].degrees[d + 1] + 1
    /\ isNurbs => Len(space.components[c].weights) = NumBasis(space.components[c], dim)

\* The dimensions are template arguments of the call: the program that reads
\* the file asks for the ones the mapping was written with.
CanReadMapping(tree, dim, codim) ==
  /\ tree.attributes.Dim = dim /\ tree.attributes.Codim = codim
  /\ tree.attributes.RefSpaceType \in {"BSplineSpace", "NURBSSpace"}
  /\ IsUnique(tree, "ControlPoints")
  /\ TheElement(tree, "ControlPoints").attributes.Dim = 1
  /\ TheElement(tree, "ControlPoints").attributes.Size >= 1
  /\ TheElement(tree, "ControlPoints").attributes.Size = Len(TheElement(tree, "ControlPoints").data)
  /\ LET isNurbs == tree.attributes.RefSpaceType = "NURBSSpace" IN
       /\ IsUnique(tree, SpaceTag(isNurbs))
       /\ CanReadSpace(TheElement(tree, SpaceTag(isNurbs)), dim, dim + codim, isNurbs)

ReadMapping(tree, dim, codim) ==
  LET isNurbs == tree.attributes.RefSpaceType = "NURBSSpace"
      space == ReadSpace(TheElement(tree, SpaceTag(isNurbs)), dim, dim + codim, isNurbs)
  IN  [dim |-> dim, codim |-> codim, isNurbs |-> isNurbs, space |-> space,
       control |-> TheElement(tree, "ControlPoints").data]

\* The assertion of IgMapping: one control value for every basis function.
MappingAccepts(mapping) ==
  /\ SpaceAccepts(mapping.space, mapping.dim, mapping.isNurbs)
  /\ Len(mapping.control) =
       Total([c \in 1 .. mapping.dim + mapping.codim |-> NumBasis(mapping.space.components[c - 1], mapping.dim)])

\* The version is the one of the last element; the reader of version 1.0 is
\* not implemented.  An element of another kind, a comment too, is refused.
FormatIsRead(tree) ==
  /\ \A k \in DOMAIN tree.elements : tree.elements[k].tag = "Igatools"
  /\ tree.elements # <<>>
  /\ Last(tree.elements).attributes.FormatVersion = 2
  /\ IsUnique(tree, "Igatools")
  /\ IsUnique(TheElement(tree, "Igatools"), "IgMapping")

Refused == [status |-> "thrown"]
MappingFromFile(tree, dim, codim) ==
  IF ~FormatIsRead(tree) THEN Refused
  ELSE LET mapping == TheElement(TheElement(tree, "Igatools"), "IgMapping") IN
    IF ~CanReadMapping(mapping, dim, codim) THEN Refused
    ELSE LET result == ReadMapping(mapping, dim, codim) IN
      IF MappingAccepts(result) THEN [status |-> "read", mapping |-> result]
      ELSE [status |-> "stopped"]

-------------------------------------------------------------------------------
(* A file as a program writes it, in the order of the format's documents.  *)

Numbers(tag, attributes, data) == Node(tag, attributes, data, <<>>)
DirectionNodes(tag, vectors) ==
  [k \in 1 .. Cardinality(DOMAIN vectors) |->
     Numbers(tag, [Direction |-> k - 1, Size |-> Len(vectors[k - 1])], vectors[k - 1])]
WithDim(tag, dim, elements) == Node(tag, [Dim |-> dim], <<>>, elements)
Counted(tag, name, data) == Numbers(tag, [x \in {name} |-> Len(data)], data)

ComponentNode(m, c) ==
  LET component == m.space.components[c] IN
    Node(SpaceTag(m.isNurbs) \o "ScalarComponent", [Id |-> c], <<>>,
         <<Counted("DofsTensorSize", "Dim", [k \in 1 .. m.dim |->
              component.degrees[k] + 1 + Total(component.multiplicities[k - 1])]),
           Counted("Degrees", "Dim", component.degrees),
           WithDim("InteriorMultiplicities", m.dim,
                   DirectionNodes("InteriorMultiplicity", component.multiplicities))>>
         \o IF m.isNurbs THEN <<Counted("Weights", "Size", component.weights)>> ELSE <<>>)

\* Components that are the same are written once.
FirstLike(m, c) ==
  CHOOSE k \in DOMAIN m.space.components :
    /\ m.space.components[k] = m.space.components[c]
    /\ \A j \in DOMAIN m.space.components :
         m.space.components[j] = m.space.components[c] => j >= k
ComponentsNode(m) ==
  LET map == [k \in 1 .. m.dim + m.codim |-> FirstLike(m, k - 1)]
      active == SetToSortSeq(Range(map), <)
  IN  Node(SpaceTag(m.isNurbs) \o "ScalarComponents", [Size |-> Len(active)], <<>>,
           <<Counted("ComponentsMap", "Size", map)>>
           \o [k \in DOMAIN active |-> ComponentNode(m, active[k])])

FileOf(m) ==
  LET space == Node(SpaceTag(m.isNurbs), [Dim |-> m.dim, Range |-> m.dim + m.codim, Rank |-> 1], <<>>,
                    <<WithDim("CartesianGrid", m.dim, DirectionNodes("Knots", m.space.grid)),
                      ComponentsNode(m)>>)
      points == Numbers("ControlPoints", [Dim |-> 1, Size |-> Len(m.control)], m.control)
      mapping == Node("IgMapping", [Dim |-> m.dim, Codim |-> m.codim, RefSpaceType |-> SpaceTag(m.isNurbs)],
                      <<>>, <<points, space>>)
  IN  Node("file", [x \in {} |-> 0], <<>>, <<Node("Igatools", [FormatVersion |-> 2], <<>>, <<mapping>>)>>)

-------------------------------------------------------------------------------
(* Edits of a file: the elements of one node, or its attributes, change.   *)

Comment == Numbers("<xmlcomment>", [x \in {} |-> 0], <<>>)
Places(tree) == DOMAIN tree.elements
Swapped(tree) ==
  {[tree EXCEPT !.elements[k] = tree.elements[k + 1], !.elements[k + 1] = tree.elements[k]] :
     k \in Places(tree) \ {Len(tree.elements)}}
Commented(tree) == IF tree.tag = "file" THEN {} ELSE {[tree EXCEPT !.elements = <<Comment>> \o @]}
Repeated(tree) == {[tree EXCEPT !.elements = Append(@, @[k])] : k \in Places(tree)}
LeftOut(tree) == {[tree EXCEPT !.elements = RemoveAt(@, k)] : k \in Places(tree)}
\* The numbers of an element are what it says, its attributes what it says of
\* them; a direction the mapping does not have would be written past an array.
Relabelled(tree) ==
  {[tree EXCEPT !.attributes[name] = value] :
     name \in DOMAIN tree.attributes \ {"RefSpaceType", "Direction"}, value \in AttributeValues}
  \cup {[tree EXCEPT !.attributes["Direction"] = value] :
          value \in {d \in 0 .. written.dim - 1 : "Direction" \in DOMAIN tree.attributes}}

Harmless(tree) == Swapped(tree) \cup Commented(tree)
Damage(tree) == Repeated(tree) \cup LeftOut(tree) \cup Relabelled(tree)

RECURSIVE EditsOf(_, _)
\* The trees that one edit of one node makes of a tree.
EditsOf(tree, kind) ==
  (IF kind = "harmless" THEN Harmless(tree) ELSE Damage(tree))
  \cup UNION {{[tree EXCEPT !.elements[k] = e] : e \in EditsOf(tree.elements[k], kind)} :
              k \in Places(tree)}

Unread == [status |-> "unread"]

ReaderInit ==
  /\ written \in Mappings
  /\ file = FileOf(written)
  /\ edits = "none"
  /\ outcome = Unread

Rearrange ==
  /\ outcome = Unread /\ edits = "none"
  /\ file' \in EditsOf(file, "harmless") \ {file}
  /\ edits' = "harmless"
  /\ UNCHANGED <<written, outcome>>

\* Bound: one change of what the file says, on top of at most one rearrangement.
Alter ==
  /\ outcome = Unread /\ edits # "any"
  /\ file' \in EditsOf(file, "any") \ {file}
  /\ edits' = "any"
  /\ UNCHANGED <<written, outcome>>

Read ==
  /\ outcome = Unread
  /\ outcome' = MappingFromFile(file, written.dim, written.codim)
  /\ UNCHANGED <<written, file, edits>>

ReaderNext == Rearrange \/ Alter \/ Read

\* The order of the elements of a file, comments inside of it and components
\* written once for several do not change the mapping that is read; and a
\* file in which an element is repeated or missing, or a number that
\* describes others is changed, is refused or read as if nothing happened,
\* but never read as another mapping (get_mapping_from_file).
FilesReadBack ==
  /\ edits # "any" => outcome.status \in {"unread", "read"}
  /\ outcome.status = "read" => outcome.mapping = written
===============================================================================
