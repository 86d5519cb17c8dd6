----------------------------- MODULE MCMultiPatch -----------------------------
(***************************************************************************)
(* Two MultiPatchSpaces over one manager, three plane patches with two     *)
(* components, two multiplier spaces on lines.                             *)
(***************************************************************************)
EXTENDS MultiPatch

Five == 1 .. 5
OwnTables == [s \in Space |-> s]

\* n_basis and accum of a direction with the given degree and interior
\* multiplicities (one for each interior knot).
Accum(mult)  == LET a[i \in 1 .. Len(mult) + 1] == IF i = 1 THEN 0 ELSE a[i - 1] + mult[i - 1]
                IN  [i \in 1 .. Len(mult) + 1 |-> a[i]]
Basis(p, mult) == Accum(mult)[Len(mult) + 1] + p + 1

\* degree and mult per component and direction.
ShapeFrom(dim, degree, mult) ==
  LET comps == 0 .. 1
      dirs  == 0 .. dim - 1
  IN  [dim |-> dim,
       degree  |-> [c \in comps |-> [d \in dirs |-> degree[c + 1][d + 1]]],
       accum   |-> [c \in comps |-> [d \in dirs |-> Accum(mult[c + 1][d + 1])]],
       n_basis |-> [c \in comps |-> [d \in dirs |-> Basis(degree[c + 1][d + 1], mult[c + 1][d + 1])]]]

MCShape ==
  [t \in Five |->
     CASE t = 1 -> ShapeFrom(2, << <<1, 2>>, <<2, 1>> >>, << << <<1>>, <<>> >>, << <<2>>, <<>> >> >>)
       [] t = 2 -> ShapeFrom(2, << <<1, 1>>, <<1, 1>> >>, << << <<>>, <<>> >>, << <<>>, <<>> >> >>)
       [] t = 3 -> ShapeFrom(2, << <<1, 1>>, <<1, 0>> >>, << << <<>>, <<1>> >>, << <<>>, <<1>> >> >>)
       [] t = 4 -> ShapeFrom(1, << <<1>>, <<0>> >>, << << <<>> >>, << <<>> >> >>)
       [] t = 5 -> ShapeFrom(1, << <<0>>, <<0>> >>, << << <<1>> >>, << <<1>> >> >>)]

MCSize     == [t \in Five |-> NumDofsOf(MCShape[t])]
MCElements == [t \in Five |-> {ElementView(MCShape[t], e) : e \in ElementsOf(MCShape[t])}]
FreshTables == [t \in Five |-> 0]

MCPatch      == 1 .. 3
MCMultiplier == 4 .. 5
MCMapOf      == [p \in MCPatch |-> p]

\* The last face of patch 1 and the first of patch 2; patches 2 and 3 along
\* the other direction; patches 1 and 2 once more.
MCContact == { <<1, 1, 2, 0>>, <<2, 3, 3, 2>>, <<1, 3, 2, 2>> }
MCMultiplierFor == [c \in MCContact |-> IF c[1] = 2 THEN {5} ELSE {4, 5}]

Always       == {TRUE}
KeepOrNumber == BOOLEAN
=============================================================================
