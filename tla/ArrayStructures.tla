---------------------------- MODULE ArrayStructures ----------------------------
(***************************************************************************)
(* A table of values and a Cartesian product under the operations that     *)
(* change them, and what their views, slices and products must agree on.   *)
(***************************************************************************)
EXTENDS MultiArrays

CONSTANTS
  MaxFunctions, MaxPoints,   \* bounds of the sizes of the table
  Vectors                    \* the vectors that are put in a direction

VARIABLES table, product

arrayVars == <<table, product>>

Zero == 0

ArraysInit ==
  /\ table = MultiArray(TableSize(0, 0), Zero)
  /\ \E v, w \in Vectors : product = CartesianProductArray([d \in 0 .. 1 |-> IF d = 0 THEN v ELSE w])

Resizing ==
  /\ \E f \in 1 .. MaxFunctions, n \in 1 .. MaxPoints : table' = ResizeTable(table, f, n, Zero)
  /\ UNCHANGED product

\* reshape asserts that the number of entries stays.
Reshaping ==
  /\ \E f \in 1 .. MaxFunctions, n \in 1 .. MaxPoints :
        f * n = FlatSizeOf(table) /\ table' = Reshape(table, TableSize(f, n))
  /\ UNCHANGED product

Filling ==
  /\ FlatSizeOf(table) > 0
  /\ table' = FillProgression(table, 1)
  /\ UNCHANGED product

\* One line of the table over another one of the same direction.
CopyingSlice ==
  /\ \E d \in 0 .. 1 : \E i, j \in 0 .. table.size[d] - 1 :
        /\ i # j /\ FlatSizeOf(table) > 0
        /\ table' = CopySlice(table, d, i, GetSlice(table, d, j))
  /\ UNCHANGED product

Clearing ==
  /\ FlatSizeOf(table) > 0
  /\ table' = Resize(table, [d \in 0 .. 1 |-> 0], Zero)
  /\ UNCHANGED product

Replacing ==
  /\ \E d \in 0 .. 1, v \in Vectors : product' = CopyDataDirection(product, d, v)
  /\ UNCHANGED table

Growing ==
  /\ \E d \in 0 .. 1 : product' = ResizeProduct(product, [product.size EXCEPT ![d] = MaxPoints], Zero)
  /\ UNCHANGED table

TablesNext == Resizing \/ Reshaping \/ Filling \/ CopyingSlice \/ Clearing
ProductsNext == Replacing \/ Growing

-------------------------------------------------------------------------------
(* A line of the table is the same one whichever way it is read.           *)

Line(d, i) == GetSlice(table, d, i).data
\* The line as a sub-array one entry wide in direction d.
LineAsSubArray(d, i) ==
  GetSubArray(table, [e \in 0 .. 1 |-> IF e = d THEN i ELSE 0],
              [table.size EXCEPT ![d] = 1]).data
ViewOf(d, i) == IF d = 0 THEN PointView(table, i) ELSE FunctionView(table, i)

ReadsAgree(d, i) ==
  LET view == ViewOf(d, i)
      line == Line(d, i)
  IN  /\ IsView(view)
      /\ Walk(view) = line
      /\ LineAsSubArray(d, i) = line
      /\ \A k \in 0 .. MaxFunctions + MaxPoints : HasPosition(view, k) <=> k \in DOMAIN line
      /\ \A k \in DOMAIN line :
            /\ Position(view, k) = line[k]
            /\ Backward(Forward(view.begin, k), k) = view.begin
      /\ CopySlice(table, d, i, GetSlice(table, d, i)) = table

\* The entries of a table are the same through the views of its functions, the
\* views of its points, slices, sub-arrays and iterators, whatever resizes,
\* reshapes and copies came before, and the values of a linear combination
\* at a point combine the view of that point (ValueTable, DynamicMultiArray).
ViewsAgree ==
  FlatSizeOf(table) > 0 =>
    /\ \A d \in 0 .. 1 : \A i \in 0 .. table.size[d] - 1 : ReadsAgree(d, i)
    /\ \A i \in 0 .. Functions(table) - 1 : NumEntries(FunctionView(table, i)) = Points(table)
    /\ Walk(View(Begin(table), End(table))) = table.data
    /\ LET c == [i \in 0 .. Functions(table) - 1 |-> 2 * i - 1]
       IN  \A j \in 0 .. Points(table) - 1 :
             LinearCombination(table, c)[j] =
               SumOver(Functions(table), LAMBDA i : c[i] * Walk(PointView(table, j))[i])

\* The steps the iterator counts between the ends of the view of a point lead
\* from one to the other (the assertion of MultiArrayIterator::operator-).
PointsCounted ==
  FlatSizeOf(table) > 0 =>
    \A j \in 0 .. Points(table) - 1 : StepsLead(PointView(table, j).end, PointView(table, j).begin)

-------------------------------------------------------------------------------
(* Products agree with the vectors they are made of.                       *)

Affine(x, factor, shift) == [d \in DOMAIN x |-> factor[d] * x[d] + shift[d]]
Factor == [d \in 0 .. 1 |-> d + 2]
Shift == [d \in 0 .. 1 |-> 3 - 2 * d]

\* The points of a product, as an array that can be sliced.
PointsOf(p) == [size |-> p.size, data |-> GetFlatCartesianProduct(p)]

\* A product keeps the sizes it indexes by in step with its vectors; a vector
\* inserted in a direction is constant on the slices of that direction, where
\* the rest of the product is the one it was inserted in; leaving the
\* direction out again gives the product back; and the entries of a tensor
\* product, dilated and translated, are the products of the moved
\* coordinates (CartesianProductArray, TensorProductArray).
ProductsAgree ==
  /\ \A d \in DirectionsOf(product) : product.size[d] = VectorSize(product.data[d])
  /\ \A d \in 0 .. 2, v \in Vectors :
       LET grown == InsertVector(product, d, v) IN
         /\ GetSubProduct(grown, [e \in 0 .. 1 |-> IF e < d THEN e ELSE e + 1]) = product
         /\ \A k \in DOMAIN v :
              LET slice == GetSlice(PointsOf(grown), d, k) IN
                /\ slice.size = product.size
                /\ \A n \in DOMAIN slice.data :
                     /\ slice.data[n][d] = v[k]
                     /\ DropDirection(slice.data[n], d) = GetFlatCartesianProduct(product)[n]
  /\ LET moved == GetFlatTensorProduct(DilateTranslate(product, Factor, Shift))
         points == GetFlatCartesianProduct(product)
     IN  \A n \in DOMAIN points :
           LET y == Affine(points[n], Factor, Shift) IN moved[n] = y[0] * y[1]
  /\ \A n \in DOMAIN Indexer(product.size).data :
       CartesianProduct(product, Indexer(product.size).data[n]) = GetFlatCartesianProduct(product)[n]
===============================================================================
