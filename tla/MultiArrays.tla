------------------------------ MODULE MultiArrays ------------------------------
(***************************************************************************)
(* Multi-dimensional arrays, their strided iterators and views, the tables *)
(* of values (functions by points) and the Cartesian and tensor products   *)
(* built on them.  An array is its size in every direction and its data in *)
(* flat order; indices begin at 0 as in the code.                          *)
(***************************************************************************)
EXTENDS Tensors, Folds

PassTheEnd == -1
Invalid == -2

RankOf(size) == CHOOSE r \in 1 .. 4 : DOMAIN size = 0 .. r - 1
Flat(size) == Indexing(RankOf(size))!FlatSize(size)
ToTensor(flat, size) == Indexing(RankOf(size))!FlatToTensor(flat, size)
ToFlat(index, size) == Indexing(RankOf(size))!TensorToFlat(index, size)
Inside(index, size) == Indexing(RankOf(size))!InBox(index, size)

SumOver(n, f(_)) == LET sum[k \in 0 .. n] == IF k = 0 THEN 0 ELSE sum[k - 1] + f(k - 1) IN sum[n]

-------------------------------------------------------------------------------
(* Arrays.                                                                 *)

FlatSizeOf(a) == Flat(a.size)
Entry(a, index) == a.data[ToFlat(index, a.size)]

MultiArray(size, val) == [size |-> size, data |-> [k \in 0 .. Flat(size) - 1 |-> val]]

\* A variant that clears the entries the array had.
ResizeClearing(a, size, val) == MultiArray(size, val)

\* std::vector::resize: the entries that remain keep their flat position.
Resize(a, size, val) ==
  [size |-> size,
   data |-> [k \in 0 .. Flat(size) - 1 |-> IF k < FlatSizeOf(a) THEN a.data[k] ELSE val]]

Reshape(a, size) == [a EXCEPT !.size = size]

FillProgression(a, init) == [a EXCEPT !.data = [k \in DOMAIN a.data |-> init + k]]

AddIndices(i, j) == [d \in DOMAIN i |-> i[d] + j[d]]

GetSubArray(a, start, inc) ==
  [size |-> inc,
   data |-> [k \in 0 .. Flat(inc) - 1 |-> Entry(a, AddIndices(ToTensor(k, inc), start))]]

\* The directions but one, and the index with that one put back.
DropDirection(f, direction) ==
  [d \in 0 .. RankOf(f) - 2 |-> f[IF d < direction THEN d ELSE d + 1]]
\* A variant that puts the directions after the new one where they were.
PutDirectionShifted(f, direction, x) ==
  [d \in 0 .. RankOf(f) |->
     IF d = direction THEN x ELSE f[IF d < direction THEN d ELSE RankOf(f) - 1]]
PutDirection(f, direction, x) ==
  [d \in 0 .. RankOf(f) |->
     IF d = direction THEN x ELSE f[IF d < direction THEN d ELSE d - 1]]

GetSlice(a, direction, index) ==
  LET size == DropDirection(a.size, direction)
  IN  [size |-> size,
       data |-> [k \in 0 .. Flat(size) - 1 |->
                   Entry(a, PutDirection(ToTensor(k, size), direction, index))]]

CopySlice(a, direction, index, slice) ==
  [a EXCEPT !.data = [k \in DOMAIN @ |->
     LET i == ToTensor(k, a.size)
     IN  IF i[direction] = index
         THEN slice.data[ToFlat(DropDirection(i, direction), slice.size)]
         ELSE @[k]]]

-------------------------------------------------------------------------------
(* Iterators: a position in the data and a stride.                         *)

Iterator(a, id, stride) ==
  [on |-> a, stride |-> stride,
   id |-> IF FlatSizeOf(a) = 0 THEN Invalid
          ELSE IF id = FlatSizeOf(a) THEN PassTheEnd ELSE id]

Begin(a) == Iterator(a, 0, 1)
End(a) == Iterator(a, PassTheEnd, 1)

IsIn(it) == it.id \notin {PassTheEnd, Invalid}
Deref(it) == it.on.data[it.id]
Subscript(it, i) == it.on.data[it.id + i * it.stride]

Successor(it) ==
  [it EXCEPT !.id = IF @ + it.stride >= FlatSizeOf(it.on) THEN PassTheEnd ELSE @ + it.stride]

Less(it, other) == IsIn(it) /\ (other.id = PassTheEnd \/ it.id < other.id)
LessEqual(it, other) == Less(it, other) \/ it = other

Forward(it, n) ==
  LET pos == it.id + n * it.stride
  IN  Iterator(it.on, IF pos < FlatSizeOf(it.on) THEN pos ELSE PassTheEnd, it.stride)
Backward(it, n) == Iterator(it.on, it.id - n * it.stride, it.stride)

\* The steps from a to it; the assertion that they lead there is StepsLead.
Distance(it, a) ==
  LET difference == IF it.id # PassTheEnd THEN it.id - a.id
                    ELSE IF a.id # PassTheEnd THEN FlatSizeOf(it.on) - a.id ELSE 0
  IN  difference \div a.stride
StepsLead(it, a) == Forward(a, Distance(it, a)) = it

-------------------------------------------------------------------------------
(* Views: a range of iterators that is not empty.                          *)

View(begin, end) == [begin |-> begin, end |-> end]
IsView(v) == Less(v.begin, v.end)
NumEntries(v) == Distance(v.end, v.begin)
Position(v, n) == Subscript(v.begin, n)
\* The assertion of the subscript of a view.
HasPosition(v, n) == Less(Forward(v.begin, n), v.end)

\* What a loop from the beginning to the end of the view visits.
Walk(v) ==
  LET n == CHOOSE m \in 1 .. FlatSizeOf(v.begin.on) : Forward(v.begin, m) = v.end
      at[k \in 0 .. n - 1] == IF k = 0 THEN v.begin ELSE Successor(at[k - 1])
  IN  [k \in 0 .. n - 1 |-> Deref(at[k])]

-------------------------------------------------------------------------------
(* Tables of values: the points run first.                                 *)

TableSize(functions, points) == [d \in 0 .. 1 |-> IF d = 0 THEN points ELSE functions]
Points(table) == table.size[0]
Functions(table) == table.size[1]

\* ValueContainer::resize leaves a table of the same sizes alone.
ResizeTable(table, functions, points, zero) ==
  IF functions # Functions(table) \/ points # Points(table)
  THEN Resize(table, TableSize(functions, points), zero) ELSE table

\* A variant that ends the view one point early.
FunctionViewShort(table, i) ==
  View(Iterator(table, i * Points(table), 1), Iterator(table, (i + 1) * Points(table) - 1, 1))
FunctionView(table, i) ==
  View(Iterator(table, i * Points(table), 1), Iterator(table, (i + 1) * Points(table), 1))
\* A variant with the stride of the functions.
PointViewOfFunctions(table, i) ==
  View(Iterator(table, i, Functions(table)), Iterator(table, PassTheEnd, Functions(table)))
PointView(table, i) ==
  View(Iterator(table, i, Points(table)), Iterator(table, PassTheEnd, Points(table)))

LinearCombination(table, coefficients) ==
  [j \in 0 .. Points(table) - 1 |->
     SumOver(Functions(table), LAMBDA i : coefficients[i] * Position(FunctionView(table, i), j))]

-------------------------------------------------------------------------------
(* CartesianProductArray and TensorProductArray: one vector of values per  *)
(* direction, and the sizes the indexing uses, recorded beside them.       *)

VectorSize(v) == IF DOMAIN v = {} THEN 0 ELSE 1 + (CHOOSE k \in DOMAIN v : \A j \in DOMAIN v : j <= k)
DirectionsOf(p) == 0 .. RankOf(p.size) - 1

CartesianProductArray(directions) ==
  [size |-> [d \in DOMAIN directions |-> VectorSize(directions[d])], data |-> directions]

ResizeProduct(p, size, val) ==
  [size |-> size,
   data |-> [d \in DirectionsOf(p) |->
               [k \in 0 .. size[d] - 1 |-> IF k < p.size[d] THEN p.data[d][k] ELSE val]]]

\* A variant that keeps the recorded size.
CopyDataOnly(p, i, data) == [p EXCEPT !.data[i] = data]
CopyDataDirection(p, i, data) == [p EXCEPT !.data[i] = data, !.size[i] = VectorSize(data)]

CartesianProduct(p, index) == [d \in DirectionsOf(p) |-> p.data[d][index[d]]]

GetFlatCartesianProduct(p) ==
  [k \in 0 .. Flat(p.size) - 1 |-> CartesianProduct(p, ToTensor(k, p.size))]

\* The product of the directions that index names.
GetSubProduct(p, index) == CartesianProductArray([i \in DOMAIN index |-> p.data[index[i]]])

InsertVector(p, index, v) == CartesianProductArray(PutDirection(p.data, index, v))

\* CartesianProductIndexer: the tensor indices of a box in flat order.
Indexer(size) == [size |-> size, data |-> [k \in 0 .. Flat(size) - 1 |-> ToTensor(k, size)]]

-------------------------------------------------------------------------------
(* Tensor products of numbers.                                             *)

Dilate(p, factor) ==
  [p EXCEPT !.data = [d \in DirectionsOf(p) |-> [k \in 0 .. p.size[d] - 1 |-> p.data[d][k] * factor[d]]]]
Translate(p, shift) ==
  [p EXCEPT !.data = [d \in DirectionsOf(p) |-> [k \in 0 .. p.size[d] - 1 |-> p.data[d][k] + shift[d]]]]
\* A variant that moves before it scales.
TranslateThenDilate(p, factor, shift) == Dilate(Translate(p, shift), factor)
DilateTranslate(p, factor, shift) == Translate(Dilate(p, factor), shift)

TensorProduct(p, index) ==
  LET t[d \in DirectionsOf(p)] ==
        IF d = 0 THEN p.data[0][index[0]] ELSE t[d - 1] * p.data[d][index[d]]
  IN  t[RankOf(p.size) - 1]

GetFlatTensorProduct(p) ==
  [k \in 0 .. Flat(p.size) - 1 |-> TensorProduct(p, ToTensor(k, p.size))]
===============================================================================
