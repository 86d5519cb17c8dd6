---------------------------- MODULE IndexingProofs ----------------------------
(***************************************************************************)
(* The numbering of a DofDistribution, for any number of components and    *)
(* directions and any sizes: find_dof_id finds the function of an id, and  *)
(* the view of an element has the functions that live on it.               *)
(***************************************************************************)
EXTENDS DofDistribution, TensorProofs

-----------------------------------------------------------------------------
(* Local dofs.  The components of a patch are numbered one after the other;  *)
(* a local dof is the place of a function in its component, behind the       *)
(* functions of the components before.                                       *)

\* There are finitely many components, and sizes in each direction.
LEMMA CompsCounted ==
  ASSUME NEW shape, ShapeOK(shape)
  PROVE  /\ \E k \in Nat \ {0} : Comps(shape) = 0 .. k - 1
         /\ shape.dim \in Nat \ {0}
         /\ \A c \in Comps(shape) : shape.n_basis[c] \in [Dirs(shape.dim) -> Nat \ {0}]
<1>1. PICK last \in Comps(shape) : Comps(shape) = 0 .. last
  BY DEF ShapeOK
<1>2. last \in Nat /\ last + 1 \in Nat \ {0} /\ (last + 1) - 1 = last
  BY <1>1
<1>3. Comps(shape) = 0 .. (last + 1) - 1
  BY <1>1, <1>2
<1> QED BY <1>2, <1>3 DEF ShapeOK, Dirs

\* The offsets of the components exist: each is behind the component before.
LEMMA OffsetsDefined ==
  ASSUME NEW shape, NEW k \in Nat \ {0}, Comps(shape) = 0 .. k - 1
  PROVE  /\ CompOffset(shape, 0) = 0
         /\ \A c \in Comps(shape) : c # 0 =>
              CompOffset(shape, c) = CompOffset(shape, c - 1) + FlatSizeOf(shape, c - 1)
<1> DEFINE Term(v, i) == IF i = 0 THEN 0 ELSE v[i - 1] + FlatSizeOf(shape, i - 1)
<1>1. PICK T : T = {n \in Nat : \E v : v = [i \in 0 .. n |-> Term(v, i)]}
  OBVIOUS
<1>2. 0 \in T
  <2>1. PICK v : v = [i \in 0 .. 0 |-> 0]
    OBVIOUS
  <2>2. v = [i \in 0 .. 0 |-> Term(v, i)]
    BY <2>1
  <2> QED BY <1>1, <2>2
<1>3. ASSUME NEW n \in Nat, n \in T
      PROVE  n + 1 \in T
  <2>1. PICK v : v = [i \in 0 .. n |-> Term(v, i)]
    BY <1>1, <1>3
  <2>2. PICK u : u = [i \in 0 .. n + 1 |->
                        IF i = n + 1 THEN v[n] + FlatSizeOf(shape, n) ELSE v[i]]
    OBVIOUS
  <2>3. ASSUME NEW i \in 0 .. n + 1
        PROVE  u[i] = Term(u, i)
    <3>1. CASE i = n + 1
      <4>1. i # 0 /\ i - 1 = n /\ n \in 0 .. n + 1 /\ n # n + 1
        BY <3>1
      <4> QED BY <2>2, <3>1, <4>1
    <3>2. CASE i # n + 1
      <4>1. i \in 0 .. n /\ (i # 0 => i - 1 \in 0 .. n + 1 /\ i - 1 # n + 1)
        BY <3>2
      <4> QED BY <2>1, <2>2, <3>2, <4>1
    <3> QED BY <3>1, <3>2
  <2>4. u = [i \in 0 .. n + 1 |-> Term(u, i)]
    BY <2>2, <2>3
  <2> QED BY <1>1, <2>4
<1>4. \A n \in Nat : n \in T
  BY <1>2, <1>3, NatInSet
<1>5. k - 1 \in Nat /\ 0 \in Comps(shape) /\ \A c \in Comps(shape) : c # 0 => c - 1 \in Comps(shape)
  OBVIOUS
<1>6. \E v : v = [i \in Comps(shape) |-> Term(v, i)]
  BY <1>1, <1>4, <1>5
<1>7. PICK o : o = CHOOSE v : v = [i \in Comps(shape) |-> Term(v, i)]
  OBVIOUS
<1>8. o = [i \in Comps(shape) |-> Term(o, i)]
  BY <1>6, <1>7
<1>9. \A c : CompOffset(shape, c) = o[c]
  BY <1>7 DEF CompOffset
<1> QED BY <1>5, <1>8, <1>9

\* Offsets and sizes of components are numbers.
LEMMA OffsetsNat ==
  ASSUME NEW shape, ShapeOK(shape), NEW c \in Comps(shape)
  PROVE  /\ CompOffset(shape, c) \in Nat
         /\ FlatSizeOf(shape, c) \in Nat \ {0}
<1>1. PICK k \in Nat \ {0} : Comps(shape) = 0 .. k - 1
  BY CompsCounted
<1>2. \A b \in Comps(shape) : FlatSizeOf(shape, b) \in Nat \ {0}
  BY CompsCounted, FlatSizePositive DEF FlatSizeOf
<1>3. /\ CompOffset(shape, 0) = 0
      /\ \A b \in Comps(shape) : b # 0 =>
           CompOffset(shape, b) = CompOffset(shape, b - 1) + FlatSizeOf(shape, b - 1)
  BY <1>1, OffsetsDefined
<1>4. PICK T : T = {n \in Nat : n \in Comps(shape) => CompOffset(shape, n) \in Nat}
  OBVIOUS
<1>5. 0 \in T
  BY <1>3, <1>4
<1>6. ASSUME NEW n \in Nat, n \in T
      PROVE  n + 1 \in T
  <2>1. n + 1 \in Comps(shape) => n \in Comps(shape) /\ n + 1 # 0 /\ (n + 1) - 1 = n
    BY <1>1
  <2>2. n + 1 \in Comps(shape) =>
          CompOffset(shape, n + 1) = CompOffset(shape, n) + FlatSizeOf(shape, n)
    BY <1>3, <2>1
  <2> QED BY <1>2, <1>4, <1>6, <2>1, <2>2
<1>7. \A n \in Nat : n \in T
  BY <1>5, <1>6, NatInSet
<1>8. c \in Nat
  BY <1>1
<1> QED BY <1>2, <1>4, <1>7, <1>8

\* A component ends before the next ones begin.
LEMMA OffsetsApart ==
  ASSUME NEW shape, ShapeOK(shape), NEW c \in Comps(shape), NEW b \in Comps(shape), c < b
  PROVE  CompOffset(shape, c) + FlatSizeOf(shape, c) <= CompOffset(shape, b)
<1>1. PICK k \in Nat \ {0} : Comps(shape) = 0 .. k - 1
  BY CompsCounted
<1>2. \A d \in Comps(shape) : CompOffset(shape, d) \in Nat /\ FlatSizeOf(shape, d) \in Nat
  BY OffsetsNat
<1>3. \A d \in Comps(shape) : d # 0 =>
        CompOffset(shape, d) = CompOffset(shape, d - 1) + FlatSizeOf(shape, d - 1)
  BY <1>1, OffsetsDefined
<1>4. PICK T : T = {n \in Nat : n \in Comps(shape) /\ c < n =>
                      CompOffset(shape, c) + FlatSizeOf(shape, c) <= CompOffset(shape, n)}
  OBVIOUS
<1>5. 0 \in T
  BY <1>1, <1>4
<1>6. ASSUME NEW n \in Nat, n \in T
      PROVE  n + 1 \in T
  <2> SUFFICES ASSUME n + 1 \in Comps(shape), c < n + 1
               PROVE  CompOffset(shape, c) + FlatSizeOf(shape, c) <= CompOffset(shape, n + 1)
    BY <1>4
  <2>1. n \in Comps(shape) /\ n + 1 # 0 /\ (n + 1) - 1 = n /\ (c = n \/ c < n)
    BY <1>1
  <2>2. CompOffset(shape, n + 1) = CompOffset(shape, n) + FlatSizeOf(shape, n)
    BY <1>3, <2>1
  <2>3. PICK x, y, z, w : /\ x = CompOffset(shape, c) /\ y = FlatSizeOf(shape, c)
                          /\ z = CompOffset(shape, n) /\ w = FlatSizeOf(shape, n)
    OBVIOUS
  <2>4. x \in Nat /\ y \in Nat /\ z \in Nat /\ w \in Nat
    BY <1>2, <2>1, <2>3
  <2>5. x + y <= z + w
    <3>1. CASE c = n
      BY <2>3, <2>4, <3>1
    <3>2. CASE c < n
      <4>1. x + y <= z
        BY <1>4, <1>6, <2>1, <2>3, <3>2
      <4> QED BY <2>4, <4>1
    <3> QED BY <2>1, <3>1, <3>2
  <2> QED BY <2>2, <2>3, <2>5
<1>7. \A n \in Nat : n \in T
  BY <1>5, <1>6, NatInSet
<1>8. b \in Nat
  BY <1>1
<1> QED BY <1>4, <1>7, <1>8

\* The dofs of a patch end where its last component ends.
LEMMA NumDofsBehind ==
  ASSUME NEW shape, ShapeOK(shape)
  PROVE  /\ NumDofsOf(shape) \in Nat \ {0}
         /\ \A c \in Comps(shape) : CompOffset(shape, c) + FlatSizeOf(shape, c) <= NumDofsOf(shape)
         /\ \E last \in Comps(shape) : /\ \A c \in Comps(shape) : c <= last
                                     /\ NumDofsOf(shape) = CompOffset(shape, last) + FlatSizeOf(shape, last)
<1>1. PICK k \in Nat \ {0} : Comps(shape) = 0 .. k - 1
  BY CompsCounted
<1>2. PICK last : last = k - 1
  OBVIOUS
<1>3. last \in Comps(shape) /\ last + 1 \notin Comps(shape) /\ \A c \in Comps(shape) : c <= last
  BY <1>1, <1>2
<1>4. \A c \in Comps(shape) : c + 1 \notin Comps(shape) => c = last
  BY <1>1, <1>2
<1>5. (CHOOSE c \in Comps(shape) : c + 1 \notin Comps(shape)) = last
  BY <1>3, <1>4
<1>6. NumDofsOf(shape) = CompOffset(shape, last) + FlatSizeOf(shape, last)
  BY <1>5 DEF NumDofsOf
<1>7. \A d \in Comps(shape) : CompOffset(shape, d) \in Nat /\ FlatSizeOf(shape, d) \in Nat \ {0}
  BY OffsetsNat
<1>8. ASSUME NEW c \in Comps(shape)
      PROVE  CompOffset(shape, c) + FlatSizeOf(shape, c) <= NumDofsOf(shape)
  <2>1. CASE c = last
    BY <1>6, <1>7, <2>1
  <2>2. CASE c # last
    <3>1. c < last
      BY <1>1, <1>2, <2>2
    <3>2. CompOffset(shape, c) + FlatSizeOf(shape, c) <= CompOffset(shape, last)
      BY <1>3, <3>1, OffsetsApart
    <3> QED BY <1>3, <1>6, <1>7, <3>2
  <2> QED BY <2>1, <2>2
<1>9. NumDofsOf(shape) \in Nat \ {0}
  BY <1>3, <1>6, <1>7
<1> QED BY <1>3, <1>6, <1>8, <1>9

\* The local dofs of a component.
InComp(shape, c, i) == CompOffset(shape, c) <= i /\ i < CompOffset(shape, c) + FlatSizeOf(shape, c)

\* Every local dof belongs to one component.
LEMMA DofHasComp ==
  ASSUME NEW shape, ShapeOK(shape), NEW i \in 0 .. NumDofsOf(shape) - 1
  PROVE  \E c \in Comps(shape) : InComp(shape, c, i)
<1>1. PICK k \in Nat \ {0} : Comps(shape) = 0 .. k - 1
  BY CompsCounted
<1>2. \A d \in Comps(shape) : CompOffset(shape, d) \in Nat /\ FlatSizeOf(shape, d) \in Nat
  BY OffsetsNat
<1>3. /\ CompOffset(shape, 0) = 0
      /\ \A d \in Comps(shape) : d # 0 =>
           CompOffset(shape, d) = CompOffset(shape, d - 1) + FlatSizeOf(shape, d - 1)
  BY <1>1, OffsetsDefined
<1>4. PICK T : T = {n \in Nat : n \in Comps(shape) /\ i < CompOffset(shape, n) + FlatSizeOf(shape, n) =>
                      \E c \in Comps(shape) : InComp(shape, c, i)}
  OBVIOUS
<1>5. NumDofsOf(shape) \in Nat /\ i \in Nat
  BY NumDofsBehind
<1>6. 0 \in T
  <2>1. 0 \in Comps(shape)
    BY <1>1
  <2>2. i < CompOffset(shape, 0) + FlatSizeOf(shape, 0) => InComp(shape, 0, i)
    BY <1>3, <1>5 DEF InComp
  <2> QED BY <1>4, <2>1, <2>2
<1>7. ASSUME NEW n \in Nat, n \in T
      PROVE  n + 1 \in T
  <2> SUFFICES ASSUME n + 1 \in Comps(shape), i < CompOffset(shape, n + 1) + FlatSizeOf(shape, n + 1)
               PROVE  \E c \in Comps(shape) : InComp(shape, c, i)
    BY <1>4
  <2>1. n \in Comps(shape) /\ n + 1 # 0 /\ (n + 1) - 1 = n
    BY <1>1
  <2>2. CompOffset(shape, n + 1) = CompOffset(shape, n) + FlatSizeOf(shape, n)
    BY <1>3, <2>1
  <2>3. CASE CompOffset(shape, n + 1) <= i
    <3>1. InComp(shape, n + 1, i)
      BY <2>3 DEF InComp
    <3> QED BY <3>1
  <2>4. CASE ~(CompOffset(shape, n + 1) <= i)
    <3>1. i < CompOffset(shape, n) + FlatSizeOf(shape, n)
      BY <1>2, <1>5, <2>1, <2>2, <2>4
    <3> QED BY <1>4, <1>7, <2>1, <3>1
  <2> QED BY <2>3, <2>4
<1>8. \A n \in Nat : n \in T
  BY <1>6, <1>7, NatInSet
<1>9. PICK last \in Comps(shape) : NumDofsOf(shape) = CompOffset(shape, last) + FlatSizeOf(shape, last)
  BY NumDofsBehind
<1>10. last \in Nat /\ i < NumDofsOf(shape)
  BY <1>1, <1>5
<1> QED BY <1>4, <1>8, <1>9, <1>10

\* And to one only.
LEMMA DofHasOneComp ==
  ASSUME NEW shape, ShapeOK(shape), NEW i \in Nat,
         NEW c \in Comps(shape), NEW b \in Comps(shape),
         InComp(shape, c, i), InComp(shape, b, i)
  PROVE  c = b
<1>1. c \in Int /\ b \in Int
  BY CompsCounted
<1>2. ASSUME NEW x \in Comps(shape), NEW y \in Comps(shape), InComp(shape, x, i), InComp(shape, y, i), x < y
      PROVE  FALSE
  <2>1. CompOffset(shape, x) + FlatSizeOf(shape, x) <= CompOffset(shape, y)
    BY <1>2, OffsetsApart
  <2>2. /\ CompOffset(shape, x) \in Nat /\ FlatSizeOf(shape, x) \in Nat
        /\ CompOffset(shape, y) \in Nat /\ FlatSizeOf(shape, y) \in Nat
    BY OffsetsNat
  <2> QED BY <1>2, <2>1, <2>2 DEF InComp
<1> QED BY <1>1, <1>2

\* The tensor indices of a component.
InBoxOf(shape, c, tensor) ==
  tensor \in [Dirs(shape.dim) -> Int] /\ Indexing(shape.dim)!InBox(tensor, shape.n_basis[c])

\* A function of a component has a local dof in its range, from which the
\* division finds the function again.
LEMMA DofOfPlace ==
  ASSUME NEW shape, ShapeOK(shape), NEW c \in Comps(shape), NEW tensor, InBoxOf(shape, c, tensor)
  PROVE  /\ LocalDof(shape, c, tensor) \in 0 .. NumDofsOf(shape) - 1
         /\ InComp(shape, c, LocalDof(shape, c, tensor))
         /\ Indexing(shape.dim)!FlatToTensor(LocalDof(shape, c, tensor) - CompOffset(shape, c), shape.n_basis[c]) = tensor
<1>1. PICK dim, n : dim = shape.dim /\ n = shape.n_basis[c]
  OBVIOUS
<1>2. dim \in Nat \ {0} /\ n \in [Dirs(dim) -> Nat \ {0}]
  BY <1>1, CompsCounted
<1>3. PICK flat : flat = Indexing(dim)!TensorToFlat(tensor, n)
  OBVIOUS
<1>4. /\ flat \in 0 .. Indexing(dim)!FlatSize(n) - 1
      /\ Indexing(dim)!FlatToTensor(flat, n) = tensor
  BY <1>1, <1>2, <1>3, TensorRoundTrip DEF InBoxOf
<1>5. PICK offset, m : offset = CompOffset(shape, c) /\ m = FlatSizeOf(shape, c)
  OBVIOUS
<1>6. offset \in Nat /\ m \in Nat \ {0} /\ m = Indexing(dim)!FlatSize(n)
  BY <1>1, <1>5, OffsetsNat DEF FlatSizeOf
<1>7. LocalDof(shape, c, tensor) = offset + flat
  BY <1>1, <1>3, <1>5 DEF LocalDof
<1>8. offset + flat \in Nat /\ (offset + flat) - offset = flat /\ offset <= offset + flat /\ offset + flat < offset + m
  BY <1>4, <1>6
<1>9. InComp(shape, c, offset + flat)
  BY <1>5, <1>8 DEF InComp
<1>10. NumDofsOf(shape) \in Nat /\ offset + m <= NumDofsOf(shape)
  BY <1>5, NumDofsBehind
<1>11. offset + flat \in 0 .. NumDofsOf(shape) - 1
  BY <1>6, <1>8, <1>10
<1> QED BY <1>1, <1>4, <1>5, <1>7, <1>8, <1>9, <1>11

\* A local dof of a component is that of one of its functions.
LEMMA PlaceOfDof ==
  ASSUME NEW shape, ShapeOK(shape), NEW c \in Comps(shape), NEW i \in Nat, InComp(shape, c, i),
         NEW tensor, tensor = Indexing(shape.dim)!FlatToTensor(i - CompOffset(shape, c), shape.n_basis[c])
  PROVE  /\ InBoxOf(shape, c, tensor)
         /\ LocalDof(shape, c, tensor) = i
         /\ i - CompOffset(shape, c) \in 0 .. FlatSizeOf(shape, c) - 1
<1>1. PICK dim, n : dim = shape.dim /\ n = shape.n_basis[c]
  OBVIOUS
<1>2. dim \in Nat \ {0} /\ n \in [Dirs(dim) -> Nat \ {0}]
  BY <1>1, CompsCounted
<1>3. PICK offset, m : offset = CompOffset(shape, c) /\ m = FlatSizeOf(shape, c)
  OBVIOUS
<1>4. offset \in Nat /\ m \in Nat \ {0} /\ m = Indexing(dim)!FlatSize(n)
  BY <1>1, <1>3, OffsetsNat DEF FlatSizeOf
<1>5. PICK flat : flat = i - offset
  OBVIOUS
<1>6. flat \in 0 .. m - 1 /\ offset + flat = i
  BY <1>3, <1>4, <1>5 DEF InComp
<1>7. tensor = Indexing(dim)!FlatToTensor(flat, n)
  BY <1>1, <1>3, <1>5
<1>8. /\ tensor \in [Dirs(dim) -> Nat]
      /\ Indexing(dim)!InBox(tensor, n)
      /\ Indexing(dim)!TensorToFlat(tensor, n) = flat
  BY <1>2, <1>4, <1>6, <1>7, FlatRoundTrip
<1>9. InBoxOf(shape, c, tensor)
  BY <1>1, <1>8 DEF InBoxOf
<1>10. LocalDof(shape, c, tensor) = i
  BY <1>1, <1>3, <1>6, <1>8 DEF LocalDof
<1> QED BY <1>3, <1>5, <1>6, <1>9, <1>10

\* No two functions have the same id.
IdsDiffer(table, shape) ==
  \A i, j \in 0 .. NumDofsOf(shape) - 1 : table[i] = table[j] => i = j

\* find_dof_id finds the one function that has an id, if there is one.
FindsFunction(table, shape, dof_id) ==
  /\ (\A i \in 0 .. NumDofsOf(shape) - 1 : table[i] # dof_id) => FindDofId(table, shape, dof_id) = {}
  /\ \A i \in 0 .. NumDofsOf(shape) - 1 : table[i] = dof_id =>
       \E pl : /\ FindDofId(table, shape, dof_id) = {pl}
               /\ LocalDof(shape, pl.comp, pl.tensor) = i

\* In a table whose ids are all different, find_dof_id finds the function that
\* has an id, and nothing for an id the table does not have.
THEOREM FindDofIdFinds ==
  ASSUME NEW shape, ShapeOK(shape), NEW table, IdsDiffer(table, shape), NEW dof_id
  PROVE  FindsFunction(table, shape, dof_id)
<1> DEFINE At(comp) == {pos \in 0 .. FlatSizeOf(shape, comp) - 1 : table[CompOffset(shape, comp) + pos] = dof_id}
           First(comp) == CHOOSE pos \in At(comp) : \A q \in At(comp) : pos <= q
           found == {comp \in Comps(shape) : At(comp) # {} /\ \A c \in Comps(shape) : c < comp => At(c) = {}}
           Place(comp) == [comp |-> comp, tensor |-> Indexing(shape.dim)!FlatToTensor(First(comp), shape.n_basis[comp])]
<1>1. FindDofId(table, shape, dof_id) = {Place(comp) : comp \in found}
  BY DEF FindDofId
<1>2. ASSUME NEW c \in Comps(shape), NEW pos \in At(c)
      PROVE  /\ CompOffset(shape, c) + pos \in 0 .. NumDofsOf(shape) - 1
             /\ InComp(shape, c, CompOffset(shape, c) + pos)
             /\ table[CompOffset(shape, c) + pos] = dof_id
             /\ pos \in Nat /\ CompOffset(shape, c) \in Nat
  <2>1. CompOffset(shape, c) \in Nat /\ FlatSizeOf(shape, c) \in Nat
    BY OffsetsNat
  <2>2. CompOffset(shape, c) + FlatSizeOf(shape, c) <= NumDofsOf(shape) /\ NumDofsOf(shape) \in Nat
    BY NumDofsBehind
  <2>3. pos \in 0 .. FlatSizeOf(shape, c) - 1 /\ table[CompOffset(shape, c) + pos] = dof_id
    BY <1>2
  <2> HIDE DEF At
  <2> QED BY <2>1, <2>2, <2>3 DEF InComp
<1>3. ASSUME \A i \in 0 .. NumDofsOf(shape) - 1 : table[i] # dof_id
      PROVE  FindDofId(table, shape, dof_id) = {}
  <2>1. \A c \in Comps(shape) : At(c) = {}
    BY <1>2, <1>3
  <2>2. found = {}
    BY <2>1
  <2> QED BY <1>1, <2>2
<1>4. ASSUME NEW i \in 0 .. NumDofsOf(shape) - 1, table[i] = dof_id
      PROVE  \E pl : /\ FindDofId(table, shape, dof_id) = {pl}
                     /\ LocalDof(shape, pl.comp, pl.tensor) = i
  <2>1. PICK c \in Comps(shape) : InComp(shape, c, i)
    BY DofHasComp
  <2>2. i \in Nat /\ CompOffset(shape, c) \in Nat /\ FlatSizeOf(shape, c) \in Nat
    BY OffsetsNat, NumDofsBehind
  <2>3. PICK pos : pos = i - CompOffset(shape, c)
    OBVIOUS
  <2>4. pos \in 0 .. FlatSizeOf(shape, c) - 1 /\ CompOffset(shape, c) + pos = i
    BY <2>1, <2>2, <2>3 DEF InComp
  <2>5. pos \in At(c)
    BY <1>4, <2>4
  <2>6. ASSUME NEW b \in Comps(shape), NEW q \in At(b)
        PROVE  b = c /\ q = pos
    <3>1. /\ CompOffset(shape, b) + q \in 0 .. NumDofsOf(shape) - 1
          /\ InComp(shape, b, CompOffset(shape, b) + q)
          /\ table[CompOffset(shape, b) + q] = dof_id
          /\ q \in Nat /\ CompOffset(shape, b) \in Nat
      BY <1>2, <2>6
    <3>2. CompOffset(shape, b) + q = i
      BY <1>4, <3>1 DEF IdsDiffer
    <3>3. b = c
      BY <2>1, <2>2, <3>1, <3>2, DofHasOneComp
    <3> HIDE DEF At
    <3> QED BY <2>2, <2>3, <3>1, <3>2, <3>3
  <2>7. At(c) = {pos} /\ \A b \in Comps(shape) : b # c => At(b) = {}
    BY <2>5, <2>6
  <2>8. First(c) = pos
    <3>1. pos <= pos
      BY <2>4
    <3> HIDE DEF At
    <3> QED BY <2>7, <3>1
  <2>9. found = {c}
    <3>1. c \in Int /\ \A b \in Comps(shape) : b < c => b # c
      BY CompsCounted
    <3> HIDE DEF At
    <3> QED BY <2>5, <2>7, <3>1
  <2> HIDE DEF found, First
  <2>10. FindDofId(table, shape, dof_id) = {Place(c)}
    BY <1>1, <2>9
  <2>11. Place(c).comp = c
         /\ Place(c).tensor = Indexing(shape.dim)!FlatToTensor(i - CompOffset(shape, c), shape.n_basis[c])
    BY <2>3, <2>8
  <2>12. LocalDof(shape, Place(c).comp, Place(c).tensor) = i
    BY <2>1, <2>2, <2>11, PlaceOfDof
  <2> QED BY <2>10, <2>12
<1> QED BY <1>3, <1>4 DEF FindsFunction

-----------------------------------------------------------------------------
(* The dofs of an element.                                                   *)

\* Moving along the first direction moves the flat index as much.
LEMMA FlatShift ==
  ASSUME NEW dim \in Nat \ {0}, NEW sizes \in [Dirs(dim) -> Nat \ {0}], NEW k \in Int,
         NEW from \in [Dirs(dim) -> Int], NEW to \in [Dirs(dim) -> Int],
         to[0] = from[0] + k, \A i \in Dirs(dim) : i # 0 => to[i] = from[i]
  PROVE  /\ Indexing(dim)!TensorToFlat(from, sizes) \in Int
         /\ Indexing(dim)!TensorToFlat(to, sizes) = Indexing(dim)!TensorToFlat(from, sizes) + k
<1>0. dim - 1 \in Dirs(dim) /\ 0 \in Dirs(dim) /\ \A i \in Dirs(dim) : i # 0 => i - 1 \in Dirs(dim)
  BY DEF Dirs
<1>1. PICK w : w = Indexing(dim)!ComputeWeight(sizes)
  OBVIOUS
<1>2. \A i \in Dirs(dim) : w[i] \in Nat \ {0}
  BY <1>1, WeightPositive
<1>3. PICK f : /\ f[0] = from[0]
               /\ \A i \in Dirs(dim) : i # 0 => f[i] = f[i - 1] + w[i - 1] * from[i]
               /\ Indexing(dim)!TensorToFlat(from, sizes) = f[dim - 1]
  BY <1>1, SumDefined
<1>4. PICK g : /\ g[0] = to[0]
               /\ \A i \in Dirs(dim) : i # 0 => g[i] = g[i - 1] + w[i - 1] * to[i]
               /\ Indexing(dim)!TensorToFlat(to, sizes) = g[dim - 1]
  BY <1>1, SumDefined
<1>5. PICK S : S = {i \in Dirs(dim) : f[i] \in Int /\ g[i] = f[i] + k}
  OBVIOUS
<1>6. 0 \in S
  BY <1>0, <1>3, <1>4, <1>5
<1>7. ASSUME NEW i \in Dirs(dim), i # 0, i - 1 \in S
      PROVE  i \in S
  <2>1. f[i - 1] \in Int /\ g[i - 1] = f[i - 1] + k
    BY <1>5, <1>7
  <2>2. PICK x : x = w[i - 1] * from[i]
    OBVIOUS
  <2>3. x \in Int
    <3>1. w[i - 1] \in Int /\ from[i] \in Int
      BY <1>0, <1>2, <1>7
    <3> QED BY <2>2, <3>1
  <2>4. f[i] = f[i - 1] + x /\ g[i] = g[i - 1] + x
    BY <1>3, <1>4, <1>7, <2>2
  <2> QED BY <1>5, <2>1, <2>3, <2>4
<1>8. \A i \in Dirs(dim) : i \in S
  BY <1>6, <1>7, DirInduction
<1> QED BY <1>0, <1>3, <1>4, <1>5, <1>8

\* The flat index is the first index, but for a multiple of the first size.
LEMMA FlatFromFirst ==
  ASSUME NEW dim \in Nat \ {0}, NEW sizes \in [Dirs(dim) -> Nat \ {0}], NEW tensor \in [Dirs(dim) -> Nat]
  PROVE  /\ \E g \in Nat : Indexing(dim)!TensorToFlat(tensor, sizes) = tensor[0] + sizes[0] * g
         /\ \E h \in Nat : Indexing(dim)!FlatSize(sizes) = sizes[0] * h
<1>0. dim - 1 \in Dirs(dim) /\ 0 \in Dirs(dim) /\ \A i \in Dirs(dim) : i # 0 => i - 1 \in Dirs(dim)
  BY DEF Dirs
<1>1. PICK w : w = Indexing(dim)!ComputeWeight(sizes)
  OBVIOUS
<1>2. /\ w[0] = sizes[0]
      /\ \A i \in Dirs(dim) : i # 0 => w[i] = w[i - 1] * sizes[i]
  BY <1>1, WeightPositive
<1>3. PICK f : /\ f[0] = tensor[0]
               /\ \A i \in Dirs(dim) : i # 0 => f[i] = f[i - 1] + w[i - 1] * tensor[i]
               /\ Indexing(dim)!TensorToFlat(tensor, sizes) = f[dim - 1]
  BY <1>1, SumDefined
<1>4. PICK n, a : n = sizes[0] /\ n \in Nat /\ a = tensor[0] /\ a \in Nat
  BY <1>0
<1>5. PICK S : S = {i \in Dirs(dim) : (\E h \in Nat : w[i] = n * h) /\ (\E g \in Nat : f[i] = a + n * g)}
  OBVIOUS
<1>6. 0 \in S
  <2>1. w[0] = n * 1 /\ f[0] = a + n * 0
    BY <1>2, <1>3, <1>4
  <2> QED BY <1>0, <1>5, <2>1
<1>7. ASSUME NEW i \in Dirs(dim), i # 0, i - 1 \in S
      PROVE  i \in S
  <2>1. PICK h \in Nat : w[i - 1] = n * h
    BY <1>5, <1>7
  <2>2. PICK g \in Nat : f[i - 1] = a + n * g
    BY <1>5, <1>7
  <2>3. PICK s, x : s = sizes[i] /\ s \in Nat /\ x = tensor[i] /\ x \in Nat
    BY <1>7
  <2>4. w[i] = (n * h) * s /\ f[i] = (a + n * g) + (n * h) * x
    BY <1>2, <1>3, <1>7, <2>1, <2>2, <2>3
  <2>5. (n * h) * s = n * (h * s) /\ (a + n * g) + (n * h) * x = a + n * (g + h * x)
    BY <1>4, <2>3
  <2>6. h * s \in Nat /\ g + h * x \in Nat
    BY <2>3
  <2> QED BY <1>5, <1>7, <2>4, <2>5, <2>6
<1>8. \A i \in Dirs(dim) : i \in S
  BY <1>6, <1>7, DirInduction
<1>9. Indexing(dim)!FlatSize(sizes) = w[dim - 1]
  BY <1>1 DEF Indexing!FlatSize
<1> QED BY <1>0, <1>3, <1>4, <1>5, <1>8, <1>9

\* What a multiple of a size leaves over.
LEMMA RestOfSum ==
  ASSUME NEW a \in Nat \ {0}, NEW r \in Nat, r < a, NEW q \in Nat
  PROVE  (r + a * q) % a = r /\ (r + a * q) \div a = q
<1>1. q + 1 \in Nat \ {0} /\ q < q + 1
  OBVIOUS
<1> QED BY <1>1, DigitAndRest

\* A multiple of the first size has 0 for its first index, and no other flat
\* index has.
LEMMA RowStarts ==
  ASSUME NEW dim \in Nat \ {0}, NEW sizes \in [Dirs(dim) -> Nat \ {0}], NEW row
  PROVE  (\E r \in 0 .. (Indexing(dim)!FlatSize(sizes) \div sizes[0]) - 1 :
            row = Indexing(dim)!FlatToTensor(r * sizes[0], sizes))
         <=> row \in [Dirs(dim) -> Nat] /\ Indexing(dim)!InBox(row, sizes) /\ row[0] = 0
<1>0. 0 \in Dirs(dim)
  BY DEF Dirs
<1>1. PICK n : n = sizes[0] /\ n \in Nat \ {0}
  BY <1>0
<1>2. PICK total : total = Indexing(dim)!FlatSize(sizes)
  OBVIOUS
<1>3. PICK h \in Nat : total = n * h
  BY <1>1, <1>2, FlatFromFirst
<1>4. total \div n = h
  <2>1. total \in Nat \ {0}
    BY <1>2, FlatSizePositive
  <2>2. h \in Nat \ {0}
    BY <1>1, <1>3, <2>1
  <2>3. 0 + n * h = total
    BY <1>1, <1>3
  <2>4. 0 < n
    BY <1>1
  <2>5. (0 + n * h) \div n = h
    BY <1>1, <2>4, RestOfSum
  <2> QED BY <2>3, <2>5
<1>5. ASSUME NEW r \in 0 .. h - 1, row = Indexing(dim)!FlatToTensor(r * n, sizes)
      PROVE  row \in [Dirs(dim) -> Nat] /\ Indexing(dim)!InBox(row, sizes) /\ row[0] = 0
  <2>1. PICK flat : flat = r * n /\ flat \in Nat
    BY <1>1
  <2>2. r \in Nat /\ r < h
    BY <1>3
  <2>3. flat \in 0 .. total - 1
    <3>1. PICK e \in Nat : h = r + 1 + e
      <4>1. h - r - 1 \in Nat /\ h = r + 1 + (h - r - 1)
        BY <1>3, <2>2
      <4> QED BY <4>1
    <3>2. n * h = r * n + n + n * e
      BY <1>1, <2>2, <3>1
    <3>3. n * e \in Nat
      BY <1>1
    <3> QED BY <1>1, <1>3, <2>1, <3>2, <3>3
  <2>4. /\ row \in [Dirs(dim) -> Nat]
        /\ Indexing(dim)!InBox(row, sizes)
        /\ Indexing(dim)!TensorToFlat(row, sizes) = flat
    BY <1>2, <1>5, <2>1, <2>3, FlatRoundTrip
  <2>5. PICK g \in Nat : flat = row[0] + n * g
    BY <1>1, <2>4, FlatFromFirst
  <2>6. row[0] \in Nat /\ row[0] < n
    BY <1>0, <1>1, <2>4 DEF Indexing!InBox, Indexing!Dir, Dirs
  <2>7. flat % n = row[0]
    BY <1>1, <2>5, <2>6, RestOfSum
  <2>8. flat % n = 0
    <3>1. flat = 0 + n * r /\ 0 < n
      BY <1>1, <2>1, <2>2
    <3>2. (0 + n * r) % n = 0
      <4>1. 0 < n
        BY <1>1
      <4> QED BY <1>1, <2>2, <4>1, RestOfSum
    <3> QED BY <3>1, <3>2
  <2> QED BY <2>4, <2>7, <2>8
<1>6. ASSUME row \in [Dirs(dim) -> Nat], Indexing(dim)!InBox(row, sizes), row[0] = 0
      PROVE  \E r \in 0 .. h - 1 : row = Indexing(dim)!FlatToTensor(r * n, sizes)
  <2>1. PICK flat : flat = Indexing(dim)!TensorToFlat(row, sizes)
    OBVIOUS
  <2>2. row \in [Dirs(dim) -> Int]
    BY <1>6
  <2>3. flat \in 0 .. total - 1 /\ Indexing(dim)!FlatToTensor(flat, sizes) = row
    BY <1>2, <1>6, <2>1, <2>2, TensorRoundTrip
  <2>4. PICK g \in Nat : flat = row[0] + n * g
    BY <1>1, <1>6, <2>1, FlatFromFirst
  <2>5. flat = g * n
    BY <1>1, <1>6, <2>4
  <2>6. g < h
    <3>1. ASSUME g >= h
          PROVE  FALSE
      <4>1. PICK e \in Nat : g = h + e
        <5>1. g - h \in Nat /\ g = h + (g - h)
          BY <1>3, <3>1
        <5> QED BY <5>1
      <4>2. g * n = n * h + n * e /\ n * e \in Nat
        BY <1>1, <4>1
      <4>3. n * h \in Nat
        BY <1>1
      <4> QED BY <1>3, <2>3, <2>5, <4>2, <4>3
    <3> QED BY <3>1
  <2>7. g \in 0 .. h - 1
    BY <2>6
  <2> QED BY <2>3, <2>5, <2>7
<1> QED BY <1>1, <1>2, <1>4, <1>5, <1>6

\* The functions of a component that live on an element.
LivesOn(shape, c, tensor, e) ==
  /\ InBoxOf(shape, c, tensor)
  /\ \A d \in Dirs(shape.dim) :
       /\ shape.accum[c][d][e[d] + 1] <= tensor[d]
       /\ tensor[d] <= shape.accum[c][d][e[d] + 1] + shape.degree[c][d]

\* An element has functions of every component, all of them in the box.
LEMMA ElementInside ==
  ASSUME NEW shape, ShapeOK(shape), NEW e \in ElementsOf(shape), NEW c \in Comps(shape)
  PROVE  /\ DOMAIN e = Dirs(shape.dim)
         /\ Origin(shape, c, e) \in [Dirs(shape.dim) -> Nat]
         /\ \A d \in Dirs(shape.dim) :
              /\ Origin(shape, c, e)[d] = shape.accum[c][d][e[d] + 1]
              /\ shape.degree[c][d] \in Nat
              /\ Origin(shape, c, e)[d] + shape.degree[c][d] < shape.n_basis[c][d]
              /\ shape.n_basis[c][d] \in Nat \ {0}
<1>1. PICK last \in Comps(shape) : Comps(shape) = 0 .. last
  BY DEF ShapeOK
<1>2. 0 \in Comps(shape)
  BY <1>1
<1>3. PICK dirs : dirs = Dirs(shape.dim) /\ dirs = 0 .. shape.dim - 1
  BY DEF Dirs
<1>4. /\ shape.n_basis[c] \in [dirs -> Nat \ {0}]
      /\ shape.degree[c] \in [dirs -> Nat]
      /\ shape.accum[c] \in [dirs -> Seq(Nat)]
      /\ shape.accum[0] \in [dirs -> Seq(Nat)]
      /\ \A d \in dirs :
           /\ Len(shape.accum[c][d]) = Len(shape.accum[0][d])
           /\ \A k \in 1 .. Len(shape.accum[c][d]) :
                shape.accum[c][d][k] + shape.degree[c][d] < shape.n_basis[c][d]
  BY <1>2, <1>3 DEF ShapeOK
<1>5. DOMAIN e = dirs /\ \A d \in dirs : e[d] \in 0 .. Len(shape.accum[0][d]) - 1
  BY <1>4 DEF ElementsOf
<1>6. ASSUME NEW d \in dirs
      PROVE  /\ shape.accum[c][d][e[d] + 1] \in Nat
             /\ shape.accum[c][d][e[d] + 1] + shape.degree[c][d] < shape.n_basis[c][d]
  <2>1. PICK k, a : k = e[d] + 1 /\ a = shape.accum[c][d]
    OBVIOUS
  <2>2. a \in Seq(Nat) /\ Len(a) = Len(shape.accum[0][d]) /\ Len(a) \in Nat
    BY <1>4, <2>1
  <2>3. k \in 1 .. Len(a)
    BY <1>5, <2>1, <2>2
  <2>4. \A j \in 1 .. Len(a) : a[j] + shape.degree[c][d] < shape.n_basis[c][d]
    BY <1>4, <2>1
  <2>5. a[k] \in Nat /\ a[k] + shape.degree[c][d] < shape.n_basis[c][d]
    BY <2>2, <2>3, <2>4
  <2> QED BY <2>1, <2>5
<1>7. Origin(shape, c, e) = [d \in dirs |-> shape.accum[c][d][e[d] + 1]]
  BY <1>5 DEF Origin
<1> QED BY <1>3, <1>4, <1>5, <1>6, <1>7

\* The runs of create_element_loc_to_global_view, one after the other, are the
\* functions of a component that live on the element.
LEMMA RunsLive ==
  ASSUME NEW shape, ShapeOK(shape), NEW e \in ElementsOf(shape), NEW c \in Comps(shape), NEW x
  PROVE  (\E row \in Rows(shape, c) : x \in RangeOfRow(shape, c, e, row))
         <=> (\E tensor : LivesOn(shape, c, tensor, e) /\ x = LocalDof(shape, c, tensor))
<1>1. PICK dim, n, sizes, o : dim = shape.dim /\ n = shape.n_basis[c] /\ sizes = ElementSize(shape, c) /\ o = Origin(shape, c, e)
  OBVIOUS
<1>2. /\ dim \in Nat \ {0} /\ n \in [Dirs(dim) -> Nat \ {0}] /\ 0 \in Dirs(dim)
      /\ DOMAIN e = Dirs(dim) /\ o \in [Dirs(dim) -> Nat]
  BY <1>1, CompsCounted, ElementInside DEF Dirs
<1>3. ASSUME NEW d \in Dirs(dim)
      PROVE  /\ o[d] = shape.accum[c][d][e[d] + 1]
             /\ sizes[d] = shape.degree[c][d] + 1
             /\ shape.degree[c][d] \in Nat /\ o[d] \in Nat /\ n[d] \in Nat
             /\ o[d] + sizes[d] <= n[d]
  <2>1. /\ o[d] = shape.accum[c][d][e[d] + 1] /\ shape.degree[c][d] \in Nat
        /\ o[d] + shape.degree[c][d] < n[d] /\ o[d] \in Nat /\ n[d] \in Nat
    BY <1>1, <1>2, ElementInside
  <2>2. sizes[d] = shape.degree[c][d] + 1
    BY <1>1, <1>2 DEF ElementSize
  <2> QED BY <2>1, <2>2
<1>4. sizes \in [Dirs(dim) -> Nat \ {0}]
  <2>1. sizes = [d \in Dirs(dim) |-> shape.degree[c][d] + 1]
    BY <1>1, <1>2 DEF ElementSize
  <2> QED BY <1>3, <2>1
<1>5. \A row : row \in Rows(shape, c) <=> row \in [Dirs(dim) -> Nat] /\ Indexing(dim)!InBox(row, sizes) /\ row[0] = 0
  <2>1. ASSUME NEW row
        PROVE  row \in Rows(shape, c) <=> row \in [Dirs(dim) -> Nat] /\ Indexing(dim)!InBox(row, sizes) /\ row[0] = 0
    <3>1. row \in Rows(shape, c) <=>
            \E r \in 0 .. (Indexing(dim)!FlatSize(sizes) \div sizes[0]) - 1 :
              row = Indexing(dim)!FlatToTensor(r * sizes[0], sizes)
      BY <1>1 DEF Rows
    <3>2. (\E r \in 0 .. (Indexing(dim)!FlatSize(sizes) \div sizes[0]) - 1 :
              row = Indexing(dim)!FlatToTensor(r * sizes[0], sizes))
          <=> row \in [Dirs(dim) -> Nat] /\ Indexing(dim)!InBox(row, sizes) /\ row[0] = 0
      BY <1>2, <1>4, RowStarts
    <3> QED BY <3>1, <3>2
  <2> QED BY <2>1
<1> DEFINE Start(row) == [d \in DOMAIN e |-> o[d] + row[d]]
<1>6. ASSUME NEW row \in Rows(shape, c)
      PROVE  /\ Start(row) \in [Dirs(dim) -> Int]
             /\ \A d \in Dirs(dim) : Start(row)[d] = o[d] + row[d] /\ row[d] \in Nat /\ row[d] < sizes[d]
             /\ row[0] = 0
  <2>1. row \in [Dirs(dim) -> Nat] /\ Indexing(dim)!InBox(row, sizes) /\ row[0] = 0
    BY <1>5
  <2>2. \A d \in Dirs(dim) : row[d] \in Nat /\ row[d] < sizes[d]
    BY <2>1 DEF Indexing!InBox, Indexing!Dir, Dirs
  <2> QED BY <1>2, <2>1, <2>2
<1>7. ASSUME NEW row
      PROVE  RangeOfRow(shape, c, e, row) = LocalDof(shape, c, Start(row)) .. LocalDof(shape, c, Start(row)) + sizes[0] - 1
  BY <1>1 DEF RangeOfRow
<1>8. ASSUME NEW from \in [Dirs(dim) -> Int], NEW to \in [Dirs(dim) -> Int], NEW k \in Int,
             to[0] = from[0] + k, \A i \in Dirs(dim) : i # 0 => to[i] = from[i]
      PROVE  LocalDof(shape, c, from) \in Int /\ LocalDof(shape, c, to) = LocalDof(shape, c, from) + k
  <2>1. Indexing(dim)!TensorToFlat(from, n) \in Int /\ Indexing(dim)!TensorToFlat(to, n) = Indexing(dim)!TensorToFlat(from, n) + k
    BY <1>2, <1>8, FlatShift
  <2>2. PICK a, b, z : /\ a = Indexing(dim)!TensorToFlat(to, n) /\ b = Indexing(dim)!TensorToFlat(from, n)
                       /\ z = CompOffset(shape, c)
    OBVIOUS
  <2>3. LocalDof(shape, c, to) = z + a /\ LocalDof(shape, c, from) = z + b
    BY <1>1, <2>2 DEF LocalDof
  <2>4. z \in Int
    BY <2>2, OffsetsNat
  <2> QED BY <2>1, <2>2, <2>3, <2>4
<1> HIDE DEF Start
<1>9. ASSUME NEW row \in Rows(shape, c), x \in RangeOfRow(shape, c, e, row)
      PROVE  \E tensor : LivesOn(shape, c, tensor, e) /\ x = LocalDof(shape, c, tensor)
  <2>1. PICK z : z = LocalDof(shape, c, Start(row))
    OBVIOUS
  <2>2. z \in Int
    <3>1. Start(row) \in [Dirs(dim) -> Int] /\ Start(row)[0] = Start(row)[0] + 0
      BY <1>2, <1>6
    <3> QED BY <1>8, <2>1, <3>1
  <2>3. x \in z .. z + sizes[0] - 1
    BY <1>7, <1>9, <2>1
  <2>4. PICK k \in Int : k = x - z /\ 0 <= k /\ k < sizes[0] /\ x = z + k
    BY <1>2, <1>4, <2>2, <2>3
  <2>5. PICK tensor : tensor = [d \in Dirs(dim) |-> IF d = 0 THEN o[0] + k ELSE o[d] + row[d]]
    OBVIOUS
  <2>6. ASSUME NEW d \in Dirs(dim)
        PROVE  /\ tensor[d] \in Int
               /\ o[d] <= tensor[d] /\ tensor[d] < o[d] + sizes[d]
               /\ d # 0 => tensor[d] = Start(row)[d]
    <3>1. o[d] \in Nat /\ sizes[d] \in Nat
      BY <1>2, <1>4
    <3>2. CASE d = 0
      <4>1. tensor[d] = o[d] + k
        BY <2>5, <3>2
      <4>2. 0 <= k /\ k < sizes[d]
        BY <2>4, <3>2
      <4>3. tensor[d] \in Int /\ o[d] <= tensor[d] /\ tensor[d] < o[d] + sizes[d]
        BY <3>1, <4>1, <4>2
      <4> QED BY <3>2, <4>3
    <3>3. CASE d # 0
      <4>1. tensor[d] = o[d] + row[d]
        BY <2>5, <3>3
      <4>2. Start(row)[d] = o[d] + row[d] /\ row[d] \in Nat /\ row[d] < sizes[d]
        BY <1>6
      <4> QED BY <3>1, <4>1, <4>2
    <3> QED BY <3>2, <3>3
  <2>7. tensor \in [Dirs(dim) -> Int] /\ tensor[0] = Start(row)[0] + k
    BY <1>2, <1>6, <2>5, <2>6
  <2>8. x = LocalDof(shape, c, tensor)
    BY <1>6, <1>8, <2>1, <2>4, <2>6, <2>7
  <2>9. LivesOn(shape, c, tensor, e)
    <3>1. \A d \in Dirs(dim) : 0 <= tensor[d] /\ tensor[d] < n[d] /\ tensor[d] <= o[d] + shape.degree[c][d]
      BY <1>3, <2>6
    <3>2. Indexing(dim)!InBox(tensor, n)
      BY <3>1 DEF Indexing!InBox, Indexing!Dir, Dirs
    <3> QED BY <1>1, <1>3, <2>6, <2>7, <3>1, <3>2 DEF LivesOn, InBoxOf
  <2> QED BY <2>8, <2>9
<1>10. ASSUME NEW tensor, LivesOn(shape, c, tensor, e), x = LocalDof(shape, c, tensor)
       PROVE  \E row \in Rows(shape, c) : x \in RangeOfRow(shape, c, e, row)
  <2>1. tensor \in [Dirs(dim) -> Int]
        /\ \A d \in Dirs(dim) : o[d] <= tensor[d] /\ tensor[d] < o[d] + sizes[d]
    <3>1. tensor \in [Dirs(dim) -> Int]
          /\ \A d \in Dirs(dim) : o[d] <= tensor[d] /\ tensor[d] <= o[d] + shape.degree[c][d]
      BY <1>1, <1>3, <1>10 DEF LivesOn, InBoxOf
    <3> QED BY <1>3, <3>1
  <2>2. PICK row : row = [d \in Dirs(dim) |-> IF d = 0 THEN 0 ELSE tensor[d] - o[d]]
    OBVIOUS
  <2>3. ASSUME NEW d \in Dirs(dim)
        PROVE  /\ row[d] \in Nat /\ row[d] < sizes[d]
               /\ d = 0 => row[d] = 0
               /\ d # 0 => o[d] + row[d] = tensor[d]
    BY <1>3, <2>1, <2>2
  <2>4. row \in [Dirs(dim) -> Nat] /\ row[0] = 0
    BY <1>2, <2>2, <2>3
  <2>5. Indexing(dim)!InBox(row, sizes)
    BY <2>3 DEF Indexing!InBox, Indexing!Dir, Dirs
  <2>6. row \in Rows(shape, c)
    BY <1>5, <2>4, <2>5
  <2>7. PICK k : k = tensor[0] - o[0]
    OBVIOUS
  <2>8. k \in Int /\ 0 <= k /\ k < sizes[0] /\ tensor[0] = o[0] + k
    BY <1>2, <1>3, <2>1, <2>7
  <2>9. Start(row)[0] = o[0] /\ \A d \in Dirs(dim) : d # 0 => tensor[d] = Start(row)[d]
    BY <1>2, <1>3, <1>6, <2>3, <2>6
  <2>10. LocalDof(shape, c, Start(row)) \in Int /\ x = LocalDof(shape, c, Start(row)) + k
    BY <1>6, <1>8, <1>10, <2>1, <2>6, <2>8, <2>9
  <2>11. x \in LocalDof(shape, c, Start(row)) .. LocalDof(shape, c, Start(row)) + sizes[0] - 1
    BY <1>2, <1>4, <2>8, <2>10
  <2> QED BY <1>7, <2>6, <2>11
<1> QED BY <1>9, <1>10

\* The view of an element has the functions that live on it, of every component.
THEOREM ElementViewExact ==
  ASSUME NEW shape, ShapeOK(shape), NEW e \in ElementsOf(shape), NEW x
  PROVE  x \in ElementView(shape, e)
           <=> \E c \in Comps(shape) : \E tensor : LivesOn(shape, c, tensor, e) /\ x = LocalDof(shape, c, tensor)
<1>1. x \in ElementView(shape, e)
        <=> \E c \in Comps(shape) : \E row \in Rows(shape, c) : x \in RangeOfRow(shape, c, e, row)
  BY DEF ElementView
<1>2. \A c \in Comps(shape) : (\E row \in Rows(shape, c) : x \in RangeOfRow(shape, c, e, row))
        <=> (\E tensor : LivesOn(shape, c, tensor, e) /\ x = LocalDof(shape, c, tensor))
  BY RunsLive
<1> QED BY <1>1, <1>2
=============================================================================
