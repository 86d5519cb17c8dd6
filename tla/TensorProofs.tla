----------------------------- MODULE TensorProofs -----------------------------
(***************************************************************************)
(* Flat and tensor indices of a box of any dimension and any sizes: the    *)
(* functions of TensorIndexing are recursive along the directions, and     *)
(* what they compute is proved by induction on those.                      *)
(***************************************************************************)
EXTENDS Tensors, WellFoundedInduction, TLAPS

\* The directions of a box.
Dirs(dim) == 0 .. dim - 1

\* Induction over the natural numbers, on a set.
LEMMA NatInSet ==
  ASSUME NEW S, 0 \in S, \A n \in Nat : n \in S => n + 1 \in S
  PROVE  \A n \in Nat : n \in S
<1> SUFFICES ASSUME NEW n0 \in Nat, n0 \notin S
             PROVE  FALSE
  OBVIOUS
<1>1. PICK T : T = Nat \ S
  OBVIOUS
<1>2. T \subseteq Nat /\ T # {}
  BY <1>1
<1>3. PICK r : r = OpToRel(<, Nat)
  OBVIOUS
<1>4. \A x, y \in Nat : x < y => <<x, y>> \in r
  BY <1>3 DEF OpToRel
<1>5. IsWellFoundedOn(r, Nat)
  BY <1>3, NatLessThanWellFounded
<1>6. \E x \in T : \A y \in T : ~(<<y, x>> \in r)
  BY <1>2, <1>5, WFMin
<1> HIDE <1>3
<1>7. PICK x \in T : \A y \in T : ~(<<y, x>> \in r)
  BY <1>6
<1>8. x \in Nat /\ x # 0 /\ x - 1 \in Nat /\ (x - 1) + 1 = x
  BY <1>1, <1>7
<1>9. x - 1 \notin S
  BY <1>1, <1>7, <1>8
<1>10. <<x - 1, x>> \in r
  BY <1>4, <1>8
<1> QED BY <1>1, <1>7, <1>8, <1>9, <1>10

\* Induction along the directions.
LEMMA DirInduction ==
  ASSUME NEW dim \in Nat \ {0}, NEW S, 0 \in S, \A i \in Dirs(dim) : i # 0 /\ i - 1 \in S => i \in S
  PROVE  \A i \in Dirs(dim) : i \in S
<1>1. PICK T : T = {n \in Nat : n \in Dirs(dim) => n \in S}
  OBVIOUS
<1>2. dim \in Nat /\ dim # 0 /\ Dirs(dim) = 0 .. dim - 1 /\ Dirs(dim) \subseteq Nat
  BY DEF Dirs
<1>3. 0 \in T
  BY <1>1
<1>4. ASSUME NEW n \in Nat, n \in T
      PROVE  n + 1 \in T
  <2>1. n + 1 \in Dirs(dim) => n \in Dirs(dim) /\ n + 1 # 0 /\ (n + 1) - 1 = n
    BY <1>2
  <2>2. n + 1 \in Nat
    OBVIOUS
  <2> QED BY <1>1, <1>4, <2>1, <2>2
<1>5. \A n \in Nat : n \in T
  BY <1>3, <1>4, NatInSet
<1> QED BY <1>1, <1>2, <1>5

\* The weights exist: each is that of the directions before times a size.
LEMMA WeightDefined ==
  ASSUME NEW dim \in Nat \ {0}, NEW sizes, NEW w, w = Indexing(dim)!ComputeWeight(sizes)
  PROVE  /\ w[0] = sizes[0]
         /\ \A i \in Dirs(dim) : i # 0 => w[i] = w[i - 1] * sizes[i]
<1> DEFINE Partial(n, v) == v = [i \in 0 .. n |-> IF i = 0 THEN sizes[0] ELSE v[i - 1] * sizes[i]]
<1>1. PICK T : T = {n \in Nat : \E v : Partial(n, v)}
  OBVIOUS
<1>2. 0 \in T
  <2>1. Partial(0, [i \in 0 .. 0 |-> sizes[0]])
    OBVIOUS
  <2> QED BY <1>1, <2>1
<1>3. ASSUME NEW n \in Nat, n \in T
      PROVE  n + 1 \in T
  <2>1. PICK v : Partial(n, v)
    BY <1>1, <1>3
  <2>2. PICK u : u = [i \in 0 .. n + 1 |-> IF i = n + 1 THEN v[n] * sizes[n + 1] ELSE v[i]]
    OBVIOUS
  <2>3. ASSUME NEW i \in 0 .. n + 1
        PROVE  u[i] = IF i = 0 THEN sizes[0] ELSE u[i - 1] * sizes[i]
    <3>1. CASE i = n + 1
      <4>1. i # 0 /\ i - 1 = n /\ n \in 0 .. n + 1 /\ n # n + 1
        BY <3>1
      <4> QED BY <2>2, <3>1, <4>1
    <3>2. CASE i # n + 1
      <4>1. i \in 0 .. n /\ (i # 0 => i - 1 \in 0 .. n + 1 /\ i - 1 # n + 1)
        BY <3>2
      <4> QED BY <2>1, <2>2, <3>2, <4>1
    <3> QED BY <3>1, <3>2
  <2>4. Partial(n + 1, u)
    BY <2>2, <2>3
  <2> QED BY <1>1, <2>4
<1>4. \A n \in Nat : n \in T
  BY <1>2, <1>3, NatInSet
<1>5. dim - 1 \in Nat
  OBVIOUS
<1>6. \E v : v = [i \in Dirs(dim) |-> IF i = 0 THEN sizes[0] ELSE v[i - 1] * sizes[i]]
  BY <1>1, <1>4, <1>5 DEF Dirs
<1>7. w = [i \in Dirs(dim) |-> IF i = 0 THEN sizes[0] ELSE w[i - 1] * sizes[i]]
  BY <1>6 DEF Indexing!ComputeWeight, Indexing!Dir, Dirs
<1>8. 0 \in Dirs(dim)
  BY DEF Dirs
<1> QED BY <1>7, <1>8

\* What a weight is, and that it is a number of elements.
LEMMA WeightPositive ==
  ASSUME NEW dim \in Nat \ {0}, NEW sizes \in [Dirs(dim) -> Nat \ {0}], NEW w, w = Indexing(dim)!ComputeWeight(sizes)
  PROVE  /\ w[0] = sizes[0]
         /\ \A i \in Dirs(dim) : i # 0 => w[i] = w[i - 1] * sizes[i]
         /\ \A i \in Dirs(dim) : w[i] \in Nat \ {0}
<1>1. dim \in Nat /\ dim # 0 /\ 0 \in Dirs(dim) /\ \A i \in Dirs(dim) : i # 0 => i - 1 \in Dirs(dim)
  BY DEF Dirs
<1>3. w[0] = sizes[0] /\ \A i \in Dirs(dim) : i # 0 => w[i] = w[i - 1] * sizes[i]
  BY WeightDefined
<1>4. PICK S : S = {i \in Dirs(dim) : w[i] \in Nat \ {0}}
  OBVIOUS
<1>5. 0 \in S
  BY <1>1, <1>3, <1>4
<1>6. ASSUME NEW i \in Dirs(dim), i # 0, i - 1 \in S
      PROVE  i \in S
  <2>1. PICK a, b : a = w[i - 1] /\ b = sizes[i]
    OBVIOUS
  <2>2. a \in Nat \ {0} /\ b \in Nat \ {0}
    BY <1>4, <1>6, <2>1
  <2>3. a * b \in Nat \ {0}
    BY <2>2
  <2>4. w[i] = a * b
    BY <1>3, <1>6, <2>1
  <2> QED BY <1>4, <2>3, <2>4
<1>7. \A i \in Dirs(dim) : i \in S
  BY <1>5, <1>6, DirInduction
<1> QED BY <1>3, <1>4, <1>7

\* A number less than a * b is a digit less than b and a rest less than a.
LEMMA QuotientAndRest ==
  ASSUME NEW a \in Nat \ {0}, NEW b \in Nat \ {0}, NEW x \in Nat, x < a * b
  PROVE  /\ x % a \in Nat /\ x % a < a
         /\ x \div a \in Nat /\ x \div a < b
         /\ x = (x % a) + a * (x \div a)
<1>1. x = a * (x \div a) + (x % a) /\ x % a \in 0 .. a - 1 /\ x \div a \in Nat
  OBVIOUS
<1>2. PICK q, r : q = x \div a /\ r = x % a
  OBVIOUS
<1>3. q \in Nat /\ r \in Nat /\ r < a /\ x = a * q + r
  BY <1>1, <1>2
<1>4. ASSUME ~(q < b)
      PROVE  FALSE
  <2>1. PICK c : c = q - b
    OBVIOUS
  <2>2. c \in Nat /\ q = b + c
    BY <1>3, <1>4, <2>1
  <2>3. a * q = a * b + a * c /\ a * c \in Nat
    BY <1>3, <2>2
  <2> QED BY <1>3, <2>3
<1> QED BY <1>2, <1>3, <1>4

\* And a digit and a rest make a number from which both are found again.
LEMMA DigitAndRest ==
  ASSUME NEW a \in Nat \ {0}, NEW b \in Nat \ {0},
         NEW r \in Nat, r < a, NEW q \in Nat, q < b
  PROVE  /\ r + a * q \in Nat /\ r + a * q < a * b
         /\ (r + a * q) % a = r /\ (r + a * q) \div a = q
<1>1. PICK p : p = a * q
  OBVIOUS
<1>2. p \in Nat
  BY <1>1
<1>3. PICK c : c = b - q - 1
  OBVIOUS
<1>4. c \in Nat /\ b = (q + 1) + c
  BY <1>3
<1>5. a * b = p + a + (a * c) /\ a * c \in Nat
  BY <1>1, <1>4
<1>6. PICK x : x = r + p
  OBVIOUS
<1>7. x \in Nat /\ x < a * b
  BY <1>2, <1>5, <1>6
<1>8. PICK q2, r2 : q2 = x \div a /\ r2 = x % a
  OBVIOUS
<1>9. /\ q2 \in Nat /\ r2 \in Nat /\ r2 < a /\ x = r2 + a * q2
  BY <1>7, <1>8, QuotientAndRest
<1>10. q2 = q
  <2>1. CASE q2 < q
    <3>1. PICK e : e = q - q2 - 1
      OBVIOUS
    <3>2. e \in Nat /\ q = q2 + 1 + e
      BY <1>9, <2>1, <3>1
    <3>3. a * q = (a * q2) + a + (a * e) /\ a * e \in Nat /\ a * q2 \in Nat
      BY <1>9, <3>2
    <3> QED BY <1>1, <1>6, <1>9, <3>3
  <2>2. CASE q < q2
    <3>1. PICK e : e = q2 - q - 1
      OBVIOUS
    <3>2. e \in Nat /\ q2 = q + 1 + e
      BY <1>9, <2>2, <3>1
    <3>3. a * q2 = (a * q) + a + (a * e) /\ a * e \in Nat /\ a * q \in Nat
      BY <3>2
    <3> QED BY <1>1, <1>6, <1>9, <3>3
  <2> QED BY <1>9, <2>1, <2>2
<1>11. r2 = r
  BY <1>1, <1>6, <1>9, <1>10
<1> QED BY <1>1, <1>6, <1>7, <1>8, <1>10, <1>11

\* The remainders exist: flat in the last direction, and the rest of the one
\* after otherwise.
LEMMA RemainderDefined ==
  ASSUME NEW dim \in Nat \ {0}, NEW flat, NEW weight, NEW l, l = Indexing(dim)!Remainder(flat, weight)
  PROVE  /\ l[dim - 1] = flat
         /\ \A i \in Dirs(dim) : i # dim - 1 => l[i] = l[i + 1] % weight[i]
<1> DEFINE Partial(n, v) == v = [i \in dim - 1 - n .. dim - 1 |->
                                   IF i = dim - 1 THEN flat ELSE v[i + 1] % weight[i]]
<1>0. dim \in Nat /\ dim # 0
  OBVIOUS
<1>1. PICK T : T = {n \in Nat : \E v : Partial(n, v)}
  OBVIOUS
<1>2. 0 \in T
  <2>1. dim - 1 - 0 .. dim - 1 = {dim - 1}
    BY <1>0
  <2>2. Partial(0, [i \in dim - 1 - 0 .. dim - 1 |-> flat])
    BY <2>1
  <2> QED BY <1>1, <2>2
<1>3. ASSUME NEW n \in Nat, n \in T
      PROVE  n + 1 \in T
  <2>1. PICK v : Partial(n, v)
    BY <1>1, <1>3
  <2>a. PICK first : first = dim - 1 - (n + 1)
    OBVIOUS
  <2>b. first \in Int /\ first # dim - 1 /\ first + 1 = dim - 1 - n
    BY <1>0, <2>a
  <2>2. PICK u : u = [i \in first .. dim - 1 |->
                        IF i = first THEN v[first + 1] % weight[first] ELSE v[i]]
    OBVIOUS
  <2>3. ASSUME NEW i \in first .. dim - 1
        PROVE  u[i] = IF i = dim - 1 THEN flat ELSE u[i + 1] % weight[i]
    <3>1. CASE i = first
      <4>1. first + 1 \in first .. dim - 1 /\ first + 1 # first
        BY <1>0, <2>a, <2>b
      <4>2. u[first + 1] = v[first + 1] /\ u[first] = v[first + 1] % weight[first]
        BY <2>2, <2>3, <3>1, <4>1
      <4> QED BY <2>b, <3>1, <4>2
    <3>2. CASE i # first
      <4>1. i \in dim - 1 - n .. dim - 1
        BY <1>0, <2>b, <2>3, <3>2
      <4>2. u[i] = v[i]
        BY <2>2, <2>3, <3>2
      <4>3. v[i] = IF i = dim - 1 THEN flat ELSE v[i + 1] % weight[i]
        BY <2>1, <4>1
      <4>4. CASE i # dim - 1
        <5>1. i + 1 \in first .. dim - 1 /\ i + 1 # first
          BY <1>0, <2>b, <2>3, <3>2, <4>4
        <5>2. u[i + 1] = v[i + 1]
          BY <2>2, <5>1
        <5> QED BY <4>2, <4>3, <4>4, <5>2
      <4>5. CASE i = dim - 1
        BY <4>2, <4>3, <4>5
      <4> QED BY <4>4, <4>5
    <3> QED BY <3>1, <3>2
  <2>4. Partial(n + 1, u)
    BY <2>a, <2>2, <2>3
  <2> HIDE DEF Partial
  <2> QED BY <1>1, <2>4
<1>4. \A n \in Nat : n \in T
  BY <1>2, <1>3, NatInSet
<1>5. PICK k : k = dim - 1
  OBVIOUS
<1>6. k \in Nat /\ dim - 1 - k .. dim - 1 = Dirs(dim)
  BY <1>0, <1>5 DEF Dirs
<1>7. \E v : v = [i \in Dirs(dim) |-> IF i = dim - 1 THEN flat ELSE v[i + 1] % weight[i]]
  BY <1>1, <1>4, <1>6
<1>8. l = [i \in Dirs(dim) |-> IF i = dim - 1 THEN flat ELSE l[i + 1] % weight[i]]
  BY <1>7 DEF Indexing!Remainder, Indexing!Dir, Dirs
<1>9. dim - 1 \in Dirs(dim)
  BY <1>0 DEF Dirs
<1> QED BY <1>8, <1>9

\* The partial sums of a flat index exist.
LEMMA SumDefined ==
  ASSUME NEW dim \in Nat \ {0}, NEW sizes, NEW tensor, NEW weight, weight = Indexing(dim)!ComputeWeight(sizes)
  PROVE  \E f : /\ f[0] = tensor[0]
                /\ \A i \in Dirs(dim) : i # 0 => f[i] = f[i - 1] + weight[i - 1] * tensor[i]
                /\ Indexing(dim)!TensorToFlat(tensor, sizes) = f[dim - 1]
<1> DEFINE Term(v, i) == IF i = 0 THEN tensor[0] ELSE v[i - 1] + weight[i - 1] * tensor[i]
<1>1. PICK T : T = {n \in Nat : \E v : v = [i \in 0 .. n |-> Term(v, i)]}
  OBVIOUS
<1>2. 0 \in T
  <2>1. PICK v : v = [i \in 0 .. 0 |-> tensor[0]]
    OBVIOUS
  <2>2. v = [i \in 0 .. 0 |-> Term(v, i)]
    BY <2>1
  <2> QED BY <1>1, <2>2
<1>3. ASSUME NEW n \in Nat, n \in T
      PROVE  n + 1 \in T
  <2>1. PICK v : v = [i \in 0 .. n |-> Term(v, i)]
    BY <1>1, <1>3
  <2>2. PICK u : u = [i \in 0 .. n + 1 |->
                        IF i = n + 1 THEN v[n] + weight[n] * tensor[n + 1] ELSE v[i]]
    OBVIOUS
  <2>3. ASSUME NEW i \in 0 .. n + 1
        PROVE  u[i] = Term(u, i)
    <3>1. CASE i = n + 1
      <4>1. i # 0 /\ i - 1 = n /\ n \in 0 .. n + 1 /\ n # n + 1
        BY <3>1
      <4> QED BY <2>2, <3>1, <4>1
    <3>2. CASE i # n + 1
      <4>1. i \in 0 .. n /\ (i # 0 => i - 1 \in 0 .. n + 1 /\ i - 1 # n + 1)
        BY <3>2
      <4> QED BY <2>1, <2>2, <3>2, <4>1
    <3> QED BY <3>1, <3>2
  <2>4. u = [i \in 0 .. n + 1 |-> Term(u, i)]
    BY <2>2, <2>3
  <2> QED BY <1>1, <2>4
<1>4. \A n \in Nat : n \in T
  BY <1>2, <1>3, NatInSet
<1>5. dim - 1 \in Nat /\ 0 \in Dirs(dim)
  BY DEF Dirs
<1>6. \E v : v = [i \in Dirs(dim) |-> Term(v, i)]
  BY <1>1, <1>4, <1>5 DEF Dirs
<1>7. PICK f : f = CHOOSE v : v = [i \in Dirs(dim) |-> Term(v, i)]
  OBVIOUS
<1>8. f = [i \in Dirs(dim) |-> Term(f, i)]
  BY <1>6, <1>7
<1>9. Indexing(dim)!TensorToFlat(tensor, sizes) = f[dim - 1]
  BY <1>7 DEF Indexing!TensorToFlat, Indexing!Dir, Dirs
<1> QED BY <1>5, <1>8, <1>9

\* The box has an entry.
LEMMA FlatSizePositive ==
  ASSUME NEW dim \in Nat \ {0}, NEW sizes \in [Dirs(dim) -> Nat \ {0}]
  PROVE  Indexing(dim)!FlatSize(sizes) \in Nat \ {0}
<1>1. dim - 1 \in Dirs(dim)
  BY DEF Dirs
<1>2. PICK w : w = Indexing(dim)!ComputeWeight(sizes)
  OBVIOUS
<1> QED BY <1>1, <1>2, WeightPositive DEF Indexing!FlatSize, Indexing!Dir, Dirs

\* A tensor index in the box has a flat index in the range, from which the division
\* of flat_to_tensor_index finds it again, in every dimension.
THEOREM TensorRoundTrip ==
  ASSUME NEW dim \in Nat \ {0}, NEW sizes \in [Dirs(dim) -> Nat \ {0}], NEW tensor \in [Dirs(dim) -> Int], Indexing(dim)!InBox(tensor, sizes)
  PROVE  /\ Indexing(dim)!TensorToFlat(tensor, sizes) \in 0 .. Indexing(dim)!FlatSize(sizes) - 1
         /\ Indexing(dim)!FlatToTensor(Indexing(dim)!TensorToFlat(tensor, sizes), sizes) = tensor
<1>0. /\ dim \in Nat /\ dim # 0 /\ 0 \in Dirs(dim) /\ dim - 1 \in Dirs(dim) /\ Dirs(dim) \subseteq Nat
      /\ \A i \in Dirs(dim) : i # 0 => i - 1 \in Dirs(dim) /\ (i - 1) + 1 = i /\ i - 1 # dim - 1
  BY DEF Dirs
<1>1. PICK w : w = Indexing(dim)!ComputeWeight(sizes)
  OBVIOUS
<1>2. PICK flat : flat = Indexing(dim)!TensorToFlat(tensor, sizes)
  OBVIOUS
<1>3. PICK f : /\ f[0] = tensor[0]
               /\ \A i \in Dirs(dim) : i # 0 => f[i] = f[i - 1] + w[i - 1] * tensor[i]
               /\ flat = f[dim - 1]
  BY <1>1, <1>2, SumDefined
<1>4. PICK l : l = Indexing(dim)!Remainder(flat, w)
  OBVIOUS
<1>5. /\ l[dim - 1] = flat
      /\ \A i \in Dirs(dim) : i # dim - 1 => l[i] = l[i + 1] % w[i]
  BY <1>4, RemainderDefined
<1>6. /\ w[0] = sizes[0]
      /\ \A i \in Dirs(dim) : i # 0 => w[i] = w[i - 1] * sizes[i]
      /\ \A i \in Dirs(dim) : w[i] \in Nat \ {0}
  BY <1>1, WeightPositive
<1>7. \A i \in Dirs(dim) : tensor[i] \in Nat /\ tensor[i] < sizes[i] /\ sizes[i] \in Nat \ {0}
  BY DEF Indexing!InBox, Indexing!Dir, Dirs
    \* A partial sum is less than the weight, so that it is the rest of the next one.
<1>8. ASSUME NEW i \in Dirs(dim), i # 0, f[i - 1] \in Nat, f[i - 1] < w[i - 1]
      PROVE  /\ f[i] \in Nat /\ f[i] < w[i]
             /\ f[i] % w[i - 1] = f[i - 1] /\ f[i] \div w[i - 1] = tensor[i]
  <2>1. PICK a, b, r, q : a = w[i - 1] /\ b = sizes[i] /\ r = f[i - 1] /\ q = tensor[i]
    OBVIOUS
  <2>2. /\ a \in Nat \ {0} /\ b \in Nat \ {0} /\ r \in Nat /\ r < a /\ q \in Nat /\ q < b
    BY <1>0, <1>6, <1>7, <1>8, <2>1
  <2>3. /\ r + a * q \in Nat /\ r + a * q < a * b
        /\ (r + a * q) % a = r /\ (r + a * q) \div a = q
    BY <2>2, DigitAndRest
  <2>4. f[i] = r + a * q /\ w[i] = a * b
    BY <1>3, <1>6, <1>8, <2>1
  <2> QED BY <2>1, <2>3, <2>4
<1>9. PICK S : S = {i \in Dirs(dim) : f[i] \in Nat /\ f[i] < w[i]}
  OBVIOUS
<1>10. \A i \in Dirs(dim) : i \in S
  <2>1. 0 \in S
    BY <1>0, <1>3, <1>6, <1>7, <1>9
  <2>2. \A i \in Dirs(dim) : i # 0 /\ i - 1 \in S => i \in S
    BY <1>8, <1>9
  <2> QED BY <2>1, <2>2, DirInduction
<1>11. PICK T : T = {n \in Nat : dim - 1 - n \in Dirs(dim) => l[dim - 1 - n] = f[dim - 1 - n]}
  OBVIOUS
<1>12. \A n \in Nat : n \in T
  <2>1. 0 \in T
    <3>1. dim - 1 - 0 = dim - 1
      BY <1>0
    <3> QED BY <1>3, <1>5, <1>11, <3>1
  <2>2. ASSUME NEW n \in Nat, n \in T
        PROVE  n + 1 \in T
    <3>1. PICK i, j : i = dim - 1 - n /\ j = dim - 1 - (n + 1)
      OBVIOUS
    <3>2. SUFFICES ASSUME j \in Dirs(dim)
                   PROVE  l[j] = f[j]
      BY <1>11, <3>1
    <3>3. i \in Dirs(dim) /\ i # 0 /\ i - 1 = j /\ j + 1 = i /\ j # dim - 1
      BY <1>0, <3>1, <3>2 DEF Dirs
    <3>4. l[i] = f[i]
      BY <1>11, <2>2, <3>1, <3>3
    <3>5. l[j] = l[i] % w[j]
      BY <1>5, <3>2, <3>3
    <3>6. f[i] % w[j] = f[j]
      BY <1>8, <1>9, <1>10, <3>2, <3>3
    <3> QED BY <3>4, <3>5, <3>6
  <2> QED BY <2>1, <2>2, NatInSet
<1>13. ASSUME NEW i \in Dirs(dim)
       PROVE  l[i] = f[i]
  <2>1. PICK n : n = dim - 1 - i
    OBVIOUS
  <2>2. n \in Nat /\ dim - 1 - n = i
    BY <1>0, <2>1 DEF Dirs
  <2> QED BY <1>11, <1>12, <2>2
<1>14. flat \in 0 .. Indexing(dim)!FlatSize(sizes) - 1
  <2>1. flat \in Nat /\ flat < w[dim - 1] /\ w[dim - 1] \in Nat
    BY <1>0, <1>3, <1>6, <1>9, <1>10
  <2>2. Indexing(dim)!FlatSize(sizes) = w[dim - 1]
    BY <1>1 DEF Indexing!FlatSize, Indexing!Dir, Dirs
  <2> QED BY <2>1, <2>2
<1>15. ASSUME NEW i \in Dirs(dim)
       PROVE  tensor[i] = IF i = 0 THEN l[0] ELSE l[i] \div w[i - 1]
  <2>1. CASE i = 0
    BY <1>0, <1>3, <1>13, <2>1
  <2>2. CASE i # 0
    BY <1>0, <1>8, <1>9, <1>10, <1>13, <2>2
  <2> QED BY <2>1, <2>2
<1>16. Indexing(dim)!FlatToTensor(flat, sizes) = [i \in Dirs(dim) |-> IF i = 0 THEN l[0] ELSE l[i] \div w[i - 1]]
  BY <1>1, <1>4 DEF Indexing!FlatToTensor, Indexing!Dir, Dirs
<1>17. Indexing(dim)!FlatToTensor(flat, sizes) = tensor
  BY <1>15, <1>16
<1> QED BY <1>2, <1>14, <1>17

\* A flat index in the range has a tensor index in the box, from which the sum of
\* tensor_to_flat_index finds it again, in every dimension.
THEOREM FlatRoundTrip ==
  ASSUME NEW dim \in Nat \ {0}, NEW sizes \in [Dirs(dim) -> Nat \ {0}], NEW flat \in 0 .. Indexing(dim)!FlatSize(sizes) - 1
  PROVE  /\ Indexing(dim)!FlatToTensor(flat, sizes) \in [Dirs(dim) -> Nat]
         /\ Indexing(dim)!InBox(Indexing(dim)!FlatToTensor(flat, sizes), sizes)
         /\ Indexing(dim)!TensorToFlat(Indexing(dim)!FlatToTensor(flat, sizes), sizes) = flat
<1>0. /\ dim \in Nat /\ dim # 0 /\ 0 \in Dirs(dim) /\ dim - 1 \in Dirs(dim) /\ Dirs(dim) \subseteq Nat
      /\ \A i \in Dirs(dim) : i # 0 => i - 1 \in Dirs(dim) /\ (i - 1) + 1 = i /\ i - 1 # dim - 1
  BY DEF Dirs
<1>1. PICK w : w = Indexing(dim)!ComputeWeight(sizes)
  OBVIOUS
<1>2. PICK tensor : tensor = Indexing(dim)!FlatToTensor(flat, sizes)
  OBVIOUS
<1>3. PICK f : /\ f[0] = tensor[0]
               /\ \A i \in Dirs(dim) : i # 0 => f[i] = f[i - 1] + w[i - 1] * tensor[i]
               /\ Indexing(dim)!TensorToFlat(tensor, sizes) = f[dim - 1]
  BY <1>1, SumDefined
<1>4. PICK l : l = Indexing(dim)!Remainder(flat, w)
  OBVIOUS
<1>5. /\ l[dim - 1] = flat
      /\ \A i \in Dirs(dim) : i # dim - 1 => l[i] = l[i + 1] % w[i]
  BY <1>4, RemainderDefined
<1>6. /\ w[0] = sizes[0]
      /\ \A i \in Dirs(dim) : i # 0 => w[i] = w[i - 1] * sizes[i]
      /\ \A i \in Dirs(dim) : w[i] \in Nat \ {0} /\ sizes[i] \in Nat \ {0}
  BY <1>1, WeightPositive
<1>7. tensor = [i \in Dirs(dim) |-> IF i = 0 THEN l[0] ELSE l[i] \div w[i - 1]]
  BY <1>1, <1>2, <1>4 DEF Indexing!FlatToTensor, Indexing!Dir, Dirs
    \* Every remainder is less than its weight.
<1>8. PICK T : T = {n \in Nat : dim - 1 - n \in Dirs(dim) =>
                      l[dim - 1 - n] \in Nat /\ l[dim - 1 - n] < w[dim - 1 - n]}
  OBVIOUS
<1>9. \A n \in Nat : n \in T
  <2>1. 0 \in T
    <3>1. dim - 1 - 0 = dim - 1
      BY <1>0
    <3>2. flat \in Nat /\ flat < w[dim - 1]
      <4>1. Indexing(dim)!FlatSize(sizes) = w[dim - 1] /\ w[dim - 1] \in Nat
        BY <1>0, <1>1, <1>6 DEF Indexing!FlatSize, Indexing!Dir, Dirs
      <4> QED BY <4>1
    <3> QED BY <1>5, <1>8, <3>1, <3>2
  <2>2. ASSUME NEW n \in Nat, n \in T
        PROVE  n + 1 \in T
    <3>1. PICK i, j : i = dim - 1 - n /\ j = dim - 1 - (n + 1)
      OBVIOUS
    <3>2. SUFFICES ASSUME j \in Dirs(dim)
                   PROVE  l[j] \in Nat /\ l[j] < w[j]
      BY <1>8, <3>1
    <3>3. i \in Dirs(dim) /\ i # 0 /\ i - 1 = j /\ j + 1 = i /\ j # dim - 1
      BY <1>0, <3>1, <3>2 DEF Dirs
    <3>4. l[i] \in Nat
      BY <1>8, <2>2, <3>1, <3>3
    <3>5. l[j] = l[i] % w[j] /\ w[j] \in Nat \ {0}
      BY <1>5, <1>6, <3>2, <3>3
    <3> QED BY <3>4, <3>5
  <2> QED BY <2>1, <2>2, NatInSet
<1>10. ASSUME NEW i \in Dirs(dim)
       PROVE  l[i] \in Nat /\ l[i] < w[i]
  <2>1. PICK n : n = dim - 1 - i
    OBVIOUS
  <2>2. n \in Nat /\ dim - 1 - n = i
    BY <1>0, <2>1 DEF Dirs
  <2> QED BY <1>8, <1>9, <2>2
<1>11. ASSUME NEW i \in Dirs(dim), i # 0
       PROVE  /\ tensor[i] \in Nat /\ tensor[i] < sizes[i]
              /\ l[i] = l[i - 1] + w[i - 1] * tensor[i]
  <2>1. PICK a, b, x : a = w[i - 1] /\ b = sizes[i] /\ x = l[i]
    OBVIOUS
  <2>2. a \in Nat \ {0} /\ b \in Nat \ {0} /\ x \in Nat /\ x < a * b
    BY <1>0, <1>6, <1>10, <1>11, <2>1
  <2>3. x \div a \in Nat /\ x \div a < b /\ x = (x % a) + a * (x \div a)
    BY <2>2, QuotientAndRest
  <2>4. l[i - 1] = x % a /\ tensor[i] = x \div a
    BY <1>0, <1>5, <1>7, <1>11, <2>1
  <2> QED BY <2>1, <2>3, <2>4
<1>12. tensor[0] \in Nat /\ tensor[0] < sizes[0] /\ tensor[0] = l[0]
  BY <1>0, <1>6, <1>7, <1>10
<1>13. \A i \in Dirs(dim) : tensor[i] \in Nat /\ tensor[i] < sizes[i]
  BY <1>11, <1>12
<1>14. tensor \in [Dirs(dim) -> Nat]
  <2>1. tensor = [i \in Dirs(dim) |-> tensor[i]]
    BY <1>7
  <2> QED BY <1>13, <2>1
<1>15. Indexing(dim)!InBox(tensor, sizes)
  BY <1>13 DEF Indexing!InBox, Indexing!Dir, Dirs
<1>16. PICK S : S = {i \in Dirs(dim) : f[i] = l[i]}
  OBVIOUS
<1>17. \A i \in Dirs(dim) : i \in S
  <2>1. 0 \in S
    BY <1>0, <1>3, <1>12, <1>16
  <2>2. \A i \in Dirs(dim) : i # 0 /\ i - 1 \in S => i \in S
    BY <1>3, <1>11, <1>16
  <2> QED BY <2>1, <2>2, DirInduction
<1>18. Indexing(dim)!TensorToFlat(tensor, sizes) = flat
  BY <1>0, <1>3, <1>5, <1>16, <1>17
<1> QED BY <1>2, <1>14, <1>15, <1>18

\* A box with larger sizes has more entries.
LEMMA FlatSizeGrows ==
  ASSUME NEW dim \in Nat \ {0}, NEW sizes \in [Dirs(dim) -> Nat \ {0}], NEW larger \in [Dirs(dim) -> Nat \ {0}],
         \A i \in Dirs(dim) : sizes[i] <= larger[i]
  PROVE  Indexing(dim)!FlatSize(sizes) <= Indexing(dim)!FlatSize(larger)
<1>0. dim - 1 \in Dirs(dim) /\ 0 \in Dirs(dim) /\ \A i \in Dirs(dim) : i # 0 => i - 1 \in Dirs(dim)
  BY DEF Dirs
<1>1. PICK v, w : v = Indexing(dim)!ComputeWeight(sizes) /\ w = Indexing(dim)!ComputeWeight(larger)
  OBVIOUS
<1>2. /\ v[0] = sizes[0]
      /\ \A i \in Dirs(dim) : i # 0 => v[i] = v[i - 1] * sizes[i]
      /\ \A i \in Dirs(dim) : v[i] \in Nat \ {0}
  BY <1>1, WeightPositive
<1>3. /\ w[0] = larger[0]
      /\ \A i \in Dirs(dim) : i # 0 => w[i] = w[i - 1] * larger[i]
      /\ \A i \in Dirs(dim) : w[i] \in Nat \ {0}
  BY <1>1, WeightPositive
<1>4. PICK S : S = {i \in Dirs(dim) : v[i] <= w[i]}
  OBVIOUS
<1>5. ASSUME NEW i \in Dirs(dim), i # 0, i - 1 \in S
      PROVE  i \in S
  <2>1. PICK a, b, c, d : a = v[i - 1] /\ b = sizes[i] /\ c = w[i - 1] /\ d = larger[i]
    OBVIOUS
  <2>2. a \in Nat /\ b \in Nat /\ c \in Nat /\ d \in Nat /\ a <= c /\ b <= d
    BY <1>0, <1>2, <1>3, <1>4, <1>5, <2>1
  <2>3. PICK e : e = c - a
    OBVIOUS
  <2>4. PICK g : g = d - b
    OBVIOUS
  <2>5. e \in Nat /\ g \in Nat /\ c = a + e /\ d = b + g
    BY <2>2, <2>3, <2>4
  <2>6. /\ c * d = (a * b) + (a * g) + (e * d)
        /\ a * g \in Nat /\ e * d \in Nat /\ a * b \in Nat
    BY <2>2, <2>5
  <2>7. a * b <= c * d
    BY <2>6
  <2> QED BY <1>2, <1>3, <1>4, <1>5, <2>1, <2>7
<1>6. 0 \in S
  BY <1>0, <1>2, <1>3, <1>4
<1>7. \A i \in Dirs(dim) : i \in S
  BY <1>5, <1>6, DirInduction
<1> QED BY <1>0, <1>1, <1>4, <1>7 DEF Indexing!FlatSize, Indexing!Dir, Dirs
===============================================================================
