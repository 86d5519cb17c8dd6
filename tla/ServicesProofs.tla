---------------------------- MODULE ServicesProofs ----------------------------
(***************************************************************************)
(* Three of the parts the library rests on, for every instance: iteration  *)
(* over concatenated views is that of a cursor over one sequence, the files*)
(* of a writer hold the mesh and its data, and the outputs of a log hold   *)
(* whole lines.                                                            *)
(***************************************************************************)
EXTENDS ConcatenatedIteration, Output, TensorProofs, FiniteSetTheorems, SequenceTheorems

-------------------------------------------------------------------------------
(* Concatenated views.                                                     *)

\* An array has at most four directions.
ArrayOK(a) == \E r \in 1 .. 4 : a.size \in [0 .. r - 1 -> Nat]

\* Iterators begin and end where the constructor allows it, and operator- finds
\* that the steps from the beginning lead to the end.
RangeOK(v) ==
  \E a : \E i \in 0 .. FlatSizeOf(a) : \E j \in {PassTheEnd} \cup (0 .. FlatSizeOf(a)) : \E s \in Nat \ {0} :
    /\ ArrayOK(a)
    /\ v = View(Iterator(a, i, s), Iterator(a, j, s))
    /\ StepsLead(v.end, v.begin)

\* A list numbers its ranges from 0.
ListOK(list) ==
  /\ \E n \in Nat \ {0} : DOMAIN list = 0 .. n - 1
  /\ \A r \in DOMAIN list : RangeOK(list[r])

-----------------------------------------------------------------------------
(* Division.                                                                 *)

\* A quotient times the stride, and what is left.
LEMMA StepsAndRest ==
  ASSUME NEW s \in Nat \ {0}, NEW x \in Nat
  PROVE  x \div s \in Nat /\ (x \div s) * s <= x /\ x < (x \div s) * s + s
<1>1. x = s * (x \div s) + (x % s) /\ x % s \in 0 .. s - 1 /\ x \div s \in Nat
  OBVIOUS
<1>2. PICK q, r : q = x \div s /\ r = x % s
  OBVIOUS
<1>3. q \in Nat /\ r \in Nat /\ r < s /\ x = s * q + r
  BY <1>1, <1>2
<1>4. s * q = q * s /\ q * s \in Nat
  BY <1>3
<1> QED BY <1>2, <1>3, <1>4

\* More steps lead further, by a stride at least.
LEMMA StepsGrow ==
  ASSUME NEW s \in Nat \ {0}, NEW k \in Nat, NEW n \in Nat, k < n
  PROVE  k * s \in Nat /\ n * s \in Nat /\ k * s + s <= n * s
<1>1. PICK c : c = n - k - 1
  OBVIOUS
<1>2. c \in Nat /\ n = k + 1 + c
  BY <1>1
<1>3. n * s = k * s + s + c * s /\ c * s \in Nat /\ k * s \in Nat
  BY <1>2
<1> QED BY <1>3

\* The steps of a distance.
LEMMA StepsDivided ==
  ASSUME NEW s \in Nat \ {0}, NEW k \in Nat
  PROVE  (k * s) \div s = k
<1>1. PICK q : q = (k * s) \div s
  OBVIOUS
<1>2. k * s \in Nat
  OBVIOUS
<1>3. q \in Nat /\ q * s <= k * s /\ k * s < q * s + s
  BY <1>1, <1>2, StepsAndRest
<1>4. ~(q < k)
  BY <1>3, StepsGrow
<1>5. ~(k < q)
  BY <1>3, StepsGrow
<1> QED BY <1>1, <1>3, <1>4, <1>5

-----------------------------------------------------------------------------
(* One range.                                                                *)

\* The rank of an array is found from its directions.
LEMMA RankKnown ==
  ASSUME NEW r \in 1 .. 4, NEW sizes, DOMAIN sizes = 0 .. r - 1
  PROVE  RankOf(sizes) = r
<1>1. ASSUME NEW q \in 1 .. 4, 0 .. q - 1 = 0 .. r - 1
      PROVE  q = r
  <2>1. q - 1 \in 0 .. r - 1 /\ r - 1 \in 0 .. q - 1
    BY <1>1
  <2> QED BY <2>1
<1> QED BY <1>1 DEF RankOf

\* An array has a number of entries.
LEMMA FlatSizeNat ==
  ASSUME NEW a, ArrayOK(a)
  PROVE  FlatSizeOf(a) \in Nat
<1>1. PICK r \in 1 .. 4 : a.size \in [0 .. r - 1 -> Nat]
  BY DEF ArrayOK
<1>2. PICK sizes : sizes = a.size
  OBVIOUS
<1>3. RankOf(sizes) = r
  BY <1>1, <1>2, RankKnown
<1>4. PICK w : w = Indexing(r)!ComputeWeight(sizes)
  OBVIOUS
<1>5. FlatSizeOf(a) = w[r - 1]
  BY <1>2, <1>3, <1>4 DEF FlatSizeOf, Flat, Indexing!FlatSize
<1>6. w[0] = sizes[0] /\ \A i \in 0 .. r - 1 : i # 0 => w[i] = w[i - 1] * sizes[i]
  <2>1. r \in Nat \ {0}
    BY <1>1
  <2> QED BY <1>4, <2>1, WeightDefined DEF Dirs
<1>7. PICK S : S = {n \in Nat : n < r => w[n] \in Nat}
  OBVIOUS
<1>8. 0 \in S
  BY <1>1, <1>2, <1>6, <1>7
<1>9. ASSUME NEW n \in Nat, n \in S
       PROVE  n + 1 \in S
  <2>1. CASE n + 1 < r
    <3>1. w[n] \in Nat /\ sizes[n + 1] \in Nat
      BY <1>1, <1>2, <1>7, <1>9, <2>1
    <3>2. n + 1 \in 0 .. r - 1 /\ n + 1 # 0 /\ (n + 1) - 1 = n
      BY <2>1
    <3>3. w[n + 1] = w[n] * sizes[n + 1]
      BY <1>6, <3>2
    <3>4. w[n] * sizes[n + 1] \in Nat
      BY <3>1
    <3> QED BY <1>7, <3>3, <3>4
  <2>2. CASE ~(n + 1 < r)
    BY <1>7, <2>2
  <2> QED BY <2>1, <2>2
<1>10. r - 1 \in S
  BY <1>8, <1>9, NatInSet
<1> QED BY <1>5, <1>7, <1>10

\* A range is a number of places, a stride apart, the first in the array and the
\* end the place behind the last one.
Spaced(v, a, b, s, n) ==
  /\ FlatSizeOf(a) \in Nat
  /\ b \in Nat /\ s \in Nat \ {0} /\ n \in Nat \ {0}
  /\ \A k \in 0 .. n - 1 : k * s \in Nat /\ b + k * s < FlatSizeOf(a)
  /\ n * s \in Nat /\ b + n * s <= FlatSizeOf(a)
  /\ v.begin = [on |-> a, stride |-> s, id |-> b]
  /\ v.end = [on |-> a, stride |-> s, id |-> IF b + n * s < FlatSizeOf(a) THEN b + n * s ELSE PassTheEnd]
  /\ NumEntries(v) = n

\* That is what the assertions of views and of their iterators say.
LEMMA RangeSpaced ==
  ASSUME NEW v, RangeOK(v), IsView(v)
  PROVE  \E a, b, s, n : Spaced(v, a, b, s, n)
<1>1. PICK a, i, j, s :
        /\ i \in 0 .. FlatSizeOf(a) /\ j \in {PassTheEnd} \cup (0 .. FlatSizeOf(a)) /\ s \in Nat \ {0}
        /\ ArrayOK(a)
        /\ v = View(Iterator(a, i, s), Iterator(a, j, s))
        /\ StepsLead(v.end, v.begin)
  BY DEF RangeOK
<1>a. s \in Nat \ {0}
  BY <1>1
<1>2. PICK N : N = FlatSizeOf(a)
  OBVIOUS
<1>3. N \in Nat
  BY <1>1, <1>2, FlatSizeNat
<1>4. PassTheEnd = -1 /\ Invalid = -2
  BY DEF PassTheEnd, Invalid
<1>5. /\ v.begin = Iterator(a, i, s) /\ v.end = Iterator(a, j, s)
      /\ v.begin.id \notin {PassTheEnd, Invalid}
      /\ v.end.id = PassTheEnd \/ v.begin.id < v.end.id
  BY <1>1 DEF View, IsView, Less, IsIn
<1>6. N # 0 /\ i # N /\ v.begin = [on |-> a, stride |-> s, id |-> i]
  BY <1>2, <1>5 DEF Iterator
<1>7. i \in Nat /\ i < N
  BY <1>1, <1>2, <1>3, <1>6
<1>8. PICK e : e = v.end.id
  OBVIOUS
<1>9. v.end = [on |-> a, stride |-> s, id |-> e] /\ (e = PassTheEnd \/ (e \in Nat /\ i < e /\ e < N))
  <2>1. v.end = [on |-> a, stride |-> s, id |-> IF j = N THEN PassTheEnd ELSE j]
    BY <1>2, <1>5, <1>6 DEF Iterator
  <2>2. e = IF j = N THEN PassTheEnd ELSE j
    BY <1>8, <2>1
  <2> QED BY <1>1, <1>2, <1>3, <1>4, <1>5, <1>6, <1>7, <1>8, <2>1, <2>2
<1>10. PICK x : x = IF e # PassTheEnd THEN e - i ELSE N - i
  OBVIOUS
<1>11. x \in Nat /\ x > 0
  BY <1>3, <1>4, <1>7, <1>9, <1>10
<1>12. PICK n : n = x \div s
  OBVIOUS
<1>13. n \in Nat /\ n * s <= x /\ x < n * s + s /\ n * s \in Nat
  <2>1. n \in Nat /\ n * s <= x /\ x < n * s + s
    BY <1>a, <1>11, <1>12, StepsAndRest
  <2>2. n * s \in Nat
    BY <1>a, <2>1
  <2> QED BY <2>1, <2>2
<1>14. Distance(v.end, v.begin) = n
  <2>1. v.end.id = e /\ v.end.on = a /\ v.begin.id = i /\ v.begin.stride = s
    BY <1>6, <1>9
  <2>2. i # PassTheEnd
    BY <1>4, <1>7
  <2> QED BY <1>2, <1>10, <1>12, <2>1, <2>2 DEF Distance
<1>15. NumEntries(v) = n
  BY <1>14 DEF NumEntries
<1>16. v.end = Iterator(a, IF i + n * s < N THEN i + n * s ELSE PassTheEnd, s)
  <2>1. v.begin.id = i /\ v.begin.stride = s /\ v.begin.on = a
    BY <1>6
  <2>2. Forward(v.begin, n) = v.end
    BY <1>1, <1>14 DEF StepsLead
  <2> QED BY <1>2, <2>1, <2>2 DEF Forward
<1>17. v.end = [on |-> a, stride |-> s, id |-> IF i + n * s < N THEN i + n * s ELSE PassTheEnd]
  <2>1. PassTheEnd # N /\ (i + n * s < N => i + n * s # N)
    BY <1>3, <1>4, <1>7, <1>13
  <2> QED BY <1>2, <1>6, <1>16, <2>1 DEF Iterator
<1>18. i + n * s <= N
  BY <1>3, <1>4, <1>7, <1>9, <1>10, <1>11, <1>13
<1>19. n # 0
  <2>1. CASE n = 0
    <3>1. n * s = 0
      BY <1>a, <2>1
    <3>2. e = i
      BY <1>7, <1>8, <1>17, <3>1
    <3> QED BY <1>4, <1>7, <1>9, <3>2
  <2> QED BY <2>1
<1>20. ASSUME NEW k \in 0 .. n - 1
       PROVE  k * s \in Nat /\ i + k * s < N
  <2>1. k \in Nat /\ k < n
    BY <1>13
  <2>2. k * s \in Nat /\ k * s + s <= n * s
    BY <1>a, <1>13, <2>1, StepsGrow
  <2> QED BY <1>a, <1>3, <1>7, <1>13, <1>18, <2>2
<1>21. Spaced(v, a, i, s, n)
  BY <1>a, <1>2, <1>3, <1>6, <1>7, <1>13, <1>15, <1>17, <1>18, <1>19, <1>20 DEF Spaced
<1> QED BY <1>21

\* The place k steps behind the beginning of a range.
Spot(v, k) == Forward(v.begin, k)

\* The places of a range are in its array, but for the end.
LEMMA SpotInRange ==
  ASSUME NEW v, NEW a, NEW b, NEW s, NEW n, Spaced(v, a, b, s, n), NEW k \in 0 .. n
  PROVE  /\ k * s \in Nat /\ b + k * s <= FlatSizeOf(a)
         /\ k < n => b + k * s < FlatSizeOf(a)
         /\ Spot(v, k) = [on |-> a, stride |-> s, id |-> IF b + k * s < FlatSizeOf(a) THEN b + k * s ELSE PassTheEnd]
<1>1. k * s \in Nat /\ b + k * s <= FlatSizeOf(a) /\ (k < n => b + k * s < FlatSizeOf(a))
  <2>1. CASE k = n
    BY <2>1 DEF Spaced
  <2>2. CASE k # n
    <3>1. k \in 0 .. n - 1
      BY <2>2 DEF Spaced
    <3>2. k * s \in Nat /\ b + k * s < FlatSizeOf(a) /\ b \in Nat /\ FlatSizeOf(a) \in Nat
      BY <3>1 DEF Spaced
    <3> QED BY <3>2
  <2> QED BY <2>1, <2>2
<1>2. PICK N, x : N = FlatSizeOf(a) /\ x = b + k * s
  OBVIOUS
<1>3. N \in Nat /\ x \in Nat /\ b \in Nat /\ b < N
  <2>1. 0 \in 0 .. n - 1 /\ b \in Nat /\ N \in Nat /\ s \in Nat
    BY <1>2 DEF Spaced
  <2>2. b + 0 * s < N /\ 0 * s = 0
    BY <1>2, <2>1 DEF Spaced
  <2> QED BY <1>1, <1>2, <2>1, <2>2
<1>4. v.begin.id = b /\ v.begin.stride = s /\ v.begin.on = a
  BY DEF Spaced
<1>5. Spot(v, k) = Iterator(a, IF x < N THEN x ELSE PassTheEnd, s)
  BY <1>2, <1>4 DEF Spot, Forward
<1>6. Iterator(a, IF x < N THEN x ELSE PassTheEnd, s) = [on |-> a, stride |-> s, id |-> IF x < N THEN x ELSE PassTheEnd]
  <2>1. N # 0 /\ PassTheEnd # N /\ (x < N => x # N)
    BY <1>3 DEF PassTheEnd
  <2> QED BY <1>2, <2>1 DEF Iterator
<1> QED BY <1>1, <1>2, <1>5, <1>6

\* The iterators of a range are its places, one after the other, up to the end;
\* they give the entries of operator[], and the distances are the steps made.
LEMMA RangePlaces ==
  ASSUME NEW v, RangeOK(v), IsView(v)
  PROVE  /\ NumEntries(v) \in Nat \ {0}
         /\ Spot(v, 0) = v.begin
         /\ Spot(v, NumEntries(v)) = v.end
         /\ \A k \in 0 .. NumEntries(v) - 1 :
              /\ Spot(v, k) # v.end
              /\ Successor(Spot(v, k)) = Spot(v, k + 1)
              /\ Deref(Spot(v, k)) = Position(v, k)
         /\ \A k \in 0 .. NumEntries(v) : Distance(Spot(v, k), v.begin) = k
<1>1. PICK a, b, s, n : Spaced(v, a, b, s, n)
  BY RangeSpaced
<1>2. PICK N : N = FlatSizeOf(a)
  OBVIOUS
<1>3. /\ N \in Nat /\ b \in Nat /\ s \in Nat \ {0} /\ n \in Nat \ {0} /\ n = NumEntries(v)
      /\ v.begin = [on |-> a, stride |-> s, id |-> b]
  BY <1>1, <1>2 DEF Spaced
<1>4. \A k \in 0 .. n : /\ k * s \in Nat /\ b + k * s <= N
                        /\ k < n => b + k * s < N
                        /\ Spot(v, k) = [on |-> a, stride |-> s, id |-> IF b + k * s < N THEN b + k * s ELSE PassTheEnd]
  BY <1>1, <1>2, SpotInRange
<1>5. PassTheEnd = -1
  BY DEF PassTheEnd
<1>6. Spot(v, 0) = v.begin
  <2>1. 0 \in 0 .. n /\ 0 < n /\ 0 * s = 0 /\ b + 0 = b
    BY <1>3
  <2>2. b + 0 * s = b
    BY <1>3, <2>1
  <2> QED BY <1>3, <1>4, <2>1, <2>2
<1>7. Spot(v, n) = v.end
  <2>1. n \in 0 .. n
    BY <1>3
  <2>2. v.end = [on |-> a, stride |-> s, id |-> IF b + n * s < N THEN b + n * s ELSE PassTheEnd]
    BY <1>1, <1>2 DEF Spaced
  <2> QED BY <1>4, <2>1, <2>2
<1>8. ASSUME NEW k \in 0 .. n - 1
      PROVE  /\ Spot(v, k) # v.end
             /\ Successor(Spot(v, k)) = Spot(v, k + 1)
             /\ Deref(Spot(v, k)) = Position(v, k)
  <2>1. k \in 0 .. n /\ k + 1 \in 0 .. n /\ k < n /\ k \in Nat /\ n \in 0 .. n
    BY <1>3
  <2>2. PICK x, y, z : x = b + k * s /\ y = b + (k + 1) * s /\ z = b + n * s
    OBVIOUS
  <2>3. (k + 1) * s = k * s + s /\ k * s \in Nat /\ n * s \in Nat /\ k * s + s <= n * s
    <3>1. s \in Nat \ {0} /\ k \in Nat /\ n \in Nat /\ k < n
      BY <1>3, <2>1
    <3>2. k * s \in Nat /\ n * s \in Nat /\ k * s + s <= n * s
      BY <3>1, StepsGrow
    <3>3. (k + 1) * s = k * s + s
      BY <3>1
    <3> QED BY <3>2, <3>3
  <2>4. x \in Nat /\ x < N /\ y = x + s /\ x < z /\ z \in Nat
    <3>1. x < N
      BY <1>4, <2>1, <2>2
    <3>2. b \in Nat /\ s \in Nat /\ s # 0
      BY <1>3
    <3> QED BY <2>2, <2>3, <3>1, <3>2
  <2>5. /\ Spot(v, k) = [on |-> a, stride |-> s, id |-> x]
        /\ Spot(v, k + 1) = [on |-> a, stride |-> s, id |-> IF y < N THEN y ELSE PassTheEnd]
        /\ Spot(v, n) = [on |-> a, stride |-> s, id |-> IF z < N THEN z ELSE PassTheEnd]
    BY <1>4, <2>1, <2>2, <2>4
  <2>6. Spot(v, k) # v.end
    <3>1. Spot(v, k).id = x /\ Spot(v, n).id = IF z < N THEN z ELSE PassTheEnd
      BY <2>5
    <3> QED BY <1>5, <1>7, <2>4, <3>1
  <2>7. Successor(Spot(v, k)) = Spot(v, k + 1)
    <3>1. Successor([on |-> a, stride |-> s, id |-> x]) = [on |-> a, stride |-> s, id |-> IF x + s >= N THEN PassTheEnd ELSE x + s]
      BY <1>2 DEF Successor
    <3>2. (x + s >= N) <=> ~(y < N)
      BY <1>3, <2>4
    <3> QED BY <2>4, <2>5, <3>1, <3>2
  <2>8. Deref(Spot(v, k)) = Position(v, k)
    <3>1. Deref(Spot(v, k)) = a.data[x]
      BY <2>5 DEF Deref
    <3>2. Position(v, k) = a.data[b + k * s]
      BY <1>3 DEF Position, Subscript
    <3> QED BY <2>2, <3>1, <3>2
  <2> QED BY <2>6, <2>7, <2>8
<1>9. ASSUME NEW k \in 0 .. n
      PROVE  Distance(Spot(v, k), v.begin) = k
  <2>1. PICK x : x = k * s
    OBVIOUS
  <2>2. x \in Nat /\ b + x <= N /\ k \in Nat /\ Spot(v, k) = [on |-> a, stride |-> s, id |-> IF b + x < N THEN b + x ELSE PassTheEnd]
    BY <1>3, <1>4, <2>1
  <2>3. PICK e : e = Spot(v, k).id
    OBVIOUS
  <2>4. e = IF b + x < N THEN b + x ELSE PassTheEnd
    BY <2>2, <2>3
  <2>5. /\ Spot(v, k).on = a /\ v.begin.id = b /\ v.begin.stride = s
        /\ b # PassTheEnd
    BY <1>3, <1>5, <2>2
  <2>6. (IF e # PassTheEnd THEN e - b ELSE N - b) = x
    BY <1>3, <1>5, <2>2, <2>4
  <2>7. Distance(Spot(v, k), v.begin) = (IF e # PassTheEnd THEN e - b ELSE N - b) \div s
    BY <1>2, <2>3, <2>5 DEF Distance
  <2>8. x \div s = k
    BY <1>3, <2>1, <2>2, StepsDivided
  <2> QED BY <2>6, <2>7, <2>8
<1> QED BY <1>3, <1>6, <1>7, <1>8, <1>9

-----------------------------------------------------------------------------
(* The entries of the ranges before.                                         *)

\* The partial sums of a sequence of numbers.
Sums(h, n, f) == f = [k \in 0 .. n |-> IF k = 0 THEN 0 ELSE f[k - 1] + h[k - 1]]

\* Every number of terms has its partial sums.
LEMMA SumsExist ==
  ASSUME NEW h, NEW n \in Nat
  PROVE  \E f : Sums(h, n, f)
<1>1. PICK T : T = {m \in Nat : \E f : Sums(h, m, f)}
  OBVIOUS
<1>2. 0 \in T
  <2>1. PICK f : f = [k \in 0 .. 0 |-> 0]
    OBVIOUS
  <2>2. f = [k \in 0 .. 0 |-> IF k = 0 THEN 0 ELSE f[k - 1] + h[k - 1]]
    BY <2>1
  <2> QED BY <1>1, <2>2 DEF Sums
<1>3. ASSUME NEW m \in Nat, m \in T
      PROVE  m + 1 \in T
  <2>1. PICK f : f = [k \in 0 .. m |-> IF k = 0 THEN 0 ELSE f[k - 1] + h[k - 1]]
    BY <1>1, <1>3 DEF Sums
  <2>2. PICK g : g = [k \in 0 .. m + 1 |-> IF k = m + 1 THEN f[m] + h[m] ELSE f[k]]
    OBVIOUS
  <2>3. ASSUME NEW k \in 0 .. m + 1
        PROVE  g[k] = IF k = 0 THEN 0 ELSE g[k - 1] + h[k - 1]
    <3>1. CASE k = m + 1
      <4>1. k # 0 /\ k - 1 = m /\ m \in 0 .. m + 1 /\ m # m + 1
        BY <3>1
      <4> QED BY <2>2, <3>1, <4>1
    <3>2. CASE k # m + 1
      <4>1. k \in 0 .. m /\ (k # 0 => k - 1 \in 0 .. m + 1 /\ k - 1 # m + 1)
        BY <3>2
      <4> QED BY <2>1, <2>2, <3>2, <4>1
    <3> QED BY <3>1, <3>2
  <2>4. g = [k \in 0 .. m + 1 |-> IF k = 0 THEN 0 ELSE g[k - 1] + h[k - 1]]
    BY <2>2, <2>3
  <2> QED BY <1>1, <2>4 DEF Sums
<1>4. n \in T
  BY <1>2, <1>3, NatInSet
<1> QED BY <1>1, <1>4

\* A longer sum adds one number.
LEMMA SumsGrow ==
  ASSUME NEW h, NEW n \in Nat, NEW f, Sums(h, n, f), NEW g, Sums(h, n + 1, g)
  PROVE  g[n + 1] = f[n] + h[n]
<1>1. PICK S : S = {k \in Nat : k <= n => f[k] = g[k]}
  OBVIOUS
<1>2. f = [k \in 0 .. n |-> IF k = 0 THEN 0 ELSE f[k - 1] + h[k - 1]]
  BY DEF Sums
<1>3. g = [k \in 0 .. n + 1 |-> IF k = 0 THEN 0 ELSE g[k - 1] + h[k - 1]]
  BY DEF Sums
<1>4. 0 \in S
  <2>1. 0 \in 0 .. n /\ 0 \in 0 .. n + 1
    OBVIOUS
  <2>2. f[0] = 0 /\ g[0] = 0
    BY <1>2, <1>3, <2>1
  <2> QED BY <1>1, <2>2
<1>5. ASSUME NEW k \in Nat, k \in S
      PROVE  k + 1 \in S
  <2>1. CASE k + 1 <= n
    <3>1. k + 1 \in 0 .. n /\ k + 1 \in 0 .. n + 1 /\ k + 1 # 0 /\ (k + 1) - 1 = k /\ k <= n
      BY <2>1
    <3>2. f[k + 1] = f[k] + h[k] /\ g[k + 1] = g[k] + h[k]
      BY <1>2, <1>3, <3>1
    <3> QED BY <1>1, <1>5, <3>1, <3>2
  <2>2. CASE ~(k + 1 <= n)
    BY <1>1, <2>2
  <2> QED BY <2>1, <2>2
<1>6. f[n] = g[n]
  BY <1>1, <1>4, <1>5, NatInSet
<1>7. n + 1 \in 0 .. n + 1 /\ n + 1 # 0 /\ (n + 1) - 1 = n
  OBVIOUS
<1>8. g[n + 1] = g[n] + h[n]
  BY <1>3, <1>7
<1> QED BY <1>6, <1>8

\* The entries of n ranges from range a on.
Between(a, n) == SumOver(n, LAMBDA r : NumEntries(ranges[a + r]))

\* A range more adds its entries to those between.
LEMMA BetweenGrows ==
  ASSUME NEW a, NEW n \in Nat
  PROVE  Between(a, 0) = 0 /\ Between(a, n + 1) = Between(a, n) + NumEntries(ranges[a + n])
<1>1. PICK h : h = [r \in Nat |-> NumEntries(ranges[a + r])]
  OBVIOUS
<1>2. ASSUME NEW m \in Nat
      PROVE  \E f : Sums(h, m, f) /\ Between(a, m) = f[m]
  <2>1. PICK g : Sums(h, m, g)
    BY SumsExist
  <2>2. \A k \in 0 .. m : k # 0 => k - 1 \in Nat
    BY <1>2
  <2>3. g = [k \in 0 .. m |-> IF k = 0 THEN 0 ELSE g[k - 1] + NumEntries(ranges[a + (k - 1)])]
    BY <1>1, <2>1, <2>2 DEF Sums
  <2>4. PICK f : f = CHOOSE sum : sum = [k \in 0 .. m |-> IF k = 0 THEN 0 ELSE sum[k - 1] + NumEntries(ranges[a + (k - 1)])]
    OBVIOUS
  <2>5. f = [k \in 0 .. m |-> IF k = 0 THEN 0 ELSE f[k - 1] + NumEntries(ranges[a + (k - 1)])]
    BY <2>3, <2>4
  <2>6. Sums(h, m, f)
    BY <1>1, <2>2, <2>5 DEF Sums
  <2>7. Between(a, m) = f[m]
    BY <2>4 DEF Between, SumOver
  <2> QED BY <2>6, <2>7
<1>3. Between(a, 0) = 0
  <2>1. PICK f : Sums(h, 0, f) /\ Between(a, 0) = f[0]
    BY <1>2
  <2>2. 0 \in 0 .. 0
    OBVIOUS
  <2> QED BY <2>1, <2>2 DEF Sums
<1>4. Between(a, n + 1) = Between(a, n) + NumEntries(ranges[a + n])
  <2>1. PICK f : Sums(h, n, f) /\ Between(a, n) = f[n]
    BY <1>2
  <2>2. PICK g : Sums(h, n + 1, g) /\ Between(a, n + 1) = g[n + 1]
    BY <1>2
  <2>3. g[n + 1] = f[n] + h[n]
    BY <2>1, <2>2, SumsGrow
  <2> QED BY <1>1, <2>1, <2>2, <2>3
<1> QED BY <1>3, <1>4

\* The next range begins behind the entries of this one.
LEMMA FirstOfGrows ==
  ASSUME NEW n \in Nat
  PROVE  FirstOf(0) = 0 /\ FirstOf(n + 1) = FirstOf(n) + NumEntries(ranges[n])
<1>1. PICK h : h = [r \in Nat |-> NumEntries(ranges[r])]
  OBVIOUS
<1>2. ASSUME NEW m \in Nat
      PROVE  \E f : Sums(h, m, f) /\ FirstOf(m) = f[m]
  <2>1. PICK g : Sums(h, m, g)
    BY SumsExist
  <2>2. \A k \in 0 .. m : k # 0 => k - 1 \in Nat
    BY <1>2
  <2>3. g = [k \in 0 .. m |-> IF k = 0 THEN 0 ELSE g[k - 1] + NumEntries(ranges[k - 1])]
    BY <1>1, <2>1, <2>2 DEF Sums
  <2>4. PICK f : f = CHOOSE sum : sum = [k \in 0 .. m |-> IF k = 0 THEN 0 ELSE sum[k - 1] + NumEntries(ranges[k - 1])]
    OBVIOUS
  <2>5. f = [k \in 0 .. m |-> IF k = 0 THEN 0 ELSE f[k - 1] + NumEntries(ranges[k - 1])]
    BY <2>3, <2>4
  <2>6. Sums(h, m, f)
    BY <1>1, <2>2, <2>5 DEF Sums
  <2>7. FirstOf(m) = f[m]
    BY <2>4 DEF FirstOf, SumOver
  <2> QED BY <2>6, <2>7
<1>3. FirstOf(0) = 0
  <2>1. PICK f : Sums(h, 0, f) /\ FirstOf(0) = f[0]
    BY <1>2
  <2>2. 0 \in 0 .. 0
    OBVIOUS
  <2> QED BY <2>1, <2>2 DEF Sums
<1>4. FirstOf(n + 1) = FirstOf(n) + NumEntries(ranges[n])
  <2>1. PICK f : Sums(h, n, f) /\ FirstOf(n) = f[n]
    BY <1>2
  <2>2. PICK g : Sums(h, n + 1, g) /\ FirstOf(n + 1) = g[n + 1]
    BY <1>2
  <2>3. g[n + 1] = f[n] + h[n]
    BY <2>1, <2>2, SumsGrow
  <2> QED BY <1>1, <2>1, <2>2, <2>3
<1> QED BY <1>3, <1>4

\* What operator- adds up.
LEMMA DistanceBetween ==
  ASSUME NEW it, NEW a
  PROVE  DistanceOf(it, a) = Between(a.range_id, it.range_id - a.range_id)
                               - Distance(a.current, ranges[a.range_id].begin)
                               + Distance(it.current, ranges[it.range_id].begin)
BY Zenon DEF DistanceOf, Between, SumOver

-----------------------------------------------------------------------------
(* The list of ranges.                                                       *)

\* The ranges the constructor accepts, of views whose iterators can be counted.
ListInv == ListOK(ranges) /\ CanConcatenate(ranges)

\* What a range adds to the sequence.
Entries(r) == NumEntries(ranges[r])

\* The ranges of a list are numbered up to the last one, and none is empty.
LEMMA ListShape ==
  ASSUME ListInv
  PROVE  /\ LastRange \in Nat /\ DOMAIN ranges = 0 .. LastRange /\ NumRanges = LastRange + 1
         /\ \A r \in 0 .. LastRange : RangeOK(ranges[r]) /\ IsView(ranges[r]) /\ Entries(r) \in Nat \ {0}
<1>1. PICK n \in Nat \ {0} : DOMAIN ranges = 0 .. n - 1
  BY DEF ListInv, ListOK
<1>2. Cardinality(0 .. n - 1) = n
  BY FS_Interval
<1>3. NumRanges = n /\ LastRange = n - 1
  BY <1>1, <1>2 DEF NumRanges, LastRange
<1>4. \A r \in 0 .. LastRange : RangeOK(ranges[r]) /\ IsView(ranges[r])
  BY <1>1, <1>3 DEF ListInv, ListOK, CanConcatenate
<1>5. \A r \in 0 .. LastRange : Entries(r) \in Nat \ {0}
  BY <1>4, RangePlaces DEF Entries
<1> QED BY <1>1, <1>3, <1>4, <1>5

\* The ranges lie behind one another.
LEMMA FirstOfNat ==
  ASSUME ListInv
  PROVE  /\ \A r \in 0 .. LastRange + 1 : FirstOf(r) \in Nat
         /\ FirstOf(0) = 0
         /\ \A r \in 0 .. LastRange : FirstOf(r + 1) = FirstOf(r) + Entries(r)
<1>1. LastRange \in Nat /\ \A r \in 0 .. LastRange : Entries(r) \in Nat \ {0}
  BY ListShape
<1>2. FirstOf(0) = 0 /\ \A r \in Nat : FirstOf(r + 1) = FirstOf(r) + Entries(r)
  BY FirstOfGrows DEF Entries
<1>3. PICK S : S = {r \in Nat : r <= LastRange + 1 => FirstOf(r) \in Nat}
  OBVIOUS
<1>4. 0 \in S
  BY <1>2, <1>3
<1>5. ASSUME NEW r \in Nat, r \in S
      PROVE  r + 1 \in S
  <2>1. CASE r + 1 <= LastRange + 1
    <3>1. r \in 0 .. LastRange /\ r <= LastRange + 1
      BY <1>1, <2>1
    <3>2. FirstOf(r) \in Nat /\ Entries(r) \in Nat /\ FirstOf(r + 1) = FirstOf(r) + Entries(r)
      BY <1>1, <1>2, <1>3, <1>5, <3>1
    <3> QED BY <1>3, <3>2
  <2>2. CASE ~(r + 1 <= LastRange + 1)
    BY <1>3, <2>2
  <2> QED BY <2>1, <2>2
<1>6. \A r \in Nat : r \in S
  BY <1>4, <1>5, NatInSet
<1> QED BY <1>1, <1>2, <1>3, <1>6

\* No range begins before the end of an earlier one.
LEMMA RangesApart ==
  ASSUME ListInv, NEW r \in 0 .. LastRange, NEW q \in 0 .. LastRange + 1, r < q
  PROVE  FirstOf(r) + Entries(r) <= FirstOf(q)
<1>1. /\ LastRange \in Nat
      /\ \A x \in 0 .. LastRange + 1 : FirstOf(x) \in Nat
      /\ \A x \in 0 .. LastRange : Entries(x) \in Nat /\ FirstOf(x + 1) = FirstOf(x) + Entries(x)
  BY ListShape, FirstOfNat
<1>2. PICK S : S = {n \in Nat : r + 1 + n <= LastRange + 1 => FirstOf(r) + Entries(r) <= FirstOf(r + 1 + n)}
  OBVIOUS
<1>3. 0 \in S
  <2>1. r + 1 + 0 = r + 1
    OBVIOUS
  <2>2. FirstOf(r) + Entries(r) <= FirstOf(r + 1)
    BY <1>1
  <2> QED BY <1>2, <2>1, <2>2
<1>4. ASSUME NEW n \in Nat, n \in S
      PROVE  n + 1 \in S
  <2>1. CASE r + 1 + (n + 1) <= LastRange + 1
    <3>1. PICK x : x = r + 1 + n
      OBVIOUS
    <3>2. x \in 0 .. LastRange /\ x \in 0 .. LastRange + 1 /\ r + 1 + (n + 1) = x + 1 /\ x <= LastRange + 1
      BY <1>1, <2>1, <3>1
    <3>3. FirstOf(r) + Entries(r) <= FirstOf(x)
      BY <1>2, <1>4, <3>1, <3>2
    <3>4. FirstOf(x + 1) = FirstOf(x) + Entries(x) /\ FirstOf(x) \in Nat /\ Entries(x) \in Nat /\ FirstOf(r) \in Nat /\ Entries(r) \in Nat
      BY <1>1, <3>2
    <3>5. FirstOf(r) + Entries(r) <= FirstOf(x + 1)
      BY <3>3, <3>4
    <3> QED BY <1>2, <3>2, <3>5
  <2>2. CASE ~(r + 1 + (n + 1) <= LastRange + 1)
    BY <1>2, <2>2
  <2> QED BY <2>1, <2>2
<1>5. q - r - 1 \in Nat /\ r + 1 + (q - r - 1) = q /\ q <= LastRange + 1
  BY <1>1
<1>6. q - r - 1 \in S
  BY <1>3, <1>4, <1>5, NatInSet
<1> QED BY <1>2, <1>5, <1>6

\* The entries between two ranges are those before the second without those
\* before the first.
LEMMA BetweenRanges ==
  ASSUME ListInv, NEW a \in 0 .. LastRange, NEW b \in 0 .. LastRange, a <= b
  PROVE  FirstOf(a) + Between(a, b - a) = FirstOf(b) /\ Between(a, b - a) \in Nat
<1>1. /\ LastRange \in Nat
      /\ \A x \in 0 .. LastRange + 1 : FirstOf(x) \in Nat
      /\ \A x \in 0 .. LastRange : Entries(x) \in Nat /\ FirstOf(x + 1) = FirstOf(x) + Entries(x)
  BY ListShape, FirstOfNat
<1>2. PICK S : S = {n \in Nat : a + n <= LastRange => Between(a, n) \in Nat /\ FirstOf(a) + Between(a, n) = FirstOf(a + n)}
  OBVIOUS
<1>3. 0 \in S
  <2>1. Between(a, 0) = 0 /\ a + 0 = a /\ FirstOf(a) \in Nat
    BY <1>1, BetweenGrows
  <2> QED BY <1>2, <2>1
<1>4. ASSUME NEW n \in Nat, n \in S
      PROVE  n + 1 \in S
  <2>1. CASE a + (n + 1) <= LastRange
    <3>1. PICK x : x = a + n
      OBVIOUS
    <3>2. x \in 0 .. LastRange /\ x \in 0 .. LastRange + 1 /\ a + (n + 1) = x + 1
      BY <1>1, <2>1, <3>1
    <3>3. Between(a, n) \in Nat /\ FirstOf(a) + Between(a, n) = FirstOf(x)
      BY <1>2, <1>4, <3>1, <3>2
    <3>4. Between(a, n + 1) = Between(a, n) + Entries(x)
      BY <3>1, BetweenGrows DEF Entries
    <3>5. FirstOf(x + 1) = FirstOf(x) + Entries(x) /\ FirstOf(a) \in Nat /\ Entries(x) \in Nat
      BY <1>1, <3>2
    <3>6. Between(a, n + 1) \in Nat /\ FirstOf(a) + Between(a, n + 1) = FirstOf(x + 1)
      BY <3>3, <3>4, <3>5
    <3> QED BY <1>2, <3>2, <3>6
  <2>2. CASE ~(a + (n + 1) <= LastRange)
    BY <1>2, <2>2
  <2> QED BY <2>1, <2>2
<1>5. b - a \in Nat /\ a + (b - a) = b /\ b <= LastRange
  BY <1>1
<1>6. b - a \in S
  BY <1>3, <1>4, <1>5, NatInSet
<1> QED BY <1>2, <1>5, <1>6

-----------------------------------------------------------------------------
(* Where an iterator stands.                                                 *)

\* The length of the sequence.
Total == FirstOf(LastRange) + Entries(LastRange)

\* k entries into range r; only the last range is left through its end.
At(it, r, k) ==
  /\ r \in 0 .. LastRange /\ k \in 0 .. Entries(r) /\ (k = Entries(r) => r = LastRange)
  /\ it = [range_id |-> r, current |-> Spot(ranges[r], k)]

\* An iterator at position p of the sequence.
Stands(it, p) == \E r, k : At(it, r, k) /\ p = FirstOf(r) + k

\* What the assertions and the numbers of a place are.
LEMMA PlaceNumbers ==
  ASSUME ListInv, NEW it, NEW r, NEW k, At(it, r, k)
  PROVE  /\ r \in Nat /\ r <= LastRange /\ LastRange \in Nat /\ k \in Nat /\ k <= Entries(r)
         /\ FirstOf(r) \in Nat /\ Entries(r) \in Nat \ {0}
         /\ it.range_id = r /\ it.current = Spot(ranges[r], k)
         /\ FirstOf(r) + k <= Total /\ Total \in Nat
         /\ (FirstOf(r) + k = Total) <=> (k = Entries(r))
<1>1. LastRange \in Nat /\ (\A x \in 0 .. LastRange : Entries(x) \in Nat \ {0}) /\ \A x \in 0 .. LastRange + 1 : FirstOf(x) \in Nat
  BY ListShape, FirstOfNat
<1>2. r \in 0 .. LastRange /\ k \in 0 .. Entries(r) /\ (k = Entries(r) => r = LastRange)
      /\ it = [range_id |-> r, current |-> Spot(ranges[r], k)]
  BY DEF At
<1>3. /\ r \in Nat /\ r <= LastRange /\ FirstOf(r) \in Nat /\ Entries(r) \in Nat \ {0}
      /\ FirstOf(LastRange) \in Nat /\ Entries(LastRange) \in Nat \ {0}
  BY <1>1, <1>2
<1>4. k \in Nat /\ k <= Entries(r)
  BY <1>2, <1>3
<1>5. r # LastRange => FirstOf(r) + Entries(r) <= FirstOf(LastRange)
  <2>1. r # LastRange => r < LastRange /\ LastRange \in 0 .. LastRange + 1
    BY <1>1, <1>2
  <2> QED BY <1>2, <2>1, RangesApart
<1>6. FirstOf(r) + k <= Total /\ Total \in Nat /\ ((FirstOf(r) + k = Total) <=> (k = Entries(r)))
  <2>1. CASE r = LastRange
    BY <1>3, <1>4, <2>1 DEF Total
  <2>2. CASE r # LastRange
    BY <1>2, <1>3, <1>4, <1>5, <2>2 DEF Total
  <2> QED BY <2>1, <2>2
<1> QED BY <1>1, <1>2, <1>3, <1>4, <1>6

\* The first and the last place.
LEMMA Ends ==
  ASSUME ListInv
  PROVE  At(AtBegin, 0, 0) /\ At(AtEnd, LastRange, Entries(LastRange))
<1>1. LastRange \in Nat /\ \A x \in 0 .. LastRange : RangeOK(ranges[x]) /\ IsView(ranges[x]) /\ Entries(x) \in Nat \ {0}
  BY ListShape
<1>2. 0 \in 0 .. LastRange /\ LastRange \in 0 .. LastRange
  BY <1>1
<1>3. Entries(0) \in Nat \ {0} /\ Entries(LastRange) \in Nat \ {0}
  BY <1>1, <1>2
<1>4. 0 \in 0 .. Entries(0) /\ 0 # Entries(0) /\ Entries(LastRange) \in 0 .. Entries(LastRange)
  BY <1>3
<1>5. Spot(ranges[0], 0) = ranges[0].begin /\ Spot(ranges[LastRange], Entries(LastRange)) = ranges[LastRange].end
  BY <1>1, <1>2, RangePlaces DEF Entries
<1> QED BY <1>2, <1>4, <1>5 DEF At, AtBegin, AtEnd, LastEnd

\* The position of an iterator is what it has passed, and with what is left
\* makes the whole sequence.
LEMMA PlaceDistances ==
  ASSUME ListInv, NEW it, NEW p, Stands(it, p)
  PROVE  /\ p \in 0 .. Total /\ Total \in Nat
         /\ FirstOf(it.range_id) + Distance(it.current, ranges[it.range_id].begin) = p
         /\ DistanceOf(it, AtBegin) = p
         /\ DistanceOf(AtEnd, it) = Total - p
         /\ (it = AtEnd) <=> (p = Total)
<1>1. PICK r, k : At(it, r, k) /\ p = FirstOf(r) + k
  BY DEF Stands
<1>2. /\ r \in Nat /\ r <= LastRange /\ LastRange \in Nat /\ k \in Nat /\ k <= Entries(r)
      /\ FirstOf(r) \in Nat /\ Entries(r) \in Nat \ {0}
      /\ it.range_id = r /\ it.current = Spot(ranges[r], k)
      /\ p <= Total /\ Total \in Nat
      /\ (p = Total) <=> (k = Entries(r))
  BY <1>1, PlaceNumbers
<1>3. r \in 0 .. LastRange /\ 0 \in 0 .. LastRange /\ LastRange \in 0 .. LastRange
  BY <1>2
<1>4. \A x \in 0 .. LastRange : RangeOK(ranges[x]) /\ IsView(ranges[x])
  BY ListShape
<1>5. Distance(it.current, ranges[r].begin) = k
  <2>1. k \in 0 .. NumEntries(ranges[r])
    BY <1>2 DEF Entries
  <2> QED BY <1>2, <1>3, <1>4, <2>1, RangePlaces
<1>6. At(AtBegin, 0, 0) /\ At(AtEnd, LastRange, Entries(LastRange))
  BY Ends
<1>7. /\ AtBegin.range_id = 0 /\ AtBegin.current = ranges[0].begin
      /\ AtEnd.range_id = LastRange /\ AtEnd.current = ranges[LastRange].end
  BY DEF AtBegin, AtEnd, LastEnd
<1>8. /\ Distance(ranges[0].begin, ranges[0].begin) = 0
      /\ Distance(ranges[LastRange].end, ranges[LastRange].begin) = Entries(LastRange)
  <2>1. 0 \in 0 .. NumEntries(ranges[0]) /\ Spot(ranges[0], 0) = ranges[0].begin
    <3>1. NumEntries(ranges[0]) \in Nat \ {0} /\ Spot(ranges[0], 0) = ranges[0].begin
      BY <1>3, <1>4, RangePlaces
    <3> QED BY <3>1
  <2>2. Distance(ranges[0].begin, ranges[0].begin) = 0
    BY <1>3, <1>4, <2>1, RangePlaces
  <2> QED BY <2>2 DEF Entries, NumEntries
<1>9. DistanceOf(it, AtBegin) = p
  <2>1. DistanceOf(it, AtBegin) = Between(0, r - 0) - 0 + k
    BY <1>2, <1>5, <1>7, <1>8, DistanceBetween
  <2>2. FirstOf(0) + Between(0, r - 0) = FirstOf(r) /\ Between(0, r - 0) \in Nat
    BY <1>2, <1>3, BetweenRanges
  <2>3. FirstOf(0) = 0
    BY FirstOfNat
  <2>4. PICK z : z = Between(0, r - 0)
    OBVIOUS
  <2> HIDE <2>4
  <2>5. z \in Nat /\ z = FirstOf(r) /\ DistanceOf(it, AtBegin) = z - 0 + k
    BY <2>1, <2>2, <2>3, <2>4
  <2> QED BY <1>1, <1>2, <2>5
<1>10. DistanceOf(AtEnd, it) = Total - p
  <2>1. PICK z : z = Between(r, LastRange - r)
    OBVIOUS
  <2>2. DistanceOf(AtEnd, it) = z - k + Entries(LastRange)
    BY <1>2, <1>5, <1>7, <1>8, <2>1, DistanceBetween
  <2>3. FirstOf(r) + z = FirstOf(LastRange) /\ z \in Nat
    BY <1>2, <1>3, <2>1, BetweenRanges
  <2>4. Entries(LastRange) \in Nat
    BY <1>3, ListShape
  <2> QED BY <1>1, <1>2, <2>2, <2>3, <2>4 DEF Total
<1>11. (it = AtEnd) <=> (p = Total)
  <2>1. ASSUME it = AtEnd
        PROVE  p = Total
    <3>1. r = LastRange /\ Spot(ranges[LastRange], k) = ranges[LastRange].end
      BY <1>2, <1>7, <2>1
    <3>2. k \notin 0 .. Entries(LastRange) - 1
      BY <1>3, <1>4, <3>1, RangePlaces DEF Entries
    <3> QED BY <1>2, <3>1, <3>2
  <2>2. ASSUME p = Total
        PROVE  it = AtEnd
    <3>1. k = Entries(r) /\ r = LastRange
      BY <1>1, <1>2, <2>2 DEF At
    <3> QED BY <1>1, <1>6, <3>1 DEF At
  <2> QED BY <2>1, <2>2
<1>12. p \in 0 .. Total
  BY <1>1, <1>2
<1>13. FirstOf(it.range_id) + Distance(it.current, ranges[it.range_id].begin) = p
  BY <1>1, <1>2, <1>5
<1> QED BY <1>2, <1>9, <1>10, <1>11, <1>12, <1>13

\* What an iterator gives is what operator[] finds at its position.
LEMMA PlaceEntry ==
  ASSUME ListInv, NEW it, NEW p, Stands(it, p), p # Total
  PROVE  Dereference(it) = EntryOf(p)
<1>1. PICK r, k : At(it, r, k) /\ p = FirstOf(r) + k
  BY DEF Stands
<1>2. /\ r \in Nat /\ r <= LastRange /\ LastRange \in Nat /\ k \in Nat /\ k <= Entries(r)
      /\ FirstOf(r) \in Nat /\ Entries(r) \in Nat \ {0}
      /\ it.current = Spot(ranges[r], k)
      /\ k # Entries(r)
  BY <1>1, PlaceNumbers
<1>3. r \in 0 .. LastRange /\ k \in 0 .. Entries(r) - 1 /\ k < Entries(r)
  BY <1>2
<1>4. /\ \A x \in 0 .. LastRange : RangeOK(ranges[x]) /\ IsView(ranges[x]) /\ Entries(x) \in Nat \ {0} /\ FirstOf(x) \in Nat
      /\ DOMAIN ranges = 0 .. LastRange
  <2>1. \A x \in 0 .. LastRange : x \in 0 .. LastRange + 1
    BY <1>2
  <2> QED BY <2>1, ListShape, FirstOfNat
<1> DEFINE Holds(x) == FirstOf(x) <= p /\ p < FirstOf(x) + Entries(x)
<1>5. Holds(r)
  BY <1>1, <1>2, <1>3
<1>6. ASSUME NEW x \in 0 .. LastRange, Holds(x)
      PROVE  x = r
  <2>1. CASE x < r
    <3>1. r \in 0 .. LastRange + 1
      BY <1>2
    <3>2. FirstOf(x) + Entries(x) <= FirstOf(r)
      BY <2>1, <3>1, RangesApart
    <3> QED BY <1>2, <1>4, <1>5, <1>6, <3>2, <1>1
  <2>2. CASE r < x
    <3>1. x \in 0 .. LastRange + 1
      BY <1>2
    <3>2. FirstOf(r) + Entries(r) <= FirstOf(x)
      BY <1>3, <2>2, <3>1, RangesApart
    <3> QED BY <1>2, <1>3, <1>4, <1>5, <1>6, <3>2, <1>1
  <2> QED BY <1>2, <1>6, <2>1, <2>2
<1>7. RangeOfEntry(p) = r
  <2>1. RangeOfEntry(p) = CHOOSE x \in 0 .. LastRange : Holds(x)
    BY <1>4 DEF RangeOfEntry, Entries
  <2> HIDE DEF Holds
  <2>2. \A x \in 0 .. LastRange : Holds(x) <=> x = r
    BY <1>5, <1>6
  <2> QED BY <1>3, <2>1, <2>2
<1>8. p - FirstOf(r) = k
  BY <1>1, <1>2
<1>9. EntryOf(p) = Position(ranges[r], k)
  BY <1>7, <1>8 DEF EntryOf
<1>10. Deref(Spot(ranges[r], k)) = Position(ranges[r], k)
  BY <1>3, <1>4, RangePlaces DEF Entries
<1> QED BY <1>2, <1>9, <1>10 DEF Dereference

-----------------------------------------------------------------------------
(* Moving.                                                                   *)

\* operator++ moves to the next entry, over the end of a range.
LEMMA StepStands ==
  ASSUME ListInv, NEW it, NEW p, Stands(it, p), p # Total
  PROVE  Stands(Step(it), p + 1)
<1>1. PICK r, k : At(it, r, k) /\ p = FirstOf(r) + k
  BY DEF Stands
<1>2. /\ r \in Nat /\ r <= LastRange /\ LastRange \in Nat /\ k \in Nat /\ k <= Entries(r)
      /\ FirstOf(r) \in Nat /\ Entries(r) \in Nat \ {0}
      /\ k # Entries(r)
  BY <1>1, PlaceNumbers
<1>3. r \in 0 .. LastRange /\ k \in 0 .. Entries(r) - 1 /\ it = [range_id |-> r, current |-> Spot(ranges[r], k)]
  BY <1>1, <1>2 DEF At
<1>4. \A x \in 0 .. LastRange : RangeOK(ranges[x]) /\ IsView(ranges[x]) /\ Entries(x) \in Nat \ {0}
  BY ListShape
<1>5. PICK v, n : v = ranges[r] /\ n = Entries(r)
  OBVIOUS
<1>6. /\ Spot(v, k) # v.end
      /\ Successor(Spot(v, k)) = Spot(v, k + 1)
      /\ Spot(v, n) = v.end
      /\ \A j \in 0 .. n - 1 : Spot(v, j) # v.end
  BY <1>3, <1>4, <1>5, RangePlaces DEF Entries
<1>7. (Spot(v, k + 1) = v.end) <=> (k + 1 = n)
  <2>1. k + 1 # n => k + 1 \in 0 .. n - 1
    BY <1>2, <1>5
  <2> QED BY <1>6, <2>1
<1>8. k + 1 \in 0 .. n
  BY <1>2, <1>5
<1>9. it.range_id = r /\ it.current = Spot(v, k)
  BY <1>3, <1>5
<1>10. CASE r < LastRange /\ k + 1 = n
  <2>1. Step(it) = [range_id |-> r + 1, current |-> ranges[r + 1].begin]
    BY <1>5, <1>6, <1>7, <1>9, <1>10 DEF Step
  <2>2. r + 1 \in 0 .. LastRange
    BY <1>2, <1>10
  <2>3. Spot(ranges[r + 1], 0) = ranges[r + 1].begin
    BY <1>4, <2>2, RangePlaces
  <2>4. Entries(r + 1) \in Nat \ {0}
    BY <1>4, <2>2
  <2>5. 0 \in 0 .. Entries(r + 1) /\ 0 # Entries(r + 1)
    BY <2>4
  <2>6. At(Step(it), r + 1, 0)
    BY <2>1, <2>2, <2>3, <2>5 DEF At
  <2>7. FirstOf(r + 1) = FirstOf(r) + n
    BY <1>3, <1>5, FirstOfNat
  <2>8. p + 1 = FirstOf(r + 1) + 0
    BY <1>1, <1>2, <1>5, <1>10, <2>7
  <2> QED BY <2>6, <2>8 DEF Stands
<1>11. CASE ~(r < LastRange /\ k + 1 = n)
  <2>1. Step(it) = [it EXCEPT !.current = Spot(v, k + 1)]
    <3>1. CASE r < LastRange
      BY <1>5, <1>6, <1>7, <1>9, <1>11, <3>1 DEF Step
    <3>2. CASE ~(r < LastRange)
      BY <1>6, <1>9, <3>2 DEF Step
    <3> QED BY <3>1, <3>2
  <2>2. Step(it) = [range_id |-> r, current |-> Spot(ranges[r], k + 1)]
    BY <1>3, <1>5, <2>1
  <2>3. k + 1 = Entries(r) => r = LastRange
    BY <1>2, <1>5, <1>11
  <2>4. At(Step(it), r, k + 1)
    BY <1>3, <1>5, <1>8, <2>2, <2>3 DEF At
  <2>5. p + 1 = FirstOf(r) + (k + 1)
    BY <1>1, <1>2
  <2> QED BY <2>4, <2>5 DEF Stands
<1> QED BY <1>10, <1>11

\* operator+ makes as many steps.
LEMMA StepsStand ==
  ASSUME ListInv, NEW it, NEW p, Stands(it, p), NEW n \in Nat, p + n <= Total
  PROVE  Stands(Steps(it, n), p + n)
<1> DEFINE Term(v, i) == IF i = 0 THEN it ELSE Step(v[i - 1])
<1>1. p \in Nat /\ Total \in Nat
  BY PlaceDistances
<1>2. PICK T : T = {m \in Nat : \E v : v = [i \in 0 .. m |-> Term(v, i)]}
  OBVIOUS
<1>3. 0 \in T
  <2>1. PICK v : v = [i \in 0 .. 0 |-> it]
    OBVIOUS
  <2>2. v = [i \in 0 .. 0 |-> Term(v, i)]
    BY <2>1
  <2> QED BY <1>2, <2>2
<1>4. ASSUME NEW m \in Nat, m \in T
      PROVE  m + 1 \in T
  <2>1. PICK v : v = [i \in 0 .. m |-> Term(v, i)]
    BY <1>2, <1>4
  <2>2. PICK u : u = [i \in 0 .. m + 1 |-> IF i = m + 1 THEN Step(v[m]) ELSE v[i]]
    OBVIOUS
  <2>3. ASSUME NEW i \in 0 .. m + 1
        PROVE  u[i] = Term(u, i)
    <3>1. CASE i = m + 1
      <4>1. i # 0 /\ i - 1 = m /\ m \in 0 .. m + 1 /\ m # m + 1
        BY <3>1
      <4> QED BY <2>2, <3>1, <4>1
    <3>2. CASE i # m + 1
      <4>1. i \in 0 .. m /\ (i # 0 => i - 1 \in 0 .. m + 1 /\ i - 1 # m + 1)
        BY <3>2
      <4> QED BY <2>1, <2>2, <3>2, <4>1
    <3> QED BY <3>1, <3>2
  <2>4. u = [i \in 0 .. m + 1 |-> Term(u, i)]
    BY <2>2, <2>3
  <2> QED BY <1>2, <2>4
<1>5. n \in T
  BY <1>3, <1>4, NatInSet
<1>6. PICK s : s = CHOOSE v : v = [i \in 0 .. n |-> Term(v, i)]
  OBVIOUS
<1>7. s = [i \in 0 .. n |-> Term(s, i)]
  BY <1>2, <1>5, <1>6
<1>8. Steps(it, n) = s[n]
  BY <1>6 DEF Steps
<1>9. PICK S : S = {m \in Nat : m <= n => Stands(s[m], p + m)}
  OBVIOUS
<1>10. 0 \in S
  <2>1. 0 \in 0 .. n /\ p + 0 = p
    BY <1>1
  <2>2. s[0] = it
    BY <1>7, <2>1
  <2> QED BY <1>9, <2>1, <2>2
<1>11. ASSUME NEW m \in Nat, m \in S
       PROVE  m + 1 \in S
  <2>1. CASE m + 1 <= n
    <3>1. m <= n /\ m + 1 \in 0 .. n /\ m + 1 # 0 /\ (m + 1) - 1 = m
      BY <2>1
    <3>2. s[m + 1] = Step(s[m])
      BY <1>7, <3>1
    <3>3. p + m # Total /\ p + (m + 1) = (p + m) + 1
      BY <1>1, <2>1
    <3>4. Stands(s[m], p + m)
      BY <1>9, <1>11, <3>1
    <3>5. Stands(s[m + 1], p + (m + 1))
      BY <3>2, <3>3, <3>4, StepStands
    <3> QED BY <1>9, <3>5
  <2>2. CASE ~(m + 1 <= n)
    BY <1>9, <2>2
  <2> QED BY <2>1, <2>2
<1>12. n \in S
  BY <1>10, <1>11, NatInSet
<1> QED BY <1>8, <1>9, <1>12

-----------------------------------------------------------------------------
(* The iterator and the cursor.                                              *)

\* The ranges are views, and the iterator stands at one position of their sequence.
CursorInv == ListInv /\ \E p : Stands(Here, p)

\* The position in the sequence.
Place == FirstOf(range_id) + Distance(current, ranges[range_id].begin)

\* The iterator stands at Place, and operator- counts to it and from it.
LEMMA PlaceOfHere ==
  ASSUME CursorInv
  PROVE  /\ Stands(Here, Place) /\ Place \in 0 .. Total /\ Total \in Nat
         /\ DistanceOf(Here, AtBegin) = Place
         /\ DistanceOf(AtEnd, Here) = Total - Place
         /\ (Here = AtEnd) <=> (Place = Total)
<1>1. PICK p : Stands(Here, p)
  BY DEF CursorInv
<1>2. Here.range_id = range_id /\ Here.current = current
  BY DEF Here
<1>3. ListInv
  BY DEF CursorInv
<1>4. p = Place
  BY <1>1, <1>2, <1>3, PlaceDistances DEF Place
<1> QED BY <1>1, <1>3, <1>4, PlaceDistances

\* An iterator is where a cursor can be: it gives the entry of its place, and has
\* passed and left what a cursor there has.
AtPlace == Cursor!StandsAt(Place) /\ Cursor!Length = Total

\* What a cursor at Place shows, the iterator shows.
LEMMA StandsAtPlace == CursorInv => AtPlace
<1> SUFFICES ASSUME CursorInv
             PROVE  AtPlace
  OBVIOUS
<1>1. /\ Stands(Here, Place) /\ Place \in 0 .. Total /\ Total \in Nat
      /\ DistanceOf(Here, AtBegin) = Place
      /\ DistanceOf(AtEnd, Here) = Total - Place
      /\ (Here = AtEnd) <=> (Place = Total)
  BY PlaceOfHere
<1>2. ListInv
  BY DEF CursorInv
<1>3. Total # 0
  <2>1. At(AtEnd, LastRange, Entries(LastRange))
    BY <1>2, Ends
  <2>2. FirstOf(LastRange) \in Nat /\ Entries(LastRange) \in Nat \ {0}
    BY <1>2, <2>1, PlaceNumbers
  <2> QED BY <2>2 DEF Total
<1>4. DistanceOf(AtEnd, AtBegin) = Total
  <2>1. At(AtBegin, 0, 0)
    BY <1>2, Ends
  <2>2. FirstOf(0) + 0 = 0
    BY <1>2, FirstOfNat
  <2>3. Stands(AtBegin, 0)
    BY <2>1, <2>2 DEF Stands
  <2>4. DistanceOf(AtEnd, AtBegin) = Total - 0
    BY <1>2, <2>3, PlaceDistances
  <2> QED BY <1>1, <2>4
<1>5. PICK entries : entries = [k \in 0 .. DistanceOf(AtEnd, AtBegin) - 1 |-> EntryOf(k)]
  OBVIOUS
<1>6. DOMAIN entries = 0 .. Total - 1 /\ \A k \in 0 .. Total - 1 : entries[k] = EntryOf(k)
  BY <1>4, <1>5
<1>7. Cursor!Length = Total
  <2>1. 0 \in 0 .. Total - 1 /\ Total - 1 \in 0 .. Total - 1 /\ (Total - 1) + 1 = Total
    BY <1>1, <1>3
  <2>2. \A k \in 0 .. Total - 1 : (\A j \in 0 .. Total - 1 : j <= k) <=> k = Total - 1
    BY <1>1, <2>1
  <2>3. (CHOOSE k \in 0 .. Total - 1 : \A j \in 0 .. Total - 1 : j <= k) = Total - 1
    BY <2>1, <2>2
  <2>4. Cursor!Length = IF DOMAIN entries = {} THEN 0 ELSE 1 + (CHOOSE k \in DOMAIN entries : \A j \in DOMAIN entries : j <= k)
    BY <1>5 DEF Cursor!Length
  <2>5. Cursor!Length = 1 + (Total - 1)
    BY <1>6, <2>1, <2>3, <2>4
  <2> QED BY <1>1, <2>5
<1>8. (IF Here = AtEnd THEN Past ELSE Dereference(Here)) = IF Place = Total THEN Past ELSE entries[Place]
  <2>1. CASE Place = Total
    BY <1>1, <2>1
  <2>2. CASE Place # Total
    <3>1. Dereference(Here) = EntryOf(Place)
      BY <1>1, <1>2, <2>2, PlaceEntry
    <3>2. Place \in 0 .. Total - 1
      BY <1>1, <2>2
    <3> QED BY <1>1, <1>6, <2>2, <3>1, <3>2
  <2> QED BY <2>1, <2>2
<1>9. Cursor!StandsAt(Place)
  BY <1>1, <1>5, <1>7, <1>8, Zenon DEF Cursor!StandsAt, Place
<1> QED BY <1>7, <1>9 DEF AtPlace

\* It begins at the first entry.
LEMMA CursorBegins ==
  ASSUME NEW lists, \A list \in lists : ListOK(list)
  PROVE  CursorInit(lists) => CursorInv /\ Place = 0
<1> SUFFICES ASSUME CursorInit(lists)
             PROVE  CursorInv /\ Place = 0
  OBVIOUS
<1>1. ListInv
  BY DEF CursorInit, ListInv
<1>2. Here = AtBegin
  BY DEF CursorInit, Here, AtBegin
<1>3. At(AtBegin, 0, 0) /\ FirstOf(0) = 0
  BY <1>1, Ends, FirstOfNat
<1>4. 0 = FirstOf(0) + 0
  BY <1>3
<1>5. Stands(Here, 0)
  BY <1>2, <1>3, <1>4 DEF Stands
<1>6. CursorInv
  BY <1>1, <1>5 DEF CursorInv
<1>7. Here.range_id = range_id /\ Here.current = current
  BY DEF Here
<1>8. Place = 0
  BY <1>1, <1>5, <1>7, PlaceDistances DEF Place
<1> QED BY <1>6, <1>8

\* Every increment and every jump leads forward to a place of the sequence,
\* which stays the same.
LEMMA CursorMoves ==
  ASSUME CursorInv, CursorNext
  PROVE  CursorInv' /\ ranges' = ranges /\ Place' \in Place + 1 .. Total
<1>1. ListInv
  BY DEF CursorInv
<1>2. /\ Stands(Here, Place) /\ Place \in 0 .. Total /\ Total \in Nat
      /\ DistanceOf(AtEnd, Here) = Total - Place
      /\ (Here = AtEnd) <=> (Place = Total)
  BY PlaceOfHere
<1>3. \E it, q : MoveTo(it) /\ Stands(it, q) /\ q \in Place + 1 .. Total
  <2>1. CASE Increment
    <3>1. Place # Total /\ MoveTo(Step(Here))
      BY <1>2, <2>1 DEF Increment
    <3>2. Stands(Step(Here), Place + 1)
      BY <1>1, <1>2, <3>1, StepStands
    <3>3. Place + 1 \in Place + 1 .. Total
      BY <1>2, <3>1
    <3> QED BY <3>1, <3>2, <3>3
  <2>2. CASE \E n \in 2 .. 3 : Jump(n)
    <3>1. PICK n \in 2 .. 3 : Jump(n)
      BY <2>2
    <3>2. n \in Nat /\ n <= Total - Place /\ MoveTo(Steps(Here, n))
      BY <1>2, <3>1 DEF Jump
    <3>3. Place + n \in Place + 1 .. Total /\ Place + n <= Total
      BY <1>2, <3>1, <3>2
    <3>4. Stands(Steps(Here, n), Place + n)
      BY <1>1, <1>2, <3>2, <3>3, StepsStand
    <3> QED BY <3>2, <3>3, <3>4
  <2> QED BY <2>1, <2>2 DEF CursorNext
<1>4. PICK it, q : MoveTo(it) /\ Stands(it, q) /\ q \in Place + 1 .. Total
  BY <1>3
<1>5. ranges' = ranges /\ range_id' = it.range_id /\ current' = it.current
  BY <1>4 DEF MoveTo
<1>6. it = [range_id |-> it.range_id, current |-> it.current]
  BY <1>4 DEF Stands, At
<1>7. Here' = it
  BY <1>5, <1>6 DEF Here
<1>8. ListInv'
  BY <1>1, <1>5 DEF ListInv, ListOK, CanConcatenate
<1>9. Stands(it, q)'
  <2>1. LastRange' = LastRange /\ \A r : Entries(r)' = Entries(r) /\ FirstOf(r)' = FirstOf(r)
    BY <1>5 DEF LastRange, NumRanges, Entries, FirstOf, SumOver
  <2>2. PICK r, k : At(it, r, k) /\ q = FirstOf(r) + k
    BY <1>4 DEF Stands
  <2>3. At(it, r, k)'
    BY <1>5, <2>1, <2>2 DEF At
  <2> QED BY <2>1, <2>2, <2>3 DEF Stands
<1>10. CursorInv'
  BY <1>7, <1>8, <1>9 DEF CursorInv
<1>11. Place' = q
  <2>1. FirstOf(it.range_id) + Distance(it.current, ranges[it.range_id].begin) = q
    BY <1>1, <1>4, PlaceDistances
  <2>2. Place' = FirstOf(it.range_id) + Distance(it.current, ranges[it.range_id].begin)
    BY <1>5 DEF Place, FirstOf, SumOver
  <2> QED BY <2>1, <2>2
<1> QED BY <1>4, <1>5, <1>10, <1>11

\* The entries are those of the ranges, which stay.
Sequence == [k \in 0 .. DistanceOf(AtEnd, AtBegin) - 1 |-> EntryOf(k)]

\* No step changes the sequence.
LEMMA SequenceStays ==
  ASSUME ranges' = ranges
  PROVE  Sequence' = Sequence
<1>1. AtEnd' = AtEnd /\ AtBegin' = AtBegin
  BY DEF AtEnd, AtBegin, LastEnd, LastRange, NumRanges
<1>2. DistanceOf(AtEnd, AtBegin)' = DistanceOf(AtEnd, AtBegin)
  BY <1>1 DEF DistanceOf, SumOver
<1>3. \A k : EntryOf(k)' = EntryOf(k)
  BY DEF EntryOf, RangeOfEntry, FirstOf, SumOver
<1> QED BY <1>2, <1>3 DEF Sequence

\* An iterator over concatenated views moves as a cursor over one sequence does:
\* whatever the ranges, an increment or a jump leads forward, the iterator gives
\* what operator[] finds at its position, and the distances operator- computes
\* to the beginning and to the end are the entries passed and the entries left.
THEOREM IterationIsCursor ==
  ASSUME NEW lists, \A list \in lists : ListOK(list)
  PROVE  CursorInit(lists) /\ [][CursorNext]_cursorVars => CursorImplemented
<1>1. CursorInit(lists) => CursorInv /\ Cursor!Init
  BY CursorBegins, StandsAtPlace DEF Cursor!Init, AtPlace
<1>2. CursorInv /\ [CursorNext]_cursorVars => CursorInv'
  <2>1. CursorInv /\ CursorNext => CursorInv'
    BY CursorMoves
  <2>2. CursorInv /\ UNCHANGED cursorVars => CursorInv'
    BY DEF cursorVars, CursorInv, ListInv, ListOK, CanConcatenate, Here, Stands, At, LastRange, NumRanges, Entries, FirstOf, SumOver
  <2> QED BY <2>1, <2>2
<1>3. CursorInv /\ CursorInv' /\ [CursorNext]_cursorVars => [Cursor!Next]_(Cursor!vars)
  <2>1. CursorInv' => AtPlace'
    BY StandsAtPlace, PTL
  <2>2. ASSUME CursorInv, CursorInv', CursorNext
        PROVE  Cursor!Next
    <3>1. ranges' = ranges /\ Place' \in Place + 1 .. Total
      BY <2>2, CursorMoves
    <3>2. Cursor!Length = Total
      BY <2>2, StandsAtPlace DEF AtPlace
    <3>3. Sequence' = Sequence
      BY <3>1, SequenceStays
    <3>4. Cursor!StandsAt(Place)'
      BY <2>1, <2>2 DEF AtPlace
    <3>5. Place' \in Place + 1 .. Cursor!Length
      BY <3>1, <3>2
    <3> QED BY <3>3, <3>4, <3>5, Zenon DEF Cursor!Next, Cursor!Advance, Place, Sequence
  <2>3. ASSUME UNCHANGED cursorVars
        PROVE  UNCHANGED Cursor!vars
    <3>1. ranges' = ranges /\ range_id' = range_id /\ current' = current
      BY <2>3 DEF cursorVars
    <3>2. Sequence' = Sequence
      BY <3>1, SequenceStays
    <3>3. Place' = Place
      BY <3>1 DEF Place, FirstOf, SumOver
    <3>4. Here' = Here /\ AtEnd' = AtEnd /\ AtBegin' = AtBegin
      BY <3>1 DEF Here, AtEnd, AtBegin, LastEnd, LastRange, NumRanges
    <3>5. (IF Here = AtEnd THEN Past ELSE Dereference(Here))' = IF Here = AtEnd THEN Past ELSE Dereference(Here)
      BY <3>4 DEF Dereference
    <3>6. DistanceOf(Here, AtBegin)' = DistanceOf(Here, AtBegin) /\ DistanceOf(AtEnd, Here)' = DistanceOf(AtEnd, Here)
      BY <3>1, <3>4 DEF DistanceOf, SumOver
    <3> QED BY <3>2, <3>3, <3>5, <3>6, Zenon DEF Cursor!vars, Sequence, Place
  <2> QED BY <2>2, <2>3
<1> QED BY <1>1, <1>2, <1>3, PTL DEF CursorImplemented, Cursor!Spec

-------------------------------------------------------------------------------
(* Parts that are put together.                                            *)

\* What is put together from parts exists, part by part.
LEMMA JoinDefined ==
  ASSUME NEW n \in Nat, NEW part
  PROVE  \E g : /\ g[0] = <<>>
                /\ \A k \in 1 .. n : g[k] = g[k - 1] \o part[k]
                /\ Join(n, part) = g[n]
<1> DEFINE Defined(v, k) == IF k = 0 THEN <<>> ELSE v[k - 1] \o part[k]
<1>1. PICK T : T = {m \in Nat : \E v : v = [k \in 0 .. m |-> Defined(v, k)]}
  OBVIOUS
<1>2. 0 \in T
  <2>1. PICK v : v = [k \in 0 .. 0 |-> <<>>]
    OBVIOUS
  <2>2. v = [k \in 0 .. 0 |-> Defined(v, k)]
    BY <2>1
  <2> QED BY <1>1, <2>2
<1>3. ASSUME NEW m \in Nat, m \in T
      PROVE  m + 1 \in T
  <2>1. PICK v : v = [k \in 0 .. m |-> Defined(v, k)]
    BY <1>1, <1>3
  <2>2. PICK u : u = [k \in 0 .. m + 1 |-> IF k = m + 1 THEN Defined(v, m + 1) ELSE v[k]]
    OBVIOUS
  <2>3. ASSUME NEW k \in 0 .. m + 1
        PROVE  u[k] = Defined(u, k)
    <3>1. CASE k = m + 1
      <4>1. k # 0 /\ k - 1 = m /\ m \in 0 .. m + 1 /\ m # m + 1
        BY <3>1
      <4>2. u[m] = v[m]
        BY <2>2, <4>1
      <4>3. u[k] = Defined(v, k)
        BY <2>2, <3>1
      <4> QED BY <4>1, <4>2, <4>3
    <3>2. CASE k # m + 1
      <4>1. k \in 0 .. m /\ (k # 0 => k - 1 \in 0 .. m + 1 /\ k - 1 # m + 1)
        BY <3>2
      <4>2. u[k] = v[k] /\ v[k] = Defined(v, k) /\ (k # 0 => u[k - 1] = v[k - 1])
        BY <2>1, <2>2, <3>2, <4>1
      <4> QED BY <4>2
    <3> QED BY <3>1, <3>2
  <2> HIDE DEF Defined
  <2>4. u = [k \in 0 .. m + 1 |-> Defined(u, k)]
    BY <2>2, <2>3
  <2> QED BY <1>1, <2>4
<1>4. \E v : v = [k \in 0 .. n |-> Defined(v, k)]
  <2>1. n \in T
    BY <1>2, <1>3, NatInSet
  <2> HIDE DEF Defined
  <2> QED BY <1>1, <2>1
<1>5. PICK g : g = CHOOSE v : v = [k \in 0 .. n |-> Defined(v, k)]
  OBVIOUS
<1>6. g = [k \in 0 .. n |-> Defined(g, k)]
  BY <1>4, <1>5
<1>7. Join(n, part) = g[n]
  BY <1>5 DEF Join
<1>8. g[0] = <<>> /\ \A k \in 1 .. n : g[k] = g[k - 1] \o part[k]
  <2>1. 0 \in 0 .. n /\ \A k \in 1 .. n : k \in 0 .. n /\ k # 0
    OBVIOUS
  <2> QED BY <1>6, <2>1
<1> QED BY <1>7, <1>8

\* The parts of sequences over a set make one over it.
LEMMA JoinInSeq ==
  ASSUME NEW T, NEW n \in Nat, NEW part, \A k \in 1 .. n : part[k] \in Seq(T)
  PROVE  Join(n, part) \in Seq(T)
<1>1. PICK g : /\ g[0] = <<>>
               /\ \A k \in 1 .. n : g[k] = g[k - 1] \o part[k]
               /\ Join(n, part) = g[n]
  BY JoinDefined
<1>2. PICK S : S = {m \in Nat : m <= n => g[m] \in Seq(T)}
  OBVIOUS
<1>3. 0 \in S
  <2>1. <<>> \in Seq(T)
    BY EmptySeq
  <2>2. g[0] \in Seq(T)
    BY <1>1, <2>1
  <2> QED BY <1>2, <2>2
<1>4. ASSUME NEW m \in Nat, m \in S
      PROVE  m + 1 \in S
  <2>1. SUFFICES ASSUME m + 1 <= n
                 PROVE  g[m + 1] \in Seq(T)
    BY <1>2
  <2>2. g[m] \in Seq(T)
    BY <1>2, <1>4, <2>1
  <2>3. m + 1 \in 1 .. n /\ (m + 1) - 1 = m
    BY <2>1
  <2>4. g[m + 1] = g[m] \o part[m + 1] /\ part[m + 1] \in Seq(T)
    BY <1>1, <2>3
  <2> QED BY <2>2, <2>4, ConcatProperties
<1>5. n \in S
  BY <1>3, <1>4, NatInSet
<1> QED BY <1>1, <1>2, <1>5

\* Products of numbers are numbers, and so are quotients and rests.
LEMMA ProductIs ==
  ASSUME NEW a \in Nat, NEW b \in Nat
  PROVE  a * b \in Nat /\ a * b = b * a
OBVIOUS

\* Quotients and rests are numbers.
LEMMA QuotientIs ==
  ASSUME NEW a \in Nat, NEW b \in Nat \ {0}
  PROVE  a \div b \in Nat /\ a % b \in Nat
OBVIOUS

\* The digits of a place: c behind p times q, where c is less than q.
LEMMA DigitsOfPlace ==
  ASSUME NEW q \in Nat \ {0}, NEW p \in Nat, NEW c \in 1 .. q, NEW n, n = p * q + c
  PROVE  (n - 1) \div q = p /\ (n - 1) % q = c - 1
<1>1. PICK w, above : w = c - 1 /\ above = p + 1
  OBVIOUS
<1>2. w \in Nat /\ w < q /\ above \in Nat \ {0} /\ p < above
  BY <1>1
<1>3. (w + q * p) % q = w /\ (w + q * p) \div q = p
  BY <1>2, DigitAndRest
<1>4. n - 1 = w + q * p
  <2>1. PICK y : y = p * q
    OBVIOUS
  <2>2. y \in Int /\ q * p = y /\ n = y + c
    BY <2>1
  <2> QED BY <1>1, <2>2
<1> QED BY <1>1, <1>3, <1>4

\* A place in parts that are made of parts.
LEMMA PlaceInParts ==
  ASSUME NEW e \in Nat, NEW P \in Nat, NEW q \in Nat, NEW p \in Nat, NEW c \in Nat
  PROVE  (e * P + p) * q + c = e * (P * q) + (p * q + c)
<1>1. (e * P + p) * q = e * (P * q) + p * q
  OBVIOUS
<1>2. PICK x, y, z : x = (e * P + p) * q /\ y = e * (P * q) /\ z = p * q
  OBVIOUS
<1>3. x \in Int /\ y \in Int /\ z \in Int /\ x = y + z
  BY <1>1, <1>2
<1>4. x + c = y + (z + c)
  BY <1>3
<1> QED BY <1>2, <1>4

\* The place of an entry of a part lies before the parts behind it.
LEMMA PlaceBelow ==
  ASSUME NEW L \in Nat, NEW n \in Nat, NEW k \in 0 .. n - 1, NEW j \in 1 .. L
  PROVE  k * L + j \in 1 .. n * L
<1>1. PICK c : c = n - 1 - k
  OBVIOUS
<1>2. c \in Nat /\ k \in Nat /\ n = k + 1 + c
  BY <1>1
<1>3. n * L = k * L + L + c * L /\ c * L \in Nat /\ k * L \in Nat
  BY <1>2
<1> QED BY <1>3

\* A place in n parts of L entries.
IsPlace(x, n, L) == L \in Nat \ {0} /\ n \in Nat /\ x \in 1 .. n * L

\* And every place is that of an entry of a part.
LEMMA PlaceFound ==
  ASSUME NEW L, NEW n, NEW x, IsPlace(x, n, L)
  PROVE  \E k \in 0 .. n - 1, j \in 1 .. L : x = k * L + j
<1> USE DEF IsPlace
<1>1. n # 0
  OBVIOUS
<1>2. PICK y : y = x - 1
  OBVIOUS
<1>3. y \in Nat /\ y < L * n /\ x = y + 1
  BY <1>2
<1>4. PICK k, j : k = y \div L /\ j = y % L
  OBVIOUS
<1>5. j \in Nat /\ j < L /\ k \in Nat /\ k < n /\ y = j + L * k
  BY <1>1, <1>3, <1>4, QuotientAndRest
<1>6. x = k * L + (j + 1) /\ j + 1 \in 1 .. L /\ k \in 0 .. n - 1
  BY <1>3, <1>5
<1> QED BY <1>6

\* Parts of one length.
PartsOf(n, part, T, L) ==
  n \in Nat /\ L \in Nat /\ \A k \in 1 .. n : part[k] \in Seq(T) /\ Len(part[k]) = L

\* Parts of one length are found at its multiples.
LEMMA JoinOfEqual ==
  ASSUME NEW T, NEW n, NEW L, NEW part, PartsOf(n, part, T, L)
  PROVE  /\ Join(n, part) \in Seq(T)
         /\ Len(Join(n, part)) = n * L
         /\ \A k \in 0 .. n - 1, j \in 1 .. L : Join(n, part)[k * L + j] = part[k + 1][j]
<1>a. n \in Nat /\ L \in Nat /\ \A k \in 1 .. n : part[k] \in Seq(T) /\ Len(part[k]) = L
  BY DEF PartsOf
<1>1. PICK g : /\ g[0] = <<>>
               /\ \A k \in 1 .. n : g[k] = g[k - 1] \o part[k]
               /\ Join(n, part) = g[n]
  BY <1>a, JoinDefined
<1> USE <1>a
<1> DEFINE Holds(m) == /\ g[m] \in Seq(T)
                       /\ Len(g[m]) = m * L
                       /\ \A k \in 0 .. m - 1, j \in 1 .. L : g[m][k * L + j] = part[k + 1][j]
<1>2. PICK S : S = {m \in Nat : m <= n => Holds(m)}
  OBVIOUS
<1>3. 0 \in S
  <2>1. Holds(0)
    <3>1. 0 * L = 0 /\ 0 .. 0 - 1 = {}
      OBVIOUS
    <3> QED BY <1>1, <3>1
  <2> HIDE DEF Holds
  <2> QED BY <1>2, <2>1
<1>4. ASSUME NEW m \in Nat, m \in S
      PROVE  m + 1 \in S
  <2>1. SUFFICES ASSUME m + 1 <= n
                 PROVE  Holds(m + 1)
    <3> HIDE DEF Holds
    <3> QED BY <1>2
  <2>2. Holds(m)
    <3> HIDE DEF Holds
    <3> QED BY <1>2, <1>4, <2>1
  <2>3. PICK old, last : old = g[m] /\ last = part[m + 1]
    OBVIOUS
  <2>4. /\ old \in Seq(T) /\ last \in Seq(T) /\ Len(old) = m * L /\ Len(last) = L
        /\ m + 1 \in 1 .. n /\ (m + 1) - 1 = m
    <3>1. m + 1 \in 1 .. n /\ (m + 1) - 1 = m
      BY <2>1
    <3>2. last \in Seq(T) /\ Len(last) = L
      BY <1>a, <2>3, <3>1
    <3> QED BY <2>2, <2>3, <3>1, <3>2
  <2>5. g[m + 1] = old \o last
    BY <1>1, <2>3, <2>4
  <2>6. m * L \in Nat /\ (m + 1) * L = m * L + L
    OBVIOUS
  <2>7. /\ g[m + 1] \in Seq(T) /\ Len(g[m + 1]) = (m + 1) * L
        /\ \A x \in 1 .. m * L + L : g[m + 1][x] = IF x <= m * L THEN old[x] ELSE last[x - m * L]
    <3>1. /\ old \o last \in Seq(T)
          /\ Len(old \o last) = Len(old) + Len(last)
          /\ \A x \in 1 .. Len(old) + Len(last) :
               (old \o last)[x] = IF x <= Len(old) THEN old[x] ELSE last[x - Len(old)]
      BY <2>4, ConcatProperties
    <3> QED BY <2>4, <2>5, <2>6, <3>1
  <2>8. ASSUME NEW k \in 0 .. (m + 1) - 1, NEW j \in 1 .. L
        PROVE  g[m + 1][k * L + j] = part[k + 1][j]
    <3>1. CASE k = m
      <4>1. PICK x, y : x = k * L + j /\ y = m * L
        OBVIOUS
      <4>2. x \in 1 .. y + L /\ ~(x <= y) /\ x - y = j /\ y \in Nat
        BY <2>6, <3>1, <4>1
      <4> QED BY <2>3, <2>7, <3>1, <4>1, <4>2
    <3>2. CASE k # m
      <4>1. k \in 0 .. m - 1
        BY <3>2
      <4>2. k * L + j \in 1 .. m * L
        BY <4>1, PlaceBelow
      <4>3. PICK x, y : x = k * L + j /\ y = m * L
        OBVIOUS
      <4>4. x \in 1 .. y + L /\ x <= y
        BY <2>6, <4>2, <4>3
      <4>5. g[m + 1][x] = old[x]
        BY <2>7, <4>3, <4>4
      <4>6. old[x] = part[k + 1][j]
        BY <2>2, <2>3, <4>1, <4>3
      <4> QED BY <4>3, <4>5, <4>6
    <3> QED BY <3>1, <3>2
  <2> QED BY <2>7, <2>8
<1>5. Holds(n)
  <2>1. n \in S
    BY <1>3, <1>4, NatInSet
  <2> HIDE DEF Holds
  <2> QED BY <1>2, <2>1
<1> QED BY <1>1, <1>5

\* An array of m tuples of q numbers.
TuplesOf(a, T, m, q) ==
  /\ m \in Nat /\ q \in Nat \ {0}
  /\ a.values \in Seq(T) /\ Len(a.values) = m * q /\ a.components = q

\* A tuple of an array: its numbers one after the other.
LEMMA TupleIs ==
  ASSUME NEW T, NEW a, NEW m, NEW q, TuplesOf(a, T, m, q), NEW k \in 0 .. m - 1
  PROVE  /\ TupleOf(a, k + 1) \in Seq(T)
         /\ Len(TupleOf(a, k + 1)) = q
         /\ \A i \in 1 .. q : TupleOf(a, k + 1)[i] = a.values[k * q + i]
<1> USE DEF TuplesOf
<1>1. PICK s, first : s = a.values /\ first = k * q
  OBVIOUS
<1>2. first \in Nat /\ ((k + 1) - 1) * q = first /\ (k + 1) * q = first + q
  BY <1>1
<1>3. \A i \in 1 .. q : first + i \in 1 .. Len(s)
  BY <1>1, PlaceBelow
<1>4. \A i \in first + 1 .. first + q : s[i] \in T
  <2>1. SUFFICES ASSUME NEW i \in first + 1 .. first + q
                 PROVE  s[i] \in T
    OBVIOUS
  <2>2. i - first \in 1 .. q /\ first + (i - first) = i
    BY <1>2
  <2> QED BY <1>1, <1>3, <2>2, ElementOfSeq
<1>5. TupleOf(a, k + 1) = SubSeq(s, first + 1, first + q)
  BY <1>1, <1>2 DEF TupleOf
<1>6. /\ SubSeq(s, first + 1, first + q) \in Seq(T)
      /\ Len(SubSeq(s, first + 1, first + q)) = IF first + 1 <= first + q THEN (first + q) - (first + 1) + 1 ELSE 0
      /\ \A i \in 1 .. (first + q) - (first + 1) + 1 : SubSeq(s, first + 1, first + q)[i] = s[first + 1 + i - 1]
  <2>1. first + 1 \in Int /\ first + q \in Int
    BY <1>2
  <2> QED BY <1>4, <2>1, SubSeqProperties
<1>7. (first + q) - (first + 1) + 1 = q /\ first + 1 <= first + q /\ \A i \in 1 .. q : first + 1 + i - 1 = first + i
  BY <1>2
<1>8. PICK t : t = SubSeq(s, first + 1, first + q)
  OBVIOUS
<1>9. t \in Seq(T) /\ Len(t) = q
  BY <1>6, <1>7, <1>8
<1>10. ASSUME NEW i \in 1 .. q
       PROVE  t[i] = s[first + i]
  BY <1>6, <1>7, <1>8
<1> QED BY <1>1, <1>5, <1>8, <1>9, <1>10

-------------------------------------------------------------------------------
(* The points and cells of a file.                                         *)

\* A function on a range of numbers from 1 is a sequence.
LEMMA FunctionIsSeq ==
  ASSUME NEW n \in Nat, NEW T, NEW s \in [1 .. n -> T]
  PROVE  s \in Seq(T) /\ Len(s) = n
OBVIOUS

\* The boxes a writer works with have up to three directions.
Box(r) == [Dirs(r) -> Nat \ {0}]

\* In a box, flat and tensor indices name the same entries.
LEMMA BoxIndices ==
  ASSUME NEW r \in 1 .. 3, NEW n \in Box(r)
  PROVE  /\ RankOf(n) = r /\ DOMAIN n = Dirs(r)
         /\ Flat(n) \in Nat \ {0}
         /\ \A i \in 0 .. Flat(n) - 1 :
              /\ ToTensor(i, n) \in [Dirs(r) -> Nat]
              /\ \A d \in Dirs(r) : ToTensor(i, n)[d] < n[d]
              /\ ToFlat(ToTensor(i, n), n) = i
         /\ \A t \in [Dirs(r) -> Nat] : (\A d \in Dirs(r) : t[d] < n[d]) =>
              /\ ToFlat(t, n) \in 0 .. Flat(n) - 1
              /\ ToTensor(ToFlat(t, n), n) = t
<1>1. DOMAIN n = Dirs(r) /\ r \in 1 .. 4 /\ r \in Nat \ {0} /\ n \in [Dirs(r) -> Nat \ {0}]
  BY DEF Box
<1>2. RankOf(n) = r
  BY <1>1, RankKnown DEF Dirs
<1>3. Flat(n) = Indexing(r)!FlatSize(n)
  BY <1>2 DEF Flat
<1>4. Flat(n) \in Nat \ {0}
  BY <1>1, <1>3, FlatSizePositive
<1>5. ASSUME NEW i \in 0 .. Flat(n) - 1
      PROVE  /\ ToTensor(i, n) \in [Dirs(r) -> Nat]
             /\ \A d \in Dirs(r) : ToTensor(i, n)[d] < n[d]
             /\ ToFlat(ToTensor(i, n), n) = i
  <2>1. ToTensor(i, n) = Indexing(r)!FlatToTensor(i, n)
    BY <1>2 DEF ToTensor
  <2>2. /\ ToTensor(i, n) \in [Dirs(r) -> Nat]
        /\ Indexing(r)!InBox(ToTensor(i, n), n)
        /\ Indexing(r)!TensorToFlat(ToTensor(i, n), n) = i
    BY <1>1, <1>3, <2>1, FlatRoundTrip
  <2> QED BY <1>2, <2>2 DEF ToFlat, Indexing!InBox, Indexing!Dir, Dirs
<1>6. ASSUME NEW t \in [Dirs(r) -> Nat], \A d \in Dirs(r) : t[d] < n[d]
      PROVE  ToFlat(t, n) \in 0 .. Flat(n) - 1 /\ ToTensor(ToFlat(t, n), n) = t
  <2>1. t \in [Dirs(r) -> Int] /\ Indexing(r)!InBox(t, n)
    BY <1>6 DEF Indexing!InBox, Indexing!Dir, Dirs
  <2>2. ToFlat(t, n) = Indexing(r)!TensorToFlat(t, n)
    BY <1>2 DEF ToFlat
  <2>3. /\ ToFlat(t, n) \in 0 .. Flat(n) - 1
        /\ Indexing(r)!FlatToTensor(ToFlat(t, n), n) = t
    BY <1>1, <1>3, <2>1, <2>2, TensorRoundTrip
  <2> QED BY <1>2, <2>3 DEF ToTensor
<1> QED BY <1>1, <1>2, <1>4, <1>5, <1>6

\* The grid of a writer, and a writer made for it.
GridOK ==
  /\ RankOf(size) \in 1 .. 3
  /\ size \in Box(RankOf(size))
  /\ active \subseteq 0 .. Flat(size) - 1

PointBoxes == [Dirs(RankOf(size)) -> Nat \ {0, 1}]

\* The cells of an element are those of the box one smaller in every direction,
\* and the corners of a cell are points of the element.
LEMMA CellsOfPoints ==
  ASSUME NEW r \in 1 .. 3, NEW n \in [Dirs(r) -> Nat \ {0, 1}]
  PROVE  n \in Box(r) /\ Less1(n) \in Box(r) /\ \A d \in Dirs(r) : Less1(n)[d] = n[d] - 1
<1>1. DOMAIN n = Dirs(r) /\ \A d \in Dirs(r) : n[d] \in Nat \ {0} /\ n[d] - 1 \in Nat \ {0}
  OBVIOUS
<1>2. Less1(n) = [d \in Dirs(r) |-> n[d] - 1]
  BY <1>1 DEF Less1
<1> QED BY <1>1, <1>2 DEF Box

\* The place of a corner of a cell among the points of the element.
Corner(n, c, v) == [d \in DOMAIN n |-> ToTensor(c, Less1(n))[d] + DeltaIndex(n, v - 1)[d]]

\* A corner is one of the points.
LEMMA CornerIsPoint ==
  ASSUME NEW r \in 1 .. 3, NEW n \in [Dirs(r) -> Nat \ {0, 1}],
         NEW c \in 0 .. Flat(Less1(n)) - 1, NEW v \in 1 .. 8, v <= <<2, 4, 8>>[r]
  PROVE  /\ Corner(n, c, v) \in [Dirs(r) -> Nat]
         /\ ToFlat(Corner(n, c, v), n) \in 0 .. Flat(n) - 1
         /\ ToTensor(ToFlat(Corner(n, c, v), n), n) = Corner(n, c, v)
         /\ \A d \in Dirs(r) : DeltaIndex(n, v - 1)[d] \in {0, 1}
<1>1. n \in Box(r) /\ Less1(n) \in Box(r) /\ \A d \in Dirs(r) : Less1(n)[d] = n[d] - 1
  BY CellsOfPoints
<1>2. DOMAIN n = Dirs(r) /\ \A d \in Dirs(r) : d \in {0, 1, 2} /\ n[d] \in Nat
  BY DEF Dirs
<1>3. ASSUME NEW d \in Dirs(r)
      PROVE  DeltaIndex(n, v - 1)[d] \in {0, 1}
  <2>1. DeltaIndex(n, v - 1)[d] = CASE d = 0 -> IF (v - 1) % 4 \in {1, 2} THEN 1 ELSE 0
                                    [] d = 1 -> IF (v - 1) % 4 \in {2, 3} THEN 1 ELSE 0
                                    [] d = 2 -> (v - 1) \div 4
    BY <1>2 DEF DeltaIndex
  <2>2. (v - 1) \div 4 \in {0, 1}
    OBVIOUS
  <2> QED BY <1>2, <2>1, <2>2
<1>4. PICK t : t = ToTensor(c, Less1(n))
  OBVIOUS
<1>5. t \in [Dirs(r) -> Nat] /\ \A d \in Dirs(r) : t[d] < n[d] - 1
  BY <1>1, <1>4, BoxIndices
<1>6. Corner(n, c, v) = [d \in Dirs(r) |-> t[d] + DeltaIndex(n, v - 1)[d]]
  BY <1>2, <1>4 DEF Corner
<1>7. ASSUME NEW d \in Dirs(r)
      PROVE  t[d] + DeltaIndex(n, v - 1)[d] \in Nat /\ t[d] + DeltaIndex(n, v - 1)[d] < n[d]
  BY <1>2, <1>3, <1>5
<1>8. Corner(n, c, v) \in [Dirs(r) -> Nat] /\ \A d \in Dirs(r) : Corner(n, c, v)[d] < n[d]
  BY <1>6, <1>7
<1> QED BY <1>1, <1>3, <1>8, BoxIndices

\* A point has three coordinates, in the element and the box of its points.
LEMMA PointIs ==
  ASSUME NEW r \in 1 .. 3, NEW source, source.size \in Box(r), source.pointsDirection \in [Dirs(r) -> Nat \ {0, 1}],
         NEW e \in 0 .. Flat(source.size) - 1, NEW p \in 0 .. Flat(source.pointsDirection) - 1
  PROVE  /\ PointOf(source, e, p) \in [1 .. 3 -> Int]
         /\ \A d \in Dirs(r) : PointOf(source, e, p)[d + 1] =
              ToTensor(e, source.size)[d] * (source.pointsDirection[d] - 1) + ToTensor(p, source.pointsDirection)[d]
         /\ \A i \in 1 .. 3 : i - 1 \notin Dirs(r) => PointOf(source, e, p)[i] = 0
<1>1. PICK s, n : s = source.size /\ n = source.pointsDirection
  OBVIOUS
<1>2. s \in Box(r) /\ n \in Box(r) /\ DOMAIN s = Dirs(r) /\ \A d \in Dirs(r) : n[d] \in Nat
  BY <1>1, CellsOfPoints DEF Box
<1>3. PICK x, q : x = ToTensor(e, s) /\ q = ToTensor(p, n)
  OBVIOUS
<1>4. x \in [Dirs(r) -> Nat] /\ q \in [Dirs(r) -> Nat]
  BY <1>1, <1>2, <1>3, BoxIndices
<1>5. PointOf(source, e, p) = [i \in 1 .. 3 |-> IF i - 1 \in Dirs(r) THEN x[i - 1] * (n[i - 1] - 1) + q[i - 1] ELSE 0]
  BY <1>1, <1>2, <1>3 DEF PointOf
<1>6. ASSUME NEW d \in Dirs(r)
      PROVE  d + 1 \in 1 .. 3 /\ (d + 1) - 1 = d /\ x[d] * (n[d] - 1) + q[d] \in Int
  <2>1. d + 1 \in 1 .. 3 /\ (d + 1) - 1 = d
    BY DEF Dirs
  <2>2. PICK a, b, c : a = x[d] /\ b = n[d] /\ c = q[d]
    OBVIOUS
  <2>3. a \in Nat /\ b \in Nat /\ c \in Nat
    BY <1>2, <1>4, <2>2
  <2>4. a * (b - 1) + c \in Int
    BY <2>3
  <2> QED BY <2>1, <2>2, <2>4
<1>7. \A i \in 1 .. 3 : i - 1 \in Dirs(r) => x[i - 1] * (n[i - 1] - 1) + q[i - 1] \in Int
  BY <1>6
<1>8. PointOf(source, e, p) \in [1 .. 3 -> Int]
  BY <1>5, <1>7
<1>9. \A d \in Dirs(r) : PointOf(source, e, p)[d + 1] = x[d] * (n[d] - 1) + q[d]
  BY <1>5, <1>6
<1> QED BY <1>1, <1>3, <1>5, <1>8, <1>9


\* What the constructor computes.
LEMMA WriterIs ==
  ASSUME GridOK, NEW n \in PointBoxes, NEW real, writer = NewWriter(n, real)
  PROVE  /\ IsFiniteSet(active) /\ writer.elements = Cardinality(active) /\ writer.elements \in Nat
         /\ writer.pointsDirection = n
         /\ writer.realWidth = real
         /\ writer.pointsPerElement = Flat(n) /\ Flat(n) \in Nat \ {0}
         /\ writer.cellsPerElement = Flat(Less1(n)) /\ Flat(Less1(n)) \in Nat \ {0}
         /\ Source.size = size /\ Source.active = active
         /\ Source.pointsDirection = n /\ Source.cellsPerElement = Flat(Less1(n))
         /\ Flat(size) \in Nat \ {0}
<1>1. PICK r \in 1 .. 3 : r = RankOf(size)
  BY DEF GridOK
<1>2. size \in Box(r) /\ n \in Box(r) /\ Less1(n) \in Box(r)
  BY <1>1, CellsOfPoints DEF GridOK, PointBoxes
<1>3. Flat(n) \in Nat \ {0} /\ Flat(Less1(n)) \in Nat \ {0} /\ Flat(size) \in Nat \ {0}
  BY <1>2, BoxIndices
<1>4. IsFiniteSet(active) /\ Cardinality(active) \in Nat
  <2>1. IsFiniteSet(0 .. Flat(size) - 1)
    <3>1. 0 \in Int /\ Flat(size) - 1 \in Int
      BY <1>3
    <3> QED BY <3>1, FS_Interval
  <2>2. IsFiniteSet(active)
    BY <2>1, FS_Subset DEF GridOK
  <2> QED BY <2>2, FS_CardinalityType
<1>5. /\ writer.elements = Cardinality(active) /\ writer.pointsDirection = n /\ writer.realWidth = real
      /\ writer.pointsPerElement = Flat(n) /\ writer.cellsPerElement = Flat(Less1(n))
  BY DEF NewWriter
<1> QED BY <1>3, <1>4, <1>5 DEF Source

\* As many elements as ids below their number: no id is left out.
LEMMA AllElements ==
  ASSUME GridOK, NEW n \in PointBoxes, NEW real, writer = NewWriter(n, real), CanFill
  PROVE  /\ active = 0 .. writer.elements - 1
         /\ writer.elements <= Flat(size)
<1>1. PICK m : m = writer.elements
  OBVIOUS
<1>2. m \in Nat /\ Cardinality(active) = m /\ IsFiniteSet(active) /\ Flat(size) \in Nat \ {0}
  BY <1>1, WriterIs
<1>3. \A e \in active : e \in 0 .. Flat(size) - 1 /\ e < m
  BY <1>1 DEF GridOK, CanFill
<1>4. active \subseteq 0 .. m - 1
  BY <1>2, <1>3
<1>5. IsFiniteSet(0 .. m - 1) /\ Cardinality(0 .. m - 1) = m
  <2>1. 0 \in Int /\ m - 1 \in Int
    BY <1>2
  <2>2. IsFiniteSet(0 .. m - 1) /\ Cardinality(0 .. m - 1) = IF 0 > m - 1 THEN 0 ELSE m - 1 - 0 + 1
    BY <2>1, FS_Interval
  <2> QED BY <1>2, <2>2
<1>6. active = 0 .. m - 1
  BY <1>2, <1>4, <1>5, FS_Subset
<1>7. m <= Flat(size)
  <2>1. CASE m = 0
    BY <1>2, <2>1
  <2>2. CASE m # 0
    <3>1. m - 1 \in active
      BY <1>2, <1>6, <2>2
    <3> QED BY <1>2, <1>3, <3>1
  <2> QED BY <2>1, <2>2
<1> QED BY <1>1, <1>6, <1>7

\* The ids below a number, in their order.
LEMMA OrderedIds ==
  ASSUME NEW m \in Nat
  PROVE  Ordered(0 .. m - 1) = [k \in 1 .. m |-> k - 1]
<1>1. ASSUME NEW b \in Nat
      PROVE  Cardinality(0 .. b - 1) = b
  <2>1. 0 \in Int /\ b - 1 \in Int
    OBVIOUS
  <2>2. Cardinality(0 .. b - 1) = IF 0 > b - 1 THEN 0 ELSE b - 1 - 0 + 1
    BY <2>1, FS_Interval
  <2> QED BY <2>2
<1>2. PICK S : S = 0 .. m - 1
  OBVIOUS
<1>3. ASSUME NEW x \in S
      PROVE  Cardinality({y \in S : y < x}) = x
  <2>1. x \in Nat /\ x < m
    BY <1>2
  <2>2. {y \in S : y < x} = 0 .. x - 1
    BY <1>2, <2>1
  <2> QED BY <1>1, <2>1, <2>2
<1>4. ASSUME NEW k \in 1 .. m
      PROVE  (CHOOSE x \in S : Cardinality({y \in S : y < x}) = k - 1) = k - 1
  <2>1. k - 1 \in S
    BY <1>2
  <2>2. \E x \in S : Cardinality({y \in S : y < x}) = k - 1
    BY <1>3, <2>1
  <2>3. PICK c : c = CHOOSE x \in S : Cardinality({y \in S : y < x}) = k - 1
    OBVIOUS
  <2>4. c \in S /\ Cardinality({y \in S : y < c}) = k - 1
    BY <2>2, <2>3
  <2>5. c = k - 1
    BY <1>3, <2>4
  <2> QED BY <2>3, <2>5
<1>5. Cardinality(S) = m
  BY <1>1, <1>2
<1>6. Ordered(S) = [k \in 1 .. m |-> CHOOSE x \in S : Cardinality({y \in S : y < x}) = k - 1]
  BY <1>5 DEF Ordered
<1> QED BY <1>2, <1>4, <1>6

\* The points of a file are those of the elements, and their numbers in turn.
LEMMA PointsFilled ==
  ASSUME GridOK, NEW n \in PointBoxes, NEW real, writer = NewWriter(n, real), CanFill,
         NEW m, m = writer.elements, NEW P, P = writer.pointsPerElement,
         NEW points, points = Numbers(FillPointsAndConnectivity.points)
  PROVE  /\ points \in Seq(Int) /\ Len(points) = (m * P) * 3
         /\ \A e \in 0 .. m - 1, p \in 0 .. P - 1, i \in 1 .. 3 :
              points[(e * P + p) * 3 + i] = PointOf(Source, e, p)[i]
<1>1. PICK r \in 1 .. 3 : r = RankOf(size)
  BY DEF GridOK
<1>2. /\ m \in Nat /\ P = Flat(n) /\ P \in Nat \ {0} /\ m <= Flat(size) /\ Flat(size) \in Nat
      /\ Source.size = size /\ Source.pointsDirection = n
      /\ size \in Box(r) /\ n \in [Dirs(r) -> Nat \ {0, 1}]
  BY <1>1, WriterIs, AllElements DEF GridOK, PointBoxes
<1>3. PICK Triples : Triples = [1 .. 3 -> Int]
  OBVIOUS
<1>4. ASSUME NEW e \in 0 .. m - 1, NEW p \in 0 .. P - 1
      PROVE  PointOf(Source, e, p) \in Triples
  <2>1. e \in 0 .. Flat(Source.size) - 1 /\ p \in 0 .. Flat(Source.pointsDirection) - 1
    BY <1>2
  <2> QED BY <1>2, <1>3, <2>1, PointIs
<1>5. PICK parts : parts = [e \in 1 .. m |-> PointsOfElement(e - 1)]
  OBVIOUS
<1>6. ASSUME NEW e \in 1 .. m
      PROVE  parts[e] \in Seq(Triples) /\ Len(parts[e]) = P /\ \A k \in 1 .. P : parts[e][k] = PointOf(Source, e - 1, k - 1)
  <2>1. parts[e] = [k \in 1 .. P |-> PointOf(Source, e - 1, k - 1)]
    BY <1>5 DEF PointsOfElement
  <2>2. e - 1 \in 0 .. m - 1 /\ \A k \in 1 .. P : k - 1 \in 0 .. P - 1
    BY <1>2
  <2>3. parts[e] \in [1 .. P -> Triples]
    BY <1>4, <2>1, <2>2
  <2> QED BY <1>2, <2>1, <2>3, FunctionIsSeq
<1>7. PICK joined : joined = Join(m, parts)
  OBVIOUS
<1>8. /\ joined \in Seq(Triples) /\ Len(joined) = m * P
      /\ \A e \in 0 .. m - 1, k \in 1 .. P : joined[e * P + k] = parts[e + 1][k]
  <2>1. PartsOf(m, parts, Triples, P)
    BY <1>2, <1>6 DEF PartsOf
  <2>2. /\ Join(m, parts) \in Seq(Triples) /\ Len(Join(m, parts)) = m * P
        /\ \A k \in 0 .. m - 1, j \in 1 .. P : Join(m, parts)[k * P + j] = parts[k + 1][j]
    BY <2>1, JoinOfEqual
  <2> QED BY <1>7, <2>2
<1>9. points = Join(m * P, joined)
  BY <1>5, <1>7, <1>8 DEF FillPointsAndConnectivity, Numbers
<1>10. PICK t : t = m * P
  OBVIOUS
<1>11. t \in Nat /\ \A k \in 1 .. t : joined[k] \in Seq(Int) /\ Len(joined[k]) = 3
  <2>1. t \in Nat
    BY <1>2, <1>10
  <2>2. ASSUME NEW k \in 1 .. t
        PROVE  joined[k] \in Seq(Int) /\ Len(joined[k]) = 3
    <3>1. joined[k] \in [1 .. 3 -> Int]
      BY <1>3, <1>8, <1>10, ElementOfSeq
    <3> QED BY <3>1, FunctionIsSeq
  <2> QED BY <2>1, <2>2
<1>12. /\ points \in Seq(Int) /\ Len(points) = t * 3
       /\ \A k \in 0 .. t - 1, i \in 1 .. 3 : points[k * 3 + i] = joined[k + 1][i]
  <2>1. PICK three : three = 3
    OBVIOUS
  <2>2. PartsOf(t, joined, Int, three)
    BY <1>11, <2>1 DEF PartsOf
  <2>3. /\ Join(t, joined) \in Seq(Int) /\ Len(Join(t, joined)) = t * three
        /\ \A k \in 0 .. t - 1, j \in 1 .. three : Join(t, joined)[k * three + j] = joined[k + 1][j]
    BY <2>2, JoinOfEqual
  <2>4. Join(t, joined) = points
    BY <1>9, <1>10
  <2>5. /\ points \in Seq(Int) /\ Len(points) = t * three
        /\ \A k \in 0 .. t - 1, j \in 1 .. three : points[k * three + j] = joined[k + 1][j]
    BY <2>3, <2>4
  <2> QED BY <2>1, <2>5
<1>13. ASSUME NEW e \in 0 .. m - 1, NEW p \in 0 .. P - 1, NEW i \in 1 .. 3
       PROVE  points[(e * P + p) * 3 + i] = PointOf(Source, e, p)[i]
  <2>1. PICK x : x = e * P + p
    OBVIOUS
  <2>2. p + 1 \in 1 .. P /\ e * P + (p + 1) \in 1 .. t
    BY <1>2, <1>10, PlaceBelow
  <2>3. x \in 0 .. t - 1 /\ x + 1 = e * P + (p + 1)
    <3>1. PICK y : y = e * P
      OBVIOUS
    <3>2. y \in Int /\ x = y + p /\ y + (p + 1) \in 1 .. t
      BY <1>2, <2>1, <2>2, <3>1
    <3>3. t \in Nat /\ p \in Int
      BY <1>2, <1>11
    <3> QED BY <3>1, <3>2, <3>3
  <2>4. joined[x + 1] = parts[e + 1][p + 1]
    BY <1>8, <2>2, <2>3
  <2>5. e + 1 \in 1 .. m /\ (e + 1) - 1 = e /\ (p + 1) - 1 = p
    BY <1>2
  <2>6. parts[e + 1][p + 1] = PointOf(Source, e, p)
    BY <1>6, <2>2, <2>5
  <2>7. points[x * 3 + i] = joined[x + 1][i]
    BY <1>12, <2>3
  <2> QED BY <2>1, <2>4, <2>6, <2>7
<1> QED BY <1>10, <1>12, <1>13

\* The corners of the cells are those of the elements, and their numbers in turn.
LEMMA CornersFilled ==
  ASSUME GridOK, NEW n \in PointBoxes, NEW real, writer = NewWriter(n, real), CanFill,
         NEW m, m = writer.elements, NEW P, P = writer.pointsPerElement, NEW C, C = writer.cellsPerElement,
         NEW V, V = VerticesOfCell(size),
         NEW corners, corners = Numbers(FillPointsAndConnectivity.connectivity)
  PROVE  /\ V \in 1 .. 8 /\ V = <<2, 4, 8>>[RankOf(size)]
         /\ corners \in Seq(Int) /\ Len(corners) = (m * C) * V
         /\ \A e \in 0 .. m - 1, c \in 0 .. C - 1, v \in 1 .. V :
              corners[(e * C + c) * V + v] = P * e + ToFlat(Corner(n, c, v), n)
<1>1. PICK r \in 1 .. 3 : r = RankOf(size)
  BY DEF GridOK
<1>2. /\ m \in Nat /\ P = Flat(n) /\ P \in Nat \ {0} /\ C = Flat(Less1(n)) /\ C \in Nat \ {0}
      /\ size \in Box(r) /\ n \in [Dirs(r) -> Nat \ {0, 1}] /\ writer.pointsDirection = n
  BY <1>1, WriterIs DEF GridOK, PointBoxes
<1>3. V \in 1 .. 8 /\ V = <<2, 4, 8>>[r]
  BY <1>1 DEF VerticesOfCell
<1>4. PICK Rows : Rows = [1 .. V -> Int]
  OBVIOUS
<1>5. ASSUME NEW e \in 0 .. m - 1
      PROVE  ConnectivityOf(e) = [c \in 1 .. C |-> [v \in 1 .. V |-> P * e + ToFlat(Corner(n, c - 1, v), n)]]
  <2>1. DOMAIN size = Dirs(r) /\ DOMAIN n = Dirs(r)
    BY <1>2 DEF Box
  <2>2. ASSUME NEW c \in 1 .. C, NEW v \in 1 .. V
        PROVE  [d \in DOMAIN size |-> ToTensor(c - 1, Less1(n))[d] + DeltaIndex(size, v - 1)[d]] = Corner(n, c - 1, v)
    BY <2>1 DEF Corner, DeltaIndex
  <2>3. ConnectivityOf(e) = [c \in 1 .. C |-> [v \in 1 .. V |->
          P * e + ToFlat([d \in DOMAIN size |-> ToTensor(c - 1, Less1(n))[d] + DeltaIndex(size, v - 1)[d]], n)]]
    BY <1>2 DEF ConnectivityOf
  <2> QED BY <2>2, <2>3
<1>6. ASSUME NEW c \in 0 .. C - 1, NEW v \in 1 .. V
      PROVE  ToFlat(Corner(n, c, v), n) \in Nat
  <2>1. v \in 1 .. 8 /\ v <= <<2, 4, 8>>[r] /\ c \in 0 .. Flat(Less1(n)) - 1
    BY <1>2, <1>3
  <2>2. ToFlat(Corner(n, c, v), n) \in 0 .. Flat(n) - 1
    BY <1>2, <2>1, CornerIsPoint
  <2> QED BY <2>2
<1>7. PICK parts : parts = [e \in 1 .. m |-> ConnectivityOf(e - 1)]
  OBVIOUS
<1>8. ASSUME NEW e \in 1 .. m
      PROVE  /\ parts[e] \in Seq(Rows) /\ Len(parts[e]) = C
             /\ \A c \in 1 .. C, v \in 1 .. V : parts[e][c][v] = P * (e - 1) + ToFlat(Corner(n, c - 1, v), n)
  <2>1. e - 1 \in 0 .. m - 1
    BY <1>2
  <2>2. parts[e] = [c \in 1 .. C |-> [v \in 1 .. V |-> P * (e - 1) + ToFlat(Corner(n, c - 1, v), n)]]
    BY <1>5, <1>7, <2>1
  <2>3. ASSUME NEW c \in 1 .. C, NEW v \in 1 .. V
        PROVE  P * (e - 1) + ToFlat(Corner(n, c - 1, v), n) \in Int
    <3>1. c - 1 \in 0 .. C - 1
      BY <1>2
    <3>2. ToFlat(Corner(n, c - 1, v), n) \in Nat /\ P * (e - 1) \in Int
      BY <1>2, <1>6, <2>1, <3>1
    <3> QED BY <3>2
  <2>4. \A c \in 1 .. C : [v \in 1 .. V |-> P * (e - 1) + ToFlat(Corner(n, c - 1, v), n)] \in Rows
    BY <1>4, <2>3
  <2>5. parts[e] \in [1 .. C -> Rows]
    BY <2>2, <2>4
  <2>6. \A c \in 1 .. C, v \in 1 .. V : parts[e][c][v] = P * (e - 1) + ToFlat(Corner(n, c - 1, v), n)
    BY <2>2
  <2> QED BY <1>2, <2>5, <2>6, FunctionIsSeq
<1>9. PICK joined : joined = Join(m, parts)
  OBVIOUS
<1>10. /\ joined \in Seq(Rows) /\ Len(joined) = m * C
       /\ \A e \in 0 .. m - 1, k \in 1 .. C : joined[e * C + k] = parts[e + 1][k]
  <2>1. PartsOf(m, parts, Rows, C)
    BY <1>2, <1>8 DEF PartsOf
  <2>2. /\ Join(m, parts) \in Seq(Rows) /\ Len(Join(m, parts)) = m * C
        /\ \A k \in 0 .. m - 1, j \in 1 .. C : Join(m, parts)[k * C + j] = parts[k + 1][j]
    BY <2>1, JoinOfEqual
  <2> QED BY <1>9, <2>2
<1>11. corners = Join(m * C, joined)
  BY <1>7, <1>9, <1>10 DEF FillPointsAndConnectivity, Numbers
<1>12. PICK t : t = m * C
  OBVIOUS
<1>13. t \in Nat /\ \A k \in 1 .. t : joined[k] \in Seq(Int) /\ Len(joined[k]) = V
  <2>1. t \in Nat
    BY <1>2, <1>12
  <2>2. ASSUME NEW k \in 1 .. t
        PROVE  joined[k] \in Seq(Int) /\ Len(joined[k]) = V
    <3>1. joined[k] \in [1 .. V -> Int] /\ V \in Nat
      BY <1>3, <1>4, <1>10, <1>12, ElementOfSeq
    <3> QED BY <3>1, FunctionIsSeq
  <2> QED BY <2>1, <2>2
<1>14. /\ corners \in Seq(Int) /\ Len(corners) = t * V
       /\ \A k \in 0 .. t - 1, i \in 1 .. V : corners[k * V + i] = joined[k + 1][i]
  <2>1. PartsOf(t, joined, Int, V)
    BY <1>3, <1>13 DEF PartsOf
  <2>2. /\ Join(t, joined) \in Seq(Int) /\ Len(Join(t, joined)) = t * V
        /\ \A k \in 0 .. t - 1, j \in 1 .. V : Join(t, joined)[k * V + j] = joined[k + 1][j]
    BY <2>1, JoinOfEqual
  <2> QED BY <1>11, <1>12, <2>2
<1>15. ASSUME NEW e \in 0 .. m - 1, NEW c \in 0 .. C - 1, NEW v \in 1 .. V
       PROVE  corners[(e * C + c) * V + v] = P * e + ToFlat(Corner(n, c, v), n)
  <2>1. PICK x : x = e * C + c
    OBVIOUS
  <2>2. c + 1 \in 1 .. C /\ e * C + (c + 1) \in 1 .. t
    BY <1>2, <1>12, PlaceBelow
  <2>3. x \in 0 .. t - 1 /\ x + 1 = e * C + (c + 1)
    <3>1. PICK y : y = e * C
      OBVIOUS
    <3>2. y \in Int /\ x = y + c /\ y + (c + 1) \in 1 .. t
      BY <1>2, <2>1, <2>2, <3>1
    <3>3. t \in Nat /\ c \in Int
      BY <1>2, <1>13
    <3> QED BY <3>1, <3>2, <3>3
  <2>4. joined[x + 1] = parts[e + 1][c + 1]
    BY <1>10, <2>2, <2>3
  <2>5. e + 1 \in 1 .. m /\ (e + 1) - 1 = e /\ (c + 1) - 1 = c
    BY <1>2
  <2>6. parts[e + 1][c + 1][v] = P * e + ToFlat(Corner(n, c, v), n)
    <3>1. PICK i, j : i = e + 1 /\ j = c + 1
      OBVIOUS
    <3>2. i \in 1 .. m /\ j \in 1 .. C /\ i - 1 = e /\ j - 1 = c
      BY <2>2, <2>5, <3>1
    <3>3. parts[i][j][v] = P * (i - 1) + ToFlat(Corner(n, j - 1, v), n)
      BY <1>8, <3>2
    <3> QED BY <3>1, <3>2, <3>3
  <2>7. corners[x * V + v] = joined[x + 1][v]
    BY <1>14, <2>3
  <2> QED BY <2>1, <2>4, <2>6, <2>7
<1> QED BY <1>1, <1>3, <1>12, <1>14, <1>15


\* The corners of a cell: what DeltaIndex adds to the first of them.
AtCorners(r, n, V, base, x) ==
  /\ r \in 1 .. 3 /\ DOMAIN n = Dirs(r) /\ V = <<2, 4, 8>>[r] /\ base \in [Dirs(r) -> Int]
  /\ \A v \in 1 .. V : x[v] \in [1 .. 3 -> Int]
  /\ \A v \in 1 .. V, d \in Dirs(r) : x[v][d + 1] = base[d] + DeltaIndex(n, v - 1)[d]
  /\ \A v \in 1 .. V, i \in 1 .. 3 : i - 1 \notin Dirs(r) => x[v][i] = 0

\* They are in VTK's order.
LEMMA CellFitsCorners ==
  ASSUME NEW r, NEW n, NEW V, NEW base, NEW x, AtCorners(r, n, V, base, x)
  PROVE  CellFits(V, x)
<1>a. /\ r \in 1 .. 3 /\ DOMAIN n = Dirs(r) /\ V = <<2, 4, 8>>[r] /\ base \in [Dirs(r) -> Int]
      /\ \A v \in 1 .. V : x[v] \in [1 .. 3 -> Int]
      /\ \A v \in 1 .. V, d \in Dirs(r) : x[v][d + 1] = base[d] + DeltaIndex(n, v - 1)[d]
      /\ \A v \in 1 .. V, i \in 1 .. 3 : i - 1 \notin Dirs(r) => x[v][i] = 0
  BY DEF AtCorners
<1> USE <1>a
<1>1. ASSUME NEW v \in 1 .. 8
      PROVE  /\ 0 \in Dirs(r) => DeltaIndex(n, v - 1)[0] = IF (v - 1) % 4 \in {1, 2} THEN 1 ELSE 0
             /\ 1 \in Dirs(r) => DeltaIndex(n, v - 1)[1] = IF (v - 1) % 4 \in {2, 3} THEN 1 ELSE 0
             /\ 2 \in Dirs(r) => DeltaIndex(n, v - 1)[2] = (v - 1) \div 4
  BY DEF DeltaIndex
<1>2. V \in {2, 4, 8} /\ \A v \in 1 .. V : v \in 1 .. 8
  <2>1. V \in {2, 4, 8}
    OBVIOUS
  <2>2. \A k \in {2, 4, 8} : \A v \in 1 .. k : v \in 1 .. 8
    OBVIOUS
  <2> QED BY <2>1, <2>2
<1>3. ASSUME NEW d \in Dirs(r)
      PROVE  d \in {0, 1, 2} /\ d + 1 \in 1 .. 3
  BY DEF Dirs
    \* What a direction adds to a corner.
<1>4. ASSUME NEW v \in 1 .. V, 0 \in Dirs(r)
      PROVE  x[v][1] = base[0] + (IF (v - 1) % 4 \in {1, 2} THEN 1 ELSE 0)
  <2>1. v \in 1 .. 8
    BY <1>2
  <2>2. DeltaIndex(n, v - 1)[0] = IF (v - 1) % 4 \in {1, 2} THEN 1 ELSE 0
    BY <1>1, <1>4, <2>1
  <2>3. x[v][0 + 1] = base[0] + DeltaIndex(n, v - 1)[0]
    BY <1>4
  <2> QED BY <2>2, <2>3
<1>5. ASSUME NEW v \in 1 .. V, 1 \in Dirs(r)
      PROVE  x[v][2] = base[1] + (IF (v - 1) % 4 \in {2, 3} THEN 1 ELSE 0)
  <2>1. v \in 1 .. 8
    BY <1>2
  <2>2. DeltaIndex(n, v - 1)[1] = IF (v - 1) % 4 \in {2, 3} THEN 1 ELSE 0
    BY <1>1, <1>5, <2>1
  <2>3. x[v][1 + 1] = base[1] + DeltaIndex(n, v - 1)[1]
    BY <1>5
  <2> QED BY <2>2, <2>3
<1>6. ASSUME NEW v \in 1 .. V, 2 \in Dirs(r)
      PROVE  x[v][3] = base[2] + ((v - 1) \div 4)
  <2>1. v \in 1 .. 8
    BY <1>2
  <2>2. DeltaIndex(n, v - 1)[2] = (v - 1) \div 4
    BY <1>1, <1>6, <2>1
  <2>3. x[v][2 + 1] = base[2] + DeltaIndex(n, v - 1)[2]
    BY <1>6
  <2> QED BY <2>2, <2>3
<1>7. \A v \in 1 .. V : x[v][1] \in Int /\ x[v][2] \in Int /\ x[v][3] \in Int
  OBVIOUS
<1>8. 0 \in Dirs(r) /\ (1 \in Dirs(r) <=> r > 1) /\ (2 \in Dirs(r) <=> r > 2)
  BY DEF Dirs
<1>9. base[0] \in Int /\ (r > 1 => base[1] \in Int) /\ (r > 2 => base[2] \in Int)
  BY <1>8
<1>10. ASSUME NEW u \in 1 .. V, NEW v \in 1 .. V, NEW k \in 1 .. 3,
              x[v][1] - x[u][1] = (IF k = 1 THEN 1 ELSE 0),
              x[v][2] - x[u][2] = (IF k = 2 THEN 1 ELSE 0),
              x[v][3] - x[u][3] = (IF k = 3 THEN 1 ELSE 0)
       PROVE  Difference(x[u], x[v]) = Unit(k)
  <2>1. \A i \in 1 .. 3 : x[v][i] - x[u][i] = IF i = k THEN 1 ELSE 0
    <3>1. \A i \in 1 .. 3 : i = 1 \/ i = 2 \/ i = 3
      OBVIOUS
    <3> QED BY <1>10, <3>1
  <2> QED BY <2>1 DEF Difference, Unit
<1>11. CASE r = 1
  <2>1. V = 2 /\ \A v \in 1 .. V : x[v][2] = 0 /\ x[v][3] = 0
    BY <1>8, <1>11 DEF Dirs
  <2>2. x[1][1] = base[0] /\ x[2][1] = base[0] + 1
    <3>1. (1 - 1) % 4 = 0 /\ (2 - 1) % 4 = 1
      OBVIOUS
    <3>2. 1 \in 1 .. V /\ 2 \in 1 .. V
      BY <2>1
    <3> QED BY <1>4, <1>8, <1>9, <3>1, <3>2
  <2>3. Difference(x[1], x[2]) = Unit(1)
    <3>1. 1 \in 1 .. V /\ 2 \in 1 .. V /\ 1 \in 1 .. 3
      BY <2>1
    <3>2. /\ x[2][1] - x[1][1] = 1 /\ x[2][2] - x[1][2] = 0 /\ x[2][3] - x[1][3] = 0
      BY <1>9, <2>1, <2>2, <3>1
    <3> QED BY <1>10, <3>1, <3>2
  <2> QED BY <2>1, <2>3 DEF CellFits
<1>12. CASE r > 1
  <2>1. V >= 4 /\ V \in {4, 8}
    BY <1>12
  <2>2. \A v \in 1 .. 4 : v \in 1 .. V
    BY <2>1
  <2>3. /\ x[1][1] = base[0] /\ x[2][1] = base[0] + 1 /\ x[3][1] = base[0] + 1 /\ x[4][1] = base[0]
    <3>1. (1 - 1) % 4 = 0 /\ (2 - 1) % 4 = 1 /\ (3 - 1) % 4 = 2 /\ (4 - 1) % 4 = 3
      OBVIOUS
    <3>2. 1 \in 1 .. V /\ 2 \in 1 .. V /\ 3 \in 1 .. V /\ 4 \in 1 .. V
      BY <2>2
    <3> QED BY <1>4, <1>8, <1>9, <3>1, <3>2
  <2>4. /\ x[1][2] = base[1] /\ x[2][2] = base[1] /\ x[3][2] = base[1] + 1 /\ x[4][2] = base[1] + 1
    <3>1. (1 - 1) % 4 = 0 /\ (2 - 1) % 4 = 1 /\ (3 - 1) % 4 = 2 /\ (4 - 1) % 4 = 3
      OBVIOUS
    <3>2. 1 \in 1 .. V /\ 2 \in 1 .. V /\ 3 \in 1 .. V /\ 4 \in 1 .. V
      BY <2>2
    <3> QED BY <1>5, <1>8, <1>9, <1>12, <3>1, <3>2
  <2>5. \A v \in 1 .. 4 : x[v][3] = x[1][3]
    <3>1. CASE r = 2
      <4>1. 3 - 1 \notin Dirs(r)
        BY <3>1 DEF Dirs
      <4>2. \A v \in 1 .. 4 : x[v][3] = 0
        BY <2>2, <4>1
      <4> QED BY <4>2
    <3>2. CASE r = 3
      <4>1. \A v \in 1 .. 4 : (v - 1) \div 4 = 0
        OBVIOUS
      <4>2. \A v \in 1 .. 4 : x[v][3] = base[2] + 0
        BY <1>6, <1>8, <2>2, <3>2, <4>1
      <4> QED BY <4>2
    <3> QED BY <1>12, <3>1, <3>2
  <2>6. /\ 1 \in 1 .. V /\ 2 \in 1 .. V /\ 3 \in 1 .. V /\ 4 \in 1 .. V
        /\ base[0] \in Int /\ base[1] \in Int
        /\ x[1][3] \in Int /\ x[2][3] = x[1][3] /\ x[3][3] = x[1][3] /\ x[4][3] = x[1][3]
    BY <1>7, <1>9, <1>12, <2>2, <2>5
  <2>7. Difference(x[1], x[2]) = Unit(1)
    <3>1. x[2][1] - x[1][1] = 1 /\ x[2][2] - x[1][2] = 0 /\ x[2][3] - x[1][3] = 0
      BY <2>3, <2>4, <2>6
    <3> QED BY <1>10, <2>6, <3>1
  <2>8. Difference(x[1], x[4]) = Unit(2)
    <3>1. x[4][1] - x[1][1] = 0 /\ x[4][2] - x[1][2] = 1 /\ x[4][3] - x[1][3] = 0
      BY <2>3, <2>4, <2>6
    <3> QED BY <1>10, <2>6, <3>1
  <2>9. Difference(x[2], x[3]) = Unit(2)
    <3>1. x[3][1] - x[2][1] = 0 /\ x[3][2] - x[2][2] = 1 /\ x[3][3] - x[2][3] = 0
      BY <2>3, <2>4, <2>6
    <3> QED BY <1>10, <2>6, <3>1
  <2>10. ASSUME V > 4, NEW v \in 1 .. 4
         PROVE  Difference(x[v], x[v + 4]) = Unit(3)
    <3>1. r = 3 /\ V = 8
      BY <2>10
    <3>2. v \in 1 .. V /\ v + 4 \in 1 .. V
      BY <3>1
    <3>3. ((v + 4) - 1) % 4 = (v - 1) % 4 /\ ((v + 4) - 1) \div 4 = 1 /\ (v - 1) \div 4 = 0
      OBVIOUS
    <3>4. x[v + 4][1] = x[v][1] /\ x[v + 4][2] = x[v][2]
      BY <1>4, <1>5, <1>8, <3>1, <3>2, <3>3
    <3>5. x[v][3] = base[2] + 0 /\ x[v + 4][3] = base[2] + 1
      <4>1. 2 \in Dirs(r)
        BY <1>8, <3>1
      <4>2. x[v][3] = base[2] + ((v - 1) \div 4)
        BY <1>6, <3>2, <4>1
      <4>3. x[v + 4][3] = base[2] + (((v + 4) - 1) \div 4)
        BY <1>6, <3>2, <4>1
      <4> QED BY <3>3, <4>2, <4>3
    <3>6. x[v + 4][1] - x[v][1] = 0 /\ x[v + 4][2] - x[v][2] = 0 /\ x[v + 4][3] - x[v][3] = 1
      BY <1>7, <1>9, <3>1, <3>2, <3>4, <3>5
    <3> QED BY <1>10, <3>2, <3>6
  <2> QED BY <2>7, <2>8, <2>9, <2>10 DEF CellFits
<1> QED BY <1>11, <1>12


\* The tuple of a point holds its coordinates.
LEMMA PointFound ==
  ASSUME GridOK, NEW n \in PointBoxes, NEW real, writer = NewWriter(n, real), CanFill,
         NEW a, a.components = 3, a.values = Numbers(FillPointsAndConnectivity.points),
         NEW e \in 0 .. writer.elements - 1, NEW p \in 0 .. writer.pointsPerElement - 1
  PROVE  /\ TupleOf(a, (e * writer.pointsPerElement + p) + 1) = PointOf(Source, e, p)
         /\ PointOf(Source, e, p) \in [1 .. 3 -> Int]
         /\ e * writer.pointsPerElement + p \in 0 .. NumPoints(writer) - 1
<1>1. PICK m, P, points : m = writer.elements /\ P = writer.pointsPerElement /\ points = Numbers(FillPointsAndConnectivity.points)
  OBVIOUS
<1>2. /\ points \in Seq(Int) /\ Len(points) = (m * P) * 3
      /\ \A i \in 1 .. 3 : points[(e * P + p) * 3 + i] = PointOf(Source, e, p)[i]
  BY <1>1, PointsFilled
<1>3. m \in Nat /\ P \in Nat \ {0} /\ P = Flat(n) /\ m <= Flat(size) /\ Flat(size) \in Nat
  BY <1>1, WriterIs, AllElements
<1>4. PointOf(Source, e, p) \in [1 .. 3 -> Int]
  <2>1. PICK r \in 1 .. 3 : r = RankOf(size)
    BY DEF GridOK
  <2>2. /\ Source.size \in Box(r) /\ Source.pointsDirection \in [Dirs(r) -> Nat \ {0, 1}]
        /\ e \in 0 .. Flat(Source.size) - 1 /\ p \in 0 .. Flat(Source.pointsDirection) - 1
    BY <1>1, <1>3, <2>1, WriterIs DEF GridOK, PointBoxes
  <2> QED BY <2>2, PointIs
<1>5. PICK k, t : k = e * P + p /\ t = m * P
  OBVIOUS
<1>6. k \in 0 .. t - 1 /\ t \in Nat
  <2>1. p + 1 \in 1 .. P /\ e * P + (p + 1) \in 1 .. t /\ t \in Nat
    BY <1>1, <1>3, <1>5, PlaceBelow
  <2>2. PICK y : y = e * P
    OBVIOUS
  <2>3. y \in Int /\ y + (p + 1) \in 1 .. t /\ k = y + p /\ p \in Int
    BY <1>1, <1>3, <1>5, <2>1, <2>2
  <2> QED BY <2>1, <2>3
<1>7. /\ TupleOf(a, k + 1) \in Seq(Int) /\ Len(TupleOf(a, k + 1)) = 3
      /\ \A i \in 1 .. 3 : TupleOf(a, k + 1)[i] = a.values[k * 3 + i]
  <2>1. PICK q : q = 3
    OBVIOUS
  <2>2. TuplesOf(a, Int, t, q)
    BY <1>1, <1>2, <1>5, <1>6, <2>1 DEF TuplesOf
  <2>3. /\ TupleOf(a, k + 1) \in Seq(Int) /\ Len(TupleOf(a, k + 1)) = q
        /\ \A i \in 1 .. q : TupleOf(a, k + 1)[i] = a.values[k * q + i]
    BY <1>6, <2>2, TupleIs
  <2> QED BY <2>1, <2>3
<1>8. TupleOf(a, k + 1) \in [1 .. 3 -> Int]
  BY <1>7
<1>9. \A i \in 1 .. 3 : TupleOf(a, k + 1)[i] = PointOf(Source, e, p)[i]
  BY <1>1, <1>2, <1>5, <1>7
<1>10. TupleOf(a, k + 1) = PointOf(Source, e, p)
  BY <1>4, <1>8, <1>9
<1> QED BY <1>1, <1>4, <1>5, <1>6, <1>10 DEF NumPoints

\* The point a file has for a corner of a cell of an element.
CornerOfCell(index, e, c, V, v) ==
  /\ e \in 0 .. writer.elements - 1 /\ c \in 0 .. writer.cellsPerElement - 1 /\ v \in 1 .. V
  /\ index = Numbers(FillPointsAndConnectivity.connectivity)[(e * writer.cellsPerElement + c) * V + v]

\* Every cell of a file is one of an element, and its corners are where the cell is.
LEMMA CellFound ==
  ASSUME GridOK, NEW n \in PointBoxes, NEW real, writer = NewWriter(n, real), CanFill,
         NEW a, a.components = 3, a.values = Numbers(FillPointsAndConnectivity.points),
         NEW r, r = RankOf(size), NEW V, V = VerticesOfCell(size),
         NEW e, NEW c, NEW v, NEW index, CornerOfCell(index, e, c, V, v),
         NEW x, x = TupleOf(a, index + 1)
  PROVE  /\ index \in 0 .. NumPoints(writer) - 1
         /\ x \in [1 .. 3 -> Int]
         /\ \A d \in Dirs(r) : x[d + 1] = ToTensor(e, size)[d] * (n[d] - 1) + ToTensor(c, Less1(n))[d] + DeltaIndex(n, v - 1)[d]
         /\ \A i \in 1 .. 3 : i - 1 \notin Dirs(r) => x[i] = 0
<1>b. /\ e \in 0 .. writer.elements - 1 /\ c \in 0 .. writer.cellsPerElement - 1 /\ v \in 1 .. V
      /\ index = Numbers(FillPointsAndConnectivity.connectivity)[(e * writer.cellsPerElement + c) * V + v]
  BY DEF CornerOfCell
<1> USE <1>b
<1>1. PICK m, P, C, corners : /\ m = writer.elements /\ P = writer.pointsPerElement /\ C = writer.cellsPerElement
                              /\ corners = Numbers(FillPointsAndConnectivity.connectivity)
  OBVIOUS
<1>2. index = corners[(e * C + c) * V + v] /\ x = TupleOf(a, index + 1)
  BY <1>1
<1>3. r \in 1 .. 3 /\ size \in Box(r) /\ n \in [Dirs(r) -> Nat \ {0, 1}] /\ DOMAIN n = Dirs(r)
  BY DEF GridOK, PointBoxes
<1>4. V \in 1 .. 8 /\ V = <<2, 4, 8>>[r] /\ index = P * e + ToFlat(Corner(n, c, v), n)
  BY <1>1, <1>2, CornersFilled
<1>5. /\ m \in Nat /\ P = Flat(n) /\ P \in Nat \ {0} /\ m <= Flat(size) /\ Flat(size) \in Nat
      /\ C = Flat(Less1(n)) /\ C \in Nat \ {0}
      /\ Source.size = size /\ Source.pointsDirection = n
  BY <1>1, WriterIs, AllElements
<1>a. c \in 0 .. Flat(Less1(n)) - 1 /\ v \in 1 .. 8 /\ v <= <<2, 4, 8>>[r]
  <2>1. v \in 1 .. V /\ V \in 1 .. 8
    BY <1>4
  <2>2. v \in 1 .. 8 /\ v <= V
    BY <2>1
  <2>3. c \in 0 .. Flat(Less1(n)) - 1
    BY <1>1, <1>5
  <2> QED BY <1>4, <2>2, <2>3
<1>6. PICK p : p = ToFlat(Corner(n, c, v), n)
  OBVIOUS
<1>7. p \in 0 .. P - 1 /\ ToTensor(p, n) = Corner(n, c, v)
  BY <1>3, <1>5, <1>6, <1>a, CornerIsPoint
<1>8. index = e * P + p
  BY <1>1, <1>4, <1>5, <1>6, <1>7
<1>9. /\ x = PointOf(Source, e, p) /\ x \in [1 .. 3 -> Int]
      /\ index \in 0 .. NumPoints(writer) - 1
  BY <1>1, <1>2, <1>7, <1>8, PointFound
<1>10. /\ \A d \in Dirs(r) : x[d + 1] = ToTensor(e, size)[d] * (n[d] - 1) + ToTensor(p, n)[d]
       /\ \A i \in 1 .. 3 : i - 1 \notin Dirs(r) => x[i] = 0
  <2>1. /\ Source.size \in Box(r) /\ Source.pointsDirection \in [Dirs(r) -> Nat \ {0, 1}]
        /\ e \in 0 .. Flat(Source.size) - 1 /\ p \in 0 .. Flat(Source.pointsDirection) - 1
    BY <1>1, <1>3, <1>5, <1>7
  <2> QED BY <1>3, <1>5, <1>9, <2>1, PointIs
<1>11. ASSUME NEW d \in Dirs(r)
       PROVE  x[d + 1] = ToTensor(e, size)[d] * (n[d] - 1) + ToTensor(c, Less1(n))[d] + DeltaIndex(n, v - 1)[d]
  <2>1. ToTensor(p, n)[d] = ToTensor(c, Less1(n))[d] + DeltaIndex(n, v - 1)[d]
    BY <1>3, <1>7 DEF Corner
  <2>2. PICK y, u, w, z : /\ y = ToTensor(e, size)[d] /\ u = n[d] - 1 /\ w = ToTensor(c, Less1(n))[d] /\ z = DeltaIndex(n, v - 1)[d]
    OBVIOUS
  <2>3. y \in Nat /\ u \in Nat /\ w \in Nat /\ z \in {0, 1}
    <3>1. Less1(n) \in Box(r) /\ e \in 0 .. Flat(size) - 1
      BY <1>1, <1>3, <1>5, CellsOfPoints
    <3>2. y \in Nat /\ w \in Nat
      BY <1>3, <1>a, <2>2, <3>1, BoxIndices
    <3>3. z \in {0, 1}
      BY <1>3, <1>a, <2>2, CornerIsPoint
    <3>4. u \in Nat
      BY <1>3, <2>2
    <3> QED BY <3>2, <3>3, <3>4
  <2>4. x[d + 1] = y * u + (w + z)
    BY <1>10, <2>1, <2>2
  <2>5. PICK yu : yu = y * u
    OBVIOUS
  <2>6. yu \in Int /\ yu + (w + z) = (yu + w) + z
    BY <2>3, <2>5
  <2> QED BY <2>2, <2>4, <2>5, <2>6
<1> QED BY <1>1, <1>2, <1>9, <1>10, <1>11


\* Two cells of elements with the same first corner.
SameFirst(r, s, n, e1, c1, e2, c2) ==
  /\ r \in 1 .. 3 /\ s \in Box(r) /\ n \in [Dirs(r) -> Nat \ {0, 1}]
  /\ e1 \in 0 .. Flat(s) - 1 /\ e2 \in 0 .. Flat(s) - 1
  /\ c1 \in 0 .. Flat(Less1(n)) - 1 /\ c2 \in 0 .. Flat(Less1(n)) - 1
  /\ \A d \in Dirs(r) : ToTensor(e1, s)[d] * (n[d] - 1) + ToTensor(c1, Less1(n))[d] =
                         ToTensor(e2, s)[d] * (n[d] - 1) + ToTensor(c2, Less1(n))[d]

\* As many first corners as cells: no two cells begin at one point.
LEMMA FirstCornersDiffer ==
  ASSUME NEW r, NEW s, NEW n, NEW e1, NEW c1, NEW e2, NEW c2, SameFirst(r, s, n, e1, c1, e2, c2)
  PROVE  e1 = e2 /\ c1 = c2
<1>a. /\ r \in 1 .. 3 /\ s \in Box(r) /\ n \in [Dirs(r) -> Nat \ {0, 1}]
      /\ e1 \in 0 .. Flat(s) - 1 /\ e2 \in 0 .. Flat(s) - 1
      /\ c1 \in 0 .. Flat(Less1(n)) - 1 /\ c2 \in 0 .. Flat(Less1(n)) - 1
      /\ \A d \in Dirs(r) : ToTensor(e1, s)[d] * (n[d] - 1) + ToTensor(c1, Less1(n))[d] =
                             ToTensor(e2, s)[d] * (n[d] - 1) + ToTensor(c2, Less1(n))[d]
  BY DEF SameFirst
<1> USE <1>a
<1>1. Less1(n) \in Box(r) /\ \A d \in Dirs(r) : Less1(n)[d] = n[d] - 1 /\ n[d] - 1 \in Nat \ {0}
  BY CellsOfPoints
<1>2. PICK x1, x2, q1, q2 : /\ x1 = ToTensor(e1, s) /\ x2 = ToTensor(e2, s)
                            /\ q1 = ToTensor(c1, Less1(n)) /\ q2 = ToTensor(c2, Less1(n))
  OBVIOUS
<1>3. /\ x1 \in [Dirs(r) -> Nat] /\ x2 \in [Dirs(r) -> Nat] /\ q1 \in [Dirs(r) -> Nat] /\ q2 \in [Dirs(r) -> Nat]
      /\ \A d \in Dirs(r) : q1[d] < n[d] - 1 /\ q2[d] < n[d] - 1
      /\ ToFlat(x1, s) = e1 /\ ToFlat(x2, s) = e2
      /\ ToFlat(q1, Less1(n)) = c1 /\ ToFlat(q2, Less1(n)) = c2
  BY <1>1, <1>2, BoxIndices
<1>4. ASSUME NEW d \in Dirs(r)
      PROVE  x1[d] = x2[d] /\ q1[d] = q2[d]
  <2>1. PICK a, b1, b2, w1, w2 : a = n[d] - 1 /\ b1 = x1[d] /\ b2 = x2[d] /\ w1 = q1[d] /\ w2 = q2[d]
    OBVIOUS
  <2>2. /\ a \in Nat \ {0} /\ b1 \in Nat /\ b2 \in Nat /\ w1 \in Nat /\ w2 \in Nat /\ w1 < a /\ w2 < a
        /\ b1 * a + w1 = b2 * a + w2
    BY <1>1, <1>2, <1>3, <2>1
  <2>3. b1 + 1 \in Nat \ {0} /\ b2 + 1 \in Nat \ {0}
    BY <2>2
  <2>a. ASSUME NEW w \in Nat, NEW b \in Nat, w < a
        PROVE  (w + a * b) % a = w /\ (w + a * b) \div a = b
    <3>1. PICK above : above = b + 1
      OBVIOUS
    <3>2. above \in Nat \ {0} /\ b < above
      BY <3>1
    <3> QED BY <2>2, <2>a, <3>2, DigitAndRest
  <2>4. (w1 + a * b1) % a = w1 /\ (w1 + a * b1) \div a = b1
    BY <2>2, <2>a
  <2>5. (w2 + a * b2) % a = w2 /\ (w2 + a * b2) \div a = b2
    BY <2>2, <2>a
  <2>6. w1 + a * b1 = w2 + a * b2
    <3>1. PICK y1, y2 : y1 = b1 * a /\ y2 = b2 * a
      OBVIOUS
    <3>2. a * b1 = y1 /\ a * b2 = y2 /\ y1 \in Int /\ y2 \in Int
      BY <2>2, <3>1
    <3>3. y1 + w1 = y2 + w2
      BY <2>2, <3>1
    <3> QED BY <2>2, <3>2, <3>3
  <2> QED BY <2>1, <2>4, <2>5, <2>6
<1>5. x1 = x2 /\ q1 = q2
  BY <1>3, <1>4
<1> QED BY <1>3, <1>5

\* The mesh of a file: cells over points that are in it, as many as the active
\* elements have, in VTK's order.
LEMMA MeshIsFit ==
  ASSUME GridOK, NEW n \in PointBoxes, NEW real, writer = NewWriter(n, real), CanFill,
         NEW file, file.numPoints = NumPoints(writer), file.numCells = NumCells(writer),
         NEW arrays, arrays[1].components = 3, arrays[1].values = Numbers(FillPointsAndConnectivity.points),
         arrays[2].values = Numbers(FillPointsAndConnectivity.connectivity),
         arrays[3].values = [c \in 1 .. NumCells(writer) |-> VerticesOfCell(size) * c],
         arrays[4].values = [c \in 1 .. NumCells(writer) |-> writer.cellType]
  PROVE  MeshFits(Source, file, arrays)
<1>1. PICK m, P, C, V, r : /\ m = writer.elements /\ P = writer.pointsPerElement /\ C = writer.cellsPerElement
                           /\ V = VerticesOfCell(size) /\ r = RankOf(size)
  OBVIOUS
<1>2. PICK N, a, corners : N = m * C /\ a = arrays[1] /\ corners = arrays[2].values
  OBVIOUS
<1>3. /\ r \in 1 .. 3 /\ size \in Box(r) /\ n \in [Dirs(r) -> Nat \ {0, 1}] /\ DOMAIN n = Dirs(r)
      /\ m \in Nat /\ P \in Nat \ {0} /\ m <= Flat(size) /\ Flat(size) \in Nat
      /\ C = Flat(Less1(n)) /\ C \in Nat \ {0} /\ N \in Nat
      /\ Source.size = size /\ Source.pointsDirection = n /\ Source.active = active /\ Source.cellsPerElement = C
      /\ Cardinality(active) = m
  BY <1>1, <1>2, WriterIs, AllElements DEF GridOK, PointBoxes
<1>4. file.numCells = N /\ NumCells(writer) = N /\ NumPoints(writer) = m * P
  BY <1>1, <1>2 DEF NumCells, NumPoints
<1>5. /\ V \in 1 .. 8 /\ V = <<2, 4, 8>>[r] /\ corners \in Seq(Int) /\ Len(corners) = N * V
  BY <1>1, <1>2, CornersFilled
<1>6. a.values \in Seq(Int) /\ Len(a.values) = (m * P) * 3
  BY <1>1, <1>2, PointsFilled
<1> DEFINE Vertex(x, v) == TupleOf(a, corners[V * (x - 1) + v] + 1)
           Cell(x) == [v \in 1 .. V |-> Vertex(x, v)]
           IsCell(x, e, c) == e \in 0 .. m - 1 /\ c \in 0 .. C - 1 /\ x = e * C + (c + 1)
           First(e, c, d) == ToTensor(e, size)[d] * (n[d] - 1) + ToTensor(c, Less1(n))[d]
<1>7. ASSUME NEW e, NEW c, NEW x, IsCell(x, e, c), NEW v \in 1 .. V
      PROVE  /\ corners[V * (x - 1) + v] \in 0 .. NumPoints(writer) - 1
             /\ Vertex(x, v) \in [1 .. 3 -> Int]
             /\ \A d \in Dirs(r) : Vertex(x, v)[d + 1] = First(e, c, d) + DeltaIndex(n, v - 1)[d]
             /\ \A i \in 1 .. 3 : i - 1 \notin Dirs(r) => Vertex(x, v)[i] = 0
  <2>0. e \in 0 .. m - 1 /\ c \in 0 .. C - 1 /\ x = e * C + (c + 1)
    BY <1>7
  <2>1. PICK index : index = corners[(e * C + c) * V + v]
    OBVIOUS
  <2>a. /\ a.components = 3 /\ a.values = Numbers(FillPointsAndConnectivity.points)
        /\ e \in 0 .. writer.elements - 1 /\ c \in 0 .. writer.cellsPerElement - 1 /\ v \in 1 .. V
        /\ index = Numbers(FillPointsAndConnectivity.connectivity)[(e * writer.cellsPerElement + c) * V + v]
    BY <1>1, <1>2, <2>0, <2>1
  <2>b. PICK z : z = TupleOf(a, index + 1)
    OBVIOUS
  <2>c. /\ index \in 0 .. NumPoints(writer) - 1
        /\ z \in [1 .. 3 -> Int]
        /\ \A d \in Dirs(r) : z[d + 1] = ToTensor(e, size)[d] * (n[d] - 1) + ToTensor(c, Less1(n))[d] + DeltaIndex(n, v - 1)[d]
        /\ \A i \in 1 .. 3 : i - 1 \notin Dirs(r) => z[i] = 0
    <3>1. CornerOfCell(index, e, c, V, v)
      BY <2>a DEF CornerOfCell
    <3>2. a.components = 3 /\ a.values = Numbers(FillPointsAndConnectivity.points)
      BY <2>a
    <3> QED BY <1>1, <2>b, <3>1, <3>2, CellFound
  <2>2. /\ index \in 0 .. NumPoints(writer) - 1
        /\ TupleOf(a, index + 1) \in [1 .. 3 -> Int]
        /\ \A d \in Dirs(r) : TupleOf(a, index + 1)[d + 1] = First(e, c, d) + DeltaIndex(n, v - 1)[d]
        /\ \A i \in 1 .. 3 : i - 1 \notin Dirs(r) => TupleOf(a, index + 1)[i] = 0
    BY <2>b, <2>c
  <2>3. V * (x - 1) + v = (e * C + c) * V + v
    <3>1. PICK y : y = e * C + c
      OBVIOUS
    <3>2. y \in Int /\ x - 1 = y
      <4>1. PICK ec : ec = e * C
        OBVIOUS
      <4>2. ec \in Int /\ c \in Int /\ x = ec + (c + 1) /\ y = ec + c
        BY <1>3, <2>0, <3>1, <4>1
      <4> QED BY <4>2
    <3>3. V * y = y * V
      BY <1>5, <3>2
    <3> QED BY <3>1, <3>2, <3>3
  <2> QED BY <2>1, <2>2, <2>3
<1>8. ASSUME NEW x \in 1 .. N
      PROVE  \E e, c : IsCell(x, e, c)
  <2>a. IsPlace(x, m, C)
    BY <1>2, <1>3 DEF IsPlace
  <2>1. PICK e \in 0 .. m - 1, j \in 1 .. C : x = e * C + j
    BY <2>a, PlaceFound
  <2>2. j - 1 \in 0 .. C - 1 /\ (j - 1) + 1 = j
    BY <1>3
  <2> QED BY <2>1, <2>2
<1>d. /\ \A e \in 0 .. m - 1 : e \in 0 .. Flat(size) - 1
      /\ \A c \in 0 .. C - 1 : c \in 0 .. Flat(Less1(n)) - 1
      /\ Less1(n) \in Box(r) /\ 1 \in 1 .. 8 /\ 1 <= <<2, 4, 8>>[r]
  BY <1>3, CellsOfPoints
<1>c. \A x, e, c : IsCell(x, e, c) => e \in 0 .. m - 1 /\ c \in 0 .. C - 1 /\ x = e * C + (c + 1)
  OBVIOUS
<1> HIDE DEF Vertex, First, IsCell
<1>9. ASSUME NEW x \in 1 .. N
      PROVE  CellFits(V, Cell(x))
  <2>1. PICK e, c : IsCell(x, e, c)
    BY <1>8
  <2>a. e \in 0 .. m - 1 /\ c \in 0 .. C - 1
    BY <1>c, <2>1
  <2>2. PICK base : base = [d \in Dirs(r) |-> First(e, c, d)]
    OBVIOUS
  <2>3. base \in [Dirs(r) -> Int]
    <3>1. ASSUME NEW d \in Dirs(r)
          PROVE  First(e, c, d) \in Int
      <4>1. Less1(n) \in Box(r) /\ e \in 0 .. Flat(size) - 1 /\ c \in 0 .. Flat(Less1(n)) - 1
        BY <1>3, <2>a, CellsOfPoints
      <4>2. ToTensor(e, size)[d] \in Nat /\ ToTensor(c, Less1(n))[d] \in Nat
        BY <1>3, <4>1, BoxIndices
      <4>3. PICK y, u, w : y = ToTensor(e, size)[d] /\ u = n[d] - 1 /\ w = ToTensor(c, Less1(n))[d]
        OBVIOUS
      <4>4. y * u + w \in Int
        BY <1>3, <4>2, <4>3
      <4> QED BY <4>3, <4>4 DEF First
    <3> QED BY <2>2, <3>1
  <2>4. \A v \in 1 .. V : Cell(x)[v] = Vertex(x, v)
    OBVIOUS
  <2>5. /\ \A v \in 1 .. V : Cell(x)[v] \in [1 .. 3 -> Int]
        /\ \A v \in 1 .. V, d \in Dirs(r) : Cell(x)[v][d + 1] = base[d] + DeltaIndex(n, v - 1)[d]
        /\ \A v \in 1 .. V, i \in 1 .. 3 : i - 1 \notin Dirs(r) => Cell(x)[v][i] = 0
    BY <1>7, <2>1, <2>2, <2>4
  <2>6. PICK X : X = Cell(x)
    OBVIOUS
  <2> HIDE DEF Cell
  <2>7. AtCorners(r, n, V, base, X)
    <3>1. r \in 1 .. 3 /\ DOMAIN n = Dirs(r) /\ V = <<2, 4, 8>>[r]
      BY <1>3, <1>5
    <3>2. base \in [Dirs(r) -> Int]
      BY <2>3
    <3>3. /\ \A v \in 1 .. V : X[v] \in [1 .. 3 -> Int]
          /\ \A v \in 1 .. V, d \in Dirs(r) : X[v][d + 1] = base[d] + DeltaIndex(n, v - 1)[d]
          /\ \A v \in 1 .. V, i \in 1 .. 3 : i - 1 \notin Dirs(r) => X[v][i] = 0
      BY <2>5, <2>6
    <3> QED BY <3>1, <3>2, <3>3 DEF AtCorners
  <2>8. CellFits(V, X)
    BY <2>7, CellFitsCorners
  <2> QED BY <2>6, <2>8
<1>10. ASSUME NEW x \in 1 .. N, NEW y \in 1 .. N, Vertex(x, 1) = Vertex(y, 1)
       PROVE  x = y
  <2>1. PICK e1, c1 : IsCell(x, e1, c1)
    BY <1>8
  <2>2. PICK e2, c2 : IsCell(y, e2, c2)
    BY <1>8
  <2>a. /\ e1 \in 0 .. m - 1 /\ c1 \in 0 .. C - 1 /\ x = e1 * C + (c1 + 1)
        /\ e2 \in 0 .. m - 1 /\ c2 \in 0 .. C - 1 /\ y = e2 * C + (c2 + 1)
    BY <1>c, <2>1, <2>2
  <2>b. e1 \in 0 .. Flat(size) - 1 /\ e2 \in 0 .. Flat(size) - 1 /\ c1 \in 0 .. Flat(Less1(n)) - 1 /\ c2 \in 0 .. Flat(Less1(n)) - 1
    BY <1>d, <2>a
  <2>3. 1 \in 1 .. V
    BY <1>5
  <2>4. \A d \in Dirs(r) : First(e1, c1, d) + DeltaIndex(n, 1 - 1)[d] = First(e2, c2, d) + DeltaIndex(n, 1 - 1)[d]
    <3>a. PICK one : one = 1
      OBVIOUS
    <3>b. one \in 1 .. V
      BY <2>3, <3>a
    <3>c. \A d \in Dirs(r) : Vertex(x, one)[d + 1] = First(e1, c1, d) + DeltaIndex(n, one - 1)[d]
      BY <1>7, <2>1, <3>b
    <3>d. \A d \in Dirs(r) : Vertex(y, one)[d + 1] = First(e2, c2, d) + DeltaIndex(n, one - 1)[d]
      BY <1>7, <2>2, <3>b
    <3>1. \A d \in Dirs(r) : Vertex(x, 1)[d + 1] = First(e1, c1, d) + DeltaIndex(n, 1 - 1)[d]
      BY <3>a, <3>c
    <3>2. \A d \in Dirs(r) : Vertex(y, 1)[d + 1] = First(e2, c2, d) + DeltaIndex(n, 1 - 1)[d]
      BY <3>a, <3>d
    <3> QED BY <1>10, <3>1, <3>2
  <2>5. ASSUME NEW d \in Dirs(r)
        PROVE  ToTensor(e1, size)[d] * (n[d] - 1) + ToTensor(c1, Less1(n))[d] =
               ToTensor(e2, size)[d] * (n[d] - 1) + ToTensor(c2, Less1(n))[d]
    <3>3. \A e \in {e1, e2} : ToTensor(e, size)[d] \in Nat
      BY <1>3, <2>b, BoxIndices
    <3>4. \A c \in {c1, c2} : ToTensor(c, Less1(n))[d] \in Nat
      <4>1. PICK less : less = Less1(n)
        OBVIOUS
      <4>2. less \in Box(r) /\ c1 \in 0 .. Flat(less) - 1 /\ c2 \in 0 .. Flat(less) - 1
        BY <1>d, <2>b, <4>1
      <4>3. ToTensor(c1, less) \in [Dirs(r) -> Nat] /\ ToTensor(c2, less) \in [Dirs(r) -> Nat]
        BY <1>3, <4>2, BoxIndices
      <4> QED BY <4>1, <4>3
    <3>5. DeltaIndex(n, 1 - 1)[d] \in {0, 1}
      BY <1>3, <1>d, <2>b, CornerIsPoint
    <3>6. PICK y1, y2, u, w1, w2 : /\ y1 = ToTensor(e1, size)[d] /\ y2 = ToTensor(e2, size)[d] /\ u = n[d] - 1
                                   /\ w1 = ToTensor(c1, Less1(n))[d] /\ w2 = ToTensor(c2, Less1(n))[d]
      OBVIOUS
    <3>7. y1 * u + w1 \in Int /\ y2 * u + w2 \in Int
      <4>1. y1 \in Nat /\ y2 \in Nat /\ w1 \in Nat /\ w2 \in Nat /\ u \in Int
        BY <1>3, <3>3, <3>4, <3>6
      <4> QED BY <4>1
    <3>8. (y1 * u + w1) + DeltaIndex(n, 1 - 1)[d] = (y2 * u + w2) + DeltaIndex(n, 1 - 1)[d]
      BY <2>4, <3>6 DEF First
    <3> QED BY <3>5, <3>6, <3>7, <3>8
  <2>7. SameFirst(r, size, n, e1, c1, e2, c2)
    BY <1>3, <2>5, <2>b DEF SameFirst
  <2>8. e1 = e2 /\ c1 = c2
    BY <2>7, FirstCornersDiffer
  <2> QED BY <2>a, <2>8
<1>11. Cardinality({Cell(x)[1] : x \in 1 .. N}) = N
  <2>1. PICK T : T = {Vertex(x, 1) : x \in 1 .. N}
    OBVIOUS
  <2>2. PICK f : f = [x \in 1 .. N |-> Vertex(x, 1)]
    OBVIOUS
  <2>3. f \in [1 .. N -> T] /\ \A y \in T : \E x \in 1 .. N : f[x] = y
    BY <2>1, <2>2
  <2>4. \A x, y \in 1 .. N : f[x] = f[y] => x = y
    BY <1>10, <2>2
  <2>5. f \in Bijection(1 .. N, T)
    BY <2>3, <2>4 DEF Bijection, Injection, Surjection, IsInjective
  <2>6. ExistsBijection(1 .. N, T)
    BY <2>5 DEF ExistsBijection
  <2>7. Cardinality(T) = N
    BY <1>3, <2>6, FS_CountingElements
  <2>8. 1 \in 1 .. V
    BY <1>5
  <2>9. {Cell(x)[1] : x \in 1 .. N} = T
    BY <2>1, <2>8
  <2> QED BY <2>7, <2>9
<1>12. ASSUME NEW k \in DOMAIN corners
       PROVE  corners[k] \in 0 .. file.numPoints - 1
  <2>1. IsPlace(k, N, V)
    <3>1. PICK t : t = N * V
      OBVIOUS
    <3>2. corners \in Seq(Int) /\ Len(corners) = t
      BY <1>5, <3>1
    <3>3. DOMAIN corners = 1 .. t
      BY <3>2, LenProperties
    <3>4. k \in 1 .. N * V
      BY <3>1, <3>3
    <3>5. V \in Nat \ {0}
      BY <1>5
    <3> QED BY <1>3, <3>4, <3>5 DEF IsPlace
  <2>2. PICK x \in 0 .. N - 1, v \in 1 .. V : k = x * V + v
    BY <2>1, PlaceFound
  <2>3. x + 1 \in 1 .. N /\ V * ((x + 1) - 1) + v = k
    BY <1>3, <1>5, <2>2
  <2>4. PICK e, c : IsCell(x + 1, e, c)
    BY <1>8, <2>3
  <2>5. corners[V * ((x + 1) - 1) + v] \in 0 .. NumPoints(writer) - 1
    BY <1>7, <2>4
  <2> QED BY <2>3, <2>5
<1>13. Len(arrays[4].values) = N
  <2>1. arrays[4].values \in [1 .. N -> {writer.cellType}]
    BY <1>4
  <2> QED BY <1>3, <2>1, FunctionIsSeq
<1>14. Len(a.values) = 3 * file.numPoints /\ Len(corners) = V * file.numCells
  <2>1. PICK t : t = m * P
    OBVIOUS
  <2>2. t \in Int /\ file.numPoints = t /\ Len(a.values) = t * 3
    BY <1>3, <1>4, <1>6, <2>1
  <2>3. N * V = V * N
    BY <1>3, <1>5
  <2> QED BY <1>4, <1>5, <2>2, <2>3
<1>15. arrays[3].values = [c \in 1 .. file.numCells |-> V * c]
  BY <1>1, <1>4
<1>16. Cardinality(Source.active) * Source.cellsPerElement = N
  BY <1>2, <1>3
<1>17. VerticesOfCell(Source.size) = V
  BY <1>1, <1>3
<1>18. /\ \A c \in 1 .. file.numCells : CellFits(V, Cell(c))
       /\ Cardinality({Cell(c)[1] : c \in 1 .. file.numCells}) = Cardinality(Source.active) * Source.cellsPerElement
  BY <1>4, <1>9, <1>11, <1>16
<1> DEFINE There(c) == [v \in 1 .. VerticesOfCell(Source.size) |->
                         TupleOf(arrays[1], arrays[2].values[VerticesOfCell(Source.size) * (c - 1) + v] + 1)]
<1>19. \A c : There(c) = Cell(c)
  BY <1>2, <1>17 DEF Vertex
<1>20. /\ \A c \in 1 .. file.numCells : CellFits(VerticesOfCell(Source.size), There(c))
       /\ Cardinality({There(c)[1] : c \in 1 .. file.numCells}) = Cardinality(Source.active) * Source.cellsPerElement
  <2> HIDE DEF Cell, There
  <2>1. {There(c)[1] : c \in 1 .. file.numCells} = {Cell(c)[1] : c \in 1 .. file.numCells}
    BY <1>19
  <2> QED BY <1>17, <1>18, <1>19, <2>1
<1>21. /\ Len(arrays[1].values) = 3 * file.numPoints
       /\ Len(arrays[2].values) = VerticesOfCell(Source.size) * file.numCells
       /\ \A k \in DOMAIN arrays[2].values : arrays[2].values[k] \in 0 .. file.numPoints - 1
       /\ arrays[3].values = [c \in 1 .. file.numCells |-> VerticesOfCell(Source.size) * c]
       /\ Len(arrays[4].values) = file.numCells
  BY <1>2, <1>4, <1>12, <1>13, <1>14, <1>15, <1>17
<1> QED BY <1>20, <1>21 DEF MeshFits

-------------------------------------------------------------------------------
(* Fields, cell data and the arrays of a file.                             *)

\* The values of a field, labelled by what they are of.
Labels == Nat \X Nat \X Nat \X Nat

\* The place of a component behind p points of q of them.
InPoint(n, p, q, c) == q \in Nat \ {0} /\ p \in Nat /\ c \in 1 .. q /\ n = p * q + c

\* Its digits.
LEMMA DigitsInPoint ==
  ASSUME NEW n, NEW p, NEW q, NEW c, InPoint(n, p, q, c)
  PROVE  (n - 1) \div q = p /\ (n - 1) % q = c - 1
<1>1. q \in Nat \ {0} /\ p \in Nat /\ c \in 1 .. q /\ n = p * q + c
  BY DEF InPoint
<1> QED BY <1>1, DigitsOfPlace

\* The values of a field of q components at P points of m elements.
ValuesOf(values, label, m, P, q) ==
  /\ label \in Nat /\ m \in Nat /\ P \in Nat \ {0} /\ q \in Nat \ {0}
  /\ values = FieldValues(label, [k \in 1 .. m |-> k - 1], P, q)

\* The value of a component at a point of an element is where the file has it.
LEMMA FieldValuesAre ==
  ASSUME NEW label, NEW m, NEW P, NEW q, NEW values, ValuesOf(values, label, m, P, q)
  PROVE  /\ values \in Seq(Labels)
         /\ Len(values) = (m * P) * q
         /\ \A e \in 0 .. m - 1, p \in 0 .. P - 1, c \in 1 .. q :
              values[(e * P + p) * q + c] = <<label, e, p, c - 1>>
<1>a. /\ label \in Nat /\ m \in Nat /\ P \in Nat \ {0} /\ q \in Nat \ {0}
      /\ values = FieldValues(label, [k \in 1 .. m |-> k - 1], P, q)
  BY DEF ValuesOf
<1> USE <1>a
<1>1. PICK elements : elements = [k \in 1 .. m |-> k - 1]
  OBVIOUS
<1>2. elements \in Seq(Nat) /\ Len(elements) = m /\ DOMAIN elements = 1 .. m
  <2>1. elements \in [1 .. m -> Nat]
    BY <1>1
  <2> QED BY <2>1, FunctionIsSeq
<1>3. PICK L : L = P * q
  OBVIOUS
<1>4. L \in Nat
  BY <1>3
<1>5. PICK parts : parts = [k \in 1 .. m |-> [n \in 1 .. L |-> <<label, elements[k], (n - 1) \div q, (n - 1) % q>>]]
  OBVIOUS
<1>6. values = Join(m, parts)
  BY <1>1, <1>2, <1>3, <1>5 DEF FieldValues
<1>7. ASSUME NEW k \in 1 .. m
      PROVE  parts[k] \in Seq(Labels) /\ Len(parts[k]) = L
  <2>1. ASSUME NEW n \in 1 .. L
        PROVE  <<label, elements[k], (n - 1) \div q, (n - 1) % q>> \in Labels
    <3>1. PICK x : x = n - 1
      OBVIOUS
    <3>2. x \in Nat /\ elements[k] \in Nat
      BY <1>1, <3>1
    <3>3. x \div q \in Nat /\ x % q \in Nat
      BY <3>2, QuotientIs
    <3>4. <<label, elements[k], x \div q, x % q>> \in Labels
      BY <3>2, <3>3 DEF Labels
    <3> QED BY <3>1, <3>4
  <2>2. parts[k] \in [1 .. L -> Labels]
    BY <1>5, <2>1
  <2> QED BY <1>4, <2>2, FunctionIsSeq
<1>8. PartsOf(m, parts, Labels, L)
  BY <1>4, <1>7 DEF PartsOf
<1>9. /\ values \in Seq(Labels) /\ Len(values) = m * L
      /\ \A e \in 0 .. m - 1, n \in 1 .. L : values[e * L + n] = parts[e + 1][n]
  <2>1. /\ Join(m, parts) \in Seq(Labels) /\ Len(Join(m, parts)) = m * L
        /\ \A e \in 0 .. m - 1, n \in 1 .. L : Join(m, parts)[e * L + n] = parts[e + 1][n]
    BY <1>8, JoinOfEqual
  <2> QED BY <1>6, <2>1
<1>10. m * L = (m * P) * q
  BY <1>3
<1>11. ASSUME NEW e \in 0 .. m - 1, NEW p \in 0 .. P - 1, NEW c \in 1 .. q
       PROVE  values[(e * P + p) * q + c] = <<label, e, p, c - 1>>
  <2>1. PICK n : n = p * q + c
    OBVIOUS
  <2>2. n \in 1 .. L
    <3>1. p * q + c \in 1 .. P * q
      BY PlaceBelow
    <3> QED BY <1>3, <2>1, <3>1
  <2>3. (e * P + p) * q + c = e * L + n
    <3>1. e \in Nat /\ p \in Nat /\ c \in Nat
      OBVIOUS
    <3> QED BY <1>3, <2>1, <3>1, PlaceInParts
  <2>4. (n - 1) \div q = p /\ (n - 1) % q = c - 1
    <3>1. q \in Nat \ {0} /\ p \in Nat /\ c \in 1 .. q
      OBVIOUS
    <3>2. InPoint(n, p, q, c)
      BY <2>1, <3>1 DEF InPoint
    <3> QED BY <3>2, DigitsInPoint
  <2>5. values[e * L + n] = parts[e + 1][n]
    BY <1>9, <2>2
  <2>6. e + 1 \in 1 .. m /\ elements[e + 1] = e
    BY <1>1
  <2>7. parts[e + 1][n] = <<label, e, (n - 1) \div q, (n - 1) % q>>
    BY <1>5, <2>2, <2>6
  <2> QED BY <2>3, <2>4, <2>5, <2>7
<1> QED BY <1>9, <1>10, <1>11

\* The fields a writer may hold, and its cell data.
AllFields(elements, points) ==
  {[components |-> z[1], values |-> FieldValues(z[2], elements, points, z[1])] : z \in (Nat \ {0}) \X Nat}
AllCells(numCells) ==
  {[type |-> z[1], values |-> CellValues(z[2], numCells)] : z \in {"real", "int"} \X Nat}

\* The place of a point of an element among the points of a file.
AtPoint(k, m, P, e, p) == e \in 0 .. m - 1 /\ p \in 0 .. P - 1 /\ k = (e * P + p) + 1

\* Every place is that of a point of an element.
LEMMA PlaceOfPoint ==
  ASSUME NEW m \in Nat, NEW P \in Nat \ {0}, NEW t, t = m * P, NEW k \in 1 .. t
  PROVE  \E e, p : AtPoint(k, m, P, e, p)
<1>1. IsPlace(k, m, P)
  BY DEF IsPlace
<1>2. PICK e \in 0 .. m - 1, j \in 1 .. P : k = e * P + j
  BY <1>1, PlaceFound
<1>3. PICK y, p : y = e * P /\ p = j - 1
  OBVIOUS
<1>4. y \in Int /\ p \in 0 .. P - 1 /\ k = (y + p) + 1
  BY <1>2, <1>3
<1> QED BY <1>2, <1>3, <1>4 DEF AtPoint

\* The tuple of a place holds the coordinates of the point.
LEMMA PointRead ==
  ASSUME GridOK, NEW n \in PointBoxes, NEW real, writer = NewWriter(n, real), CanFill,
         NEW a, a.components = 3, a.values = Numbers(FillPointsAndConnectivity.points),
         NEW k, NEW e, NEW p, AtPoint(k, writer.elements, writer.pointsPerElement, e, p)
  PROVE  TupleOf(a, k) = PointOf(Source, e, p)
<1>1. /\ e \in 0 .. writer.elements - 1 /\ p \in 0 .. writer.pointsPerElement - 1
      /\ k = (e * writer.pointsPerElement + p) + 1
  BY DEF AtPoint
<1> QED BY <1>1, PointFound

\* A component in a field at the place of a point.
IsValue(a, label, m, P, q, k, e, p, c) ==
  ValuesOf(a.values, label, m, P, q) /\ a.components = q /\ AtPoint(k, m, P, e, p) /\ c \in 1 .. q

\* The tuple of a place in a field holds the values of the point.
LEMMA ValuesRead ==
  ASSUME NEW label, NEW m, NEW P, NEW q, NEW a, NEW k, NEW e, NEW p, NEW c, IsValue(a, label, m, P, q, k, e, p, c)
  PROVE  TupleOf(a, k)[c] = <<label, e, p, c - 1>>
<1>a. ValuesOf(a.values, label, m, P, q) /\ a.components = q /\ AtPoint(k, m, P, e, p) /\ c \in 1 .. q
  BY DEF IsValue
<1> USE <1>a
<1>1. m \in Nat /\ P \in Nat \ {0} /\ q \in Nat \ {0} /\ label \in Nat
  BY DEF ValuesOf
<1>2. PICK values : values = a.values
  OBVIOUS
<1>3. /\ values \in Seq(Labels) /\ Len(values) = (m * P) * q
      /\ \A i \in 0 .. m - 1, j \in 0 .. P - 1, b \in 1 .. q :
           values[(i * P + j) * q + b] = <<label, i, j, b - 1>>
  BY <1>2, FieldValuesAre
<1>4. PICK t, x : t = m * P /\ x = e * P + p
  OBVIOUS
<1>5. e \in 0 .. m - 1 /\ p \in 0 .. P - 1 /\ k = x + 1
  BY <1>4 DEF AtPoint
<1>6. t \in Nat /\ x \in 0 .. t - 1
  <2>1. p + 1 \in 1 .. P /\ e * P + (p + 1) \in 1 .. t /\ t \in Nat
    BY <1>1, <1>4, <1>5, PlaceBelow
  <2>2. PICK y : y = e * P
    OBVIOUS
  <2>3. y \in Int /\ y + (p + 1) \in 1 .. t /\ x = y + p /\ p \in Int
    BY <1>1, <1>4, <1>5, <2>1, <2>2
  <2> QED BY <2>1, <2>3
<1>7. TuplesOf(a, Labels, t, q)
  BY <1>1, <1>2, <1>3, <1>4, <1>6 DEF TuplesOf
<1>8. \A i \in 1 .. q : TupleOf(a, x + 1)[i] = a.values[x * q + i]
  BY ONLY <1>6, <1>7, TupleIs
<1>9. a.values[x * q + c] = <<label, e, p, c - 1>>
  BY <1>2, <1>3, <1>4, <1>5
<1> QED BY <1>5, <1>8, <1>9

\* An array of a field over points that are read at their places.
FieldArray(source, file, arrays, a, label, m, P, q) ==
  /\ a.section = "point data" /\ a.components = q /\ ValuesOf(a.values, label, m, P, q)
  /\ file.numPoints = m * P
  /\ \A k, e, p : AtPoint(k, m, P, e, p) => TupleOf(arrays[1], k) = PointOf(source, e, p)

\* It has its values at their points.
LEMMA FieldArrayFits ==
  ASSUME NEW source, NEW file, NEW arrays, NEW a, NEW label, NEW m, NEW P, NEW q,
         FieldArray(source, file, arrays, a, label, m, P, q)
  PROVE  DataFits(source, file, arrays, a)
<1>1. ValuesOf(a.values, label, m, P, q)
  BY DEF FieldArray
<1>2. a.section = "point data" /\ a.components = q /\ file.numPoints = m * P
  BY DEF FieldArray
<1>3. m \in Nat /\ P \in Nat \ {0} /\ q \in Nat \ {0}
  BY <1>1 DEF ValuesOf
<1>4. Len(a.values) = (m * P) * q
  BY <1>1, FieldValuesAre
<1>5. PICK t : t = m * P
  OBVIOUS
<1>6. t \in Nat /\ t * q = q * t
  BY <1>3, <1>5
<1>7. Len(a.values) = a.components * file.numPoints
  BY <1>2, <1>4, <1>5, <1>6
<1>8. ASSUME NEW k \in 1 .. file.numPoints, NEW c \in 1 .. a.components
      PROVE  /\ PointOf(source, TupleOf(a, k)[c][2], TupleOf(a, k)[c][3]) = TupleOf(arrays[1], k)
             /\ TupleOf(a, k)[c][4] = c - 1
  <2>1. k \in 1 .. t /\ c \in 1 .. q
    BY <1>2, <1>5
  <2>2. PICK e, p : AtPoint(k, m, P, e, p)
    BY <1>3, <1>5, <2>1, PlaceOfPoint
  <2>3. TupleOf(a, k)[c] = <<label, e, p, c - 1>>
    <3>1. a.components = q /\ c \in 1 .. q
      BY <1>2, <2>1
    <3>2. IsValue(a, label, m, P, q, k, e, p, c)
      BY <1>1, <2>2, <3>1 DEF IsValue
    <3> QED BY <3>2, ValuesRead
  <2>4. TupleOf(arrays[1], k) = PointOf(source, e, p)
    BY <2>2 DEF FieldArray
  <2>5. PICK four : four = <<label, e, p, c - 1>>
    OBVIOUS
  <2>6. four[2] = e /\ four[3] = p /\ four[4] = c - 1
    BY <2>5
  <2> QED BY <2>3, <2>4, <2>5, <2>6
<1>9. \A k \in 1 .. file.numPoints, c \in 1 .. a.components :
        LET value == TupleOf(a, k)[c] IN
          PointOf(source, value[2], value[3]) = TupleOf(arrays[1], k) /\ value[4] = c - 1
  BY <1>8
<1> QED BY <1>2, <1>7, <1>9 DEF DataFits

\* A field of a writer is one.
LEMMA FieldFits ==
  ASSUME GridOK, NEW n \in PointBoxes, NEW real, writer = NewWriter(n, real), CanFill,
         NEW file, file.numPoints = NumPoints(writer),
         NEW arrays, arrays[1].components = 3, arrays[1].values = Numbers(FillPointsAndConnectivity.points),
         NEW field \in AllFields(Ordered(active), writer.pointsPerElement),
         NEW a, a = DataArray("point data", "real", real, field.components, field.values)
  PROVE  DataFits(Source, file, arrays, a)
<1>1. PICK m, P, b : m = writer.elements /\ P = writer.pointsPerElement /\ b = arrays[1]
  OBVIOUS
<1>2. m \in Nat /\ P \in Nat \ {0} /\ file.numPoints = m * P /\ Ordered(active) = [k \in 1 .. m |-> k - 1]
  <2>1. m \in Nat /\ P \in Nat \ {0} /\ file.numPoints = m * P /\ active = 0 .. m - 1
    BY <1>1, WriterIs, AllElements DEF NumPoints
  <2> QED BY <2>1, OrderedIds
<1>3. PICK q \in Nat \ {0}, label \in Nat : field = [components |-> q, values |-> FieldValues(label, [k \in 1 .. m |-> k - 1], P, q)]
  <2>1. field \in AllFields([k \in 1 .. m |-> k - 1], P)
    BY <1>1, <1>2
  <2>2. PICK z \in (Nat \ {0}) \X Nat :
          field = [components |-> z[1], values |-> FieldValues(z[2], [k \in 1 .. m |-> k - 1], P, z[1])]
    BY <2>1 DEF AllFields
  <2>3. z[1] \in Nat \ {0} /\ z[2] \in Nat
    BY <2>2
  <2> QED BY <2>2, <2>3
<1>4. a.section = "point data" /\ a.components = q /\ ValuesOf(a.values, label, m, P, q)
  BY <1>2, <1>3 DEF DataArray, ValuesOf
<1>5. ASSUME NEW k, NEW e, NEW p, AtPoint(k, m, P, e, p)
      PROVE  TupleOf(arrays[1], k) = PointOf(Source, e, p)
  <2>1. /\ b.components = 3 /\ b.values = Numbers(FillPointsAndConnectivity.points)
        /\ AtPoint(k, writer.elements, writer.pointsPerElement, e, p)
    BY <1>1, <1>5
  <2>2. TupleOf(b, k) = PointOf(Source, e, p)
    BY <2>1, PointRead
  <2> QED BY <1>1, <2>2
<1>6. PICK source : source = Source
  OBVIOUS
<1>7. FieldArray(source, file, arrays, a, label, m, P, q)
  <2>1. \A k, e, p : AtPoint(k, m, P, e, p) => TupleOf(arrays[1], k) = PointOf(source, e, p)
    BY <1>5, <1>6
  <2> QED BY <1>2, <1>4, <2>1 DEF FieldArray
<1>8. DataFits(source, file, arrays, a)
  BY <1>7, FieldArrayFits
<1> QED BY <1>6, <1>8

\* Cell data has one value for every cell, in their order.
LEMMA CellsFit ==
  ASSUME NEW file, file.numCells \in Nat, NEW cellData \in AllCells(file.numCells),
         NEW source, NEW arrays, NEW type, NEW width, NEW a, a = DataArray("cell data", type, width, 1, cellData.values)
  PROVE  DataFits(source, file, arrays, a)
<1>1. PICK N : N = file.numCells
  OBVIOUS
<1>2. PICK label \in Nat : cellData.values = [c \in 1 .. N |-> <<label, c>>]
  <2>1. PICK z \in {"real", "int"} \X Nat : cellData = [type |-> z[1], values |-> CellValues(z[2], N)]
    BY <1>1 DEF AllCells
  <2>2. cellData.values = CellValues(z[2], N) /\ z[2] \in Nat
    BY <2>1
  <2> QED BY <2>2 DEF CellValues
<1>3. a.section = "cell data" /\ a.values = [c \in 1 .. N |-> <<label, c>>]
  BY <1>2 DEF DataArray
<1>4. Len(a.values) = N
  <2>1. a.values \in [1 .. N -> {<<label, c>> : c \in 1 .. N}]
    BY <1>3
  <2> QED BY <1>1, <2>1, FunctionIsSeq
<1>5. \A c \in DOMAIN a.values : a.values[c][2] = c
  <2>1. \A c : <<label, c>>[2] = c
    OBVIOUS
  <2> QED BY <1>3, <2>1
<1> QED BY <1>1, <1>3, <1>4, <1>5 DEF DataFits


\* The bytes in front of a block are those of the blocks before it, and every
\* block has some: two of them do not begin at one place.
LEMMA BeforeGrows ==
  ASSUME NEW n \in Nat, NEW bytes, \A k \in 1 .. n : bytes[k] \in Nat \ {0}
  PROVE  \A k, j \in 0 .. n : BytesBefore(n, bytes)[k] = BytesBefore(n, bytes)[j] => k = j
<1> DEFINE Defined(v, k) == IF k = 0 THEN 0 ELSE v[k - 1] + bytes[k]
<1>1. PICK T : T = {m \in Nat : \E v : v = [k \in 0 .. m |-> Defined(v, k)]}
  OBVIOUS
<1>2. 0 \in T
  <2>1. PICK v : v = [k \in 0 .. 0 |-> 0]
    OBVIOUS
  <2>2. v = [k \in 0 .. 0 |-> Defined(v, k)]
    BY <2>1
  <2> QED BY <1>1, <2>2
<1>3. ASSUME NEW m \in Nat, m \in T
      PROVE  m + 1 \in T
  <2>1. PICK v : v = [k \in 0 .. m |-> Defined(v, k)]
    BY <1>1, <1>3
  <2>2. PICK u : u = [k \in 0 .. m + 1 |-> IF k = m + 1 THEN Defined(v, m + 1) ELSE v[k]]
    OBVIOUS
  <2>3. ASSUME NEW k \in 0 .. m + 1
        PROVE  u[k] = Defined(u, k)
    <3>1. CASE k = m + 1
      <4>1. k # 0 /\ k - 1 = m /\ m \in 0 .. m + 1 /\ m # m + 1
        BY <3>1
      <4>2. u[m] = v[m]
        BY <2>2, <4>1
      <4>3. u[k] = Defined(v, k)
        BY <2>2, <3>1
      <4> QED BY <4>1, <4>2, <4>3
    <3>2. CASE k # m + 1
      <4>1. k \in 0 .. m /\ (k # 0 => k - 1 \in 0 .. m + 1 /\ k - 1 # m + 1)
        BY <3>2
      <4>2. u[k] = v[k] /\ v[k] = Defined(v, k) /\ (k # 0 => u[k - 1] = v[k - 1])
        BY <2>1, <2>2, <3>2, <4>1
      <4> QED BY <4>2
    <3> QED BY <3>1, <3>2
  <2> HIDE DEF Defined
  <2>4. u = [k \in 0 .. m + 1 |-> Defined(u, k)]
    BY <2>2, <2>3
  <2> QED BY <1>1, <2>4
<1>4. \E v : v = [k \in 0 .. n |-> Defined(v, k)]
  <2>1. n \in T
    BY <1>2, <1>3, NatInSet
  <2> HIDE DEF Defined
  <2> QED BY <1>1, <2>1
<1>5. PICK g : g = CHOOSE v : v = [k \in 0 .. n |-> Defined(v, k)]
  OBVIOUS
<1>6. g = [k \in 0 .. n |-> Defined(g, k)]
  BY <1>4, <1>5
<1>7. BytesBefore(n, bytes) = g
  BY <1>5 DEF BytesBefore
<1>8. g[0] = 0 /\ \A k \in 1 .. n : g[k] = g[k - 1] + bytes[k]
  <2>1. 0 \in 0 .. n /\ \A k \in 1 .. n : k \in 0 .. n /\ k # 0
    OBVIOUS
  <2> QED BY <1>6, <2>1
<1> HIDE DEF Defined
<1>9. PICK S : S = {m \in Nat : m <= n => \A k \in 0 .. m : g[k] \in Nat /\ (k < m => g[k] < g[m])}
  OBVIOUS
<1>10. 0 \in S
  BY <1>8, <1>9
<1>11. ASSUME NEW m \in Nat, m \in S
       PROVE  m + 1 \in S
  <2>1. SUFFICES ASSUME m + 1 <= n
                 PROVE  \A k \in 0 .. m + 1 : g[k] \in Nat /\ (k < m + 1 => g[k] < g[m + 1])
    BY <1>9
  <2>2. \A k \in 0 .. m : g[k] \in Nat /\ (k < m => g[k] < g[m])
    BY <1>9, <1>11, <2>1
  <2>3. m + 1 \in 1 .. n /\ (m + 1) - 1 = m
    BY <2>1
  <2>4. g[m + 1] = g[m] + bytes[m + 1] /\ bytes[m + 1] \in Nat \ {0}
    BY <1>8, <2>3
  <2>5. g[m] \in Nat /\ g[m + 1] \in Nat /\ g[m] < g[m + 1]
    BY <2>2, <2>4
  <2> QED BY <2>2, <2>5
<1>12. ASSUME NEW m \in 0 .. n
       PROVE  g[m] \in Nat /\ \A k \in 0 .. m - 1 : g[k] < g[m]
  <2>1. m \in Nat /\ m <= n
    OBVIOUS
  <2>2. m \in S
    BY <1>10, <1>11, <2>1, NatInSet
  <2> QED BY <1>9, <2>1, <2>2
<1>13. ASSUME NEW k \in 0 .. n, NEW j \in 0 .. n, g[k] = g[j]
       PROVE  k = j
  <2>1. g[k] \in Nat /\ g[j] \in Nat
    BY <1>12
  <2>2. CASE k < j
    <3>1. k \in 0 .. j - 1
      BY <2>2
    <3>2. g[k] < g[j]
      BY <1>12, <3>1
    <3> QED BY <1>13, <2>1, <3>2
  <2>3. CASE j < k
    <3>1. j \in 0 .. k - 1
      BY <2>3
    <3>2. g[j] < g[k]
      BY <1>12, <3>1
    <3> QED BY <1>13, <2>1, <3>2
  <2> QED BY <2>2, <2>3
<1> QED BY <1>7, <1>13

\* Arrays a file may hold.
ArraysOK(arrays) ==
  /\ \E T : arrays \in Seq(T)
  /\ \A k \in DOMAIN arrays :
       /\ Len(arrays[k].values) \in Nat /\ arrays[k].width \in Nat
       /\ arrays[k] = DataArray(arrays[k].section, arrays[k].type, arrays[k].width,
                                arrays[k].components, arrays[k].values)

\* The description of an array and the place of its data.
Header(arrays, k) ==
  [section |-> arrays[k].section, type |-> arrays[k].type, width |-> arrays[k].width,
   components |-> arrays[k].components, offset |-> Offsets(arrays)[k]]

\* What is appended is found at its offset.
LEMMA AppendedIsRead ==
  ASSUME NEW arrays, ArraysOK(arrays),
         NEW file, file.kind = "appended",
         file.headers = [k \in DOMAIN arrays |-> Header(arrays, k)], file.data = AppendedData(arrays)
  PROVE  Readable(file) /\ ReadArrays(file) = arrays
<1>1. PICK n : n = Len(arrays)
  OBVIOUS
<1>2. n \in Nat /\ DOMAIN arrays = 1 .. n /\ arrays = [k \in 1 .. n |-> arrays[k]]
  <2>1. PICK T : arrays \in Seq(T)
    BY DEF ArraysOK
  <2> QED BY <1>1, <2>1
<1>3. PICK data : data = file.data
  OBVIOUS
<1>4. data = [k \in 1 .. n |-> [length |-> NumBytes(arrays[k]), width |-> arrays[k].width, values |-> arrays[k].values]]
  BY <1>2, <1>3 DEF AppendedData
<1>5. DOMAIN data = 1 .. n /\ Len(data) = n
  <2>1. data \in [1 .. n -> {data[k] : k \in 1 .. n}]
    BY <1>4
  <2> QED BY <1>2, <2>1, FunctionIsSeq
<1>6. PICK bytes : bytes = [k \in 1 .. n |-> IntWidth + NumBytes(arrays[k])]
  OBVIOUS
<1>7. \A k \in 1 .. n : bytes[k] \in Nat \ {0}
  <2>1. ASSUME NEW k \in 1 .. n
        PROVE  bytes[k] \in Nat \ {0}
    <3>1. PICK l, w : l = Len(arrays[k].values) /\ w = arrays[k].width
      OBVIOUS
    <3>2. l \in Nat /\ w \in Nat
      BY <1>2, <3>1 DEF ArraysOK
    <3>3. l * w \in Nat /\ bytes[k] = 4 + l * w
      BY <1>6, <3>1, <3>2 DEF IntWidth, NumBytes
    <3> QED BY <3>3
  <2> QED BY <2>1
<1>8. Offsets(arrays) = [k \in 1 .. n |-> BytesBefore(n, bytes)[k - 1]]
  BY <1>1, <1>2, <1>6 DEF Offsets
<1>9. BlockBegins(data) = [k \in 1 .. n |-> BytesBefore(n, bytes)[k - 1]]
  <2>1. \A k \in 1 .. n : Len(data[k].values) * data[k].width = NumBytes(arrays[k])
    BY <1>4 DEF NumBytes
  <2>2. [k \in 1 .. n |-> IntWidth + Len(data[k].values) * data[k].width] = bytes
    BY <1>6, <2>1
  <2> QED BY <1>5, <2>2 DEF BlockBegins
<1>10. ASSUME NEW k \in 1 .. n, NEW j \in 1 .. n, BlockBegins(data)[k] = BlockBegins(data)[j]
       PROVE  k = j
  <2>1. k - 1 \in 0 .. n /\ j - 1 \in 0 .. n
    BY <1>2
  <2>2. BytesBefore(n, bytes)[k - 1] = BytesBefore(n, bytes)[j - 1]
    BY <1>9, <1>10
  <2>3. k - 1 = j - 1
    BY <1>2, <1>7, <2>1, <2>2, BeforeGrows
  <2> QED BY <2>3
<1>11. DOMAIN file.headers = 1 .. n
  BY <1>2
<1>12. ASSUME NEW k \in 1 .. n
       PROVE  /\ file.headers[k] = Header(arrays, k)
              /\ BlockBegins(data)[k] = file.headers[k].offset
              /\ data[k].values = arrays[k].values
              /\ data[k].width = file.headers[k].width
              /\ data[k].length = Len(data[k].values) * file.headers[k].width
  <2>1. file.headers[k] = Header(arrays, k)
    BY <1>2
  <2>2. file.headers[k].offset = Offsets(arrays)[k] /\ file.headers[k].width = arrays[k].width
    BY <2>1 DEF Header
  <2>3. /\ data[k].values = arrays[k].values /\ data[k].width = arrays[k].width
        /\ data[k].length = NumBytes(arrays[k])
    BY <1>4
  <2> QED BY <1>8, <1>9, <2>1, <2>2, <2>3 DEF NumBytes
<1>13. Readable(file)
  BY <1>3, <1>5, <1>11, <1>12 DEF Readable
<1>14. ASSUME NEW k \in 1 .. n
       PROVE  ReadArrays(file)[k] = arrays[k]
  <2>1. PICK h : h = file.headers[k]
    OBVIOUS
  <2>2. PICK j : j = BlockAt(file, h)
    OBVIOUS
  <2>3. j = CHOOSE i \in 1 .. n : BlockBegins(data)[i] = h.offset
    BY <1>3, <1>5, <2>2 DEF BlockAt
  <2>4. \E i \in 1 .. n : BlockBegins(data)[i] = h.offset
    BY <1>12, <2>1
  <2>5. j \in 1 .. n /\ BlockBegins(data)[j] = h.offset
    BY <2>3, <2>4
  <2>6. j = k
    BY <1>10, <1>12, <2>1, <2>5
  <2>7. ReadArrays(file)[k] = DataArray(h.section, h.type, h.width, h.components, data[j].values)
    BY <1>3, <1>11, <2>1, <2>2 DEF ReadArrays
  <2>8. h.section = arrays[k].section /\ h.type = arrays[k].type /\ h.width = arrays[k].width /\ h.components = arrays[k].components
    <3>1. h = Header(arrays, k)
      BY <1>12, <2>1
    <3> QED BY <3>1 DEF Header
  <2>9. data[j].values = arrays[k].values
    BY <1>12, <2>6
  <2>10. arrays[k] = DataArray(arrays[k].section, arrays[k].type, arrays[k].width, arrays[k].components, arrays[k].values)
    BY <1>2 DEF ArraysOK
  <2> QED BY <2>7, <2>8, <2>9, <2>10
<1>15. ReadArrays(file) = [k \in 1 .. n |-> ReadArrays(file)[k]]
  BY <1>11 DEF ReadArrays
<1>16. ReadArrays(file) = arrays
  BY <1>2, <1>14, <1>15
<1> QED BY <1>13, <1>16


\* A sequence made of four.
OfFour(whole, T, first, s, t, u) ==
  first \in Seq(T) /\ s \in Seq(T) /\ t \in Seq(T) /\ u \in Seq(T) /\ whole = first \o s \o t \o u

\* It begins with the first.
LEMMA FourParts ==
  ASSUME NEW whole, NEW T, NEW first, NEW s, NEW t, NEW u, OfFour(whole, T, first, s, t, u)
  PROVE  whole \in Seq(T) /\ \A k \in 1 .. Len(first) : whole[k] = first[k]
<1>b. first \in Seq(T) /\ s \in Seq(T) /\ t \in Seq(T) /\ u \in Seq(T) /\ whole = first \o s \o t \o u
  BY DEF OfFour
<1> USE <1>b
<1>a. ASSUME NEW x \in Seq(T), NEW y \in Seq(T)
      PROVE  /\ x \o y \in Seq(T) /\ Len(x) \in Nat /\ Len(x) <= Len(x \o y)
             /\ \A k \in 1 .. Len(x) : (x \o y)[k] = x[k]
  BY ConcatProperties
<1>1. PICK a : a = first \o s
  OBVIOUS
<1>2. /\ a \in Seq(T) /\ Len(first) \in Nat /\ Len(first) <= Len(a)
      /\ \A k \in 1 .. Len(first) : a[k] = first[k]
  BY <1>1, <1>a
<1>3. PICK b : b = a \o t
  OBVIOUS
<1>4. b \in Seq(T) /\ Len(a) \in Nat /\ Len(a) <= Len(b) /\ \A k \in 1 .. Len(a) : b[k] = a[k]
  BY <1>2, <1>3, <1>a
<1>5. b \o u \in Seq(T) /\ Len(b) \in Nat /\ \A k \in 1 .. Len(b) : (b \o u)[k] = b[k]
  BY <1>4, <1>a
<1>6. \A k \in 1 .. Len(first) : k \in 1 .. Len(a) /\ k \in 1 .. Len(b)
  BY <1>2, <1>4, <1>5
<1> QED BY <1>1, <1>2, <1>3, <1>4, <1>5, <1>6

\* An array as a file has it.
IsArray(a) ==
  /\ Len(a.values) \in Nat /\ a.width \in Nat
  /\ a = DataArray(a.section, a.type, a.width, a.components, a.values)

\* What is made an array is one.
LEMMA ArrayIs ==
  ASSUME NEW section, NEW type, NEW width \in Nat, NEW components, NEW T, NEW values \in Seq(T)
  PROVE  IsArray(DataArray(section, type, width, components, values))
<1>1. Len(values) \in Nat
  OBVIOUS
<1> QED BY <1>1 DEF IsArray, DataArray

\* The arrays of fields and of cell data.
FieldArrays(real, elements, points) ==
  {DataArray("point data", "real", real, f.components, f.values) : f \in AllFields(elements, points)}
CellArrays(type, width, numCells) ==
  {DataArray("cell data", type, width, 1, d.values) : d \in AllCells(numCells)}

\* The data of cells of one type is some of their data.
LEMMA SomeOfType ==
  ASSUME NEW T, cells \in Seq(T), NEW type
  PROVE  OfType(type) \in Seq(T)
<1>1. PICK parts : parts = [k \in DOMAIN cells |-> IF cells[k].type = type THEN <<cells[k]>> ELSE <<>>]
  OBVIOUS
<1>2. Len(cells) \in Nat /\ DOMAIN cells = 1 .. Len(cells)
  OBVIOUS
<1>3. ASSUME NEW k \in 1 .. Len(cells)
      PROVE  parts[k] \in Seq(T)
  <2>1. cells[k] \in T
    BY ElementOfSeq
  <2>2. PICK d : d = cells[k]
    OBVIOUS
  <2>3. <<d>> \in Seq(T) /\ <<>> \in Seq(T)
    BY <2>1, <2>2
  <2> QED BY <1>1, <1>2, <2>2, <2>3
<1>4. Join(Len(cells), parts) \in Seq(T)
  BY <1>2, <1>3, JoinInSeq
<1> QED BY <1>1, <1>4 DEF OfType

\* A writer that can fill a file, with fields and cell data.
Filling(n, real) ==
  /\ GridOK /\ n \in PointBoxes /\ real \in RealWidths /\ writer = NewWriter(n, real) /\ CanFill
  /\ fields \in Seq(AllFields(Ordered(active), writer.pointsPerElement))
  /\ cells \in Seq(AllCells(NumCells(writer)))

\* The arrays of the mesh.
MeshArrays(real) ==
  <<DataArray("points", "real", real, 3, Numbers(FillPointsAndConnectivity.points)),
    DataArray("cells", "int", IntWidth, 1, Numbers(FillPointsAndConnectivity.connectivity)),
    DataArray("cells", "int", IntWidth, 1, [c \in 1 .. NumCells(writer) |-> VerticesOfCell(size) * c]),
    DataArray("cells", "uchar", UcharWidth, 1, [c \in 1 .. NumCells(writer) |-> writer.cellType])>>

\* They are arrays.
LEMMA MeshArraysAre ==
  ASSUME NEW n, NEW real, Filling(n, real)
  PROVE  \A k \in 1 .. 4 : IsArray(MeshArrays(real)[k])
<1>1. GridOK /\ n \in PointBoxes /\ writer = NewWriter(n, real) /\ CanFill /\ real \in Nat
  BY DEF Filling, RealWidths
<1>2. PICK N : N = NumCells(writer)
  OBVIOUS
<1>3. N \in Nat
  <2>1. writer.elements \in Nat /\ writer.cellsPerElement \in Nat
    BY <1>1, WriterIs
  <2> QED BY <1>2, <2>1, ProductIs DEF NumCells
<1>4. Numbers(FillPointsAndConnectivity.points) \in Seq(Int)
  BY <1>1, PointsFilled
<1>5. Numbers(FillPointsAndConnectivity.connectivity) \in Seq(Int)
  BY <1>1, CornersFilled
<1>6. PICK s3, s4 : s3 = [c \in 1 .. N |-> VerticesOfCell(size) * c] /\ s4 = [c \in 1 .. N |-> writer.cellType]
  OBVIOUS
<1>7. s3 \in Seq({s3[c] : c \in 1 .. N}) /\ s4 \in Seq({s4[c] : c \in 1 .. N})
  <2>1. s3 \in [1 .. N -> {s3[c] : c \in 1 .. N}] /\ s4 \in [1 .. N -> {s4[c] : c \in 1 .. N}]
    BY <1>6
  <2> QED BY <1>3, <2>1, FunctionIsSeq
<1>8. IntWidth \in Nat /\ UcharWidth \in Nat
  BY DEF IntWidth, UcharWidth
<1>9. PICK a1, a2, a3, a4 :
        /\ a1 = DataArray("points", "real", real, 3, Numbers(FillPointsAndConnectivity.points))
        /\ a2 = DataArray("cells", "int", IntWidth, 1, Numbers(FillPointsAndConnectivity.connectivity))
        /\ a3 = DataArray("cells", "int", IntWidth, 1, s3)
        /\ a4 = DataArray("cells", "uchar", UcharWidth, 1, s4)
  OBVIOUS
<1>10. IsArray(a1) /\ IsArray(a2) /\ IsArray(a3) /\ IsArray(a4)
  <2>1. IsArray(a1)
    BY <1>1, <1>4, <1>9, ArrayIs
  <2>2. IsArray(a2)
    BY <1>5, <1>8, <1>9, ArrayIs
  <2>3. IsArray(a3)
    BY <1>7, <1>8, <1>9, ArrayIs
  <2>4. IsArray(a4)
    BY <1>7, <1>8, <1>9, ArrayIs
  <2> QED BY <2>1, <2>2, <2>3, <2>4
<1>11. MeshArrays(real) = <<a1, a2, a3, a4>>
  BY <1>2, <1>6, <1>9 DEF MeshArrays
<1> QED BY <1>10, <1>11

\* The arrays of a file are those of the mesh, of fields and of cell data.
LEMMA ArraysAre ==
  ASSUME NEW n, NEW real, Filling(n, real), NEW arrays, arrays = Arrays(FillPointsAndConnectivity),
         NEW N, N = NumCells(writer), NEW elements, elements = Ordered(active), NEW P, P = writer.pointsPerElement,
         NEW T, T = {MeshArrays(real)[k] : k \in 1 .. 4} \cup FieldArrays(real, elements, P)
                    \cup CellArrays("real", real, N) \cup CellArrays("int", IntWidth, N)
  PROVE  /\ arrays \in Seq(T)
         /\ \A k \in 1 .. 4 : arrays[k] = MeshArrays(real)[k]
<1>1. writer.realWidth = real
  BY DEF Filling, NewWriter
<1>2. PICK first, s, t, u :
        /\ first = MeshArrays(real)
        /\ s = [k \in DOMAIN fields |-> DataArray("point data", "real", real, fields[k].components, fields[k].values)]
        /\ t = [k \in DOMAIN OfType("real") |-> DataArray("cell data", "real", real, 1, OfType("real")[k].values)]
        /\ u = [k \in DOMAIN OfType("int") |-> DataArray("cell data", "int", IntWidth, 1, OfType("int")[k].values)]
  OBVIOUS
<1>3. arrays = first \o s \o t \o u
  BY <1>1, <1>2 DEF Arrays, MeshArrays
<1>4. first \in Seq(T) /\ Len(first) = 4
  <2>1. PICK a1, a2, a3, a4 : first = <<a1, a2, a3, a4>>
    BY <1>2 DEF MeshArrays
  <2>2. \A k \in 1 .. 4 : first[k] \in T
    BY <1>2
  <2>3. first[1] = a1 /\ first[2] = a2 /\ first[3] = a3 /\ first[4] = a4
    BY <2>1
  <2>4. a1 \in T /\ a2 \in T /\ a3 \in T /\ a4 \in T
    BY <2>2, <2>3
  <2> QED BY <2>1, <2>4
<1>5. s \in Seq(T)
  <2>1. fields \in Seq(AllFields(elements, P))
    BY DEF Filling
  <2>2. PICK l : l = Len(fields)
    OBVIOUS
  <2>3. l \in Nat /\ DOMAIN fields = 1 .. l
    BY <2>1, <2>2
  <2>4. ASSUME NEW k \in 1 .. l
        PROVE  s[k] \in T
    <3>1. fields[k] \in AllFields(elements, P)
      BY <2>1, <2>2, ElementOfSeq
    <3>2. s[k] = DataArray("point data", "real", real, fields[k].components, fields[k].values)
      BY <1>2, <2>3
    <3>3. s[k] \in FieldArrays(real, elements, P)
      BY <3>1, <3>2 DEF FieldArrays
    <3> QED BY <3>3
  <2>5. s \in [1 .. l -> T]
    BY <1>2, <2>3, <2>4
  <2> QED BY <2>3, <2>5, FunctionIsSeq
<1>6. ASSUME NEW type \in {"real", "int"}, NEW width, CellArrays(type, width, N) \subseteq T,
             NEW v, v = [k \in DOMAIN OfType(type) |-> DataArray("cell data", type, width, 1, OfType(type)[k].values)]
      PROVE  v \in Seq(T)
  <2>1. PICK some : some = OfType(type)
    OBVIOUS
  <2>2. some \in Seq(AllCells(N))
    <3>1. cells \in Seq(AllCells(N))
      BY DEF Filling
    <3> QED BY <2>1, <3>1, SomeOfType
  <2>3. PICK l : l = Len(some)
    OBVIOUS
  <2>4. l \in Nat /\ DOMAIN some = 1 .. l
    BY <2>2, <2>3
  <2>5. ASSUME NEW k \in 1 .. l
        PROVE  v[k] \in T
    <3>1. some[k] \in AllCells(N)
      BY <2>2, <2>3, ElementOfSeq
    <3>2. v[k] = DataArray("cell data", type, width, 1, some[k].values)
      BY <1>6, <2>1, <2>4
    <3>3. v[k] \in CellArrays(type, width, N)
      BY <3>1, <3>2 DEF CellArrays
    <3> QED BY <1>6, <3>3
  <2>6. v \in [1 .. l -> T]
    BY <1>6, <2>1, <2>4, <2>5
  <2> QED BY <2>4, <2>6, FunctionIsSeq
<1>7. t \in Seq(T) /\ u \in Seq(T)
  BY <1>2, <1>6
<1>8. arrays \in Seq(T) /\ \A k \in 1 .. Len(first) : arrays[k] = first[k]
  <2>1. OfFour(arrays, T, first, s, t, u)
    BY <1>3, <1>4, <1>5, <1>7 DEF OfFour
  <2> QED BY <2>1, FourParts
<1> QED BY <1>2, <1>3, <1>4, <1>8

\* Each of them is an array whose values are at the points and cells they are of.
LEMMA ArraysFit ==
  ASSUME NEW n, NEW real, Filling(n, real), NEW arrays, arrays = Arrays(FillPointsAndConnectivity),
         NEW file, file.numPoints = NumPoints(writer), file.numCells = NumCells(writer)
  PROVE  ArraysOK(arrays) /\ FileFits(Source, file, arrays)
<1>1. GridOK /\ n \in PointBoxes /\ real \in Nat /\ writer = NewWriter(n, real) /\ CanFill
  BY DEF Filling, RealWidths
<1>2. PICK N, elements, P : N = NumCells(writer) /\ elements = Ordered(active) /\ P = writer.pointsPerElement
  OBVIOUS
<1>3. N \in Nat
  <2>1. writer.elements \in Nat /\ writer.cellsPerElement \in Nat
    BY <1>1, WriterIs
  <2> QED BY <1>2, <2>1, ProductIs DEF NumCells
<1>4. PICK T : T = {MeshArrays(real)[k] : k \in 1 .. 4} \cup FieldArrays(real, elements, P)
                   \cup CellArrays("real", real, N) \cup CellArrays("int", IntWidth, N)
  OBVIOUS
<1>5. arrays \in Seq(T) /\ \A k \in 1 .. 4 : arrays[k] = MeshArrays(real)[k]
  BY <1>2, <1>4, ArraysAre
<1>6. /\ arrays[1].components = 3 /\ arrays[1].values = Numbers(FillPointsAndConnectivity.points)
      /\ arrays[2].values = Numbers(FillPointsAndConnectivity.connectivity)
      /\ arrays[3].values = [c \in 1 .. NumCells(writer) |-> VerticesOfCell(size) * c]
      /\ arrays[4].values = [c \in 1 .. NumCells(writer) |-> writer.cellType]
  <2>1. /\ arrays[1] = DataArray("points", "real", real, 3, Numbers(FillPointsAndConnectivity.points))
        /\ arrays[2] = DataArray("cells", "int", IntWidth, 1, Numbers(FillPointsAndConnectivity.connectivity))
        /\ arrays[3] = DataArray("cells", "int", IntWidth, 1, [c \in 1 .. NumCells(writer) |-> VerticesOfCell(size) * c])
        /\ arrays[4] = DataArray("cells", "uchar", UcharWidth, 1, [c \in 1 .. NumCells(writer) |-> writer.cellType])
    BY <1>5 DEF MeshArrays
  <2> QED BY <2>1 DEF DataArray
<1>7. MeshFits(Source, file, arrays)
  BY <1>1, <1>6, MeshIsFit
<1>8. ASSUME NEW a \in {MeshArrays(real)[k] : k \in 1 .. 4}
      PROVE  IsArray(a) /\ DataFits(Source, file, arrays, a)
  <2>1. PICK k \in 1 .. 4 : a = MeshArrays(real)[k]
    OBVIOUS
  <2>2. IsArray(a)
    BY <2>1, MeshArraysAre
  <2>3. a.section \in {"points", "cells"}
    BY <2>1 DEF MeshArrays, DataArray
  <2> QED BY <2>2, <2>3 DEF DataFits
<1>9. ASSUME NEW a \in FieldArrays(real, elements, P)
      PROVE  IsArray(a) /\ DataFits(Source, file, arrays, a)
  <2>1. PICK f \in AllFields(elements, P) : a = DataArray("point data", "real", real, f.components, f.values)
    BY DEF FieldArrays
  <2>2. DataFits(Source, file, arrays, a)
    BY <1>1, <1>2, <1>6, <2>1, FieldFits
  <2>3. f.values \in Seq(Labels)
    <3>1. PICK m : m = writer.elements
      OBVIOUS
    <3>2. m \in Nat /\ P \in Nat \ {0} /\ active = 0 .. m - 1
      BY <1>1, <1>2, <3>1, WriterIs, AllElements
    <3>3. elements = [k \in 1 .. m |-> k - 1]
      BY <1>2, <3>2, OrderedIds
    <3>4. PICK z \in (Nat \ {0}) \X Nat : f = [components |-> z[1], values |-> FieldValues(z[2], elements, P, z[1])]
      BY <2>1 DEF AllFields
    <3>5. z[1] \in Nat \ {0} /\ z[2] \in Nat
      BY <3>4
    <3>6. ValuesOf(f.values, z[2], m, P, z[1])
      BY <3>2, <3>3, <3>4, <3>5 DEF ValuesOf
    <3> QED BY <3>6, FieldValuesAre
  <2>4. IsArray(a)
    BY <1>1, <2>1, <2>3, ArrayIs
  <2> QED BY <2>2, <2>4
<1>10. ASSUME NEW type \in {"real", "int"}, NEW width \in Nat, NEW a \in CellArrays(type, width, N)
       PROVE  IsArray(a) /\ DataFits(Source, file, arrays, a)
  <2>1. PICK d \in AllCells(N) : a = DataArray("cell data", type, width, 1, d.values)
    BY DEF CellArrays
  <2>2. DataFits(Source, file, arrays, a)
    <3>1. PICK source : source = Source
      OBVIOUS
    <3>2. file.numCells \in Nat /\ d \in AllCells(file.numCells)
      BY <1>2, <1>3, <2>1
    <3>3. DataFits(source, file, arrays, a)
      BY <2>1, <3>2, CellsFit
    <3> QED BY <3>1, <3>3
  <2>3. d.values \in Seq({d.values[c] : c \in 1 .. N})
    <3>1. PICK z \in {"real", "int"} \X Nat : d = [type |-> z[1], values |-> CellValues(z[2], N)]
      BY <2>1 DEF AllCells
    <3>2. d.values = [c \in 1 .. N |-> <<z[2], c>>]
      BY <3>1 DEF CellValues
    <3>3. d.values \in [1 .. N -> {d.values[c] : c \in 1 .. N}]
      BY <3>2
    <3> QED BY <1>3, <3>3, FunctionIsSeq
  <2>4. IsArray(a)
    BY <2>1, <2>3, ArrayIs
  <2> QED BY <2>2, <2>4
<1>11. ASSUME NEW k \in DOMAIN arrays
       PROVE  IsArray(arrays[k]) /\ DataFits(Source, file, arrays, arrays[k])
  <2>1. arrays[k] \in T
    BY <1>5, ElementOfSeq
  <2>2. IntWidth \in Nat
    BY DEF IntWidth
  <2>3. PICK a : a = arrays[k]
    OBVIOUS
  <2>4. IsArray(a) /\ DataFits(Source, file, arrays, a)
    BY <1>1, <1>4, <1>8, <1>9, <1>10, <2>1, <2>2, <2>3
  <2> QED BY <2>3, <2>4
<1> QED BY <1>5, <1>7, <1>11 DEF ArraysOK, IsArray, FileFits

-------------------------------------------------------------------------------
(* The life of a writer.                                                   *)

\* A file that is saved holds what it should, in either format.
LEMMA SavedFits ==
  ASSUME NEW n, NEW real, Filling(n, real), NEW mesh, mesh = FillPointsAndConnectivity,
         NEW file, file \in {SaveAscii(mesh), SaveAppended(mesh)}
  PROVE  Readable(file) /\ FileFits(Source, file, ReadArrays(file))
<1>1. PICK arrays : arrays = Arrays(mesh)
  OBVIOUS
<1>2. file.numPoints = NumPoints(writer) /\ file.numCells = NumCells(writer)
  BY DEF SaveAscii, SaveAppended
<1>3. ArraysOK(arrays) /\ FileFits(Source, file, arrays)
  BY <1>1, <1>2, ArraysFit
<1>4. Readable(file) /\ ReadArrays(file) = arrays
  <2>1. CASE file = SaveAscii(mesh)
    BY <1>1, <2>1 DEF SaveAscii, Readable, ReadArrays
  <2>2. CASE file = SaveAppended(mesh)
    <3>1. /\ file.kind = "appended" /\ file.data = AppendedData(arrays)
          /\ file.headers = [k \in DOMAIN arrays |-> Header(arrays, k)]
      BY <1>1, <2>2 DEF SaveAppended, Header
    <3> QED BY <1>3, <3>1, AppendedIsRead
  <2> QED BY <2>1, <2>2
<1> QED BY <1>3, <1>4

\* What the writer holds: fields and cell data of its grid.
DataOK ==
  /\ fields \in Seq(AllFields(Ordered(active), writer.pointsPerElement))
  /\ cells \in Seq(AllCells(NumCells(writer)))

\* What a writer always is: made for the grid, which does not change while it
\* lives, with data of the grid's elements and a file that holds the mesh.
WriterInv ==
  /\ GridOK
  /\ writer = None => saved = None /\ fields = <<>> /\ cells = <<>>
  /\ writer # None => DataOK /\ \E n \in PointBoxes, real \in RealWidths : writer = NewWriter(n, real)
  /\ FilesRendered

\* A grid has all its elements, and no writer.
LEMMA WriterBegins ==
  WriterInit => WriterInv
<1> SUFFICES ASSUME WriterInit
             PROVE  WriterInv
  OBVIOUS
<1>1. PICK r \in 1 .. 3 : size \in [0 .. r - 1 -> Nat \ {0}]
  BY FilesAssumption DEF WriterInit
<1>2. size \in Box(r)
  BY <1>1 DEF Box, Dirs
<1>3. RankOf(size) = r
  BY <1>2, BoxIndices
<1>4. GridOK
  BY <1>2, <1>3 DEF WriterInit, GridOK
<1>5. writer = None /\ saved = None /\ fields = <<>> /\ cells = <<>> /\ None.kind = "none"
  BY DEF WriterInit, None
<1> QED BY <1>4, <1>5 DEF WriterInv, FilesRendered

\* A field that is made has the values of the grid's points.
LEMMA FieldIsOne ==
  ASSUME GridOK, DataOK, NEW rank \in 0 .. 2
  PROVE  NewField(rank) \in AllFields(Ordered(active), writer.pointsPerElement)
<1>1. PICK q, label : q = NumComponents(rank) /\ label = Len(fields)
  OBVIOUS
<1>2. q \in Nat \ {0}
  <2>1. PICK r \in 1 .. 3 : r = RankOf(size)
    BY DEF GridOK
  <2>2. q = <<1, r, r * r>>[rank + 1]
    BY <1>1, <2>1 DEF NumComponents
  <2>3. r * r \in Nat \ {0} /\ r \in Nat \ {0}
    OBVIOUS
  <2>4. rank = 0 \/ rank = 1 \/ rank = 2
    OBVIOUS
  <2> QED BY <2>2, <2>3, <2>4
<1>3. label \in Nat
  BY <1>1 DEF DataOK
<1>4. PICK z : z = <<q, label>>
  OBVIOUS
<1>5. z \in (Nat \ {0}) \X Nat /\ z[1] = q /\ z[2] = label
  BY <1>2, <1>3, <1>4
<1>6. NewField(rank) = [components |-> z[1], values |-> FieldValues(z[2], Ordered(active), writer.pointsPerElement, z[1])]
  BY <1>1, <1>5 DEF NewField
<1> QED BY <1>5, <1>6 DEF AllFields

\* The writer's file stays what it is when the grid and the writer do.
LEMMA FileStays ==
  ASSUME FilesRendered, UNCHANGED <<size, active, writer, saved>>
  PROVE  FilesRendered'
<1>1. Source' = Source
  BY DEF Source
<1>2. PICK source, file : source = Source /\ file = saved
  OBVIOUS
<1>3. Source' = source /\ saved' = file
  BY <1>1, <1>2
<1>4. file.kind \in {"ascii", "appended"} => Readable(file) /\ FileFits(source, file, ReadArrays(file))
  BY <1>2 DEF FilesRendered
<1> QED BY <1>3, <1>4 DEF FilesRendered

\* Every step of a writer keeps what it is.
LEMMA WriterKept ==
  ASSUME WriterInv, WriterNext
  PROVE  WriterInv'
<1>1. CASE Construct
  <2>1. writer = None /\ UNCHANGED <<size, active, fields, cells, saved>>
    BY <1>1 DEF Construct
  <2>2. PICK n \in [DOMAIN size -> PointNumbers], real \in RealWidths : writer' = NewWriter(n, real)
    BY <1>1 DEF Construct
  <2>3. n \in PointBoxes
    <3>1. DOMAIN size = Dirs(RankOf(size))
      BY DEF WriterInv, GridOK, Box
    <3> QED BY <3>1, FilesAssumption DEF PointBoxes
  <2>4. NewWriter(n, real)' = NewWriter(n, real) /\ PointBoxes' = PointBoxes /\ GridOK'
    BY <2>1 DEF NewWriter, PointBoxes, WriterInv, GridOK
  <2>5. writer' # None
    <3>1. NewWriter(n, real).kind = "writer" /\ None.kind = "none"
      BY DEF NewWriter, None
    <3> QED BY <2>2, <3>1
  <2>6. fields' = <<>> /\ cells' = <<>> /\ saved' = None
    BY <2>1 DEF WriterInv
  <2>7. DataOK'
    <3>1. \A T : <<>> \in Seq(T)
      OBVIOUS
    <3> QED BY <2>6, <3>1 DEF DataOK
  <2>8. FilesRendered'
    BY <2>6 DEF FilesRendered, None
  <2> QED BY <2>2, <2>3, <2>4, <2>5, <2>7, <2>8 DEF WriterInv
<1>2. CASE SwitchOff
  <2>1. writer = None /\ UNCHANGED <<size, writer, fields, cells, saved>> /\ active' \subseteq active
    BY <1>2 DEF SwitchOff
  <2>2. GridOK'
    BY <2>1 DEF WriterInv, GridOK
  <2>3. writer' = None /\ saved' = None /\ fields' = <<>> /\ cells' = <<>>
    BY <2>1 DEF WriterInv
  <2>4. FilesRendered'
    BY <2>3 DEF FilesRendered, None
  <2> QED BY <2>2, <2>3, <2>4 DEF WriterInv
<1>3. ASSUME NEW rank \in 0 .. 2, AddField(rank) \/ AddPointData(rank)
      PROVE  WriterInv'
  <2>1. /\ writer # None /\ UNCHANGED <<size, active, writer, cells, saved>>
        /\ fields' = Append(fields, NewField(rank))
    BY <1>3 DEF AddField, AddPointData
  <2>2. DataOK /\ GridOK
    BY <2>1 DEF WriterInv
  <2>3. PICK A : A = AllFields(Ordered(active), writer.pointsPerElement)
    OBVIOUS
  <2>4. fields' \in Seq(A)
    <3>1. NewField(rank) \in A
      BY <2>2, <2>3, FieldIsOne
    <3>2. fields \in Seq(A)
      BY <2>2, <2>3 DEF DataOK
    <3> QED BY <2>1, <3>1, <3>2, AppendProperties
  <2>5. AllFields(Ordered(active), writer.pointsPerElement)' = A
    BY <2>1, <2>3
  <2>6. DataOK'
    BY <2>1, <2>2, <2>4, <2>5 DEF DataOK, NumCells
  <2>7. FilesRendered'
    BY <2>1, FileStays DEF WriterInv
  <2>8. GridOK' /\ \E n \in PointBoxes', real \in RealWidths : writer' = NewWriter(n, real)'
    BY <2>1 DEF WriterInv, GridOK, PointBoxes, NewWriter
  <2>9. writer' # None
    BY <2>1
  <2> QED BY <2>6, <2>7, <2>8, <2>9 DEF WriterInv
<1>4. ASSUME NEW type \in {"real", "int"}, AddElementData(type)
      PROVE  WriterInv'
  <2>1. /\ writer # None /\ UNCHANGED <<size, active, writer, fields, saved>>
        /\ cells' = Append(cells, [type |-> type, values |-> CellValues(Len(cells), NumCells(writer))])
    BY <1>4 DEF AddElementData
  <2>2. DataOK /\ GridOK
    BY <2>1 DEF WriterInv
  <2>3. PICK A, N : N = NumCells(writer) /\ A = AllCells(N)
    OBVIOUS
  <2>4. cells' \in Seq(A)
    <3>1. PICK z : z = <<type, Len(cells)>>
      OBVIOUS
    <3>2. cells \in Seq(A)
      BY <2>2, <2>3 DEF DataOK
    <3>3. z \in {"real", "int"} \X Nat /\ z[1] = type /\ z[2] = Len(cells)
      BY <3>1, <3>2
    <3>4. PICK d : d = [type |-> z[1], values |-> CellValues(z[2], N)]
      OBVIOUS
    <3>5. d \in A
      BY <2>3, <3>3, <3>4 DEF AllCells
    <3>6. cells' = Append(cells, d)
      BY <2>1, <2>3, <3>3, <3>4
    <3> QED BY <3>2, <3>5, <3>6, AppendProperties
  <2>5. AllCells(NumCells(writer))' = A
    BY <2>1, <2>3 DEF NumCells
  <2>6. DataOK'
    BY <2>1, <2>2, <2>4, <2>5 DEF DataOK
  <2>7. FilesRendered'
    BY <2>1, FileStays DEF WriterInv
  <2>8. GridOK' /\ \E n \in PointBoxes', real \in RealWidths : writer' = NewWriter(n, real)'
    BY <2>1 DEF WriterInv, GridOK, PointBoxes, NewWriter
  <2>9. writer' # None
    BY <2>1
  <2> QED BY <2>6, <2>7, <2>8, <2>9 DEF WriterInv
<1>5. ASSUME NEW format \in {"ascii", "appended"}, Save(format)
      PROVE  WriterInv'
  <2>1. writer # None /\ UNCHANGED <<size, active, writer, fields, cells>>
    BY <1>5 DEF Save
  <2>2. DataOK /\ GridOK
    BY <2>1 DEF WriterInv
  <2>3. PICK n \in PointBoxes, real \in RealWidths : writer = NewWriter(n, real)
    BY <2>1 DEF WriterInv
  <2>4. DataOK'
    BY <2>1, <2>2 DEF DataOK, NumCells
  <2>5. GridOK' /\ \E m \in PointBoxes', width \in RealWidths : writer' = NewWriter(m, width)'
    BY <2>1, <2>2, <2>3 DEF GridOK, PointBoxes, NewWriter
  <2>6. FilesRendered'
    <3>1. CASE CanFill
      <4>1. Filling(n, real)
        BY <2>2, <2>3, <3>1 DEF Filling, DataOK
      <4>2. PICK mesh, file, source : mesh = FillPointsAndConnectivity /\ file = saved' /\ source = Source
        OBVIOUS
      <4>3. file \in {SaveAscii(mesh), SaveAppended(mesh)}
        BY <1>5, <3>1, <4>2 DEF Save
      <4>4. Readable(file) /\ FileFits(source, file, ReadArrays(file))
        BY <4>1, <4>2, <4>3, SavedFits
      <4>5. Source' = source
        BY <2>1, <4>2 DEF Source
      <4> QED BY <4>2, <4>4, <4>5 DEF FilesRendered
    <3>2. CASE ~CanFill
      <4>1. saved' = Stopped
        BY <1>5, <3>2 DEF Save
      <4> QED BY <4>1 DEF FilesRendered, Stopped
    <3> QED BY <3>1, <3>2
  <2>7. writer' # None
    BY <2>1
  <2> QED BY <2>4, <2>5, <2>6, <2>7 DEF WriterInv
<1> QED BY <1>1, <1>2, <1>3, <1>4, <1>5 DEF WriterNext

-------------------------------------------------------------------------------
(* The log.                                                                *)

\* What a log is made of: heads and texts of lines, the console and the files.
Marks == Nat \cup LoggedNumbers \cup {NaN}
Sinks == {Console} \cup Files
Line == [head : Seq(Marks), text : Seq(Marks), depth : Nat, std_depth : Nat, cerr : Sinks,
         file_depth : Nat, file : Files \cup {NoFile}]

\* One part more is put behind the others.
LEMMA JoinGrows ==
  ASSUME NEW n \in Nat, NEW part, NEW more, \A k \in 1 .. n : more[k] = part[k]
  PROVE  Join(n + 1, more) = Join(n, part) \o more[n + 1]
<1>1. PICK old : /\ old[0] = <<>>
                 /\ \A k \in 1 .. n : old[k] = old[k - 1] \o part[k]
                 /\ Join(n, part) = old[n]
  BY JoinDefined
<1>2. PICK new : /\ new[0] = <<>>
                 /\ \A k \in 1 .. n + 1 : new[k] = new[k - 1] \o more[k]
                 /\ Join(n + 1, more) = new[n + 1]
  <2>1. n + 1 \in Nat
    OBVIOUS
  <2> QED BY <2>1, JoinDefined
<1>3. PICK S : S = {m \in Nat : m <= n => new[m] = old[m]}
  OBVIOUS
<1>4. 0 \in S
  BY <1>1, <1>2, <1>3
<1>5. ASSUME NEW m \in Nat, m \in S
      PROVE  m + 1 \in S
  <2>1. SUFFICES ASSUME m + 1 <= n
                 PROVE  new[m + 1] = old[m + 1]
    BY <1>3
  <2>2. m + 1 \in 1 .. n /\ m + 1 \in 1 .. n + 1 /\ (m + 1) - 1 = m /\ m <= n
    BY <2>1
  <2>3. new[m] = old[m]
    BY <1>3, <1>5, <2>2
  <2>4. new[m + 1] = new[m] \o more[m + 1] /\ old[m + 1] = old[m] \o part[m + 1]
    BY <1>1, <1>2, <2>2
  <2> QED BY <2>2, <2>3, <2>4
<1>6. new[n] = old[n]
  <2>1. n \in S
    BY <1>4, <1>5, NatInSet
  <2> QED BY <1>3, <2>1
<1>7. n + 1 \in 1 .. n + 1 /\ (n + 1) - 1 = n
  OBVIOUS
<1> QED BY <1>1, <1>2, <1>6, <1>7

\* A line that ends leaves its piece and its text behind those of the others.
LEMMA LineAdds ==
  ASSUME NEW ended \in Seq(Line), NEW line \in Line
  PROVE  /\ \A s \in Sinks : Shown(Append(ended, line), s) = Shown(ended, s) \o PieceOf(line, s)
         /\ Texts(Append(ended, line)) = Texts(ended) \o line.text
<1>1. PICK more : more = Append(ended, line)
  OBVIOUS
<1>2. PICK m : m = Len(ended)
  OBVIOUS
<1>3. /\ m \in Nat /\ Len(more) = m + 1 /\ more[m + 1] = line
      /\ m + 1 \in DOMAIN more
      /\ \A n \in 1 .. m : more[n] = ended[n] /\ n \in DOMAIN more /\ n \in DOMAIN ended
  BY <1>1, <1>2
<1>4. ASSUME NEW s \in Sinks
      PROVE  Shown(more, s) = Shown(ended, s) \o PieceOf(line, s)
  <2>1. PICK old : old = [n \in DOMAIN ended |-> PieceOf(ended[n], s)]
    OBVIOUS
  <2>2. PICK new : new = [n \in DOMAIN more |-> PieceOf(more[n], s)]
    OBVIOUS
  <2>3. \A n \in 1 .. m : new[n] = old[n]
    BY <1>3, <2>1, <2>2
  <2>4. new[m + 1] = PieceOf(line, s)
    BY <1>3, <2>2
  <2>5. Join(m + 1, new) = Join(m, old) \o new[m + 1]
    BY <1>3, <2>3, JoinGrows
  <2>6. Shown(more, s) = Join(m + 1, new) /\ Shown(ended, s) = Join(m, old)
    BY <1>2, <1>3, <2>1, <2>2 DEF Shown
  <2> QED BY <2>4, <2>5, <2>6
<1>5. Texts(more) = Texts(ended) \o line.text
  <2>1. PICK old : old = [n \in DOMAIN ended |-> ended[n].text]
    OBVIOUS
  <2>2. PICK new : new = [n \in DOMAIN more |-> more[n].text]
    OBVIOUS
  <2>3. \A n \in 1 .. m : new[n] = old[n]
    BY <1>3, <2>1, <2>2
  <2>4. new[m + 1] = line.text
    BY <1>3, <2>2
  <2>5. Join(m + 1, new) = Join(m, old) \o new[m + 1]
    BY <1>3, <2>3, JoinGrows
  <2>6. Texts(more) = Join(m + 1, new) /\ Texts(ended) = Join(m, old)
    BY <1>2, <1>3, <2>1, <2>2 DEF Texts
  <2> QED BY <2>4, <2>5, <2>6
<1> QED BY <1>1, <1>4, <1>5

\* The texts of lines are marks.
LEMMA TextsAreMarks ==
  ASSUME NEW ended \in Seq(Line)
  PROVE  Texts(ended) \in Seq(Marks)
<1>1. PICK part : part = [n \in DOMAIN ended |-> ended[n].text]
  OBVIOUS
<1>2. ASSUME NEW n \in 1 .. Len(ended)
      PROVE  part[n] \in Seq(Marks)
  <2>1. n \in DOMAIN ended /\ ended[n] \in Line
    OBVIOUS
  <2>2. ended[n].text \in Seq(Marks)
    BY <2>1 DEF Line
  <2> QED BY <1>1, <2>1, <2>2
<1>3. Join(Len(ended), part) \in Seq(Marks)
  BY <1>2, JoinInSeq
<1> QED BY <1>1, <1>3 DEF Texts

\* A head and a text behind what was written.
LEMMA TwoMore ==
  ASSUME NEW T, NEW s \in Seq(T), NEW x \in T, NEW y \in T
  PROVE  Append(Append(s, x), y) = s \o <<x, y>>
OBVIOUS

\* Two heads and two texts behind what was written.
LEMMA FourMore ==
  ASSUME NEW T, NEW s \in Seq(T), NEW x \in T, NEW y \in T
  PROVE  Append(Append(Append(Append(s, x), x), y), y) = s \o <<x, x, y, y>>
OBVIOUS

\* What one mark leaves: a copy by each way that leads to a sink.
LEMMA SentIs ==
  ASSUME cerr \in Sinks, log_file \in Files \cup {NoFile},
         NEW written \in [Sinks -> Seq(Seq(Marks))], NEW mark \in Seq(Marks)
  PROVE  /\ Send(written, mark) \in [Sinks -> Seq(Seq(Marks))]
         /\ \A s \in Sinks :
              Send(written, mark)[s] =
                IF OnConsole /\ cerr = s
                THEN IF InFile /\ log_file = s THEN Append(Append(written[s], mark), mark) ELSE Append(written[s], mark)
                ELSE IF InFile /\ log_file = s THEN Append(written[s], mark) ELSE written[s]
<1>1. PICK copied : copied = IF OnConsole THEN Put(written, cerr, mark) ELSE written
  OBVIOUS
<1>2. /\ copied \in [Sinks -> Seq(Seq(Marks))]
      /\ \A s \in Sinks : copied[s] = IF OnConsole /\ cerr = s THEN Append(written[s], mark) ELSE written[s]
  BY <1>1 DEF Put
<1>3. Send(written, mark) = IF InFile THEN Put(copied, log_file, mark) ELSE copied
  BY <1>1 DEF Send
<1>4. InFile => log_file \in Sinks
  BY DEF InFile, Sinks
<1>5. /\ Send(written, mark) \in [Sinks -> Seq(Seq(Marks))]
      /\ \A s \in Sinks : Send(written, mark)[s] = IF InFile /\ log_file = s THEN Append(copied[s], mark) ELSE copied[s]
  BY <1>2, <1>3, <1>4 DEF Put
<1> QED BY <1>2, <1>5

\* What a log always is: sections with heads, the text of a line that has not
\* ended, depths that are set, the ways of lines, lines that have ended, and what
\* was written.
LogInv ==
  /\ prefixes \in Seq(Seq(Marks)) /\ Len(prefixes) > 0
  /\ stream \in Seq(Marks) /\ printed \in Seq(Marks)
  /\ std_depth \in Nat /\ file_depth \in Nat
  /\ log_file \in Files \cup {NoFile} /\ cerr \in Sinks
  /\ content \in [Sinks -> Seq(Seq(Marks))]
  /\ lines \in Seq(Line)
  /\ LinesWhole

\* The log begins empty.
LEMMA LogBegins ==
  LogInit => LogInv
<1> SUFFICES ASSUME LogInit
             PROVE  LogInv
  OBVIOUS
<1>1. lines = <<>> /\ lines \in Seq(Line) /\ Len(lines) = 0
  BY DEF LogInit
<1>2. \A part : Join(0, part) = <<>>
  <2>1. ASSUME NEW part
        PROVE  Join(0, part) = <<>>
    BY JoinDefined
  <2> QED BY <2>1
<1>3. Texts(lines) = <<>> /\ \A s \in Sinks : Shown(lines, s) = <<>>
  BY <1>1, <1>2 DEF Texts, Shown
<1>4. prefixes \in Seq(Seq(Marks)) /\ Len(prefixes) > 0
  <2>1. <<>> \in Seq(Marks)
    OBVIOUS
  <2> QED BY <2>1 DEF LogInit
<1>5. stream = <<>> /\ printed = <<>> /\ <<>> \in Seq(Marks) /\ <<>> \o <<>> = <<>>
  BY DEF LogInit
<1>6. std_depth \in Nat /\ file_depth \in Nat /\ log_file \in Files \cup {NoFile} /\ cerr \in Sinks
  BY DEF LogInit, FarDown, Sinks
<1>7. content \in [Sinks -> Seq(Seq(Marks))] /\ \A s \in Sinks : content[s] = <<>>
  BY DEF LogInit, Sinks
<1>8. LinesWhole
  BY <1>3, <1>5, <1>7 DEF LinesWhole, LogInit, Sinks
<1> QED BY <1>1, <1>4, <1>5, <1>6, <1>7, <1>8 DEF LogInv

\* The end of a line leaves its piece in the console and the files.
LEMMA LineKept ==
  ASSUME LogInv, LineEnds
  PROVE  /\ stream' = <<>> /\ stream' \in Seq(Marks) /\ printed' = printed
         /\ content' \in [Sinks -> Seq(Seq(Marks))]
         /\ lines' \in Seq(Line)
         /\ \A s \in Sinks : content'[s] = Shown(lines', s)
         /\ Texts(lines') \o stream' = printed'
<1> USE DEF LogInv
<1>1. TopOf(prefixes) \in Seq(Marks)
  BY DEF TopOf
<1>2. PICK line : line = [head |-> TopOf(prefixes), text |-> stream, depth |-> Len(prefixes),
                          std_depth |-> std_depth, cerr |-> cerr,
                          file_depth |-> file_depth, file |-> log_file]
  OBVIOUS
<1>3. line \in Line
  BY <1>1, <1>2 DEF Line
<1>4. lines' = Append(lines, line) /\ lines' \in Seq(Line)
  BY <1>2, <1>3 DEF LineEnds
<1>5. PICK headed : headed = Send(content, TopOf(prefixes))
  OBVIOUS
<1>6. /\ headed \in [Sinks -> Seq(Seq(Marks))]
      /\ \A s \in Sinks :
           headed[s] =
             IF OnConsole /\ cerr = s
             THEN IF InFile /\ log_file = s THEN Append(Append(content[s], TopOf(prefixes)), TopOf(prefixes))
                  ELSE Append(content[s], TopOf(prefixes))
             ELSE IF InFile /\ log_file = s THEN Append(content[s], TopOf(prefixes)) ELSE content[s]
  BY <1>1, <1>5, SentIs
<1>7. content' = Send(headed, stream)
  BY <1>5 DEF LineEnds, PrintLineHead
<1>8. /\ content' \in [Sinks -> Seq(Seq(Marks))]
      /\ \A s \in Sinks :
           content'[s] =
             IF OnConsole /\ cerr = s
             THEN IF InFile /\ log_file = s THEN Append(Append(headed[s], stream), stream) ELSE Append(headed[s], stream)
             ELSE IF InFile /\ log_file = s THEN Append(headed[s], stream) ELSE headed[s]
  BY <1>6, <1>7, SentIs
<1>9. ASSUME NEW s \in Sinks
      PROVE  content'[s] = content[s] \o PieceOf(line, s)
  <2>1. ByCerr(line, s) <=> OnConsole /\ cerr = s
    BY <1>2 DEF ByCerr, OnConsole
  <2>2. ByFile(line, s) <=> InFile /\ log_file = s
    <3>1. s # NoFile
      BY LogAssumption DEF Sinks, Console, NoFile
    <3> QED BY <1>2, <3>1 DEF ByFile, InFile
  <2>3. PieceOf(line, s) =
          IF ByCerr(line, s) /\ ByFile(line, s) THEN <<TopOf(prefixes), TopOf(prefixes), stream, stream>>
          ELSE IF ByCerr(line, s) \/ ByFile(line, s) THEN <<TopOf(prefixes), stream>> ELSE <<>>
    <3>1. line.head = TopOf(prefixes) /\ line.text = stream
      BY <1>2
    <3>2. ByCerr(line, s) \in BOOLEAN /\ ByFile(line, s) \in BOOLEAN
      BY DEF ByCerr, ByFile
    <3>3. CASE ByCerr(line, s) /\ ByFile(line, s)
      BY <3>1, <3>3 DEF PieceOf
    <3>4. CASE ByCerr(line, s) # ByFile(line, s)
      BY <3>1, <3>2, <3>4 DEF PieceOf
    <3>5. CASE ~ByCerr(line, s) /\ ~ByFile(line, s)
      BY <3>1, <3>2, <3>5 DEF PieceOf
    <3> QED BY <3>2, <3>3, <3>4, <3>5
  <2>4. /\ Append(Append(content[s], TopOf(prefixes)), stream) = content[s] \o <<TopOf(prefixes), stream>>
        /\ Append(Append(Append(Append(content[s], TopOf(prefixes)), TopOf(prefixes)), stream), stream)
             = content[s] \o <<TopOf(prefixes), TopOf(prefixes), stream, stream>>
        /\ content[s] \o <<>> = content[s]
    <3>1. content \in [Sinks -> Seq(Seq(Marks))] /\ stream \in Seq(Marks)
      BY DEF LogInv
    <3>2. content[s] \in Seq(Seq(Marks))
      BY <3>1
    <3>3. PICK T, w, x, y : T = Seq(Marks) /\ w = content[s] /\ x = TopOf(prefixes) /\ y = stream
      OBVIOUS
    <3>4. w \in Seq(T) /\ x \in T /\ y \in T
      BY <1>1, <3>1, <3>2, <3>3
    <3>5. /\ Append(Append(w, x), y) = w \o <<x, y>>
          /\ Append(Append(Append(Append(w, x), x), y), y) = w \o <<x, x, y, y>>
          /\ w \o <<>> = w
      <4>1. Append(Append(w, x), y) = w \o <<x, y>>
        BY <3>4, TwoMore
      <4>2. Append(Append(Append(Append(w, x), x), y), y) = w \o <<x, x, y, y>>
        BY <3>4, FourMore
      <4>3. w \o <<>> = w
        BY <3>4
      <4> QED BY <4>1, <4>2, <4>3
    <3> QED BY <3>3, <3>5
  <2>5. CASE ByCerr(line, s) /\ ByFile(line, s)
    BY <1>6, <1>8, <2>1, <2>2, <2>3, <2>4, <2>5
  <2>6. CASE ByCerr(line, s) /\ ~ByFile(line, s)
    BY <1>6, <1>8, <2>1, <2>2, <2>3, <2>4, <2>6
  <2>7. CASE ~ByCerr(line, s) /\ ByFile(line, s)
    BY <1>6, <1>8, <2>1, <2>2, <2>3, <2>4, <2>7
  <2>8. CASE ~ByCerr(line, s) /\ ~ByFile(line, s)
    BY <1>6, <1>8, <2>1, <2>2, <2>3, <2>4, <2>8
  <2> QED BY <2>5, <2>6, <2>7, <2>8
<1>10. \A s \in Sinks : content[s] = Shown(lines, s)
  BY DEF LinesWhole, Sinks
<1>11. \A s \in Sinks : content'[s] = Shown(lines', s)
  BY <1>3, <1>4, <1>9, <1>10, LineAdds
<1>12. stream' = <<>> /\ stream' \in Seq(Marks) /\ printed' = printed
  BY EmptySeq DEF LineEnds
<1>13. Texts(lines') \o stream' = printed'
  <2>1. Texts(lines') = Texts(lines) \o stream
    BY <1>2, <1>3, <1>4, LineAdds
  <2>2. Texts(lines') = printed
    BY <2>1 DEF LinesWhole
  <2> QED BY <1>12, <2>2
<1> QED BY <1>4, <1>8, <1>11, <1>12, <1>13

\* What is written stays while no line ends.
LEMMA LinesStay ==
  ASSUME LinesWhole, UNCHANGED <<content, lines>>,
         Texts(lines) \o stream' = printed', ~alive' => stream' = <<>> /\ cerr' = Console
  PROVE  LinesWhole'
<1>1. ASSUME NEW s \in {Console} \cup Files
      PROVE  content'[s] = Shown(lines', s)
  <2>1. content[s] = Shown(lines, s)
    BY DEF LinesWhole
  <2> QED BY <2>1
<1> QED BY <1>1 DEF LinesWhole

\* Every step of a log keeps what it is.
LEMMA LogKept ==
  ASSUME LogInv, LogNext
  PROVE  LogInv'
<1> USE DEF LogInv
<1>a. alive
  BY DEF LogNext
<1>1. CASE Push
  <2>1. TopOf(prefixes) \in Seq(Marks)
    BY DEF TopOf
  <2>2. Len(prefixes) \in Marks
    BY DEF Marks
  <2>3. Append(TopOf(prefixes), Len(prefixes)) \in Seq(Marks)
    BY <2>1, <2>2
  <2>4. prefixes' \in Seq(Seq(Marks)) /\ Len(prefixes') = Len(prefixes) + 1
    BY <1>1, <2>3 DEF Push
  <2>5. LinesWhole'
    BY <1>1, <1>a, LinesStay DEF Push, LinesWhole
  <2> QED BY <1>1, <2>4, <2>5 DEF Push
<1>2. CASE Pop
  <2>1. prefixes' \in Seq(Seq(Marks)) /\ Len(prefixes') > 0
    BY <1>2 DEF Pop
  <2>2. LinesWhole'
    BY <1>2, <1>a, LinesStay DEF Pop, LinesWhole
  <2> QED BY <1>2, <2>1, <2>2 DEF Pop
<1>3. CASE EndLine
  <2>1. LineEnds
    BY <1>3 DEF EndLine
  <2>2. LinesWhole'
    BY <1>3, <1>a, <2>1, LineKept DEF EndLine, LinesWhole, Sinks
  <2>3. stream' \in Seq(Marks) /\ printed' \in Seq(Marks) /\ content' \in [Sinks -> Seq(Seq(Marks))] /\ lines' \in Seq(Line)
    BY <2>1, LineKept
  <2> QED BY <1>3, <2>2, <2>3 DEF EndLine
<1>4. CASE Destroy
  <2>1. CASE stream # <<>>
    <3>1. LineEnds
      BY <1>4, <2>1 DEF Destroy
    <3>2. LinesWhole'
      BY <1>4, <3>1, LineKept DEF Destroy, LinesWhole, Sinks
    <3>3. stream' \in Seq(Marks) /\ printed' \in Seq(Marks) /\ content' \in [Sinks -> Seq(Seq(Marks))] /\ lines' \in Seq(Line)
      BY <3>1, LineKept
    <3> QED BY <1>4, <3>2, <3>3 DEF Destroy, Sinks
  <2>2. CASE stream = <<>>
    <3>1. UNCHANGED <<stream, content, lines, printed>>
      BY <1>4, <2>2 DEF Destroy
    <3>2. LinesWhole'
      BY <1>4, LinesStay, <2>2, <3>1 DEF Destroy, LinesWhole
    <3> QED BY <1>4, <3>1, <3>2 DEF Destroy, Sinks
  <2> QED BY <2>1, <2>2
<1>5. CASE \E v \in LoggedNumbers : PrintNumber(v)
  <2>1. PICK v \in LoggedNumbers : PrintNumber(v)
    BY <1>5
  <2>2. PICK x : x = Rounded(v)
    OBVIOUS
  <2>3. x \in Marks
    BY <2>2 DEF Marks, Rounded
  <2>4. stream' = Append(stream, x) /\ printed' = Append(printed, x)
    BY <2>1, <2>2 DEF PrintNumber
  <2>5. stream' \in Seq(Marks) /\ printed' \in Seq(Marks)
    BY <2>3, <2>4
  <2>6. Texts(lines) \in Seq(Marks)
    BY TextsAreMarks
  <2>7. Texts(lines) \o Append(stream, x) = Append(Texts(lines) \o stream, x)
    BY <2>3, <2>6
  <2>8. Texts(lines) \o stream' = printed'
    BY <2>4, <2>7 DEF LinesWhole
  <2>9. LinesWhole'
    BY <1>a, LinesStay, <2>1, <2>8 DEF PrintNumber
  <2> QED BY <2>1, <2>5, <2>9 DEF PrintNumber
<1>6. CASE \E n \in Depths : DepthConsole(n) \/ DepthFile(n)
  <2>1. PICK n \in Depths : DepthConsole(n) \/ DepthFile(n)
    BY <1>6
  <2>2. LinesWhole'
    BY <1>a, LinesStay, <2>1 DEF DepthConsole, DepthFile, LinesWhole
  <2> QED BY <2>1, <2>2, LogAssumption DEF DepthConsole, DepthFile
<1>7. CASE Detach \/ \E f \in Files : Attach(f)
  <2>1. LinesWhole'
    BY <1>a, LinesStay, <1>7 DEF Attach, Detach, LinesWhole
  <2> QED BY <1>7, <2>1 DEF Attach, Detach
<1>8. CASE LogCerr
  <2>1. LinesWhole'
    BY <1>a, LinesStay, <1>8 DEF LogCerr, LinesWhole
  <2>2. cerr' \in Sinks
    BY <1>8 DEF LogCerr, Sinks
  <2> QED BY <1>8, <2>1, <2>2 DEF LogCerr
<1>9. CASE \E t \in Thresholds : ThresholdDouble(t)
  <2>1. LinesWhole'
    BY <1>a, LinesStay, <1>9 DEF ThresholdDouble, LinesWhole
  <2> QED BY <1>9, <2>1 DEF ThresholdDouble
<1> QED BY <1>1, <1>2, <1>3, <1>4, <1>5, <1>6, <1>7, <1>8, <1>9 DEF LogNext

-------------------------------------------------------------------------------
(* Both.                                                                   *)

\* What leaves the program is whole, for every grid, number of points, depth and
\* set of attached files: files for VTK hold the mesh and the values of its points
\* and cells; nothing printed to a log is lost, and the console and the files hold
\* the lines that were led there, whole but where both copies of a line meet in
\* one file (Writer::save, LogStream).
THEOREM OutputIsWhole ==
  OutputInit /\ [][OutputNext]_<<writerVars, logVars>> => []OutputWhole
<1>1. OutputInit => WriterInv /\ LogInv
  BY WriterBegins, LogBegins DEF OutputInit
<1>2. WriterInv /\ LogInv /\ [OutputNext]_<<writerVars, logVars>> => WriterInv' /\ LogInv'
  <2> SUFFICES ASSUME WriterInv, LogInv, [OutputNext]_<<writerVars, logVars>>
               PROVE  WriterInv' /\ LogInv'
    OBVIOUS
  <2>1. ASSUME UNCHANGED writerVars
        PROVE  WriterInv'
    <3>1. UNCHANGED <<size, active, writer, fields, cells, saved>>
      BY <2>1 DEF writerVars
    <3>2. FilesRendered'
      BY <3>1, FileStays DEF WriterInv
    <3>3. DataOK' = DataOK /\ GridOK' = GridOK
      BY <3>1 DEF DataOK, NumCells, GridOK
    <3>4. writer' # None => \E n \in PointBoxes', real \in RealWidths : writer' = NewWriter(n, real)'
      BY <3>1 DEF WriterInv, PointBoxes, NewWriter
    <3> QED BY <3>1, <3>2, <3>3, <3>4 DEF WriterInv
  <2>2. ASSUME UNCHANGED logVars
        PROVE  LogInv'
    <3>1. LinesWhole'
      BY <2>2, LinesStay DEF logVars, LogInv, LinesWhole
    <3> QED BY <2>2, <3>1 DEF logVars, LogInv
  <2>3. CASE WriterNext /\ UNCHANGED logVars
    BY <2>2, <2>3, WriterKept
  <2>4. CASE LogNext /\ UNCHANGED writerVars
    BY <2>1, <2>4, LogKept
  <2>5. CASE UNCHANGED <<writerVars, logVars>>
    BY <2>1, <2>2, <2>5
  <2> QED BY <2>3, <2>4, <2>5 DEF OutputNext
<1>3. WriterInv /\ LogInv => OutputWhole
  BY DEF WriterInv, LogInv, OutputWhole
<1> QED BY <1>1, <1>2, <1>3, PTL
===============================================================================
