-------------------------- MODULE SpaceManagerProofs --------------------------
(***************************************************************************)
(* Theorems about SpaceManager, for every set of spaces and tables.        *)
(***************************************************************************)
EXTENDS SpaceManager, SequenceTheorems, TLAPS

\* The spaces have index tables of their own.
TablesDistinct == \A s, r \in Space : TableOf[s] = TableOf[r] => s = r

\* The shape of the numbering part of the state.
NumberingTypeOK ==
  /\ index_table = [t \in Table |-> index_table[t]]
  /\ \A t \in Table : index_table[t] \in [LocalDofs(t) -> Nat]
  /\ AddedSpaces \subseteq Space
  /\ spaces_info \in [AddedSpaces -> SpaceInfo]
  /\ spaces_with_original_dofs \in Seq(AddedSpaces)
  /\ spaces_with_renumbered_dofs \in Seq(AddedSpaces)
  /\ space_dofs_offset \in Nat
  /\ closing \in BOOLEAN

\* The ids of a table are consecutive: every call shifts all of them alike.
Consecutive ==
  \A t \in Table : \A i \in LocalDofs(t) : index_table[t][i] = index_table[t][0] + i

\* The cached extremes of an added space are those of its table.
InfoTracksTable ==
  \A s \in AddedSpaces :
    /\ spaces_info[s].min = index_table[TableOf[s]][0]
    /\ spaces_info[s].max = index_table[TableOf[s]][0] + Size[TableOf[s]] - 1

\* Each space is in one list, once.
ListedOnce ==
  /\ \A i, j \in 1 .. Len(spaces_with_original_dofs) :
       spaces_with_original_dofs[i] = spaces_with_original_dofs[j] => i = j
  /\ SpacesIn(spaces_with_original_dofs) \cap SpacesIn(spaces_with_renumbered_dofs) = {}

\* No added space is forgotten by the two lists.
EveryAddedListed ==
  AddedSpaces \subseteq SpacesIn(spaces_with_original_dofs) \cup SpacesIn(spaces_with_renumbered_dofs)

\* Renumbered spaces lie below the offset, where the next one will start, and
\* do not overlap.
RenumberedBelowOffset ==
  \A s \in SpacesIn(spaces_with_renumbered_dofs) :
    \A d \in GlobalDofs(s) : d < space_dofs_offset

IInv ==
  /\ NumberingTypeOK
  /\ Consecutive
  /\ InfoTracksTable
  /\ ListedOnce
  /\ EveryAddedListed
  /\ RenumberedBelowOffset
  /\ RenumberedDisjoint

-----------------------------------------------------------------------------
\* The smallest and the largest element of the ids of a table with
\* consecutive ids: what std::min_element and std::max_element return.
LEMMA ExtremesOfInterval ==
  ASSUME NEW S, NEW a \in Nat, NEW n \in Nat \ {0},
         S = {x \in Nat : a <= x /\ x <= a + n - 1}
  PROVE  LeastOf(S) = a /\ GreatestOf(S) = a + n - 1
<1>1. a \in S /\ \A y \in S : a <= y
  OBVIOUS
<1>2. \A x \in S : (\A y \in S : x <= y) => x = a
  BY <1>1
<1>3. (a + n - 1) \in S /\ \A y \in S : a + n - 1 >= y
  OBVIOUS
<1>4. \A x \in S : (\A y \in S : x >= y) => x = a + n - 1
  BY <1>3
<1>5. LeastOf(S) = a
  BY <1>1, <1>2 DEF LeastOf
<1>6. GreatestOf(S) = a + n - 1
  BY <1>3, <1>4 DEF GreatestOf
<1> QED BY <1>5, <1>6

\* The ids of a consecutive table form an interval.
LEMMA GlobalDofsInterval ==
  ASSUME SpaceManagerAssumption, NumberingTypeOK, Consecutive, NEW t \in Table
  PROVE  GlobalDofsOfTable(t)
           = {x \in Nat : index_table[t][0] <= x /\ x <= index_table[t][0] + Size[t] - 1}
<1> DEFINE a == index_table[t][0]
<1>1. Size[t] \in Nat \ {0} /\ 0 \in LocalDofs(t)
  BY DEF SpaceManagerAssumption, LocalDofs
<1>2. a \in Nat
  BY <1>1 DEF NumberingTypeOK
<1>3. \A i \in LocalDofs(t) : index_table[t][i] = a + i
  BY DEF Consecutive
<1>4. ASSUME NEW x \in Nat, a <= x, x <= a + Size[t] - 1
      PROVE  x \in GlobalDofsOfTable(t)
  <2>1. (x - a) \in LocalDofs(t) /\ x = a + (x - a)
    BY <1>1, <1>2, <1>4 DEF LocalDofs
  <2> QED BY <2>1, <1>3 DEF GlobalDofsOfTable
<1>5. ASSUME NEW i \in LocalDofs(t)
      PROVE  /\ index_table[t][i] \in Nat
             /\ a <= index_table[t][i]
             /\ index_table[t][i] <= a + Size[t] - 1
  BY <1>1, <1>2, <1>3, <1>5 DEF LocalDofs
<1> QED BY <1>4, <1>5 DEF GlobalDofsOfTable

\* A space views a table that has a first dof, with an id.
LEMMA TableOfSpace ==
  ASSUME SpaceManagerAssumption, NumberingTypeOK, NEW s \in Space
  PROVE  /\ TableOf[s] \in Table
         /\ Size[TableOf[s]] \in Nat \ {0}
         /\ index_table[TableOf[s]][0] \in Nat
<1>1. TableOf \in [Space -> Table] /\ Size \in [Table -> Nat \ {0}]
  BY DEF SpaceManagerAssumption
<1>2. TableOf[s] \in Table
  BY <1>1
<1>3. Size[TableOf[s]] \in Nat \ {0}
  BY <1>1, <1>2
<1>4. index_table[TableOf[s]] \in [LocalDofs(TableOf[s]) -> Nat]
  BY <1>2 DEF NumberingTypeOK
<1>5. 0 \in LocalDofs(TableOf[s])
  BY <1>3 DEF LocalDofs
<1> QED BY <1>2, <1>3, <1>4, <1>5

\* What add_space caches is the first and the last id of the table.
LEMMA InfoOfConsecutive ==
  ASSUME SpaceManagerAssumption, NumberingTypeOK, Consecutive, NEW s \in Space
  PROVE  InfoOf(s) = [min |-> index_table[TableOf[s]][0],
                      max |-> index_table[TableOf[s]][0] + Size[TableOf[s]] - 1]
<1> DEFINE t == TableOf[s]
<1>1. t \in Table /\ Size[t] \in Nat \ {0} /\ index_table[t][0] \in Nat
  BY TableOfSpace
<1>2. GlobalDofs(s) = {x \in Nat : index_table[t][0] <= x /\ x <= index_table[t][0] + Size[t] - 1}
  BY <1>1, GlobalDofsInterval DEF GlobalDofs
<1> HIDE DEF t
<1>3. LeastOf(GlobalDofs(s)) = index_table[t][0]
      /\ GreatestOf(GlobalDofs(s)) = index_table[t][0] + Size[t] - 1
  BY <1>1, <1>2, ExtremesOfInterval
<1> QED BY <1>3 DEF InfoOf, t

-----------------------------------------------------------------------------
(* The four steps that touch the numbering; every other step frames it.      *)

\* The initial state satisfies the inductive invariant.
LEMMA InitIInv ==
  ASSUME SpaceManagerAssumption, Init
  PROVE  IInv
<1>1. /\ Size \in [Table -> Nat \ {0}]
      /\ FirstDof \in [Table -> Nat]
      /\ index_table = [t \in Table |-> [i \in LocalDofs(t) |-> FirstDof[t] + i]]
  BY DEF SpaceManagerAssumption, Init
<1>2. ASSUME NEW t \in Table
      PROVE  /\ index_table[t] \in [LocalDofs(t) -> Nat]
             /\ \A i \in LocalDofs(t) : index_table[t][i] = index_table[t][0] + i
  <2>1. FirstDof[t] \in Nat /\ Size[t] \in Nat \ {0} /\ 0 \in LocalDofs(t)
    BY <1>1 DEF LocalDofs
  <2>2. index_table[t] = [i \in LocalDofs(t) |-> FirstDof[t] + i]
    BY <1>1
  <2>3. LocalDofs(t) \subseteq Nat
    BY <2>1 DEF LocalDofs
  <2>4. \A i \in LocalDofs(t) : index_table[t][i] = FirstDof[t] + i
    BY <2>2
  <2>5. index_table[t][0] = FirstDof[t]
    BY <2>1, <2>4
  <2> QED BY <2>1, <2>2, <2>3, <2>4, <2>5
<1>3. Consecutive
  BY <1>2 DEF Consecutive
<1>4. AddedSpaces = {}
  BY DEF Init, AddedSpaces
<1>5. spaces_info \in [AddedSpaces -> SpaceInfo]
  BY <1>4 DEF Init, AddedSpaces
<1>6. NumberingTypeOK
  <2>1. index_table = [t \in Table |-> index_table[t]]
    BY <1>1
  <2>2. /\ spaces_with_original_dofs \in Seq(AddedSpaces)
        /\ spaces_with_renumbered_dofs \in Seq(AddedSpaces)
        /\ space_dofs_offset \in Nat
        /\ closing \in BOOLEAN
    BY EmptySeq DEF Init
  <2> QED BY <1>2, <1>4, <1>5, <2>1, <2>2 DEF NumberingTypeOK
<1>7. InfoTracksTable
  BY <1>4 DEF InfoTracksTable
<1>8. SpacesIn(spaces_with_renumbered_dofs) = {} /\ ListedOnce
  BY DEF Init, SpacesIn, ListedOnce
<1> QED BY <1>3, <1>4, <1>6, <1>7, <1>8
        DEF IInv, RenumberedBelowOffset, RenumberedDisjoint, EveryAddedListed

\* A step that changes neither the numbering nor closing, but for closing
\* itself staying a Boolean, preserves the inductive invariant.
LEMMA NumberingFramed ==
  ASSUME IInv, UNCHANGED numbering_vars, closing' \in BOOLEAN
  PROVE  IInv'
<1>1. /\ index_table' = index_table
      /\ spaces_info' = spaces_info
      /\ spaces_with_original_dofs' = spaces_with_original_dofs
      /\ spaces_with_renumbered_dofs' = spaces_with_renumbered_dofs
      /\ space_dofs_offset' = space_dofs_offset
  BY DEF numbering_vars
<1>2. AddedSpaces' = AddedSpaces
  BY <1>1 DEF AddedSpaces
<1>3. \A s \in Space : GlobalDofs(s)' = GlobalDofs(s)
  BY <1>1 DEF GlobalDofs, GlobalDofsOfTable
<1>4. SpacesIn(spaces_with_renumbered_dofs)' = SpacesIn(spaces_with_renumbered_dofs)
      /\ SpacesIn(spaces_with_original_dofs)' = SpacesIn(spaces_with_original_dofs)
  BY <1>1 DEF SpacesIn
<1>5. SpacesIn(spaces_with_renumbered_dofs) \subseteq Space
  BY DEF IInv, NumberingTypeOK, SpacesIn
<1>6. NumberingTypeOK'
  BY <1>1, <1>2 DEF IInv, NumberingTypeOK
<1>7. Consecutive'
  BY <1>1 DEF IInv, Consecutive
<1>8. InfoTracksTable'
  BY <1>1, <1>2 DEF IInv, InfoTracksTable
<1>9. ListedOnce' /\ EveryAddedListed'
  BY <1>1, <1>2, <1>4 DEF IInv, ListedOnce, EveryAddedListed
<1>10. RenumberedBelowOffset' /\ RenumberedDisjoint'
  BY <1>1, <1>3, <1>4, <1>5 DEF IInv, RenumberedBelowOffset, RenumberedDisjoint
<1> QED BY <1>6, <1>7, <1>8, <1>9, <1>10 DEF IInv

\* add_space caches the extremes the table has, and lists a space once.
LEMMA AddSpaceIInv ==
  ASSUME SpaceManagerAssumption, IInv, NEW s \in Space, AddSpace(s)
  PROVE  IInv'
<1> USE DEF AddedSpaces
<1>1. /\ index_table' = index_table
      /\ space_dofs_offset' = space_dofs_offset
      /\ spaces_with_renumbered_dofs' = spaces_with_renumbered_dofs
      /\ spaces_with_original_dofs' = Append(spaces_with_original_dofs, s)
      /\ s \notin AddedSpaces
      /\ AddedSpaces' = AddedSpaces \cup {s}
      /\ spaces_info' = [r \in AddedSpaces \cup {s} |->
                           IF r = s THEN InfoOf(s) ELSE spaces_info[r]]
      /\ closing' = closing
  BY DEF AddSpace, OriginalsAfterAdding, insertion_vars
<1>2. InfoOf(s) = [min |-> index_table[TableOf[s]][0],
                   max |-> index_table[TableOf[s]][0] + Size[TableOf[s]] - 1]
  BY InfoOfConsecutive DEF IInv
<1>3. /\ TableOf[s] \in Table
      /\ Size[TableOf[s]] \in Nat \ {0}
      /\ index_table[TableOf[s]][0] \in Nat
  BY TableOfSpace DEF IInv
<1>4. InfoOf(s) \in SpaceInfo
  BY <1>2, <1>3 DEF SpaceInfo
<1>5. spaces_info' \in [AddedSpaces' -> SpaceInfo]
  BY <1>1, <1>4 DEF IInv, NumberingTypeOK
<1>6. spaces_with_original_dofs' \in Seq(AddedSpaces')
      /\ spaces_with_renumbered_dofs' \in Seq(AddedSpaces')
  BY <1>1 DEF IInv, NumberingTypeOK
<1>7. NumberingTypeOK'
  BY <1>1, <1>5, <1>6 DEF IInv, NumberingTypeOK
<1>8. Consecutive'
  BY <1>1 DEF IInv, Consecutive
<1>9. InfoTracksTable'
  BY <1>1, <1>2 DEF IInv, InfoTracksTable
<1>10. ListedOnce' /\ EveryAddedListed'
  <2>1. SpacesIn(spaces_with_original_dofs) \subseteq AddedSpaces
        /\ SpacesIn(spaces_with_renumbered_dofs) \subseteq AddedSpaces
    <3>1. /\ spaces_with_original_dofs \in Seq(AddedSpaces)
          /\ spaces_with_renumbered_dofs \in Seq(AddedSpaces)
      BY DEF IInv, NumberingTypeOK
    <3> QED BY <3>1 DEF SpacesIn
  <2>2. /\ Len(spaces_with_original_dofs') = Len(spaces_with_original_dofs) + 1
        /\ \A i \in 1 .. Len(spaces_with_original_dofs) :
             spaces_with_original_dofs'[i] = spaces_with_original_dofs[i]
        /\ spaces_with_original_dofs'[Len(spaces_with_original_dofs) + 1] = s
        /\ Len(spaces_with_original_dofs) \in Nat
    BY <1>1 DEF IInv, NumberingTypeOK
  <2>3. \A i \in 1 .. Len(spaces_with_original_dofs) : spaces_with_original_dofs[i] # s
    BY <1>1, <2>1 DEF SpacesIn
  <2>4. \A i \in 1 .. Len(spaces_with_original_dofs') :
          i \in 1 .. Len(spaces_with_original_dofs) \/ i = Len(spaces_with_original_dofs) + 1
    BY <2>2
  <2>5. \A i, j \in 1 .. Len(spaces_with_original_dofs') :
          spaces_with_original_dofs'[i] = spaces_with_original_dofs'[j] => i = j
    BY <2>2, <2>3, <2>4 DEF IInv, ListedOnce
  <2>6. /\ SpacesIn(spaces_with_original_dofs)' \subseteq SpacesIn(spaces_with_original_dofs) \cup {s}
        /\ SpacesIn(spaces_with_original_dofs) \cup {s} \subseteq SpacesIn(spaces_with_original_dofs)'
    <3> DEFINE n == Len(spaces_with_original_dofs)
    <3>1. Len(spaces_with_original_dofs') \in Nat /\ 1 .. (n + 1) = (1 .. n) \cup {n + 1}
      BY <2>2
    <3>2. SpacesIn(spaces_with_original_dofs)'
            = {spaces_with_original_dofs'[i] : i \in (1 .. n) \cup {n + 1}}
      BY <2>2, <3>1 DEF SpacesIn
    <3> HIDE DEF n
    <3> QED BY <2>2, <3>2 DEF SpacesIn, n
  <2>7. SpacesIn(spaces_with_renumbered_dofs)' = SpacesIn(spaces_with_renumbered_dofs)
    BY <1>1 DEF SpacesIn
  <2> QED BY <1>1, <2>1, <2>5, <2>6, <2>7 DEF IInv, ListedOnce, EveryAddedListed
<1>11. RenumberedBelowOffset' /\ RenumberedDisjoint'
  <2>1. \A r : GlobalDofs(r)' = GlobalDofs(r)
    BY <1>1 DEF GlobalDofs, GlobalDofsOfTable
  <2>2. SpacesIn(spaces_with_renumbered_dofs)' = SpacesIn(spaces_with_renumbered_dofs)
    BY <1>1 DEF SpacesIn
  <2> QED BY <1>1, <2>1, <2>2 DEF IInv, RenumberedBelowOffset, RenumberedDisjoint
<1> QED BY <1>7, <1>8, <1>9, <1>10, <1>11 DEF IInv

\* What an iteration does to s, which was waiting: its dofs are shifted by the
\* offset, and the offset moves behind its last one.
ShiftedAbove(s) ==
  /\ s \in AddedSpaces /\ s \notin SpacesIn(spaces_with_renumbered_dofs)
  /\ SpacesIn(spaces_with_renumbered_dofs)' = SpacesIn(spaces_with_renumbered_dofs) \cup {s}
  /\ index_table'[TableOf[s]][0] = index_table[TableOf[s]][0] + space_dofs_offset
  /\ space_dofs_offset' = index_table'[TableOf[s]][0] + Size[TableOf[s]]
  /\ \A r \in Space \ {s} : index_table'[TableOf[r]] = index_table[TableOf[r]]

\* One iteration of the renumbering loop moves the first waiting space above
\* every space renumbered before it.
LEMMA RenumberSpaceIInv ==
  ASSUME SpaceManagerAssumption, TablesDistinct, IInv, RenumberSpace
  PROVE  /\ IInv'
         /\ \A r \in SpacesIn(spaces_with_renumbered_dofs) : GlobalDofs(r)' = GlobalDofs(r)
         /\ ShiftedAbove(Head(spaces_with_original_dofs))
<1>a. PICK s : s = Head(spaces_with_original_dofs)
  OBVIOUS
<1>b. PICK t : t = TableOf[s]
  OBVIOUS
<1>c. PICK off : off = space_dofs_offset
  OBVIOUS
<1>1. /\ spaces_with_original_dofs # << >>
      /\ index_table' = [index_table EXCEPT ![t] = OffsetTable(t, off)]
      /\ spaces_info' = [spaces_info EXCEPT ![s] = OffsetInfo(s, off)]
      /\ space_dofs_offset' = OffsetAfter(s)
      /\ spaces_with_renumbered_dofs' = Append(spaces_with_renumbered_dofs, s)
      /\ spaces_with_original_dofs' = Tail(spaces_with_original_dofs)
      /\ closing' = closing
  BY <1>a, <1>b, <1>c DEF RenumberSpace, insertion_vars
<1>2. /\ spaces_with_original_dofs \in Seq(AddedSpaces)
      /\ spaces_with_renumbered_dofs \in Seq(AddedSpaces)
      /\ AddedSpaces \subseteq Space
      /\ spaces_info \in [AddedSpaces -> SpaceInfo]
      /\ off \in Nat
      /\ index_table = [u \in Table |-> index_table[u]]
      /\ \A u \in Table : index_table[u] \in [LocalDofs(u) -> Nat]
  BY <1>c DEF IInv, NumberingTypeOK
<1>3. s \in AddedSpaces /\ s = spaces_with_original_dofs[1] /\ 1 \in 1 .. Len(spaces_with_original_dofs)
  BY <1>a, <1>1, <1>2
<1>4. /\ s \in Space
      /\ t \in Table
      /\ Size[t] \in Nat \ {0}
      /\ 0 \in LocalDofs(t)
      /\ LocalDofs(t) \subseteq Nat
  BY <1>b, <1>2, <1>3 DEF SpaceManagerAssumption, LocalDofs
<1>5. s \in SpacesIn(spaces_with_original_dofs) /\ s \notin SpacesIn(spaces_with_renumbered_dofs)
  BY <1>3 DEF IInv, ListedOnce, SpacesIn
<1>6. /\ \A u \in Table : u # t => index_table'[u] = index_table[u]
      /\ \A i \in LocalDofs(t) : index_table'[t][i] = index_table[t][i] + off
      /\ index_table'[t] \in [LocalDofs(t) -> Nat]
  <2>1. index_table'[t] = [i \in LocalDofs(t) |-> index_table[t][i] + off]
    BY <1>1, <1>2, <1>4 DEF OffsetTable
  <2>2. \A i \in LocalDofs(t) : index_table[t][i] + off \in Nat
    BY <1>2, <1>4
  <2>3. \A u \in Table : u # t => index_table'[u] = index_table[u]
    BY <1>1, <1>2
  <2> QED BY <2>1, <2>2, <2>3
<1>7. Consecutive'
  <2>1. \A i \in LocalDofs(t) : index_table'[t][i] = index_table'[t][0] + i
    <3>1. \A i \in LocalDofs(t) : /\ index_table[t][i] = index_table[t][0] + i
                                  /\ index_table[t][0] \in Nat
                                  /\ i \in Nat
      BY <1>2, <1>4 DEF IInv, Consecutive
    <3> QED BY <1>2, <1>4, <1>6, <3>1
  <2> QED BY <1>6, <2>1 DEF IInv, Consecutive
<1>8. /\ spaces_info[s].min = index_table[t][0]
      /\ spaces_info[s].max = index_table[t][0] + Size[t] - 1
      /\ index_table[t][0] \in Nat
  BY <1>b, <1>2, <1>3, <1>4 DEF IInv, InfoTracksTable
<1>9. OffsetInfo(s, off) = [min |-> index_table'[t][0], max |-> index_table'[t][0] + Size[t] - 1]
      /\ index_table'[t][0] \in Nat
      /\ index_table'[t][0] = index_table[t][0] + off
  BY <1>2, <1>4, <1>6, <1>8 DEF OffsetInfo
<1>10. AddedSpaces' = AddedSpaces /\ spaces_info' \in [AddedSpaces -> SpaceInfo]
  <2>1. index_table'[t][0] + Size[t] - 1 \in Nat
    <3>1. \A a \in Nat, n \in Nat \ {0} : a + n - 1 \in Nat
      OBVIOUS
    <3> QED BY <1>4, <1>9, <3>1
  <2>2. OffsetInfo(s, off) \in SpaceInfo
    BY <1>9, <2>1 DEF SpaceInfo
  <2> QED BY <1>1, <1>2, <1>3, <2>2 DEF AddedSpaces
<1>11. space_dofs_offset' = index_table'[t][0] + Size[t] /\ space_dofs_offset' \in Nat
  <2>1. space_dofs_offset' = index_table'[t][0] + Size[t] - 1 + 1
    BY <1>c, <1>1, <1>9 DEF OffsetAfter
  <2>2. index_table'[t][0] \in Nat /\ Size[t] \in Nat
    BY <1>4, <1>9
  <2> QED BY <2>1, <2>2
<1>12. NumberingTypeOK'
  <2>1. /\ spaces_with_original_dofs' \in Seq(AddedSpaces')
        /\ spaces_with_renumbered_dofs' \in Seq(AddedSpaces')
    BY <1>1, <1>2, <1>3, <1>10
  <2>2. index_table' = [u \in Table |-> index_table'[u]]
    BY <1>1, <1>2
  <2>3. \A u \in Table : index_table'[u] \in [LocalDofs(u) -> Nat]
    BY <1>2, <1>6
  <2>4. closing' \in BOOLEAN
    BY <1>1 DEF IInv, NumberingTypeOK
  <2> QED BY <1>2, <1>10, <1>11, <2>1, <2>2, <2>3, <2>4 DEF NumberingTypeOK
<1>13. \A r \in AddedSpaces : r # s => TableOf[r] \in Table /\ TableOf[r] # t
  BY <1>b, <1>2, <1>4 DEF TablesDistinct, SpaceManagerAssumption
<1>14. InfoTracksTable'
  <2>1. ASSUME NEW r \in AddedSpaces, r # s
        PROVE  spaces_info'[r] = spaces_info[r] /\ index_table'[TableOf[r]] = index_table[TableOf[r]]
    BY <1>1, <1>2, <1>6, <1>13, <2>1
  <2>2. spaces_info'[s] = OffsetInfo(s, off)
    BY <1>1, <1>2, <1>3
  <2> QED BY <1>b, <1>9, <1>10, <2>1, <2>2 DEF IInv, InfoTracksTable
<1>15. SpacesIn(spaces_with_renumbered_dofs)' = SpacesIn(spaces_with_renumbered_dofs) \cup {s}
  <2> DEFINE n == Len(spaces_with_renumbered_dofs)
  <2>1. /\ n \in Nat
        /\ Len(spaces_with_renumbered_dofs') = n + 1
        /\ \A i \in 1 .. n : spaces_with_renumbered_dofs'[i] = spaces_with_renumbered_dofs[i]
        /\ spaces_with_renumbered_dofs'[n + 1] = s
    BY <1>1, <1>2, <1>3
  <2>2. 1 .. (n + 1) = (1 .. n) \cup {n + 1}
    BY <2>1
  <2>3. SpacesIn(spaces_with_renumbered_dofs)'
          = {spaces_with_renumbered_dofs'[i] : i \in (1 .. n) \cup {n + 1}}
    BY <2>1, <2>2 DEF SpacesIn
  <2> HIDE DEF n
  <2> QED BY <2>1, <2>3 DEF SpacesIn, n
<1>16. ListedOnce'
  <2>1. /\ Len(spaces_with_original_dofs') = Len(spaces_with_original_dofs) - 1
        /\ Len(spaces_with_original_dofs) \in Nat
        /\ \A i \in 1 .. Len(spaces_with_original_dofs') :
             spaces_with_original_dofs'[i] = spaces_with_original_dofs[i + 1]
    BY <1>1, <1>2
  <2>2. \A i, j \in 1 .. Len(spaces_with_original_dofs') :
          spaces_with_original_dofs'[i] = spaces_with_original_dofs'[j] => i = j
    <3>1. SUFFICES ASSUME NEW i \in 1 .. Len(spaces_with_original_dofs'),
                          NEW j \in 1 .. Len(spaces_with_original_dofs'),
                          spaces_with_original_dofs'[i] = spaces_with_original_dofs'[j]
                   PROVE  i = j
      OBVIOUS
    <3>2. i + 1 \in 1 .. Len(spaces_with_original_dofs) /\ j + 1 \in 1 .. Len(spaces_with_original_dofs)
      BY <2>1
    <3>3. spaces_with_original_dofs[i + 1] = spaces_with_original_dofs[j + 1]
      BY <2>1, <3>1
    <3>4. i + 1 = j + 1
      BY <3>2, <3>3 DEF IInv, ListedOnce
    <3> QED BY <3>4
  <2>3. SpacesIn(spaces_with_original_dofs)' \subseteq SpacesIn(spaces_with_original_dofs) \ {s}
    <3>1. ASSUME NEW i \in 1 .. Len(spaces_with_original_dofs')
          PROVE  /\ spaces_with_original_dofs'[i] \in SpacesIn(spaces_with_original_dofs)
                 /\ spaces_with_original_dofs'[i] # s
      <4>1. i + 1 \in 1 .. Len(spaces_with_original_dofs) /\ i + 1 # 1
        BY <2>1
      <4> QED BY <1>3, <2>1, <4>1 DEF IInv, ListedOnce, SpacesIn
    <3> QED BY <3>1 DEF SpacesIn
  <2> QED BY <1>15, <2>2, <2>3 DEF IInv, ListedOnce
<1>24. EveryAddedListed'
  <2>1. SpacesIn(spaces_with_original_dofs) \subseteq SpacesIn(spaces_with_original_dofs)' \cup {s}
    <3>1. SUFFICES ASSUME NEW i \in 1 .. Len(spaces_with_original_dofs), i # 1
                   PROVE  spaces_with_original_dofs[i] \in SpacesIn(spaces_with_original_dofs)'
      BY <1>3 DEF SpacesIn
    <3>2. /\ Len(spaces_with_original_dofs') = Len(spaces_with_original_dofs) - 1
          /\ Len(spaces_with_original_dofs) \in Nat
          /\ \A j \in 1 .. Len(spaces_with_original_dofs') :
               spaces_with_original_dofs'[j] = spaces_with_original_dofs[j + 1]
      BY <1>1, <1>2
    <3>3. i - 1 \in 1 .. Len(spaces_with_original_dofs') /\ (i - 1) + 1 = i
      BY <3>1, <3>2
    <3>4. spaces_with_original_dofs'[i - 1] = spaces_with_original_dofs[i]
      BY <3>2, <3>3
    <3> QED BY <3>3, <3>4 DEF SpacesIn
  <2> QED BY <1>10, <1>15, <2>1 DEF IInv, EveryAddedListed
<1>17. SpacesIn(spaces_with_renumbered_dofs) \subseteq AddedSpaces
  BY <1>2 DEF SpacesIn
<1>18. \A r \in SpacesIn(spaces_with_renumbered_dofs) : GlobalDofs(r)' = GlobalDofs(r)
  <2>1. ASSUME NEW r \in SpacesIn(spaces_with_renumbered_dofs)
        PROVE  index_table'[TableOf[r]] = index_table[TableOf[r]]
    BY <1>5, <1>6, <1>13, <1>17
  <2> QED BY <2>1 DEF GlobalDofs, GlobalDofsOfTable
<1>19. \A d \in GlobalDofs(s)' : d \in Nat /\ off <= d /\ d < space_dofs_offset'
  <2>1. ASSUME NEW i \in LocalDofs(t)
        PROVE  /\ index_table'[t][i] \in Nat
               /\ off <= index_table'[t][i]
               /\ index_table'[t][i] < space_dofs_offset'
    <3>1. index_table'[t][i] = index_table'[t][0] + i
      BY <1>4, <1>7 DEF Consecutive
    <3>2. i \in Nat /\ i <= Size[t] - 1
      BY <1>4 DEF LocalDofs
    <3>3. /\ off \in Nat
          /\ Size[t] \in Nat
          /\ index_table'[t][0] \in Nat
          /\ off <= index_table'[t][0]
          /\ space_dofs_offset' = index_table'[t][0] + Size[t]
      <4>1. /\ off \in Nat /\ Size[t] \in Nat
            /\ index_table[t][0] \in Nat /\ index_table'[t][0] \in Nat
        BY <1>2, <1>4, <1>8, <1>9
      <4>2. index_table'[t][0] = index_table[t][0] + off
        BY <1>9
      <4> QED BY <1>11, <4>1, <4>2
    <3> QED BY <3>1, <3>2, <3>3
  <2>2. GlobalDofs(s)' = {index_table'[t][i] : i \in LocalDofs(t)}
    BY <1>b DEF GlobalDofs, GlobalDofsOfTable
  <2> QED BY <2>1, <2>2
<1>20. \A r \in SpacesIn(spaces_with_renumbered_dofs) : \A d \in GlobalDofs(r) : d \in Nat /\ d < off
  <2>1. ASSUME NEW r \in SpacesIn(spaces_with_renumbered_dofs), NEW d \in GlobalDofs(r)
        PROVE  d \in Nat
    <3>1. TableOf[r] \in Table
      BY <1>2, <1>17 DEF SpaceManagerAssumption
    <3> QED BY <1>2, <3>1 DEF GlobalDofs, GlobalDofsOfTable
  <2> QED BY <1>c, <2>1 DEF IInv, RenumberedBelowOffset
<1>21. off <= space_dofs_offset'
  <2>1. space_dofs_offset' = index_table[t][0] + off + Size[t]
    BY <1>9, <1>11
  <2>2. off \in Nat /\ Size[t] \in Nat /\ index_table[t][0] \in Nat
    BY <1>2, <1>4, <1>8
  <2> QED BY <2>1, <2>2
<1>22. RenumberedBelowOffset'
  <2>1. ASSUME NEW r \in SpacesIn(spaces_with_renumbered_dofs), NEW d \in GlobalDofs(r)
        PROVE  d < space_dofs_offset'
    BY <1>2, <1>11, <1>20, <1>21
  <2> QED BY <1>15, <1>18, <1>19, <2>1 DEF RenumberedBelowOffset
<1>23. RenumberedDisjoint'
  <2>1. ASSUME NEW r \in SpacesIn(spaces_with_renumbered_dofs)
        PROVE  GlobalDofs(r)' \cap GlobalDofs(s)' = {}
    <3>1. ASSUME NEW d \in GlobalDofs(r), d \in GlobalDofs(s)'
          PROVE  FALSE
      BY <1>2, <1>19, <1>20, <3>1
    <3> QED BY <1>18, <3>1
  <2> QED BY <1>15, <1>18, <2>1 DEF IInv, RenumberedDisjoint
<1>25. \A r \in Space \ {s} : index_table'[TableOf[r]] = index_table[TableOf[r]]
  BY <1>b, <1>4, <1>6 DEF TablesDistinct, SpaceManagerAssumption
<1>26. ShiftedAbove(s)
  BY <1>b, <1>c, <1>3, <1>5, <1>9, <1>11, <1>15, <1>25 DEF ShiftedAbove
<1> QED BY <1>a, <1>7, <1>12, <1>14, <1>16, <1>18, <1>22, <1>23, <1>24, <1>26 DEF IInv

\* Every step preserves the inductive invariant and the ids of the spaces
\* that have been renumbered.
LEMMA NextIInv ==
  ASSUME SpaceManagerAssumption, TablesDistinct, IInv, [Next]_vars
  PROVE  /\ IInv'
         /\ \A r \in SpacesIn(spaces_with_renumbered_dofs) : GlobalDofs(r)' = GlobalDofs(r)
<1>1. UNCHANGED index_table
      => \A r \in SpacesIn(spaces_with_renumbered_dofs) : GlobalDofs(r)' = GlobalDofs(r)
  BY DEF GlobalDofs, GlobalDofsOfTable
<1>2. closing \in BOOLEAN
  BY DEF IInv, NumberingTypeOK
<1>3. ASSUME NEW s \in Space, AddSpace(s)
      PROVE  IInv' /\ UNCHANGED index_table
  BY <1>3, AddSpaceIInv DEF AddSpace
<1>4. CASE RenumberSpace
  BY <1>4, RenumberSpaceIInv
<1>5. ASSUME UNCHANGED numbering_vars, closing' \in BOOLEAN
      PROVE  IInv' /\ UNCHANGED index_table
  BY <1>5, NumberingFramed DEF numbering_vars
<1>6. ASSUME NEW renumber \in CloseArgs, SpacesInsertionClose(renumber)
      PROVE  UNCHANGED numbering_vars /\ closing' \in BOOLEAN
  BY <1>6 DEF SpacesInsertionClose, SpaceManagerAssumption
<1>7. CASE RenumberingDone \/ SpacesInsertionOpen
  BY <1>1, <1>2, <1>5, <1>7 DEF RenumberingDone, SpacesInsertionOpen
<1>8. CASE \/ SpacesConnectivityOpen
           \/ SpacesConnectivityClose
  BY <1>1, <1>2, <1>5, <1>8
     DEF SpacesConnectivityOpen, SpacesConnectivityClose, insertion_vars
<1>9. ASSUME NEW r \in Space, NEW c \in Space,
             \/ \E use \in BOOLEAN : AddSpacesConnection(r, c, use)
             \/ AddBlockDofs(r, c)
             \/ AddDofsConnectivity(r, c)
             \/ AddEqualityConstraint(r, c)
             \/ AddLinearConstraint(r, c)
      PROVE  UNCHANGED numbering_vars /\ closing' \in BOOLEAN
  BY <1>2, <1>9 DEF AddSpacesConnection, AddBlockDofs, AddBlockPairs, AddDofsConnectivity, AddEqualityConstraint,
                    AddLinearConstraint, AddConstraintOn, insertion_vars
<1>10. CASE \/ EqualityConstraintsOpen
            \/ EqualityConstraintsClose
            \/ RemoveEqualityConstraintsRedundancies
            \/ LinearConstraintsOpen
            \/ LinearConstraintsClose
  BY <1>1, <1>2, <1>5, <1>10
     DEF EqualityConstraintsOpen, EqualityConstraintsClose, LinearConstraintsOpen,
         LinearConstraintsClose, RemoveEqualityConstraintsRedundancies, insertion_vars
<1>11. CASE UNCHANGED vars
  BY <1>1, <1>2, <1>5, <1>11 DEF vars, insertion_vars
<1> QED BY <1>1, <1>3, <1>4, <1>5, <1>6, <1>7, <1>8, <1>9, <1>10, <1>11 DEF Next

\* The inductive invariant holds in every reachable state.
THEOREM InductiveInvariant ==
  ASSUME SpaceManagerAssumption, TablesDistinct
  PROVE  Spec => []IInv
<1>1. Init => IInv
  BY InitIInv
<1>2. IInv /\ [Next]_vars => IInv'
  BY NextIInv
<1> QED BY <1>1, <1>2, PTL DEF Spec

\* Whatever the spaces, their sizes, the phases and the order of the calls:
\* spaces renumbered by the manager share no global dof.
THEOREM NumberingIsDisjoint ==
  ASSUME SpaceManagerAssumption, TablesDistinct
  PROVE  Spec => []RenumberedDisjoint
<1>1. IInv => RenumberedDisjoint
  BY DEF IInv
<1> QED BY <1>1, InductiveInvariant, PTL

\* The extremes SpaceInfo caches, and the offset of the next space is computed
\* from, are never out of date.
THEOREM CachedExtremesAreCurrent ==
  ASSUME SpaceManagerAssumption, TablesDistinct
  PROVE  Spec => []InfoCurrent
<1>1. ASSUME IInv
      PROVE  InfoCurrent
  <2>1. ASSUME NEW s \in AddedSpaces
        PROVE  spaces_info[s] = InfoOf(s)
    <3>1. s \in Space /\ spaces_info[s] \in SpaceInfo
      BY <1>1 DEF IInv, NumberingTypeOK
    <3>2. spaces_info[s] = [min |-> spaces_info[s].min, max |-> spaces_info[s].max]
      BY <3>1 DEF SpaceInfo
    <3>3. InfoOf(s) = [min |-> index_table[TableOf[s]][0],
                       max |-> index_table[TableOf[s]][0] + Size[TableOf[s]] - 1]
      BY <1>1, <3>1, InfoOfConsecutive DEF IInv
    <3> QED BY <1>1, <3>2, <3>3 DEF IInv, InfoTracksTable
  <2> QED BY <2>1 DEF InfoCurrent
<1> QED BY <1>1, InductiveInvariant, PTL

-----------------------------------------------------------------------------
(* Published ids, for clients that renumber whenever they close a phase.     *)

\* What the view of the manager covers has been renumbered.
ViewRenumbered ==
  CloseArgs \subseteq {TRUE} => dofs_view \subseteq SpacesIn(spaces_with_renumbered_dofs)

\* A closed phase leaves no waiting space behind, so the view it publishes
\* holds renumbered spaces; the list of those only grows.
LEMMA NextViewRenumbered ==
  ASSUME SpaceManagerAssumption, IInv, ViewRenumbered, [Next]_vars
  PROVE  ViewRenumbered'
<1> SUFFICES ASSUME CloseArgs \subseteq {TRUE}
             PROVE  dofs_view' \subseteq SpacesIn(spaces_with_renumbered_dofs)'
  BY DEF ViewRenumbered
<1>1. dofs_view \subseteq SpacesIn(spaces_with_renumbered_dofs)
  BY DEF ViewRenumbered
<1>2. ASSUME UNCHANGED <<dofs_view, spaces_with_renumbered_dofs>>
      PROVE  dofs_view' \subseteq SpacesIn(spaces_with_renumbered_dofs)'
  BY <1>1, <1>2 DEF SpacesIn
<1>3. CASE RenumberSpace
  <2>1. PICK s : s = Head(spaces_with_original_dofs)
    OBVIOUS
  <2>2. /\ spaces_with_renumbered_dofs' = Append(spaces_with_renumbered_dofs, s)
        /\ spaces_with_renumbered_dofs \in Seq(AddedSpaces)
        /\ spaces_with_original_dofs \in Seq(AddedSpaces)
        /\ spaces_with_original_dofs # << >>
        /\ dofs_view' = dofs_view
    BY <1>3, <2>1 DEF RenumberSpace, insertion_vars, IInv, NumberingTypeOK
  <2>3. s \in AddedSpaces
    BY <2>1, <2>2
  <2>4. /\ Len(spaces_with_renumbered_dofs) \in Nat
        /\ Len(spaces_with_renumbered_dofs') = Len(spaces_with_renumbered_dofs) + 1
        /\ \A i \in 1 .. Len(spaces_with_renumbered_dofs) :
             spaces_with_renumbered_dofs'[i] = spaces_with_renumbered_dofs[i]
    BY <2>2, <2>3
  <2>5. SpacesIn(spaces_with_renumbered_dofs) \subseteq SpacesIn(spaces_with_renumbered_dofs)'
    BY <2>4 DEF SpacesIn
  <2> QED BY <1>1, <2>2, <2>5
<1>4. CASE RenumberingDone
  <2>1. SpacesIn(spaces_with_original_dofs) = {}
    BY <1>4 DEF RenumberingDone, SpacesIn
  <2>2. AddedSpaces \subseteq SpacesIn(spaces_with_renumbered_dofs)
    BY <2>1 DEF IInv, EveryAddedListed
  <2>3. dofs_view' = AddedSpaces /\ spaces_with_renumbered_dofs' = spaces_with_renumbered_dofs
    BY <1>4 DEF RenumberingDone, SpacesToView, numbering_vars
  <2> QED BY <2>2, <2>3 DEF SpacesIn
<1>5. ASSUME NEW renumber \in CloseArgs, SpacesInsertionClose(renumber)
      PROVE  UNCHANGED <<dofs_view, spaces_with_renumbered_dofs>>
  BY <1>5 DEF SpacesInsertionClose, numbering_vars
<1>6. ASSUME NEW s \in Space, AddSpace(s)
      PROVE  UNCHANGED <<dofs_view, spaces_with_renumbered_dofs>>
  BY <1>6 DEF AddSpace, insertion_vars
<1>7. CASE \/ SpacesInsertionOpen
           \/ SpacesConnectivityOpen
           \/ SpacesConnectivityClose
  BY <1>2, <1>7 DEF SpacesInsertionOpen, SpacesConnectivityOpen, SpacesConnectivityClose,
                    insertion_vars, numbering_vars
<1>8. ASSUME NEW r \in Space, NEW c \in Space,
             \/ \E use \in BOOLEAN : AddSpacesConnection(r, c, use)
             \/ AddBlockDofs(r, c)
             \/ AddDofsConnectivity(r, c)
             \/ AddEqualityConstraint(r, c)
             \/ AddLinearConstraint(r, c)
      PROVE  UNCHANGED <<dofs_view, spaces_with_renumbered_dofs>>
  BY <1>8 DEF AddSpacesConnection, AddBlockDofs, AddBlockPairs, AddDofsConnectivity, AddEqualityConstraint,
              AddLinearConstraint, AddConstraintOn, insertion_vars, numbering_vars
<1>9. CASE \/ EqualityConstraintsOpen
           \/ EqualityConstraintsClose
           \/ RemoveEqualityConstraintsRedundancies
           \/ LinearConstraintsOpen
           \/ LinearConstraintsClose
  BY <1>2, <1>9 DEF EqualityConstraintsOpen, EqualityConstraintsClose, LinearConstraintsOpen,
                    LinearConstraintsClose, RemoveEqualityConstraintsRedundancies,
                    insertion_vars, numbering_vars
<1>10. CASE UNCHANGED vars
  BY <1>2, <1>10 DEF vars, insertion_vars, numbering_vars
<1> QED BY <1>2, <1>3, <1>4, <1>5, <1>6, <1>7, <1>8, <1>9, <1>10 DEF Next

\* Clients that never ask to keep a numbering can rely on every id the view of
\* the manager has shown: later phases leave it alone.
THEOREM PublishedDofsNeverChange ==
  ASSUME SpaceManagerAssumption, TablesDistinct, CloseArgs \subseteq {TRUE}
  PROVE  Spec => PublishedDofsFixed
<1>1. Init => ViewRenumbered
  BY DEF Init, ViewRenumbered
<1>2. IInv /\ ViewRenumbered /\ [Next]_vars => ViewRenumbered'
  BY NextViewRenumbered
<1>3. Spec => [](IInv /\ ViewRenumbered)
  BY <1>1, <1>2, InductiveInvariant, PTL DEF Spec
<1>4. IInv /\ ViewRenumbered /\ [Next]_vars
      => [\A s \in dofs_view : GlobalDofs(s)' = GlobalDofs(s)]_vars
  BY NextIInv DEF ViewRenumbered
<1> QED BY <1>3, <1>4, PTL DEF Spec, PublishedDofsFixed

-----------------------------------------------------------------------------
\* Clients that add spaces in the insertion phase only, as the documentation
\* of the class asks, find every space in the view of the manager.
THEOREM ViewIsComplete ==
  ASSUME DocumentedUse
  PROVE  Spec => []ViewComplete
<1>1. Init => ViewComplete
  BY DEF Init, ViewComplete, AddedSpaces
<1>2. ASSUME ViewComplete, [Next]_vars
      PROVE  ViewComplete'
  <2>1. ASSUME UNCHANGED <<is_spaces_insertion_open, closing, dofs_view, spaces_info>>
        PROVE  ViewComplete'
    BY <1>2, <2>1 DEF ViewComplete, AddedSpaces
  <2>2. CASE SpacesInsertionOpen
    BY <2>2 DEF SpacesInsertionOpen, ViewComplete
  <2>3. ASSUME NEW s \in Space, AddSpace(s)
        PROVE  ViewComplete'
    <3>1. s \notin AddedSpaces /\ AddedSpaces' = AddedSpaces \cup {s}
      BY <2>3 DEF AddSpace, AddedSpaces
    <3>2. is_spaces_insertion_open /\ is_spaces_insertion_open' = is_spaces_insertion_open
      BY <2>3 DEF AddSpace, insertion_vars
    <3> QED BY <3>2 DEF ViewComplete
  <2>4. ASSUME NEW renumber \in CloseArgs, SpacesInsertionClose(renumber)
        PROVE  ViewComplete'
    BY <2>4 DEF SpacesInsertionClose, ViewComplete, SpacesToView, AddedSpaces, numbering_vars
  <2>5. CASE RenumberSpace
    BY <2>5 DEF RenumberSpace, ViewComplete, insertion_vars
  <2>6. CASE RenumberingDone
    BY <2>6 DEF RenumberingDone, ViewComplete, SpacesToView, AddedSpaces, numbering_vars
  <2>7. CASE SpacesConnectivityOpen \/ SpacesConnectivityClose
    BY <2>1, <2>7 DEF SpacesConnectivityOpen, SpacesConnectivityClose,
                      insertion_vars, numbering_vars
  <2>8. ASSUME NEW r \in Space, NEW c \in Space,
               \/ \E use \in BOOLEAN : AddSpacesConnection(r, c, use)
               \/ AddBlockDofs(r, c)
               \/ AddDofsConnectivity(r, c)
               \/ AddEqualityConstraint(r, c)
               \/ AddLinearConstraint(r, c)
        PROVE  ViewComplete'
    BY <2>1, <2>8 DEF AddSpacesConnection, AddBlockDofs, AddBlockPairs, AddDofsConnectivity, AddEqualityConstraint,
                      AddLinearConstraint, AddConstraintOn, insertion_vars, numbering_vars
  <2>9. CASE \/ EqualityConstraintsOpen
             \/ EqualityConstraintsClose
             \/ RemoveEqualityConstraintsRedundancies
             \/ LinearConstraintsOpen
             \/ LinearConstraintsClose
    BY <2>1, <2>9 DEF EqualityConstraintsOpen, EqualityConstraintsClose,
                      LinearConstraintsOpen, LinearConstraintsClose,
                      RemoveEqualityConstraintsRedundancies, insertion_vars, numbering_vars
  <2>10. CASE UNCHANGED vars
    BY <2>1, <2>10 DEF vars, insertion_vars, numbering_vars
  <2> QED BY <1>2, <2>2, <2>3, <2>4, <2>5, <2>6, <2>7, <2>8, <2>9, <2>10 DEF Next
<1> QED BY <1>1, <1>2, PTL DEF Spec

-----------------------------------------------------------------------------
(* Type correctness.                                                         *)

\* Removing redundancies invents no dof.
LEMMA RedundanciesType ==
  ASSUME NEW cs \in Pairs
  PROVE  WithoutRedundancies(cs) \in Pairs
<1>1. Masters(cs) \subseteq Nat /\ ConstrainedDofs(cs) \subseteq Nat
  BY DEF Pairs, Masters, ConstrainedDofs
<1> QED BY <1>1 DEF Pairs, WithoutRedundancies

\* Every step preserves the types of the members.
LEMMA NextTypeOK ==
  ASSUME SpaceManagerAssumption, IInv, IInv', TypeOK, [Next]_vars
  PROVE  TypeOK'
<1>1. \A r \in AddedSpaces : GlobalDofs(r) \subseteq Nat
  <2>1. ASSUME NEW r \in AddedSpaces
        PROVE  TableOf[r] \in Table /\ index_table[TableOf[r]] \in [LocalDofs(TableOf[r]) -> Nat]
    BY DEF IInv, NumberingTypeOK, SpaceManagerAssumption
  <2>2. ASSUME NEW t, NEW table, table \in [LocalDofs(t) -> Nat]
        PROVE  {table[i] : i \in LocalDofs(t)} \subseteq Nat
    BY <2>2
  <2>3. ASSUME NEW r \in AddedSpaces
        PROVE  GlobalDofs(r) \subseteq Nat
    <3> DEFINE t == TableOf[r]
               table == index_table[t]
    <3>1. table \in [LocalDofs(t) -> Nat]
      BY <2>1, <2>3
    <3>2. GlobalDofs(r) = {table[i] : i \in LocalDofs(t)}
      BY DEF GlobalDofs, GlobalDofsOfTable
    <3> HIDE DEF t, table
    <3> QED BY <2>2, <3>1, <3>2
  <2> QED BY <2>3
<1>2. /\ index_table' = [t \in Table |-> index_table'[t]]
      /\ \A t \in Table : index_table'[t] \in [LocalDofs(t) -> Nat]
      /\ AddedSpaces' \subseteq Space
      /\ spaces_info' \in [AddedSpaces' -> SpaceInfo]
      /\ spaces_with_original_dofs' \in Seq(AddedSpaces')
      /\ spaces_with_renumbered_dofs' \in Seq(AddedSpaces')
      /\ space_dofs_offset' \in Nat
      /\ closing' \in BOOLEAN
  BY DEF IInv, NumberingTypeOK
<1> DEFINE Insertion == /\ is_spaces_insertion_open \in BOOLEAN
                        /\ dofs_view \subseteq AddedSpaces
                        /\ openings \in Nat
           Block == /\ is_spaces_connectivity_open \in BOOLEAN
                    /\ Blocks \subseteq AddedSpaces \X AddedSpaces
                    /\ spaces_connections \in [Blocks -> [use : BOOLEAN, extra : Pairs]]
                    /\ extra_dofs_connectivity \in Pairs
                    /\ extras \in Nat
           Constraint == /\ are_equality_constraints_open \in BOOLEAN
                         /\ are_linear_constraints_open \in BOOLEAN
                         /\ equality_constraints \in Pairs
                         /\ linear_constraints \subseteq Nat \X SUBSET Nat
<1>3. Insertion /\ Block /\ Constraint
  BY DEF TypeOK
<1>4. (Insertion /\ Block /\ Constraint)' => TypeOK'
  BY <1>2 DEF TypeOK
<1>5. UNCHANGED numbering_vars => AddedSpaces' = AddedSpaces
  BY DEF numbering_vars, AddedSpaces
<1>6. AddedSpaces \subseteq AddedSpaces' /\ UNCHANGED insertion_vars => Insertion'
  BY <1>3 DEF insertion_vars
<1>7. AddedSpaces \subseteq AddedSpaces' /\ UNCHANGED block_vars => Block'
  BY <1>3 DEF block_vars, Blocks
<1>8. UNCHANGED constraint_vars => Constraint'
  BY <1>3 DEF constraint_vars
<1> HIDE DEF Insertion, Block, Constraint
<1>9. CASE SpacesInsertionOpen
  <2>1. Insertion'
    BY <1>3, <1>5, <1>9 DEF SpacesInsertionOpen, Insertion
  <2> QED BY <1>4, <1>5, <1>7, <1>8, <1>9, <2>1 DEF SpacesInsertionOpen
<1>10. ASSUME NEW s \in Space, AddSpace(s)
       PROVE  TypeOK'
  <2>1. AddedSpaces \subseteq AddedSpaces'
    BY <1>10 DEF AddSpace, AddedSpaces
  <2> QED BY <1>4, <1>6, <1>7, <1>8, <1>10, <2>1 DEF AddSpace
<1>11. ASSUME NEW renumber \in CloseArgs, SpacesInsertionClose(renumber)
       PROVE  TypeOK'
  <2>1. Insertion'
    BY <1>3, <1>5, <1>11 DEF SpacesInsertionClose, Insertion, SpacesToView
  <2> QED BY <1>4, <1>5, <1>7, <1>8, <1>11, <2>1 DEF SpacesInsertionClose
<1>12. CASE RenumberSpace
  <2>1. AddedSpaces' = AddedSpaces
    BY <1>12 DEF RenumberSpace, AddedSpaces, IInv, NumberingTypeOK
  <2> QED BY <1>4, <1>6, <1>7, <1>8, <1>12, <2>1 DEF RenumberSpace
<1>13. CASE RenumberingDone
  <2>1. Insertion'
    BY <1>3, <1>5, <1>13 DEF RenumberingDone, Insertion, SpacesToView
  <2> QED BY <1>4, <1>5, <1>7, <1>8, <1>13, <2>1 DEF RenumberingDone
<1>14. ASSUME Block', UNCHANGED <<numbering_vars, insertion_vars, constraint_vars>>
       PROVE  TypeOK'
  BY <1>4, <1>5, <1>6, <1>8, <1>14
<1>15. CASE SpacesConnectivityOpen \/ SpacesConnectivityClose
  <2>1. Block'
    BY <1>3, <1>5, <1>15 DEF SpacesConnectivityOpen, SpacesConnectivityClose, Block, Blocks
  <2> QED BY <1>14, <1>15, <2>1 DEF SpacesConnectivityOpen, SpacesConnectivityClose
<1>16. ASSUME NEW r \in Space, NEW c \in Space, NEW use \in BOOLEAN, AddSpacesConnection(r, c, use)
       PROVE  TypeOK'
  <2>1. Blocks' = Blocks \cup {<<r, c>>} /\ AddedSpaces' = AddedSpaces /\ {r, c} \subseteq AddedSpaces
    BY <1>5, <1>16 DEF AddSpacesConnection, Blocks
  <2>2. [use |-> use, extra |-> {}] \in [use : BOOLEAN, extra : Pairs]
    BY DEF Pairs
  <2>3. spaces_connections' \in [Blocks' -> [use : BOOLEAN, extra : Pairs]]
    BY <1>3, <1>16, <2>1, <2>2 DEF AddSpacesConnection, Block
  <2>4. Block'
    BY <1>3, <1>16, <2>1, <2>3 DEF AddSpacesConnection, Block
  <2> QED BY <1>14, <1>16, <2>4 DEF AddSpacesConnection
<1>17. ASSUME NEW r \in Space, NEW c \in Space, AddBlockDofs(r, c)
       PROVE  TypeOK'
  <2>1. PICK i \in GlobalDofs(r), j \in GlobalDofs(c) :
          spaces_connections' = [spaces_connections EXCEPT ![<<r, c>>].extra = @ \cup {<<i, j>>}]
    BY <1>17 DEF AddBlockDofs, AddBlockPairs
  <2>2. <<r, c>> \in Blocks /\ r \in AddedSpaces /\ c \in AddedSpaces
    BY <1>3, <1>17 DEF AddBlockDofs, AddBlockPairs, Block
  <2>3. <<i, j>> \in Nat \X Nat
    BY <1>1, <2>1, <2>2
  <2>4. spaces_connections[<<r, c>>] \in [use : BOOLEAN, extra : Pairs]
    BY <1>3, <2>2 DEF Block
  <2>5. spaces_connections[<<r, c>>].extra \cup {<<i, j>>} \in Pairs
    BY <2>3, <2>4 DEF Pairs
  <2>6. Blocks' = Blocks /\ spaces_connections' \in [Blocks -> [use : BOOLEAN, extra : Pairs]]
    BY <1>3, <2>1, <2>2, <2>4, <2>5 DEF Block, Blocks
  <2>7. Block'
    BY <1>3, <1>5, <1>17, <2>6 DEF AddBlockDofs, AddBlockPairs, Block
  <2> QED BY <1>14, <1>17, <2>7 DEF AddBlockDofs, AddBlockPairs
<1>18. ASSUME NEW r \in Space, NEW c \in Space, AddDofsConnectivity(r, c)
       PROVE  TypeOK'
  <2>0. r \in AddedSpaces /\ c \in AddedSpaces
    BY <1>18 DEF AddDofsConnectivity, NamedSpaces
  <2>1. PICK i \in GlobalDofs(r), j \in GlobalDofs(c) :
          extra_dofs_connectivity' = extra_dofs_connectivity \cup {<<i, j>>}
    BY <1>18 DEF AddDofsConnectivity
  <2>2. extra_dofs_connectivity' \in Pairs
    BY <1>1, <1>3, <2>0, <2>1 DEF Block, Pairs
  <2>3. Block'
    BY <1>3, <1>5, <1>18, <2>2 DEF AddDofsConnectivity, Block, Blocks
  <2> QED BY <1>14, <1>18, <2>3 DEF AddDofsConnectivity
<1>19. ASSUME Constraint', UNCHANGED <<numbering_vars, insertion_vars, block_vars>>
       PROVE  TypeOK'
  BY <1>4, <1>5, <1>6, <1>7, <1>19
<1>20. CASE EqualityConstraintsOpen \/ EqualityConstraintsClose
            \/ LinearConstraintsOpen \/ LinearConstraintsClose
  <2>1. Constraint'
    BY <1>3, <1>20 DEF EqualityConstraintsOpen, EqualityConstraintsClose,
                       LinearConstraintsOpen, LinearConstraintsClose, Constraint
  <2> QED BY <1>19, <1>20, <2>1 DEF EqualityConstraintsOpen, EqualityConstraintsClose,
                                    LinearConstraintsOpen, LinearConstraintsClose
<1>21. ASSUME NEW r \in Space, NEW c \in Space, AddEqualityConstraint(r, c)
       PROVE  TypeOK'
  <2>1. PICK master \in GlobalDofs(r), slave \in GlobalDofs(c) :
          equality_constraints' = equality_constraints \cup {<<master, slave>>}
    BY <1>21 DEF AddEqualityConstraint
  <2>2. master \in Nat /\ slave \in Nat
    BY <1>1, <1>21, <2>1 DEF AddEqualityConstraint, NamedSpaces
  <2>3. Constraint'
    BY <1>3, <1>21, <2>1, <2>2 DEF AddEqualityConstraint, Constraint, Pairs
  <2> QED BY <1>19, <1>21, <2>3 DEF AddEqualityConstraint
<1>22. CASE RemoveEqualityConstraintsRedundancies
  <2>1. equality_constraints' \in Pairs
    BY <1>3, <1>22, RedundanciesType DEF RemoveEqualityConstraintsRedundancies, Constraint
  <2>2. Constraint'
    BY <1>3, <1>22, <2>1 DEF RemoveEqualityConstraintsRedundancies, Constraint
  <2> QED BY <1>19, <1>22, <2>2 DEF RemoveEqualityConstraintsRedundancies
<1>23. ASSUME NEW r \in Space, NEW c \in Space, AddLinearConstraint(r, c)
       PROVE  TypeOK'
  <2>1. PICK d \in GlobalDofs(r) :
          linear_constraints' = linear_constraints \cup {<<d, GlobalDofs(c)>>}
    BY <1>23 DEF AddLinearConstraint, AddConstraintOn
  <2>2. d \in Nat /\ GlobalDofs(c) \in SUBSET Nat
    BY <1>1, <1>23, <2>1 DEF AddLinearConstraint, AddConstraintOn, NamedSpaces
  <2>3. Constraint'
    BY <1>3, <1>23, <2>1, <2>2 DEF AddLinearConstraint, AddConstraintOn, Constraint
  <2> QED BY <1>19, <1>23, <2>3 DEF AddLinearConstraint, AddConstraintOn
<1>24. CASE UNCHANGED vars
  BY <1>4, <1>5, <1>6, <1>7, <1>8, <1>24 DEF vars
<1> QED BY <1>9, <1>10, <1>11, <1>12, <1>13, <1>15, <1>16, <1>17, <1>18, <1>20, <1>21, <1>22,
           <1>23, <1>24 DEF Next

\* The members keep their types whatever is called, in whatever order.
THEOREM TypeCorrect ==
  ASSUME SpaceManagerAssumption, TablesDistinct
  PROVE  Spec => []TypeOK
<1>1. Init => TypeOK
  <2> SUFFICES ASSUME Init PROVE TypeOK
    OBVIOUS
  <2>1. IInv
    BY InitIInv
  <2>2. AddedSpaces = {} /\ Blocks = {}
    BY DEF Init, AddedSpaces, Blocks
  <2>3. spaces_connections \in [Blocks -> [use : BOOLEAN, extra : Pairs]]
    BY <2>2 DEF Init
  <2> QED BY <2>1, <2>2, <2>3 DEF Init, TypeOK, IInv, NumberingTypeOK, Pairs
<1>2. IInv /\ IInv' /\ TypeOK /\ [Next]_vars => TypeOK'
  BY NextTypeOK
<1> QED BY <1>1, <1>2, InductiveInvariant, PTL DEF Spec
-----------------------------------------------------------------------------
(* Dense numbering, when all ids the tables have before start from zero.     *)

FreshTables == \A t \in Table : FirstDof[t] = 0

\* A space that has not been renumbered still has the ids it was created with.
WaitingFresh ==
  \A s \in Space \ SpacesIn(spaces_with_renumbered_dofs) : index_table[TableOf[s]][0] = 0

\* The ids are changed by the iterations of the loop and by nothing else.
LEMMA NumberingSteps ==
  ASSUME [Next]_vars
  PROVE  \/ RenumberSpace
         \/ \E s \in Space : AddSpace(s)
         \/ UNCHANGED numbering_vars
<1>1. CASE \/ SpacesInsertionOpen
           \/ \E renumber \in CloseArgs : SpacesInsertionClose(renumber)
           \/ RenumberingDone
           \/ SpacesConnectivityOpen
           \/ SpacesConnectivityClose
  BY <1>1 DEF SpacesInsertionOpen, SpacesInsertionClose, RenumberingDone,
              SpacesConnectivityOpen, SpacesConnectivityClose
<1>2. ASSUME NEW r \in Space, NEW c \in Space,
             \/ \E use \in BOOLEAN : AddSpacesConnection(r, c, use)
             \/ AddBlockDofs(r, c)
             \/ AddDofsConnectivity(r, c)
             \/ AddEqualityConstraint(r, c)
             \/ AddLinearConstraint(r, c)
      PROVE  UNCHANGED numbering_vars
  BY <1>2 DEF AddSpacesConnection, AddBlockDofs, AddBlockPairs, AddDofsConnectivity,
              AddEqualityConstraint, AddLinearConstraint, AddConstraintOn
<1>3. CASE \/ EqualityConstraintsOpen
           \/ EqualityConstraintsClose
           \/ RemoveEqualityConstraintsRedundancies
           \/ LinearConstraintsOpen
           \/ LinearConstraintsClose
  BY <1>3 DEF EqualityConstraintsOpen, EqualityConstraintsClose, LinearConstraintsOpen,
              LinearConstraintsClose, RemoveEqualityConstraintsRedundancies
<1>4. CASE UNCHANGED vars
  BY <1>4 DEF vars
<1> QED BY <1>1, <1>2, <1>3, <1>4 DEF Next

\* The list of renumbered spaces only grows.
LEMMA RenumberedStay ==
  ASSUME SpaceManagerAssumption, TablesDistinct, IInv, [Next]_vars
  PROVE  SpacesIn(spaces_with_renumbered_dofs) \subseteq SpacesIn(spaces_with_renumbered_dofs)'
<1>1. CASE RenumberSpace
  BY <1>1, RenumberSpaceIInv DEF ShiftedAbove
<1>2. CASE UNCHANGED spaces_with_renumbered_dofs
  BY <1>2 DEF SpacesIn
<1> QED BY <1>1, <1>2, NumberingSteps DEF AddSpace, numbering_vars

\* An iteration puts the ids of a waiting space right behind those given out.
LEMMA RenumberSpaceDense ==
  ASSUME SpaceManagerAssumption, TablesDistinct, IInv, NumberingDense, WaitingFresh, RenumberSpace
  PROVE  NumberingDense' /\ WaitingFresh'
<1>a. PICK s : s = Head(spaces_with_original_dofs)
  OBVIOUS
<1>b. PICK off : off = space_dofs_offset
  OBVIOUS
<1>c. PICK n : n = Size[TableOf[s]]
  OBVIOUS
<1>d. PICK R : R = SpacesIn(spaces_with_renumbered_dofs)
  OBVIOUS
<1>1. /\ IInv'
      /\ \A r \in R : GlobalDofs(r)' = GlobalDofs(r)
      /\ ShiftedAbove(s)
  BY <1>a, <1>d, RenumberSpaceIInv
<1>2. s \in Space \ R /\ off \in Nat
  BY <1>1, <1>b, <1>d DEF ShiftedAbove, IInv, NumberingTypeOK
<1>3. TableOf[s] \in Table /\ n \in Nat \ {0} /\ index_table[TableOf[s]][0] = 0
  BY <1>2, <1>c, <1>d, TableOfSpace DEF IInv, WaitingFresh
<1>4. index_table'[TableOf[s]][0] = off /\ space_dofs_offset' = off + n
  BY <1>1, <1>2, <1>3, <1>b, <1>c DEF ShiftedAbove
<1>5. GlobalDofs(s)' = off .. (off + n - 1)
  <2>1. GlobalDofs(s)' = {index_table'[TableOf[s]][i] : i \in 0 .. (n - 1)}
    BY <1>c DEF GlobalDofs, GlobalDofsOfTable, LocalDofs
  <2>2. \A i \in 0 .. (n - 1) : index_table'[TableOf[s]][i] = off + i
    BY <1>1, <1>3, <1>4, <1>c DEF IInv, Consecutive, LocalDofs
  <2>3. ASSUME NEW d \in off .. (off + n - 1)
        PROVE  d \in GlobalDofs(s)'
    <3>1. (d - off) \in 0 .. (n - 1) /\ off + (d - off) = d
      BY <1>2, <1>3
    <3> QED BY <2>1, <2>2, <3>1
  <2>4. \A i \in 0 .. (n - 1) : off + i \in off .. (off + n - 1)
    BY <1>2, <1>3
  <2> QED BY <2>1, <2>2, <2>3, <2>4
<1>6. SpacesIn(spaces_with_renumbered_dofs)' = R \cup {s}
  BY <1>1, <1>d DEF ShiftedAbove
<1>7. NumberingDense'
  <2>1. UNION {GlobalDofs(r) : r \in R} = 0 .. (off - 1)
    BY <1>b, <1>d DEF NumberingDense
  <2>2. ASSUME NEW r \in R \cup {s}, NEW d \in GlobalDofs(r)'
        PROVE  d \in 0 .. (off + n - 1)
    <3>1. CASE r = s
      BY <1>2, <1>3, <1>5, <2>2, <3>1
    <3>2. CASE r # s
      <4>1. d \in GlobalDofs(r) /\ r \in R
        BY <1>1, <2>2, <3>2
      <4>2. d \in 0 .. (off - 1)
        BY <2>1, <4>1
      <4> QED BY <1>2, <1>3, <4>2
    <3> QED BY <3>1, <3>2
  <2>3. ASSUME NEW d \in 0 .. (off + n - 1)
        PROVE  \E r \in R \cup {s} : d \in GlobalDofs(r)'
    <3>1. CASE d \in 0 .. (off - 1)
      <4>1. PICK r \in R : d \in GlobalDofs(r)
        BY <2>1, <3>1
      <4> QED BY <1>1, <4>1
    <3>2. CASE d \in off .. (off + n - 1)
      BY <1>5, <3>2
    <3> QED BY <1>2, <1>3, <3>1, <3>2
  <2>4. UNION {GlobalDofs(r)' : r \in R \cup {s}} = 0 .. (off + n - 1)
    BY <2>2, <2>3
  <2>5. 0 .. (space_dofs_offset' - 1) = 0 .. (off + n - 1)
    BY <1>2, <1>3, <1>4
  <2> QED BY <1>6, <2>4, <2>5 DEF NumberingDense
<1>8. WaitingFresh'
  BY <1>1, <1>6, <1>d DEF ShiftedAbove, WaitingFresh
<1> QED BY <1>7, <1>8

\* The ids of the spaces a manager has renumbered are 0, 1, ... up to its
\* offset, without a gap, over any number of phases and spaces.
THEOREM NumberingHasNoGap ==
  ASSUME SpaceManagerAssumption, TablesDistinct, FreshTables
  PROVE  Spec => []NumberingDense
<1>1. Init => NumberingDense /\ WaitingFresh
  <2> SUFFICES ASSUME Init PROVE NumberingDense /\ WaitingFresh
    OBVIOUS
  <2>1. SpacesIn(spaces_with_renumbered_dofs) = {} /\ space_dofs_offset = 0
    BY DEF Init, SpacesIn
  <2>2. NumberingDense
    BY <2>1 DEF NumberingDense
  <2>3. ASSUME NEW s \in Space
        PROVE  index_table[TableOf[s]][0] = 0
    <3>1. TableOf[s] \in Table /\ Size[TableOf[s]] \in Nat \ {0} /\ FirstDof[TableOf[s]] = 0
      BY DEF SpaceManagerAssumption, FreshTables
    <3>2. 0 \in LocalDofs(TableOf[s])
      BY <3>1 DEF LocalDofs
    <3> QED BY <3>1, <3>2 DEF Init
  <2> QED BY <2>2, <2>3 DEF WaitingFresh
<1>2. ASSUME IInv, NumberingDense, WaitingFresh, [Next]_vars
      PROVE  NumberingDense' /\ WaitingFresh'
  <2>1. CASE RenumberSpace
    BY <1>2, <2>1, RenumberSpaceDense
  <2>2. CASE UNCHANGED <<index_table, spaces_with_renumbered_dofs, space_dofs_offset>>
    <3>1. \A s : GlobalDofs(s)' = GlobalDofs(s)
      BY <2>2 DEF GlobalDofs, GlobalDofsOfTable
    <3>2. SpacesIn(spaces_with_renumbered_dofs)' = SpacesIn(spaces_with_renumbered_dofs)
      BY <2>2 DEF SpacesIn
    <3> QED BY <1>2, <2>2, <3>1, <3>2 DEF NumberingDense, WaitingFresh
  <2> QED BY <1>2, <2>1, <2>2, NumberingSteps DEF AddSpace, numbering_vars
<1> QED BY <1>1, <1>2, InductiveInvariant, PTL DEF Spec

-----------------------------------------------------------------------------
(* Stored ids, for clients that follow the documentation and renumber.       *)

RenumberedSpaces == SpacesIn(spaces_with_renumbered_dofs)
RenumberedIds == UNION {GlobalDofs(s) : s \in RenumberedSpaces}

\* What is stored are ids of renumbered spaces, which stay.
StoredInBlocks ==
  \A b \in Blocks :
    /\ b \in RenumberedSpaces \X RenumberedSpaces
    /\ spaces_connections[b].extra \subseteq GlobalDofs(b[1]) \X GlobalDofs(b[2])
StoredApart ==
  /\ extra_dofs_connectivity \subseteq RenumberedIds \X RenumberedIds
  /\ ConstrainedDofs(equality_constraints) \subseteq RenumberedIds
  /\ \A c \in linear_constraints : c[1] \in RenumberedIds /\ c[2] \subseteq RenumberedIds

\* Removing redundancies constrains no other dof.
LEMMA RedundanciesConstrained ==
  ASSUME NEW cs
  PROVE  ConstrainedDofs(WithoutRedundancies(cs)) \subseteq ConstrainedDofs(cs)
<1>1. Masters(cs) \subseteq ConstrainedDofs(cs)
  BY DEF Masters, ConstrainedDofs
<1>2. \A c \in WithoutRedundancies(cs) : c[1] \in ConstrainedDofs(cs) /\ c[2] \in ConstrainedDofs(cs)
  BY <1>1 DEF WithoutRedundancies
<1>3. ASSUME NEW d \in ConstrainedDofs(WithoutRedundancies(cs))
      PROVE  d \in ConstrainedDofs(cs)
  <2>1. PICK c \in WithoutRedundancies(cs) : d \in {c[1], c[2]}
    BY <1>3, Zenon DEF ConstrainedDofs
  <2> QED BY <1>2, <2>1
<1> QED BY <1>3

\* What clients name in a phase that is not open has been renumbered.
LEMMA NamedAreRenumbered ==
  ASSUME IInv, ViewRenumbered, ViewComplete, DocumentedUse, CloseArgs \subseteq {TRUE},
         ~closing, ~is_spaces_insertion_open
  PROVE  AddedSpaces \subseteq RenumberedSpaces
  BY DEF ViewRenumbered, ViewComplete, RenumberedSpaces

\* Nothing that happens to the numbering invalidates what is stored.
LEMMA StoredStay ==
  ASSUME SpaceManagerAssumption, TablesDistinct, IInv, [Next]_vars
  PROVE  /\ StoredInBlocks /\ UNCHANGED spaces_connections => StoredInBlocks'
         /\ StoredApart /\ UNCHANGED <<extra_dofs_connectivity, equality_constraints, linear_constraints>>
              => StoredApart'
         /\ RenumberedIds \subseteq RenumberedIds'
         /\ RenumberedSpaces \subseteq RenumberedSpaces'
         /\ \A r \in RenumberedSpaces : GlobalDofs(r)' = GlobalDofs(r)
<1>1. RenumberedSpaces \subseteq RenumberedSpaces'
  BY RenumberedStay DEF RenumberedSpaces
<1>2. \A r \in RenumberedSpaces : GlobalDofs(r)' = GlobalDofs(r)
  BY NextIInv DEF RenumberedSpaces
<1>3. RenumberedIds \subseteq RenumberedIds'
  <2>1. ASSUME NEW r \in RenumberedSpaces, NEW d \in GlobalDofs(r)
        PROVE  \E q \in RenumberedSpaces' : d \in GlobalDofs(q)'
    BY <1>1, <1>2
  <2> QED BY <2>1 DEF RenumberedIds
<1>4. ASSUME StoredInBlocks, UNCHANGED spaces_connections
      PROVE  StoredInBlocks'
  <2>1. ASSUME NEW b \in Blocks
        PROVE  /\ b \in RenumberedSpaces' \X RenumberedSpaces'
               /\ spaces_connections[b].extra \subseteq GlobalDofs(b[1])' \X GlobalDofs(b[2])'
    <3>1. b \in RenumberedSpaces \X RenumberedSpaces
      BY <1>4 DEF StoredInBlocks
    <3>2. GlobalDofs(b[1])' = GlobalDofs(b[1]) /\ GlobalDofs(b[2])' = GlobalDofs(b[2])
      BY <1>2, <3>1
    <3> QED BY <1>1, <1>4, <3>1, <3>2 DEF StoredInBlocks
  <2> QED BY <1>4, <2>1 DEF StoredInBlocks, Blocks
<1>5. StoredApart /\ UNCHANGED <<extra_dofs_connectivity, equality_constraints, linear_constraints>>
        => StoredApart'
  BY <1>3 DEF StoredApart
<1> QED BY <1>1, <1>2, <1>3, <1>4, <1>5

\* Every step keeps stored ids ids of renumbered spaces: what is stored when the
\* insertion phase is closed names such spaces, and nothing stored is undone.
LEMMA StoredStep ==
  ASSUME SpaceManagerAssumption, TablesDistinct, DocumentedUse, CloseArgs \subseteq {TRUE},
         IInv, TypeOK, ViewRenumbered, ViewComplete, StoredInBlocks, StoredApart, [Next]_vars
  PROVE  StoredInBlocks' /\ StoredApart'
<1>1. /\ StoredInBlocks /\ UNCHANGED spaces_connections => StoredInBlocks'
      /\ StoredApart /\ UNCHANGED <<extra_dofs_connectivity, equality_constraints, linear_constraints>>
           => StoredApart'
      /\ RenumberedIds \subseteq RenumberedIds'
      /\ RenumberedSpaces \subseteq RenumberedSpaces'
      /\ \A r \in RenumberedSpaces : GlobalDofs(r)' = GlobalDofs(r)
  BY StoredStay
<1>2. ~closing /\ ~is_spaces_insertion_open => AddedSpaces \subseteq RenumberedSpaces
  BY NamedAreRenumbered
<1>3. ~closing => NamedSpaces \subseteq RenumberedSpaces
  BY <1>2 DEF NamedSpaces
<1>4. \A r \in RenumberedSpaces : GlobalDofs(r) \subseteq RenumberedIds
  BY DEF RenumberedIds
<1>5. ASSUME NEW r \in Space, NEW c \in Space, NEW use \in BOOLEAN, AddSpacesConnection(r, c, use)
      PROVE  StoredInBlocks'
  <2>1. /\ <<r, c>> \in RenumberedSpaces \X RenumberedSpaces
        /\ Blocks' = Blocks \cup {<<r, c>>}
        /\ \A b \in Blocks : spaces_connections'[b] = spaces_connections[b]
        /\ spaces_connections'[<<r, c>>].extra = {}
    BY <1>2, <1>5 DEF AddSpacesConnection, Blocks
  <2>2. ASSUME NEW b \in Blocks'
        PROVE  /\ b \in RenumberedSpaces' \X RenumberedSpaces'
               /\ spaces_connections'[b].extra \subseteq GlobalDofs(b[1])' \X GlobalDofs(b[2])'
    <3>1. CASE b \in Blocks
      <4>1. b \in RenumberedSpaces \X RenumberedSpaces
        BY <3>1 DEF StoredInBlocks
      <4>2. GlobalDofs(b[1])' = GlobalDofs(b[1]) /\ GlobalDofs(b[2])' = GlobalDofs(b[2])
        BY <1>1, <4>1
      <4>3. spaces_connections[b].extra \subseteq GlobalDofs(b[1]) \X GlobalDofs(b[2])
        BY <3>1 DEF StoredInBlocks
      <4> QED BY <1>1, <2>1, <3>1, <4>1, <4>2, <4>3
    <3>2. CASE b = <<r, c>>
      BY <1>1, <2>1, <3>2
    <3> QED BY <2>1, <2>2, <3>1, <3>2
  <2> QED BY <2>2 DEF StoredInBlocks
<1>6. ASSUME NEW r \in Space, NEW c \in Space, AddBlockDofs(r, c)
      PROVE  StoredInBlocks'
  <2>1. PICK i \in GlobalDofs(r), j \in GlobalDofs(c) :
          spaces_connections' = [spaces_connections EXCEPT ![<<r, c>>].extra = @ \cup {<<i, j>>}]
    BY <1>6 DEF AddBlockDofs, AddBlockPairs
  <2>2. spaces_connections \in [Blocks -> [use : BOOLEAN, extra : Pairs]] /\ <<r, c>> \in Blocks
    BY <1>6 DEF TypeOK, AddBlockDofs, AddBlockPairs
  <2>3. /\ Blocks' = Blocks
        /\ \A b \in Blocks : b # <<r, c>> => spaces_connections'[b] = spaces_connections[b]
        /\ spaces_connections'[<<r, c>>].extra = spaces_connections[<<r, c>>].extra \cup {<<i, j>>}
    BY <2>1, <2>2 DEF Blocks
  <2>4. ASSUME NEW b \in Blocks
        PROVE  /\ b \in RenumberedSpaces' \X RenumberedSpaces'
               /\ spaces_connections'[b].extra \subseteq GlobalDofs(b[1])' \X GlobalDofs(b[2])'
    <3>1. b \in RenumberedSpaces \X RenumberedSpaces
      BY DEF StoredInBlocks
    <3>2. GlobalDofs(b[1])' = GlobalDofs(b[1]) /\ GlobalDofs(b[2])' = GlobalDofs(b[2])
      BY <1>1, <3>1
    <3>3. spaces_connections[b].extra \subseteq GlobalDofs(b[1]) \X GlobalDofs(b[2])
      BY DEF StoredInBlocks
    <3>4. spaces_connections'[b].extra \subseteq GlobalDofs(b[1]) \X GlobalDofs(b[2])
      <4>1. CASE b = <<r, c>>
        <5>1. spaces_connections'[b].extra = spaces_connections[b].extra \cup {<<i, j>>}
          BY <2>3, <4>1
        <5>2. <<i, j>> \in GlobalDofs(b[1]) \X GlobalDofs(b[2])
          BY <4>1
        <5> QED BY <3>3, <5>1, <5>2
      <4>2. CASE b # <<r, c>>
        BY <2>3, <3>3, <4>2
      <4> QED BY <4>1, <4>2
    <3> QED BY <1>1, <3>1, <3>2, <3>4
  <2> QED BY <2>3, <2>4 DEF StoredInBlocks
<1>7. ASSUME NEW r \in Space, NEW c \in Space, AddDofsConnectivity(r, c)
      PROVE  StoredApart'
  <2>1. PICK i \in GlobalDofs(r), j \in GlobalDofs(c) :
          extra_dofs_connectivity' = extra_dofs_connectivity \cup {<<i, j>>}
    BY <1>7 DEF AddDofsConnectivity
  <2>2. i \in RenumberedIds' /\ j \in RenumberedIds'
    BY <1>1, <1>3, <1>4, <1>7, <2>1 DEF AddDofsConnectivity
  <2>3. equality_constraints' = equality_constraints /\ linear_constraints' = linear_constraints
    BY <1>7 DEF AddDofsConnectivity, constraint_vars
  <2> QED BY <1>1, <2>1, <2>2, <2>3 DEF StoredApart
<1>8. ASSUME NEW r \in Space, NEW c \in Space, AddEqualityConstraint(r, c)
      PROVE  StoredApart'
  <2>1. PICK master \in GlobalDofs(r), slave \in GlobalDofs(c) :
          equality_constraints' = equality_constraints \cup {<<master, slave>>}
    BY <1>8 DEF AddEqualityConstraint
  <2>2. master \in RenumberedIds' /\ slave \in RenumberedIds'
    BY <1>1, <1>3, <1>4, <1>8, <2>1 DEF AddEqualityConstraint
  <2>3. ConstrainedDofs(equality_constraints') \subseteq ConstrainedDofs(equality_constraints) \cup {master, slave}
    <3>1. ASSUME NEW d \in ConstrainedDofs(equality_constraints')
          PROVE  d \in ConstrainedDofs(equality_constraints) \cup {master, slave}
      <4>1. PICK e \in equality_constraints' : d \in {e[1], e[2]}
        BY <3>1, Zenon DEF ConstrainedDofs
      <4>2. CASE e \in equality_constraints
        BY <4>1, <4>2 DEF ConstrainedDofs
      <4>3. CASE e = <<master, slave>>
        BY <4>1, <4>3
      <4> QED BY <2>1, <4>2, <4>3
    <3> QED BY <3>1
  <2>4. extra_dofs_connectivity' = extra_dofs_connectivity /\ linear_constraints' = linear_constraints
    BY <1>8 DEF AddEqualityConstraint, block_vars
  <2> QED BY <1>1, <2>2, <2>3, <2>4 DEF StoredApart
<1>9. ASSUME RemoveEqualityConstraintsRedundancies
      PROVE  StoredApart'
  <2>1. ConstrainedDofs(equality_constraints') \subseteq ConstrainedDofs(equality_constraints)
    BY <1>9, RedundanciesConstrained DEF RemoveEqualityConstraintsRedundancies
  <2>2. extra_dofs_connectivity' = extra_dofs_connectivity /\ linear_constraints' = linear_constraints
    BY <1>9 DEF RemoveEqualityConstraintsRedundancies, block_vars
  <2> QED BY <1>1, <2>1, <2>2 DEF StoredApart
<1>10. ASSUME NEW r \in Space, NEW c \in Space, AddLinearConstraint(r, c)
       PROVE  StoredApart'
  <2>1. PICK d \in GlobalDofs(r) : linear_constraints' = linear_constraints \cup {<<d, GlobalDofs(c)>>}
    BY <1>10 DEF AddLinearConstraint, AddConstraintOn
  <2>2. d \in RenumberedIds' /\ GlobalDofs(c) \subseteq RenumberedIds'
    BY <1>1, <1>3, <1>4, <1>10, <2>1 DEF AddLinearConstraint, AddConstraintOn
  <2>3. extra_dofs_connectivity' = extra_dofs_connectivity /\ equality_constraints' = equality_constraints
    BY <1>10 DEF AddLinearConstraint, AddConstraintOn, block_vars
  <2> QED BY <1>1, <2>1, <2>2, <2>3 DEF StoredApart
<1>11. CASE UNCHANGED <<spaces_connections, extra_dofs_connectivity, equality_constraints, linear_constraints>>
  BY <1>1, <1>11
<1>12. UNCHANGED <<block_vars, constraint_vars>>
         => UNCHANGED <<spaces_connections, extra_dofs_connectivity, equality_constraints, linear_constraints>>
  BY DEF block_vars, constraint_vars
<1>13. CASE \/ SpacesInsertionOpen
            \/ \E s \in Space : AddSpace(s)
            \/ \E renumber \in CloseArgs : SpacesInsertionClose(renumber)
            \/ RenumberSpace
            \/ RenumberingDone
  BY <1>11, <1>12, <1>13 DEF SpacesInsertionOpen, AddSpace, SpacesInsertionClose, RenumberSpace, RenumberingDone
<1>14. CASE \/ SpacesConnectivityOpen
            \/ SpacesConnectivityClose
  BY <1>11, <1>14 DEF SpacesConnectivityOpen, SpacesConnectivityClose, constraint_vars
<1>15. CASE \/ EqualityConstraintsOpen
            \/ EqualityConstraintsClose
            \/ LinearConstraintsOpen
            \/ LinearConstraintsClose
  BY <1>11, <1>15 DEF EqualityConstraintsOpen, EqualityConstraintsClose, LinearConstraintsOpen,
                      LinearConstraintsClose, block_vars
<1>16. CASE UNCHANGED vars
  BY <1>11, <1>12, <1>16 DEF vars
<1>17. ASSUME NEW r \in Space, NEW c \in Space,
              \/ \E use \in BOOLEAN : AddSpacesConnection(r, c, use)
              \/ AddBlockDofs(r, c)
       PROVE  StoredInBlocks' /\ StoredApart'
  <2>1. UNCHANGED <<extra_dofs_connectivity, equality_constraints, linear_constraints>>
    BY <1>17 DEF AddSpacesConnection, AddBlockDofs, AddBlockPairs, constraint_vars
  <2> QED BY <1>1, <1>5, <1>6, <1>17, <2>1
<1>18. ASSUME NEW r \in Space, NEW c \in Space,
              AddDofsConnectivity(r, c) \/ AddEqualityConstraint(r, c) \/ AddLinearConstraint(r, c)
       PROVE  StoredInBlocks' /\ StoredApart'
  <2>1. UNCHANGED spaces_connections
    BY <1>18 DEF AddDofsConnectivity, AddEqualityConstraint, AddLinearConstraint, AddConstraintOn, block_vars
  <2> QED BY <1>1, <1>7, <1>8, <1>10, <1>18, <2>1
<1>19. CASE RemoveEqualityConstraintsRedundancies
  <2>1. UNCHANGED spaces_connections
    BY <1>19 DEF RemoveEqualityConstraintsRedundancies, block_vars
  <2> QED BY <1>1, <1>9, <1>19, <2>1
<1> QED BY <1>13, <1>14, <1>15, <1>16, <1>17, <1>18, <1>19 DEF Next

\* Clients that use ids only after the insertion phase, and renumber when they
\* close it, never see an id they stored go stale: whatever they store, and
\* whatever spaces they add later, blocks and constraints name dofs of the
\* spaces they were stored for.
THEOREM StoredIdsStayLive ==
  ASSUME SpaceManagerAssumption, TablesDistinct, DocumentedUse, CloseArgs \subseteq {TRUE}
  PROVE  Spec => []StoredIdsLive
<1>1. Init => ViewRenumbered /\ StoredInBlocks /\ StoredApart
  BY DEF Init, ViewRenumbered, StoredInBlocks, StoredApart, Blocks, ConstrainedDofs
<1>2. IInv /\ ViewRenumbered /\ [Next]_vars => ViewRenumbered'
  BY NextViewRenumbered
<1>3. /\ IInv /\ TypeOK /\ ViewRenumbered /\ ViewComplete /\ StoredInBlocks /\ StoredApart
      /\ [Next]_vars
      => StoredInBlocks' /\ StoredApart'
  BY StoredStep
<1>4. ASSUME IInv, StoredInBlocks, StoredApart
      PROVE  StoredIdsLive
  <2>1. RenumberedSpaces \subseteq AddedSpaces
    BY <1>4 DEF RenumberedSpaces, SpacesIn, IInv, NumberingTypeOK
  <2>2. RenumberedIds \subseteq UNION {GlobalDofs(s) : s \in AddedSpaces}
    BY <2>1 DEF RenumberedIds
  <2> QED BY <1>4, <2>2 DEF StoredIdsLive, StoredInBlocks, StoredApart
<1> QED BY <1>1, <1>2, <1>3, <1>4, InductiveInvariant, TypeCorrect, ViewIsComplete, PTL DEF Spec

-----------------------------------------------------------------------------
(* The pattern and the maps.                                                 *)

\* Each dof of a table lives on some element.
ElementsCover == \A t \in Table : UNION Elements[t] = LocalDofs(t)

\* Only a diagonal block uses the dofs of a space.
UseIsDiagonal == \A b \in Blocks : spaces_connections[b].use => b[1] = b[2]

\* The dofs of a space are the rows, and the columns, of its elements.
LEMMA ElementPairsCover ==
  ASSUME SpaceManagerAssumption, ElementsCover, NEW s \in Space
  PROVE  /\ {p[1] : p \in ElementPairs(s)} = GlobalDofs(s)
         /\ {p[2] : p \in ElementPairs(s)} = GlobalDofs(s)
<1> DEFINE t == TableOf[s]
           table == index_table[t]
<1>1. t \in Table /\ UNION Elements[t] = LocalDofs(t)
  BY DEF SpaceManagerAssumption, ElementsCover
<1>2. ASSUME NEW p \in ElementPairs(s)
      PROVE  p[1] \in GlobalDofs(s) /\ p[2] \in GlobalDofs(s)
  <2>1. PICK e \in Elements[t] : p \in {<<table[i], table[j]>> : i, j \in e}
    BY DEF ElementPairs
  <2>2. PICK i \in e, j \in e : p = <<table[i], table[j]>>
    BY <2>1
  <2>3. i \in LocalDofs(t) /\ j \in LocalDofs(t)
    BY <1>1
  <2> QED BY <2>2, <2>3 DEF GlobalDofs, GlobalDofsOfTable
<1>3. ASSUME NEW d \in GlobalDofs(s)
      PROVE  <<d, d>> \in ElementPairs(s)
  <2>1. PICK i \in LocalDofs(t) : d = table[i]
    BY DEF GlobalDofs, GlobalDofsOfTable
  <2>2. PICK e \in Elements[t] : i \in e
    BY <1>1
  <2>3. <<d, d>> \in {<<table[k], table[j]>> : k, j \in e}
    BY <2>1, <2>2
  <2> QED BY <2>3 DEF ElementPairs
<1>4. ASSUME NEW d \in GlobalDofs(s)
      PROVE  \E p \in ElementPairs(s) : d = p[1] /\ d = p[2]
  BY <1>3
<1> QED BY <1>2, <1>4

\* A block has rows and columns where its pattern has entries.
LEMMA BlockMatches ==
  ASSUME SpaceManagerAssumption, ElementsCover, TypeOK, UseIsDiagonal, NEW b \in Blocks
  PROVE  /\ {p[1] : p \in BlockPattern(b)} = BlockRowDofs(b)
         /\ {p[2] : p \in BlockPattern(b)} = BlockColDofs(b)
<1>1. b[1] \in Space
  BY DEF TypeOK
<1>2. CASE spaces_connections[b].use
  <2>1. b[1] = b[2]
    BY <1>2 DEF UseIsDiagonal
  <2>2. BlockPattern(b) = ElementPairs(b[1]) \cup spaces_connections[b].extra
    BY <1>2, <2>1 DEF BlockPattern
  <2>3. /\ BlockRowDofs(b) = GlobalDofs(b[1]) \cup {p[1] : p \in spaces_connections[b].extra}
        /\ BlockColDofs(b) = GlobalDofs(b[1]) \cup {p[2] : p \in spaces_connections[b].extra}
    BY <1>2, <2>1 DEF BlockRowDofs, BlockColDofs
  <2>4. /\ {p[1] : p \in ElementPairs(b[1])} = GlobalDofs(b[1])
        /\ {p[2] : p \in ElementPairs(b[1])} = GlobalDofs(b[1])
    BY <1>1, ElementPairsCover
  <2> QED BY <2>2, <2>3, <2>4
<1>3. CASE ~spaces_connections[b].use
  <2>1. BlockPattern(b) = spaces_connections[b].extra
    BY <1>3 DEF BlockPattern
  <2>2. /\ BlockRowDofs(b) = {p[1] : p \in spaces_connections[b].extra}
        /\ BlockColDofs(b) = {p[2] : p \in spaces_connections[b].extra}
    BY <1>3 DEF BlockRowDofs, BlockColDofs
  <2> QED BY <2>1, <2>2
<1> QED BY <1>2, <1>3

\* A connection that uses the dofs of a space is made only between a space and
\* itself, and no later call changes that.
LEMMA NextUseIsDiagonal ==
  ASSUME TypeOK, UseIsDiagonal, [Next]_vars
  PROVE  UseIsDiagonal'
<1>1. CASE UNCHANGED spaces_connections
  BY <1>1 DEF UseIsDiagonal, Blocks
<1>2. ASSUME NEW r \in Space, NEW c \in Space, NEW use \in BOOLEAN, AddSpacesConnection(r, c, use)
      PROVE  UseIsDiagonal'
  <2>1. /\ Blocks' = Blocks \cup {<<r, c>>}
        /\ \A b \in Blocks : spaces_connections'[b] = spaces_connections[b]
        /\ spaces_connections'[<<r, c>>].use => r = c
    BY <1>2 DEF AddSpacesConnection, Blocks
  <2> QED BY <2>1 DEF UseIsDiagonal
<1>3. ASSUME NEW r \in Space, NEW c \in Space, AddBlockDofs(r, c)
      PROVE  UseIsDiagonal'
  <2>1. PICK i \in GlobalDofs(r), j \in GlobalDofs(c) :
          spaces_connections' = [spaces_connections EXCEPT ![<<r, c>>].extra = @ \cup {<<i, j>>}]
    BY <1>3 DEF AddBlockDofs, AddBlockPairs
  <2>2. spaces_connections \in [Blocks -> [use : BOOLEAN, extra : Pairs]]
    BY DEF TypeOK
  <2>3. Blocks' = Blocks /\ \A b \in Blocks : spaces_connections'[b].use = spaces_connections[b].use
    BY <2>1, <2>2 DEF Blocks
  <2> QED BY <2>3 DEF UseIsDiagonal
<1>4. UNCHANGED block_vars => UNCHANGED spaces_connections
  BY DEF block_vars
<1>5. CASE \/ SpacesInsertionOpen
           \/ \E s \in Space : AddSpace(s)
           \/ \E renumber \in CloseArgs : SpacesInsertionClose(renumber)
           \/ RenumberSpace
           \/ RenumberingDone
  BY <1>1, <1>4, <1>5 DEF SpacesInsertionOpen, AddSpace, SpacesInsertionClose, RenumberSpace, RenumberingDone
<1>6. CASE SpacesConnectivityOpen \/ SpacesConnectivityClose
  BY <1>1, <1>6 DEF SpacesConnectivityOpen, SpacesConnectivityClose
<1>7. CASE \E r, c \in Space :
             AddDofsConnectivity(r, c) \/ AddEqualityConstraint(r, c) \/ AddLinearConstraint(r, c)
  BY <1>1, <1>4, <1>7 DEF AddDofsConnectivity, AddEqualityConstraint, AddLinearConstraint, AddConstraintOn
<1>8. CASE \/ EqualityConstraintsOpen
           \/ EqualityConstraintsClose
           \/ RemoveEqualityConstraintsRedundancies
           \/ LinearConstraintsOpen
           \/ LinearConstraintsClose
  BY <1>1, <1>4, <1>8 DEF EqualityConstraintsOpen, EqualityConstraintsClose, LinearConstraintsOpen,
                      LinearConstraintsClose, RemoveEqualityConstraintsRedundancies
<1>9. CASE UNCHANGED vars
  BY <1>1, <1>4, <1>9 DEF vars
<1> QED BY <1>2, <1>3, <1>5, <1>6, <1>7, <1>8, <1>9 DEF Next

\* The row map and the column map of a matrix have exactly the rows and the
\* columns its sparsity pattern has, whatever blocks, extra pairs and spaces
\* there are.
THEOREM PatternHasRowsOfMaps ==
  ASSUME SpaceManagerAssumption, TablesDistinct, ElementsCover
  PROVE  Spec => []PatternMatchesMaps
<1>1. Init => UseIsDiagonal
  BY DEF Init, UseIsDiagonal, Blocks
<1>2. TypeOK /\ UseIsDiagonal /\ [Next]_vars => UseIsDiagonal'
  BY NextUseIsDiagonal
<1>3. ASSUME TypeOK, UseIsDiagonal
      PROVE  PatternMatchesMaps
  <2> DEFINE P == UNION {BlockPattern(b) : b \in Blocks}
  <2>1. \A b \in Blocks : /\ {p[1] : p \in BlockPattern(b)} = BlockRowDofs(b)
                          /\ {p[2] : p \in BlockPattern(b)} = BlockColDofs(b)
    BY <1>3, BlockMatches
  <2>2. ASSUME NEW p \in P
        PROVE  /\ p[1] \in UNION {BlockRowDofs(b) : b \in Blocks}
               /\ p[2] \in UNION {BlockColDofs(b) : b \in Blocks}
    BY <2>1, <2>2
  <2>3. ASSUME NEW d \in UNION {BlockRowDofs(b) : b \in Blocks}
        PROVE  \E p \in P : p[1] = d
    BY <2>1, <2>3
  <2>4. ASSUME NEW d \in UNION {BlockColDofs(b) : b \in Blocks}
        PROVE  \E p \in P : p[2] = d
    BY <2>1, <2>4
  <2>5. GetSparsityPattern = P \cup extra_dofs_connectivity
    BY DEF GetSparsityPattern
  <2> HIDE DEF P
  <2>6. {p[1] : p \in GetSparsityPattern} = GetRowDofs
    BY <2>2, <2>3, <2>5 DEF GetRowDofs
  <2>7. {p[2] : p \in GetSparsityPattern} = GetColDofs
    BY <2>2, <2>4, <2>5 DEF GetColDofs
  <2> QED BY <2>6, <2>7 DEF PatternMatchesMaps
<1> QED BY <1>1, <1>2, <1>3, TypeCorrect, PTL DEF Spec
=============================================================================
