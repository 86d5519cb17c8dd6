------------------------- MODULE ConcatenatedIteration -------------------------
(***************************************************************************)
(* ConcatenatedIterator: one iterator over a list of views, which may lie  *)
(* in different containers.  It stands in one of the ranges; the end is    *)
(* the end of the last one.                                                *)
(***************************************************************************)
EXTENDS MultiArrays, FiniteSets

CONSTANTS Past

VARIABLES ranges, range_id, current

cursorVars == <<ranges, range_id, current>>

NumRanges == Cardinality(DOMAIN ranges)
LastRange == NumRanges - 1
LastEnd == ranges[LastRange].end

\* The constructor asserts that there is a range and that none is empty.
CanConcatenate(list) == DOMAIN list # {} /\ \A r \in DOMAIN list : IsView(list[r])

CursorInit(lists) ==
  /\ ranges \in {list \in lists : CanConcatenate(list)}
  /\ range_id = 0
  /\ current = ranges[0].begin

AtBegin == [range_id |-> 0, current |-> ranges[0].begin]
AtEnd == [range_id |-> LastRange, current |-> LastEnd]
Here == [range_id |-> range_id, current |-> current]

Before(it, other) ==
  \/ it.range_id < other.range_id
  \/ it.range_id = other.range_id /\ Less(it.current, other.current)

\* A variant that stays at the end of a range.
StepInRange(it) ==
  IF it.current = ranges[it.range_id].end /\ it.range_id < LastRange
  THEN [range_id |-> it.range_id + 1, current |-> ranges[it.range_id + 1].begin]
  ELSE [it EXCEPT !.current = Successor(@)]

\* operator++: the end of a range is the beginning of the next one.
Step(it) ==
  LET next == IF it.current # ranges[it.range_id].end THEN Successor(it.current) ELSE it.current
  IN  IF it.range_id < LastRange
      THEN IF next = ranges[it.range_id].end
           THEN [range_id |-> it.range_id + 1, current |-> ranges[it.range_id + 1].begin]
           ELSE [it EXCEPT !.current = next]
      ELSE [it EXCEPT !.current = Successor(@)]

Steps(it, n) == LET s[k \in 0 .. n] == IF k = 0 THEN it ELSE Step(s[k - 1]) IN s[n]

\* A variant that counts the range the other stands in from its beginning.
DistanceFromRanges(it, a) ==
  SumOver(it.range_id - a.range_id, LAMBDA r : NumEntries(ranges[a.range_id + r]))
    + Distance(it.current, ranges[it.range_id].begin)

\* operator-: the ranges between, less what a has passed, and what it has passed.
DistanceOf(it, a) ==
  SumOver(it.range_id - a.range_id, LAMBDA r : NumEntries(ranges[a.range_id + r]))
    - Distance(a.current, ranges[a.range_id].begin)
    + Distance(it.current, ranges[it.range_id].begin)

Dereference(it) == Deref(it.current)

\* The range that holds entry id, counted from the first range on, wherever the
\* iterator stands, and the place of the entry in it.
FirstOf(r) == SumOver(r, LAMBDA q : NumEntries(ranges[q]))
RangeOfEntry(id) ==
  CHOOSE r \in DOMAIN ranges : FirstOf(r) <= id /\ id < FirstOf(r) + NumEntries(ranges[r])
EntryOf(id) == LET r == RangeOfEntry(id) IN Position(ranges[r], id - FirstOf(r))

MoveTo(it) ==
  /\ range_id' = it.range_id
  /\ current' = it.current
  /\ UNCHANGED ranges

Increment ==
  /\ Here # AtEnd
  /\ MoveTo(Step(Here))

\* operator+ moves the iterator itself; it may not pass the end.
Jump(n) ==
  /\ n <= DistanceOf(AtEnd, Here)
  /\ MoveTo(Steps(Here, n))

CursorNext == Increment \/ \E n \in 2 .. 3 : Jump(n)

-------------------------------------------------------------------------------
(* What the iterator promises: a cursor over the entries as operator[]     *)
(* gives them, with the distances operator- computes.                      *)

Cursor == INSTANCE SequenceCursor WITH
  entries <- [k \in 0 .. DistanceOf(AtEnd, AtBegin) - 1 |-> EntryOf(k)],
  position <- FirstOf(range_id) + Distance(current, ranges[range_id].begin),
  value <- IF Here = AtEnd THEN Past ELSE Dereference(Here),
  passed <- DistanceOf(Here, AtBegin),
  left <- DistanceOf(AtEnd, Here)

\* An iterator over concatenated views is a cursor over one sequence, with the
\* entries operator[] gives and the distances operator- counts
\* (ConcatenatedIterator implements SequenceCursor).
CursorImplemented == Cursor!Spec
===============================================================================
