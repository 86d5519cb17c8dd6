---------------------------- MODULE SequenceCursor ----------------------------
(***************************************************************************)
(* What an iterator over a sequence promises: it stands at a position, the *)
(* value it gives is the entry there, and the distances to both ends are   *)
(* the entries passed and the entries left.  It only moves forward.        *)
(***************************************************************************)
EXTENDS Integers

CONSTANTS Past     \* the value of an iterator that has passed the last entry

VARIABLES entries, position, value, passed, left

vars == <<entries, position, value, passed, left>>

Length == IF DOMAIN entries = {} THEN 0 ELSE 1 + (CHOOSE k \in DOMAIN entries : \A j \in DOMAIN entries : j <= k)

StandsAt(p) ==
  /\ position = p
  /\ value = IF p = Length THEN Past ELSE entries[p]
  /\ passed = p
  /\ left = Length - p

Init == StandsAt(0)

Advance ==
  /\ UNCHANGED entries
  /\ position' \in position + 1 .. Length
  /\ StandsAt(position)'

Next == Advance

Spec == Init /\ [][Next]_vars
===============================================================================
