----------------------------- MODULE RangeMerge -----------------------------
(***************************************************************************)
(* StorageTransaction::range and the iterator behind it, MergeOverlay      *)
(* (packages/cosmwasm/storage/src/transactions.rs): the deltas of          *)
(* local_state within the bounds are merged, in either order, with the     *)
(* pairs the store below yields for the same bounds (MemoryStorage::range, *)
(* packages/cosmwasm/std/src/storage.rs).  Both maps are borrowed while    *)
(* the iterator lives, so they do not change, and an iterator is the set   *)
(* of keys it still holds.                                                 *)
(*                                                                         *)
(* A step is one round of next(): either it hands a pair to the caller or, *)
(* after a deletion, take_left calls next() again.                         *)
(***************************************************************************)
EXTENDS Integers, Sequences

CONSTANTS MaxKey,      \* keys are 0..MaxKey, in the order of their bytes
          Values,
          None,        \* Delta::Delete in an overlay, no entry in a store
          Untouched,   \* no delta for the key
          Unbounded    \* Option::None as a bound

ASSUME MaxKeyAssumption == MaxKey \in Nat
ASSUME NoneAssumption   == None \notin Values /\ Untouched \notin Values /\ None # Untouched

VARIABLES local_state, base,     \* the two maps
          start, end, order,     \* the arguments of range()
          left, right,           \* the keys the two iterators still hold
          out,                   \* the pairs handed to the caller
          exhausted              \* next() has returned None

vars == <<local_state, base, start, end, order, left, right, out, exhausted>>

Keys   == 0 .. MaxKey
Orders == {"Ascending", "Descending"}
Bounds == Keys \cup {Unbounded}

(* start is included, end is not; start > end is an empty range and not a  *)
(* panic of BTreeMap::range.                                               *)
InBounds(k) == /\ start # Unbounded => start <= k
               /\ end # Unbounded => k < end

Before(j, k) == IF order = "Ascending" THEN j < k ELSE k < j

(* BTreeMap::range, reversed for Descending: the entries of a map, and     *)
(* the one that peek() sees.                                               *)
Iterate(map, absent) == {k \in Keys : InBounds(k) /\ map[k] # absent}
Peek(side)           == CHOOSE k \in side : \A j \in side : j = k \/ Before(k, j)

-----------------------------------------------------------------------------
Yield(k, value) == out' = Append(out, <<k, value>>)

(* Faulty: a deletion is handed out like any pair.                         *)
TakeLeftUnfiltered ==
  /\ left' = left \ {Peek(left)}
  /\ Yield(Peek(left), local_state[Peek(left)])
  /\ UNCHANGED exhausted

(* Faulty: a deletion is looked at and left where it is.                   *)
TakeLeftPeeking ==
  LET k == Peek(left)
  IN  /\ IF local_state[k] # None THEN left' = left \ {k} /\ Yield(k, local_state[k])
                                  ELSE UNCHANGED <<left, out>>
      /\ UNCHANGED exhausted

(* Faulty: a deletion ends the iteration.                                  *)
TakeLeftStopping ==
  LET k == Peek(left)
  IN  /\ left' = left \ {k}
      /\ IF local_state[k] # None THEN Yield(k, local_state[k]) /\ UNCHANGED exhausted
                                  ELSE exhausted' = TRUE /\ UNCHANGED out

(* take_left: a deletion yields nothing, and next() goes round again.      *)
TakeLeft ==
  LET k == Peek(left)
  IN  /\ left' = left \ {k}
      /\ IF local_state[k] # None THEN Yield(k, local_state[k]) ELSE UNCHANGED out
      /\ UNCHANGED exhausted

TakeRight ==
  LET k == Peek(right)
  IN  /\ right' = right \ {k}
      /\ Yield(k, base[k])
      /\ UNCHANGED <<left, exhausted>>

(* pick_match, the three outcomes of comparing the two keys.               *)
LeftIsFirst ==
  /\ left # {} /\ right # {} /\ Before(Peek(left), Peek(right))
  /\ TakeLeft
  /\ UNCHANGED right

(* Faulty: the pair below is not skipped.                                  *)
BothSidesKept ==
  /\ left # {} /\ right # {} /\ Peek(left) = Peek(right)
  /\ TakeLeft
  /\ UNCHANGED right

(* The overlay hides the store below.                                      *)
BothSides ==
  /\ left # {} /\ right # {} /\ Peek(left) = Peek(right)
  /\ right' = right \ {Peek(right)}
  /\ TakeLeft

RightIsFirst ==
  /\ left # {} /\ right # {} /\ Before(Peek(right), Peek(left))
  /\ TakeRight

(* next() with one side or both at their end.                              *)
OnlyLeft  == left # {} /\ right = {} /\ TakeLeft /\ UNCHANGED right
OnlyRight == left = {} /\ right # {} /\ TakeRight
AtEnd     == /\ left = {} /\ right = {} /\ ~ exhausted
             /\ exhausted' = TRUE
             /\ UNCHANGED <<left, right, out>>

-----------------------------------------------------------------------------
Init ==
  /\ local_state \in [Keys -> Values \cup {None, Untouched}]
  /\ base \in [Keys -> Values \cup {None}]
  /\ start \in Bounds /\ end \in Bounds /\ order \in Orders
  /\ left = Iterate(local_state, Untouched)
  /\ right = Iterate(base, None)
  /\ out = <<>>
  /\ exhausted = FALSE

Next ==
  /\ \/ LeftIsFirst \/ BothSides \/ RightIsFirst
     \/ OnlyLeft \/ OnlyRight \/ AtEnd
  /\ UNCHANGED <<local_state, base, start, end, order>>

(* The caller drains the iterator, as collect() and count() do.            *)
Spec == Init /\ [][Next]_vars /\ WF_vars(Next)

-----------------------------------------------------------------------------
(* Properties.                                                             *)

(* The iterator keeps its shape, and hands out values only.                *)
TypeOK ==
  /\ local_state \in [Keys -> Values \cup {None, Untouched}]
  /\ base \in [Keys -> Values \cup {None}]
  /\ start \in Bounds /\ end \in Bounds /\ order \in Orders
  /\ left \subseteq Keys /\ right \subseteq Keys
  /\ out \in Seq(Keys \X Values)
  /\ exhausted \in BOOLEAN

(* What get() returns for each key of the transaction.                     *)
View(k) == IF local_state[k] = Untouched THEN base[k] ELSE local_state[k]

(* The range the Storage trait describes: start inclusive, end exclusive,  *)
(* nothing if start is not below end.                                      *)
Expected ==
  {k \in Keys : /\ View(k) # None
                /\ start # Unbounded => k >= start
                /\ end # Unbounded => k < end}

HandedOut == {out[i][1] : i \in DOMAIN out}

(* A caller that stops early has seen the first pairs of the merged view,  *)
(* in order: no pair twice, none deleted, none hidden, none skipped.       *)
YieldsPrefix ==
  /\ \A i \in DOMAIN out : out[i][1] \in Expected /\ out[i][2] = View(out[i][1])
  /\ \A i, j \in DOMAIN out : i < j => Before(out[i][1], out[j][1])
  /\ \A k \in Expected, j \in HandedOut : Before(k, j) => k \in HandedOut

(* A caller that drains the iterator has seen all of them.                 *)
YieldsAll == exhausted => HandedOut = Expected

(* The recursion of take_left on deletions comes to an end.                *)
Drains == <>exhausted
=============================================================================
