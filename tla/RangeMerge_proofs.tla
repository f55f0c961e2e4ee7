-------------------------- MODULE RangeMerge_proofs --------------------------
(***************************************************************************)
(* That the merged iterator hands out the merged view in its order.  Both  *)
(* iterators have passed what they no longer hold, and whatever either has *)
(* passed lies before all that either still holds (Passed); what lies      *)
(* behind both, and get() shows, has been handed out (Delivered).          *)
(***************************************************************************)
EXTENDS RangeMerge, WellFoundedInduction, TLAPS

(* The entries within the bounds, of the overlay and of the store below.   *)
Above == Iterate(local_state, Untouched)
Below == Iterate(base, None)

(* What either side has passed lies before what either side holds.         *)
Passed ==
  /\ left \subseteq Above /\ right \subseteq Below
  /\ \A k \in (Above \ left) \cup (Below \ right) : \A j \in left \cup right : Before(k, j)

(* The caller has been handed what both sides have passed.                 *)
Delivered ==
  /\ \A i \in DOMAIN out : out[i][1] \in Expected /\ out[i][2] = View(out[i][1])
  /\ \A i, j \in DOMAIN out : i < j => Before(out[i][1], out[j][1])
  /\ HandedOut = Expected \ (left \cup right)

AtEndOnly == exhausted => left = {} /\ right = {}

IInv == TypeOK /\ Passed /\ Delivered /\ AtEndOnly

-----------------------------------------------------------------------------
(* Orders.                                                                 *)

(* A set of numbers has a least one.                                       *)
LEMMA Least ==
  ASSUME NEW S, S \subseteq Nat, S # {}
  PROVE  \E k \in S : \A j \in S : k <= j
<1> DEFINE Less == OpToRel(<, Nat)
<1>1. PICK k \in S : \A j \in S : <<j, k>> \notin Less
  <2>1. IsWellFoundedOn(Less, Nat)  BY NatLessThanWellFounded, Zenon DEF Less
  <2> HIDE DEF Less
  <2> QED  BY <2>1, WFMin
<1>2. ASSUME NEW j \in S  PROVE k <= j
  <2>1. ~ j < k  BY <1>1 DEF OpToRel
  <2> QED  BY <2>1
<1> QED  BY <1>2

(* peek() sees the first of what a side holds.                             *)
LEMMA PeekIsFirst ==
  ASSUME order \in Orders, NEW side, side \subseteq Keys, side # {}
  PROVE  Peek(side) \in side /\ \A j \in side : j = Peek(side) \/ Before(Peek(side), j)
<1>1. \E k \in side : \A j \in side : j = k \/ Before(k, j)
  <2>1. CASE order = "Ascending"
    <3>1. PICK k \in side : \A j \in side : k <= j
      <4>1. side \subseteq Nat  BY MaxKeyAssumption DEF Keys
      <4> QED  BY <4>1, Least
    <3> QED  BY <2>1, <3>1, MaxKeyAssumption DEF Before, Keys
  <2>2. CASE order # "Ascending"
    <3> DEFINE Mirror == {MaxKey - k : k \in side}
    <3>1. PICK m \in Mirror : \A j \in Mirror : m <= j
      <4>1. Mirror \subseteq Nat /\ Mirror # {}  BY MaxKeyAssumption DEF Keys
      <4> HIDE DEF Mirror
      <4> QED  BY <4>1, Least
    <3>2. PICK k \in side : m = MaxKey - k
      OBVIOUS
    <3>3. \A j \in side : MaxKey - k <= MaxKey - j
      BY <3>1, <3>2
    <3> QED  BY <2>2, <3>3, MaxKeyAssumption DEF Before, Keys
  <2> QED  BY <2>1, <2>2
<1> QED  BY <1>1 DEF Peek

LEMMA BeforeIsOrder ==
  ASSUME NEW i \in Keys, NEW j \in Keys, NEW k \in Keys
  PROVE  /\ ~ Before(i, i)
         /\ Before(i, j) => ~ Before(j, i)
         /\ Before(i, j) /\ Before(j, k) => Before(i, k)
         /\ i = j \/ Before(i, j) \/ Before(j, i)
BY MaxKeyAssumption DEF Before, Keys

-----------------------------------------------------------------------------
(* What a round of next() does.                                            *)

(* A key is shown by get() and within the bounds: as the overlay has it,   *)
(* or, if that has nothing, as the store below does.                       *)
LEMMA ExpectedFrom ==
  ASSUME TypeOK, NEW k \in Keys
  PROVE  /\ k \in Above => /\ View(k) = local_state[k]
                           /\ k \in Expected <=> local_state[k] # None
         /\ k \in Below \ Above => k \in Expected /\ View(k) = base[k]
         /\ k \in Expected => k \in Above \cup Below
BY NoneAssumption, MaxKeyAssumption
   DEF TypeOK, Above, Below, Iterate, Expected, View, InBounds, Bounds, Keys

(* The round passes the key k, which is the first of both sides: one that  *)
(* the overlay deletes yields nothing, any other is handed out.            *)
Pass(k) ==
  /\ k \in left \cup right
  /\ \A j \in left \cup right : j = k \/ Before(k, j)
  /\ left' = left \ {k} /\ right' = right \ {k}
  /\ IF k \in Expected THEN Yield(k, View(k)) ELSE UNCHANGED out
  /\ UNCHANGED <<local_state, base, start, end, order, exhausted>>

LEMMA RoundPasses ==
  ASSUME IInv, Next, ~ AtEnd
  PROVE  \E k \in Keys : Pass(k)
<1> USE DEF IInv
<1>1. left \subseteq Keys /\ right \subseteq Keys /\ order \in Orders
  BY DEF TypeOK
<1>2. left # {} => Peek(left) \in left /\ \A j \in left : j = Peek(left) \/ Before(Peek(left), j)
  BY <1>1, PeekIsFirst
<1>3. right # {} =>
        Peek(right) \in right /\ \A j \in right : j = Peek(right) \/ Before(Peek(right), j)
  BY <1>1, PeekIsFirst
<1>4. UNCHANGED <<local_state, base, start, end, order>>
  BY DEF Next
<1>5. ASSUME NEW k \in left, TakeLeft, k = Peek(left)
      PROVE  /\ left' = left \ {k} /\ UNCHANGED exhausted
             /\ IF k \in Expected THEN Yield(k, View(k)) ELSE UNCHANGED out
  <2>1. k \in Above /\ k \in Keys  BY <1>1, <1>5 DEF Passed
  <2>2. View(k) = local_state[k] /\ (k \in Expected <=> local_state[k] # None)
    BY <2>1, ExpectedFrom
  <2> QED  BY <1>5, <2>2 DEF TakeLeft
<1>6. ASSUME NEW k \in right, TakeRight, k = Peek(right), k \notin left
      PROVE  /\ right' = right \ {k} /\ UNCHANGED <<left, exhausted>>
             /\ k \in Expected /\ Yield(k, View(k))
  <2>1. k \in Below /\ k \in Keys  BY <1>1, <1>6 DEF Passed
  <2>2. k \notin Above
    <3>1. k \in Above \ left => Before(k, k)  BY <1>6 DEF Passed
    <3> QED  BY <3>1, <1>6, <2>1, BeforeIsOrder
  <2>3. k \in Expected /\ View(k) = base[k]
    BY <2>1, <2>2, ExpectedFrom
  <2> QED  BY <1>6, <2>3 DEF TakeRight
<1>7. CASE LeftIsFirst
  <2> DEFINE k == Peek(left)
  <2>1. k \in left /\ k \in Keys /\ Peek(right) \in right /\ Peek(right) \in Keys
    BY <1>1, <1>2, <1>3, <1>7 DEF LeftIsFirst
  <2>2. Before(k, Peek(right)) /\ TakeLeft /\ right' = right
    BY <1>7 DEF LeftIsFirst
  <2>3. \A j \in left \cup right : j = k \/ Before(k, j)
    BY <1>1, <1>2, <1>3, <2>1, <2>2, BeforeIsOrder
  <2>4. k \notin right
    BY <1>1, <1>3, <2>1, <2>2, BeforeIsOrder
  <2>5. /\ left' = left \ {k} /\ UNCHANGED exhausted
        /\ IF k \in Expected THEN Yield(k, View(k)) ELSE UNCHANGED out
    BY <1>5, <2>1, <2>2
  <2> HIDE DEF k
  <2> QED  BY <1>4, <2>1, <2>2, <2>3, <2>4, <2>5 DEF Pass
<1>8. CASE BothSides
  <2> DEFINE k == Peek(left)
  <2>1. k \in left /\ k \in Keys /\ Peek(right) = k /\ k \in right
    BY <1>1, <1>2, <1>3, <1>8 DEF BothSides
  <2>2. TakeLeft /\ right' = right \ {k}
    BY <1>8, <2>1 DEF BothSides
  <2>3. \A j \in left \cup right : j = k \/ Before(k, j)
    BY <1>2, <1>3, <2>1
  <2>5. /\ left' = left \ {k} /\ UNCHANGED exhausted
        /\ IF k \in Expected THEN Yield(k, View(k)) ELSE UNCHANGED out
    BY <1>5, <2>1, <2>2
  <2> HIDE DEF k
  <2> QED  BY <1>4, <2>1, <2>2, <2>3, <2>5 DEF Pass
<1>9. CASE RightIsFirst
  <2> DEFINE k == Peek(right)
  <2>1. k \in right /\ k \in Keys /\ Peek(left) \in left /\ Peek(left) \in Keys
    BY <1>1, <1>2, <1>3, <1>9 DEF RightIsFirst
  <2>2. Before(k, Peek(left)) /\ TakeRight
    BY <1>9 DEF RightIsFirst
  <2>3. \A j \in left \cup right : j = k \/ Before(k, j)
    BY <1>1, <1>2, <1>3, <2>1, <2>2, BeforeIsOrder
  <2>4. k \notin left
    BY <1>1, <1>2, <2>1, <2>2, BeforeIsOrder
  <2>5. /\ right' = right \ {k} /\ UNCHANGED <<left, exhausted>>
        /\ k \in Expected /\ Yield(k, View(k))
    BY <1>6, <2>1, <2>2, <2>4
  <2> HIDE DEF k
  <2> QED  BY <1>4, <2>1, <2>3, <2>4, <2>5 DEF Pass
<1>10. CASE OnlyLeft
  <2> DEFINE k == Peek(left)
  <2>1. k \in left /\ k \in Keys /\ right = {} /\ right' = right /\ TakeLeft
    BY <1>1, <1>2, <1>10 DEF OnlyLeft
  <2>2. /\ left' = left \ {k} /\ UNCHANGED exhausted
        /\ IF k \in Expected THEN Yield(k, View(k)) ELSE UNCHANGED out
    BY <1>5, <2>1
  <2>3. \A j \in left \cup right : j = k \/ Before(k, j)
    BY <1>2, <2>1
  <2> HIDE DEF k
  <2> QED  BY <1>4, <2>1, <2>2, <2>3 DEF Pass
<1>11. CASE OnlyRight
  <2> DEFINE k == Peek(right)
  <2>1. k \in right /\ k \in Keys /\ left = {} /\ TakeRight
    BY <1>1, <1>3, <1>11 DEF OnlyRight
  <2>2. /\ right' = right \ {k} /\ UNCHANGED <<left, exhausted>>
        /\ k \in Expected /\ Yield(k, View(k))
    BY <1>6, <2>1
  <2>3. \A j \in left \cup right : j = k \/ Before(k, j)
    BY <1>3, <2>1
  <2> HIDE DEF k
  <2> QED  BY <1>4, <2>1, <2>2, <2>3 DEF Pass
<1> QED  BY <1>7, <1>8, <1>9, <1>10, <1>11 DEF Next

-----------------------------------------------------------------------------
(* The invariant.                                                          *)

LEMMA InitInv == Init => IInv
<1> SUFFICES ASSUME Init  PROVE IInv  OBVIOUS
<1>1. TypeOK
  <2>1. left \subseteq Keys /\ right \subseteq Keys  BY DEF Init, Iterate
  <2>2. out = <<>> /\ exhausted = FALSE  BY DEF Init
  <2>3. out \in Seq(Keys \X Values)  BY <2>2
  <2> QED  BY <2>1, <2>2, <2>3 DEF Init, TypeOK
<1>2. left = Above /\ right = Below
  BY DEF Init, Above, Below
<1>3. Passed
  BY <1>2 DEF Passed
<1>4. Delivered
  <2>1. DOMAIN out = {} /\ HandedOut = {}  BY DEF Init, HandedOut
  <2>2. Expected \subseteq Above \cup Below  BY <1>1, ExpectedFrom DEF Expected
  <2> QED  BY <1>2, <2>1, <2>2 DEF Delivered
<1> QED  BY <1>1, <1>3, <1>4 DEF IInv, AtEndOnly, Init

(* What the arguments decide does not change.                              *)
LEMMA SameView ==
  ASSUME UNCHANGED <<local_state, base, start, end, order>>
  PROVE  /\ Above' = Above /\ Below' = Below /\ Expected' = Expected
         /\ \A k : View(k)' = View(k)
         /\ \A j, k : Before(j, k)' = Before(j, k)
BY DEF Above, Below, Iterate, InBounds, Expected, View, Before

LEMMA PassKeepsInv ==
  ASSUME IInv, NEW k \in Keys, Pass(k)
  PROVE  IInv'
<1> USE DEF IInv
<1>1. UNCHANGED <<local_state, base, start, end, order, exhausted>>
  BY DEF Pass
<1>2. /\ Above' = Above /\ Below' = Below /\ Expected' = Expected
      /\ \A j : View(j)' = View(j)
      /\ \A i, j : Before(i, j)' = Before(i, j)
  BY <1>1, SameView
<1>3. /\ left' = left \ {k} /\ right' = right \ {k}
      /\ k \in left \cup right
      /\ \A j \in left \cup right : j = k \/ Before(k, j)
  BY DEF Pass
<1>4. left \subseteq Keys /\ right \subseteq Keys /\ Expected \subseteq Keys
  BY DEF TypeOK, Expected
<1>5. k \in Expected => View(k) \in Values
  BY NoneAssumption DEF TypeOK, Expected, View
<1>6. out \in Seq(Keys \X Values) /\ DOMAIN out = 1 .. Len(out) /\ Len(out) \in Nat
  BY DEF TypeOK
<1>7. TypeOK'
  <2>1. out' \in Seq(Keys \X Values)
    <3>1. CASE k \in Expected
      <4>1. <<k, View(k)>> \in Keys \X Values  BY <1>5, <3>1
      <4>2. out' = Append(out, <<k, View(k)>>)  BY <3>1 DEF Pass, Yield
      <4> QED  BY <1>6, <4>1, <4>2
    <3>2. CASE k \notin Expected
      BY <1>6, <3>2 DEF Pass
    <3> QED  BY <3>1, <3>2
  <2>2. left' \subseteq Keys /\ right' \subseteq Keys
    BY <1>3, <1>4
  <2> QED  BY <1>1, <2>1, <2>2 DEF TypeOK
<1>8. Passed'
  <2>1. left' \subseteq Above' /\ right' \subseteq Below'
    BY <1>2, <1>3 DEF Passed
  <2>2. ASSUME NEW i \in (Above \ left') \cup (Below \ right'), NEW j \in left' \cup right'
        PROVE  Before(i, j)
    BY <1>3, <2>2 DEF Passed
  <2> QED  BY <1>2, <2>1, <2>2 DEF Passed
<1>9. Delivered'
  <2>1. CASE k \notin Expected
    <3>1. out' = out  BY <2>1 DEF Pass
    <3>2. HandedOut' = HandedOut  BY <3>1 DEF HandedOut
    <3>3. HandedOut' = Expected \ (left' \cup right')
      BY <1>3, <2>1, <3>2 DEF Delivered
    <3> QED  BY <1>2, <3>1, <3>3 DEF Delivered
  <2>2. CASE k \in Expected
    <3> DEFINE n == Len(out) + 1
    <3>1. out' = Append(out, <<k, View(k)>>)
      BY <2>2 DEF Pass, Yield
    <3>2. DOMAIN out' = 1 .. n /\ n \in Nat /\ n \notin DOMAIN out /\ DOMAIN out' = DOMAIN out \cup {n}
      BY <1>6, <3>1
    <3>3. out'[n] = <<k, View(k)>> /\ \A i \in DOMAIN out : out'[i] = out[i]
      BY <1>6, <3>1
    <3> HIDE DEF n
    <3>4. out'[n][1] = k /\ out'[n][2] = View(k)
      BY <3>3
    <3>5. HandedOut' = HandedOut \cup {k}
      <4>1. HandedOut' = {out'[i][1] : i \in DOMAIN out'}  BY DEF HandedOut
      <4>2. \A i \in DOMAIN out : out'[i][1] = out[i][1]  BY <3>3
      <4>3. HandedOut' \subseteq HandedOut \cup {k}
        BY <3>2, <3>4, <4>1, <4>2 DEF HandedOut
      <4>4. \A i \in DOMAIN out : out[i][1] \in HandedOut'
        <5>1. \A i \in DOMAIN out : out'[i][1] \in HandedOut'  BY <3>2, <4>1
        <5> QED  BY <4>2, <5>1
      <4>5. k \in HandedOut'
        <5>1. out'[n][1] \in HandedOut'  BY <3>2, <4>1
        <5> QED  BY <3>4, <5>1
      <4> QED  BY <4>3, <4>4, <4>5 DEF HandedOut
    <3>6. HandedOut' = Expected \ (left' \cup right')
      BY <1>3, <2>2, <3>5 DEF Delivered
    <3>7. \A i \in DOMAIN out' : out'[i][1] \in Expected /\ out'[i][2] = View(out'[i][1])
      BY <2>2, <3>2, <3>3, <3>4 DEF Delivered
    <3>8. ASSUME NEW i \in DOMAIN out', NEW j \in DOMAIN out', i < j
          PROVE  Before(out'[i][1], out'[j][1])
      <4>1. CASE j = n
        <5>1. i \in DOMAIN out  BY <3>2, <3>8, <4>1, <1>6
        <5>2. out[i][1] \in Expected \ (left \cup right)  BY <5>1 DEF Delivered, HandedOut
        <5>3. out[i][1] \in (Above \ left) \cup (Below \ right)
          BY <1>4, <5>2, ExpectedFrom
        <5> QED  BY <1>3, <3>3, <3>4, <4>1, <5>1, <5>3 DEF Passed
      <4>2. CASE j # n
        <5>1. i \in DOMAIN out /\ j \in DOMAIN out
          <6>1. j \in 1 .. Len(out)  BY <1>6, <3>2, <4>2
          <6>2. i \in 1 .. Len(out)  BY <1>6, <3>2, <3>8, <6>1
          <6> QED  BY <1>6, <6>1, <6>2
        <5> QED  BY <3>3, <3>8, <5>1 DEF Delivered
      <4> QED  BY <4>1, <4>2
    <3> QED  BY <1>2, <3>6, <3>7, <3>8 DEF Delivered
  <2> QED  BY <2>1, <2>2
<1>10. AtEndOnly'
  BY <1>1, <1>3 DEF AtEndOnly
<1> QED  BY <1>7, <1>8, <1>9, <1>10

LEMMA StepInv == IInv /\ [Next]_vars => IInv'
<1> SUFFICES ASSUME IInv, [Next]_vars  PROVE IInv'  OBVIOUS
<1>1. CASE Next /\ ~ AtEnd
  BY <1>1, RoundPasses, PassKeepsInv
<1>2. CASE Next /\ AtEnd
  <2>1. /\ UNCHANGED <<local_state, base, start, end, order, left, right, out>>
        /\ left = {} /\ right = {} /\ exhausted' = TRUE
    BY <1>2 DEF AtEnd, Next
  <2>2. HandedOut' = HandedOut  BY <2>1 DEF HandedOut
  <2>3. /\ Above' = Above /\ Below' = Below /\ Expected' = Expected
        /\ \A j : View(j)' = View(j)
        /\ \A i, j : Before(i, j)' = Before(i, j)
    BY <2>1, SameView
  <2> QED  BY <2>1, <2>2, <2>3 DEF IInv, TypeOK, Passed, Delivered, AtEndOnly
<1>3. CASE UNCHANGED vars
  <2>1. UNCHANGED <<local_state, base, start, end, order, left, right, out, exhausted>>
    BY <1>3 DEF vars
  <2>2. HandedOut' = HandedOut  BY <2>1 DEF HandedOut
  <2>3. /\ Above' = Above /\ Below' = Below /\ Expected' = Expected
        /\ \A j : View(j)' = View(j)
        /\ \A i, j : Before(i, j)' = Before(i, j)
    BY <2>1, SameView
  <2> QED  BY <2>1, <2>2, <2>3 DEF IInv, TypeOK, Passed, Delivered, AtEndOnly
<1> QED  BY <1>1, <1>2, <1>3

(* The inductive invariant of the iterator: what a round of next() finds.  *)
THEOREM MergeInvariant == Spec => []IInv
BY InitInv, StepInv, PTL DEF Spec

(* The sides hold keys and the caller gets values, for any number of keys. *)
THEOREM MergeTypeCorrect == Spec => []TypeOK
<1>1. IInv => TypeOK  BY DEF IInv
<1> QED  BY <1>1, MergeInvariant, PTL

(* At each moment, what the caller of next() has got is the first part of  *)
(* the merged view in its order, for all overlays and stores, bounds and   *)
(* orders.                                                                 *)
THEOREM PrefixIsYielded == Spec => []YieldsPrefix
<1>1. IInv => YieldsPrefix
  <2> SUFFICES ASSUME IInv  PROVE YieldsPrefix  OBVIOUS
  <2>1. ASSUME NEW k \in Expected, NEW j \in HandedOut, Before(k, j)  PROVE k \in HandedOut
    <3>1. j \in Expected \ (left \cup right) /\ j \in Keys /\ k \in Keys
      BY <2>1 DEF IInv, Delivered, Expected
    <3>2. j \in (Above \ left) \cup (Below \ right)
      BY <3>1, ExpectedFrom DEF IInv
    <3>3. k \notin left \cup right
      BY <2>1, <3>1, <3>2, BeforeIsOrder DEF IInv, Passed
    <3> QED  BY <2>1, <3>3 DEF IInv, Delivered
  <2> QED  BY <2>1 DEF IInv, Delivered, YieldsPrefix
<1> QED  BY <1>1, MergeInvariant, PTL

(* Once next() has returned None, the caller has got all of it.            *)
THEOREM AllIsYielded == Spec => []YieldsAll
<1>1. IInv => YieldsAll
  BY DEF IInv, Delivered, AtEndOnly, YieldsAll
<1> QED  BY <1>1, MergeInvariant, PTL
=============================================================================
