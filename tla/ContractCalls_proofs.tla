------------------------- MODULE ContractCalls_proofs -------------------------
(***************************************************************************)
(* That what a contract hears, collects, accepts and keeps is what it      *)
(* should be, for all chains, names, coins, logs and messages.  Filters    *)
(* and sums are recursive functions over a sequence: FilteredIs and        *)
(* TotalIs say that they exist and what they are position by position; the *)
(* lemmas after them, which element a filter begins with (FilteredFirst),  *)
(* what one more adds (FilteredAppend), and what coins add up to.          *)
(***************************************************************************)
EXTENDS ContractCalls, SequenceTheorems, WellFoundedInduction, TLAPS


(* Induction, on a set of numbers in place of a predicate.                 *)
LEMMA UpTo ==
  ASSUME NEW n \in Nat, NEW G, 0 \in G, \A m \in 0 .. n : m + 1 \in 0 .. n /\ m \in G => m + 1 \in G
  PROVE  \A m \in 0 .. n : m \in G
<1> DEFINE Less == OpToRel(<, Nat)
           Bad  == {m \in 0 .. n : m \notin G}
<1> SUFFICES ASSUME Bad # {}  PROVE FALSE  OBVIOUS
<1>1. PICK m \in Bad : \A j \in Bad : <<j, m>> \notin Less
  <2>1. IsWellFoundedOn(Less, Nat)  BY NatLessThanWellFounded, Zenon DEF Less
  <2>2. Bad \subseteq Nat OBVIOUS
  <2> HIDE DEF Less, Bad
  <2> QED  BY <2>1, <2>2, WFMin
<1>2. m \in 0 .. n /\ m \notin G
  OBVIOUS
<1>3. m # 0
  BY <1>2
<1>4. m - 1 \in 0 .. n /\ (m - 1) + 1 = m
  BY <1>2, <1>3
<1>5. m - 1 \notin Bad
  <2>1. <<m - 1, m>> \in Less  BY <1>2, <1>4 DEF OpToRel
  <2> HIDE DEF Less
  <2> QED  BY <2>1, <1>1
<1> QED  BY <1>2, <1>4, <1>5

(* A function defined by primitive recursion exists.                       *)
Steps(n, V) == [(1 .. n) \X V -> V]

Follows(f, n, V, first, step) ==
  /\ f \in [0 .. n -> V]
  /\ f[0] = first
  /\ \A i \in 1 .. n : f[i] = step[<<i, f[i - 1]>>]

LEMMA Recursion ==
  ASSUME NEW n \in Nat, NEW V, NEW first \in V, NEW step \in Steps(n, V)
  PROVE  \E f : Follows(f, n, V, first, step)
<1> USE DEF Steps
<1> DEFINE Good(m, f) == /\ f \in [0 .. m -> V]
                         /\ \A i \in 0 .. m : f[i] = IF i = 0 THEN first ELSE step[<<i, f[i - 1]>>]
           G == {m \in 0 .. n : \E f : Good(m, f)}
<1>1. 0 \in G
  <2> DEFINE g == [i \in 0 .. 0 |-> first]
  <2>1. g \in [0 .. 0 -> V]
    OBVIOUS
  <2>2. \A i \in 0 .. 0 : i = 0 /\ g[i] = first
    OBVIOUS
  <2> HIDE DEF g
  <2>3. Good(0, g)
    BY <2>1, <2>2
  <2> QED  BY <2>3
<1>2. ASSUME NEW m \in 0 .. n, m + 1 \in 0 .. n, m \in G  PROVE m + 1 \in G
  <2>1. PICK f : Good(m, f)  BY <1>2
  <2> DEFINE last == step[<<m + 1, f[m]>>]
             g    == [i \in 0 .. m + 1 |-> IF i = m + 1 THEN last ELSE f[i]]
  <2>2. last \in V
    <3>1. f[m] \in V /\ m + 1 \in 1 .. n  BY <1>2, <2>1
    <3> QED  BY <3>1
  <2> HIDE DEF last
  <2>3. g \in [0 .. m + 1 -> V]
    BY <2>1, <2>2
  <2>4. ASSUME NEW i \in 0 .. m + 1
        PROVE  g[i] = IF i = 0 THEN first ELSE step[<<i, g[i - 1]>>]
    <3>1. CASE i = m + 1
      <4>1. g[i] = last /\ i # 0 /\ g[i - 1] = f[m]  BY <3>1
      <4> QED  BY <3>1, <4>1 DEF last
    <3>2. CASE i # m + 1
      <4>1. i \in 0 .. m /\ (i # 0 => i - 1 \in 0 .. m)  BY <2>4, <3>2
      <4>2. g[i] = f[i] /\ (i # 0 => g[i - 1] = f[i - 1])  BY <4>1
      <4> QED  BY <2>1, <4>1, <4>2
    <3> QED  BY <3>1, <3>2
  <2> QED  BY <1>2, <2>3, <2>4
<1>3. \A m \in 0 .. n : m \in G
  <2> HIDE DEF G
  <2> QED  BY <1>1, <1>2, UpTo
<1>4. PICK f : Good(n, f)  BY <1>3
<1>5. f[0] = first
  <2>1. 0 \in 0 .. n  OBVIOUS
  <2> QED  BY <1>4, <2>1
<1>6. \A i \in 1 .. n : f[i] = step[<<i, f[i - 1]>>]
  BY <1>4
<1> QED  BY <1>4, <1>5, <1>6 DEF Follows

-----------------------------------------------------------------------------

-----------------------------------------------------------------------------
(* Filters.                                                                *)

(* What a filter has kept of the first positions of a sequence.            *)
Keeps(f, seq, S, V) ==
  /\ f \in [0 .. Len(seq) -> Seq(V)]
  /\ f[0] = <<>>
  /\ \A i \in 1 .. Len(seq) :
       f[i] = IF seq[i] \in S THEN Append(f[i - 1], seq[i]) ELSE f[i - 1]

(* A filter, position by position.                                         *)
LEMMA FilteredIs ==
  ASSUME NEW V, NEW S, NEW seq \in Seq(V)
  PROVE  \E f : Keeps(f, seq, S, V) /\ Filtered(seq, S) = f[Len(seq)]
<1> DEFINE n    == Len(seq)
           T    == Seq(V)
           step == [p \in (1 .. n) \X T |->
                      IF seq[p[1]] \in S THEN Append(p[2], seq[p[1]]) ELSE p[2]]
           P(g) == g = [i \in 0 .. n |-> IF i = 0 THEN <<>>
                                         ELSE IF seq[i] \in S THEN Append(g[i - 1], seq[i])
                                         ELSE g[i - 1]]
           whole == CHOOSE g : P(g)
<1>1. n \in Nat /\ \A i \in 1 .. n : seq[i] \in V
  BY LenProperties
<1>2. Filtered(seq, S) = whole[n]
  BY DEF Filtered
<1>3. step \in Steps(n, T)
  <2>1. \A i \in 1 .. n, q \in T : Append(q, seq[i]) \in T
    BY <1>1
  <2> HIDE DEF T, n
  <2> QED  BY <2>1 DEF Steps
<1>4. \A i \in 1 .. n, q \in T :
        step[<<i, q>>] = IF seq[i] \in S THEN Append(q, seq[i]) ELSE q
  OBVIOUS
<1> HIDE DEF step
<1>5. PICK f : Follows(f, n, T, <<>>, step)
  <2>1. <<>> \in T
    OBVIOUS
  <2> HIDE DEF T
  <2> QED  BY <1>1, <1>3, <2>1, Recursion
<1>6. f \in [0 .. n -> T] /\ f[0] = <<>> /\ \A i \in 1 .. n : f[i] = step[<<i, f[i - 1]>>]
  BY <1>5 DEF Follows
<1> HIDE DEF n, T
<1>7. \A i \in 1 .. n : f[i] = IF seq[i] \in S THEN Append(f[i - 1], seq[i]) ELSE f[i - 1]
  <2> TAKE i \in 1 .. n
  <2>1. i - 1 \in 0 .. n /\ f[i - 1] \in T
    BY <1>1, <1>6
  <2> QED  BY <1>4, <1>6, <2>1
<1>8. P(f)
  <2>1. \A i \in 0 .. n : f[i] = IF i = 0 THEN <<>>
                                 ELSE IF seq[i] \in S THEN Append(f[i - 1], seq[i])
                                 ELSE f[i - 1]
    <3> TAKE i \in 0 .. n
    <3>1. i # 0 => i \in 1 .. n  BY <1>1
    <3> QED  BY <1>6, <1>7, <3>1
  <2>2. f = [i \in 0 .. n |-> f[i]]
    BY <1>6
  <2> QED  BY <2>1, <2>2
<1>9. P(whole)
  <2>1. P(CHOOSE h : P(h))
    BY <1>8
  <2> QED  BY <2>1
<1> HIDE DEF whole
<1>10. /\ whole[0] = <<>>
       /\ \A i \in 1 .. n :
            whole[i] = IF seq[i] \in S THEN Append(whole[i - 1], seq[i]) ELSE whole[i - 1]
  <2>1. 0 \in 0 .. n /\ \A i \in 1 .. n : i \in 0 .. n /\ i # 0
    BY <1>1
  <2> QED  BY <1>9, <2>1
<1> DEFINE G == {m \in 0 .. n : whole[m] = f[m]}
<1>11. \A m \in 0 .. n : m + 1 \in 0 .. n /\ m \in G => m + 1 \in G
  <2> TAKE m \in 0 .. n
  <2> HAVE m + 1 \in 0 .. n /\ m \in G
  <2>1. m + 1 \in 1 .. n /\ (m + 1) - 1 = m
    BY <1>1
  <2> QED  BY <1>7, <1>10, <2>1
<1>12. 0 \in G
  BY <1>1, <1>6, <1>10
<1>13. n \in G
  <2> HIDE DEF G
  <2>1. n \in 0 .. n  BY <1>1
  <2> QED  BY <1>1, <1>11, <1>12, <2>1, UpTo
<1>14. Keeps(f, seq, S, V)
  BY <1>6, <1>7 DEF Keeps, n, T
<1> QED  BY <1>2, <1>13, <1>14 DEF n

(* A filter takes elements from nowhere else.                              *)
LEMMA FilteredType ==
  ASSUME NEW V, NEW S, NEW seq \in Seq(V)
  PROVE  Filtered(seq, S) \in Seq(V)
<1>1. PICK f : Keeps(f, seq, S, V) /\ Filtered(seq, S) = f[Len(seq)]
  BY FilteredIs
<1>2. Len(seq) \in 0 .. Len(seq)
  BY LenProperties
<1> QED  BY <1>1, <1>2 DEF Keeps

(* Nothing is left of nothing.                                             *)
LEMMA FilteredEmpty ==
  ASSUME NEW S
  PROVE  Filtered(<<>>, S) = <<>>
<1>1. <<>> \in Seq({}) /\ Len(<<>>) = 0
  OBVIOUS
<1>2. PICK f : Keeps(f, <<>>, S, {}) /\ Filtered(<<>>, S) = f[Len(<<>>)]
  BY <1>1, FilteredIs, ZenonT(60)
<1> QED  BY <1>1, <1>2 DEF Keeps

(* One more element is kept or not; what was kept before stays.            *)
LEMMA FilteredAppend ==
  ASSUME NEW V, NEW S, NEW seq \in Seq(V), NEW x \in V
  PROVE  Filtered(Append(seq, x), S) =
           IF x \in S THEN Append(Filtered(seq, S), x) ELSE Filtered(seq, S)
<1> DEFINE more == Append(seq, x)
           n    == Len(seq)
<1>1. /\ n \in Nat /\ more \in Seq(V) /\ Len(more) = n + 1
      /\ more[n + 1] = x /\ \A i \in 1 .. n : more[i] = seq[i]
  BY AppendProperties, LenProperties
<1> HIDE DEF more
<1>2. PICK f : Keeps(f, seq, S, V) /\ Filtered(seq, S) = f[n]
  BY FilteredIs
<1>3. PICK g : Keeps(g, more, S, V) /\ Filtered(more, S) = g[n + 1]
  BY <1>1, FilteredIs, SMTT(60)
<1> HIDE DEF n
<1>4. /\ f[0] = <<>>
      /\ \A i \in 1 .. n : f[i] = IF seq[i] \in S THEN Append(f[i - 1], seq[i]) ELSE f[i - 1]
  BY <1>2 DEF Keeps, n
<1>5. /\ g[0] = <<>>
      /\ \A i \in 1 .. n + 1 : g[i] = IF more[i] \in S THEN Append(g[i - 1], more[i]) ELSE g[i - 1]
  BY <1>1, <1>3 DEF Keeps
<1> DEFINE G == {m \in 0 .. n : g[m] = f[m]}
<1>6. \A m \in 0 .. n : m + 1 \in 0 .. n /\ m \in G => m + 1 \in G
  <2> TAKE m \in 0 .. n
  <2> HAVE m + 1 \in 0 .. n /\ m \in G
  <2>1. m + 1 \in 1 .. n /\ m + 1 \in 1 .. n + 1 /\ (m + 1) - 1 = m
    BY <1>1
  <2> QED  BY <1>1, <1>4, <1>5, <2>1
<1>7. 0 \in G
  BY <1>1, <1>4, <1>5
<1>8. n \in G
  <2> HIDE DEF G
  <2>1. n \in 0 .. n  BY <1>1
  <2> QED  BY <1>1, <1>6, <1>7, <2>1, UpTo
<1>9. n + 1 \in 1 .. n + 1 /\ (n + 1) - 1 = n
  BY <1>1
<1>10. g[n + 1] = IF x \in S THEN Append(g[n], x) ELSE g[n]
  BY <1>1, <1>5, <1>9
<1> QED  BY <1>2, <1>3, <1>8, <1>10 DEF more

(* A filter picks the positions of what it keeps, in order.                *)
Picks(r, seq, S, m, e) ==
  /\ e \in [1 .. Len(r) -> 1 .. m]
  /\ \A i, j \in 1 .. Len(r) : i < j => e[i] < e[j]
  /\ \A j \in 1 .. Len(r) : r[j] = seq[e[j]] /\ seq[e[j]] \in S
  /\ \A i \in 1 .. m : seq[i] \in S => \E j \in 1 .. Len(r) : e[j] = i

(* Every element that is to be kept is, in order, and no other.            *)
LEMMA FilteredPicks ==
  ASSUME NEW V, NEW S, NEW seq \in Seq(V)
  PROVE  \E e : Picks(Filtered(seq, S), seq, S, Len(seq), e)
<1> DEFINE n == Len(seq)
<1>1. PICK f : Keeps(f, seq, S, V) /\ Filtered(seq, S) = f[n]
  BY FilteredIs
<1>2. /\ f \in [0 .. n -> Seq(V)] /\ f[0] = <<>>
      /\ \A i \in 1 .. n : f[i] = IF seq[i] \in S THEN Append(f[i - 1], seq[i]) ELSE f[i - 1]
  BY <1>1 DEF Keeps
<1>3. n \in Nat /\ \A i \in 1 .. n : seq[i] \in V
  BY LenProperties
<1> HIDE DEF n
<1> DEFINE G == {m \in 0 .. n : \E e : Picks(f[m], seq, S, m, e)}
<1>4. 0 \in G
  <2> DEFINE e == [j \in 1 .. 0 |-> 0]
  <2>1. Len(f[0]) = 0 /\ 1 .. 0 = {} /\ 0 \in 0 .. n
    BY <1>2, <1>3
  <2>2. e \in [1 .. Len(f[0]) -> 1 .. 0]
    BY <2>1
  <2> HIDE DEF e
  <2>3. Picks(f[0], seq, S, 0, e)
    BY <2>1, <2>2 DEF Picks
  <2> QED  BY <2>1, <2>3
<1>5. \A m \in 0 .. n : m + 1 \in 0 .. n /\ m \in G => m + 1 \in G
  <2> TAKE m \in 0 .. n
  <2> HAVE m + 1 \in 0 .. n /\ m \in G
  <2>1. m + 1 \in 1 .. n /\ (m + 1) - 1 = m /\ m \in Nat
    BY <1>3
  <2>2. PICK e : Picks(f[m], seq, S, m, e)
    OBVIOUS
  <2>3. f[m + 1] = IF seq[m + 1] \in S THEN Append(f[m], seq[m + 1]) ELSE f[m]
    BY <1>2, <2>1
  <2> DEFINE r == f[m]
             l == Len(r)
  <2>4. r \in Seq(V) /\ l \in Nat
    BY <1>2, LenProperties
  <2>5. CASE seq[m + 1] \notin S
    <3>1. Picks(f[m], seq, S, m + 1, e)
      <4>1. \A i \in 1 .. m + 1 : i \in 1 .. m \/ i = m + 1  BY <2>1
      <4>2. 1 .. m \subseteq 1 .. m + 1  BY <2>1
      <4> QED  BY <2>2, <2>5, <4>1, <4>2 DEF Picks
    <3> QED  BY <2>3, <2>5, <3>1
  <2>6. CASE seq[m + 1] \in S
    <3> DEFINE d == [j \in 1 .. l + 1 |-> IF j = l + 1 THEN m + 1 ELSE e[j]]
               q == Append(r, seq[m + 1])
    <3>1. Len(q) = l + 1 /\ q[l + 1] = seq[m + 1] /\ \A j \in 1 .. l : q[j] = r[j]
      BY <1>3, <2>1, <2>4, AppendProperties
    <3>2. /\ d[l + 1] = m + 1 /\ \A j \in 1 .. l : d[j] = e[j]
          /\ l + 1 \in 1 .. l + 1
      BY <2>4
    <3>3. /\ e \in [1 .. l -> 1 .. m]
          /\ \A i, j \in 1 .. l : i < j => e[i] < e[j]
          /\ \A j \in 1 .. l : r[j] = seq[e[j]] /\ seq[e[j]] \in S
          /\ \A i \in 1 .. m : seq[i] \in S => \E j \in 1 .. l : e[j] = i
      BY <2>2 DEF Picks
    <3>4. d \in [1 .. l + 1 -> 1 .. m + 1]
      <4> HIDE DEF l, r
      <4>1. \A j \in 1 .. l + 1 : j # l + 1 => j \in 1 .. l  BY <2>4
      <4>2. \A j \in 1 .. l + 1 : j # l + 1 => e[j] \in 1 .. m  BY <3>3, <4>1
      <4> QED  BY <2>1, <4>2
    <3> HIDE DEF d, q, l, r
    <3>5. \A j \in 1 .. l + 1 : j \in 1 .. l \/ j = l + 1
      BY <2>4
    <3>6. \A i, j \in 1 .. l + 1 : i < j => d[i] < d[j]
      <4> TAKE i, j \in 1 .. l + 1
      <4> HAVE i < j
      <4>1. i \in 1 .. l  BY <2>4, <3>5
      <4>2. CASE j \in 1 .. l
        BY <3>2, <3>3, <4>1, <4>2
      <4>3. CASE j = l + 1
        <5>1. d[i] \in 1 .. m /\ d[j] = m + 1  BY <3>2, <3>3, <4>1, <4>3
        <5> QED  BY <2>1, <5>1
      <4> QED  BY <3>5, <4>2, <4>3
    <3>7. \A j \in 1 .. l + 1 : q[j] = seq[d[j]] /\ seq[d[j]] \in S
      BY <2>6, <3>1, <3>2, <3>3, <3>5
    <3>8. \A i \in 1 .. m + 1 : seq[i] \in S => \E j \in 1 .. l + 1 : d[j] = i
      <4> TAKE i \in 1 .. m + 1
      <4> HAVE seq[i] \in S
      <4>1. CASE i = m + 1
        BY <3>2, <4>1
      <4>2. CASE i # m + 1
        <5>1. i \in 1 .. m  BY <2>1, <4>2
        <5>2. PICK j \in 1 .. l : e[j] = i  BY <3>3, <5>1
        <5>3. j \in 1 .. l + 1  BY <2>4
        <5> QED  BY <3>2, <5>2, <5>3
      <4> QED  BY <4>1, <4>2
    <3>9. Picks(q, seq, S, m + 1, d)
      BY <3>1, <3>4, <3>6, <3>7, <3>8 DEF Picks
    <3> QED  BY <2>3, <2>6, <3>9 DEF q, r
  <2> QED  BY <2>5, <2>6
<1>6. n \in G
  <2> HIDE DEF G
  <2>1. n \in 0 .. n  BY <1>3
  <2> QED  BY <1>3, <1>4, <1>5, <2>1, UpTo
<1> QED  BY <1>1, <1>6 DEF n

(* A filter begins with the first that it keeps, and is empty if there is  *)
(* none.                                                                   *)
IsFirst(i, seq, S) ==
  i \in 1 .. Len(seq) /\ seq[i] \in S /\ \A j \in 1 .. Len(seq) : j < i => seq[j] \notin S

(* A filter begins with the first element that is to be kept.              *)
LEMMA FilteredFirst ==
  ASSUME NEW V, NEW S, NEW seq \in Seq(V)
  PROVE  /\ (\A i \in 1 .. Len(seq) : seq[i] \notin S) => Filtered(seq, S) = <<>>
         /\ \A i : IsFirst(i, seq, S) => Filtered(seq, S) # <<>> /\ Filtered(seq, S)[1] = seq[i]
<1> DEFINE r == Filtered(seq, S)
           n == Len(seq)
<1>1. PICK e : Picks(r, seq, S, n, e)
  BY FilteredPicks
<1>2. r \in Seq(V) /\ Len(r) \in Nat /\ n \in Nat
  BY FilteredType, LenProperties
<1>3. /\ e \in [1 .. Len(r) -> 1 .. n]
      /\ \A i, j \in 1 .. Len(r) : i < j => e[i] < e[j]
      /\ \A j \in 1 .. Len(r) : r[j] = seq[e[j]] /\ seq[e[j]] \in S
      /\ \A i \in 1 .. n : seq[i] \in S => \E j \in 1 .. Len(r) : e[j] = i
  BY <1>1 DEF Picks
<1> HIDE DEF r, n
<1>4. ASSUME \A i \in 1 .. n : seq[i] \notin S  PROVE r = <<>>
  <2>1. 1 \notin 1 .. Len(r)  BY <1>3, <1>4
  <2>2. Len(r) = 0  BY <1>2, <2>1
  <2> QED  BY <1>2, <2>2, EmptySeq
<1>5. ASSUME NEW i, i \in 1 .. n, seq[i] \in S, \A j \in 1 .. n : j < i => seq[j] \notin S
      PROVE  r # <<>> /\ r[1] = seq[i]
  <2>1. PICK j \in 1 .. Len(r) : e[j] = i
    BY <1>3, <1>5
  <2>2. 1 \in 1 .. Len(r) /\ r # <<>>
    BY <1>2, <2>1
  <2>3. e[1] \in 1 .. n /\ seq[e[1]] \in S /\ r[1] = seq[e[1]]
    BY <1>3, <2>2
  <2>4. ~ e[1] < i
    BY <1>5, <2>3
  <2>5. j = 1
    <3>1. 1 < j => e[1] < i  BY <1>3, <2>1, <2>2
    <3> QED  BY <1>2, <2>1, <2>4, <3>1
  <2> QED  BY <2>1, <2>2, <2>3, <2>5
<1> QED  BY <1>4, <1>5 DEF IsFirst, r, n

-----------------------------------------------------------------------------
(* The first position of a kind.                                           *)

(* A set of positions has a least one, which is what Min picks.            *)
LEMMA FirstPosition ==
  ASSUME NEW I, I \subseteq Nat, I # {}
  PROVE  Seqs!Min(I) \in I /\ \A i \in I : Seqs!Min(I) <= i
<1> DEFINE Less == OpToRel(<, Nat)
<1>1. PICK k \in I : \A j \in I : <<j, k>> \notin Less
  <2>1. IsWellFoundedOn(Less, Nat)  BY NatLessThanWellFounded, Zenon DEF Less
  <2> HIDE DEF Less
  <2> QED  BY <2>1, WFMin
<1>2. ASSUME NEW j \in I  PROVE k <= j
  <2>1. ~ j < k  BY <1>1 DEF OpToRel
  <2> QED  BY <2>1
<1> QED  BY <1>2 DEF Seqs!Min

(* The position of the first coin of a denomination, 0 if there is none.   *)
Of(coins, d)    == {i \in 1 .. Len(coins) : coins[i].denom = d}
First(coins, d) == IF Of(coins, d) # {} THEN Seqs!Min(Of(coins, d)) ELSE 0

(* Either no coin is of the denomination, or First is where the first one  *)
(* is.                                                                     *)
LEMMA FirstIs ==
  ASSUME NEW coins \in Seq(Coin), NEW d
  PROVE  \/ First(coins, d) = 0 /\ \A i \in 1 .. Len(coins) : coins[i].denom # d
         \/ /\ First(coins, d) \in 1 .. Len(coins)
            /\ coins[First(coins, d)].denom = d
            /\ \A i \in 1 .. Len(coins) : coins[i].denom = d => First(coins, d) <= i
<1>1. CASE Of(coins, d) = {}
  BY <1>1 DEF First, Of
<1>2. CASE Of(coins, d) # {}
  <2>1. Of(coins, d) \subseteq Nat  BY DEF Of
  <2>2. Seqs!Min(Of(coins, d)) \in Of(coins, d)
        /\ \A i \in Of(coins, d) : Seqs!Min(Of(coins, d)) <= i
    BY <1>2, <2>1, FirstPosition
  <2>3. First(coins, d) = Seqs!Min(Of(coins, d))  BY <1>2 DEF First
  <2> QED  BY <2>2, <2>3 DEF Of
<1> QED  BY <1>1, <1>2

(* has_coins looks at the first coin only.                                 *)
LEMMA HasCoinsIs ==
  ASSUME NEW coins, NEW required
  PROVE  HasCoins(coins, required) <=>
           LET n == First(coins, required.denom)
           IN  n # 0 /\ coins[n].amount >= required.amount
BY DEF HasCoins, Seqs!SelectInSeq, First, Of

(* So does a query of a balance.                                           *)
LEMMA BankBalanceIs ==
  ASSUME NEW name, NEW d
  PROVE  BankBalance(name, d) =
           LET n == First(Coins(name), d)
           IN  [denom |-> d, amount |-> IF n = 0 THEN 0 ELSE Coins(name)[n].amount]
BY DEF BankBalance, Seqs!SelectInSeq, First, Of

(* Whoever has no coins has an empty list of them.                         *)
LEMMA CoinsType ==
  ASSUME ChainTypeOK, NEW name
  PROVE  Coins(name) \in Seq(Coin)
BY DEF ChainTypeOK, Coins

(* The first delegation of a delegator to a validator.                     *)
Both(n, v) == {d \in FullDelegation : d.delegator = n /\ d.validator = v}

(* A query of a delegation finds the first of the delegator to the         *)
(* validator, or None if there is none.                                    *)
LEMMA DelegationIs ==
  ASSUME ChainTypeOK, NEW n \in Names, NEW v \in Names
  PROVE  LET seq == staking.delegations
         IN  \/ /\ Delegation(n, v) = None
                /\ \A i \in 1 .. Len(seq) : seq[i] \notin Both(n, v)
             \/ \E i : IsFirst(i, seq, Both(n, v)) /\ Delegation(n, v) = seq[i]
<1> DEFINE seq == staking.delegations
           I   == {i \in 1 .. Len(seq) : seq[i].delegator = n /\ seq[i].validator = v}
<1>1. seq \in Seq(FullDelegation) /\ Len(seq) \in Nat
  BY LenProperties DEF ChainTypeOK
<1>2. \A i \in 1 .. Len(seq) : seq[i] \in Both(n, v) <=> i \in I
  BY <1>1 DEF Both
<1>3. Delegation(n, v) = LET k == IF I # {} THEN Seqs!Min(I) ELSE 0
                         IN  IF k = 0 THEN None ELSE seq[k]
  BY DEF Delegation, Seqs!SelectInSeq
<1>4. I \subseteq 1 .. Len(seq)
  OBVIOUS
<1> HIDE DEF I, seq
<1>5. CASE I = {}
  BY <1>2, <1>3, <1>5 DEF seq
<1>6. CASE I # {}
  <2>1. I \subseteq Nat  BY <1>4
  <2>2. Seqs!Min(I) \in I /\ \A i \in I : Seqs!Min(I) <= i
    BY <1>6, <2>1, FirstPosition
  <2> DEFINE k == Seqs!Min(I)
  <2>3. k \in I /\ k \in 1 .. Len(seq) /\ k # 0 /\ \A i \in I : k <= i
    <3>1. k \in I /\ \A i \in I : k <= i  BY <2>2
    <3> HIDE DEF k
    <3>2. k \in 1 .. Len(seq)  BY <1>4, <3>1
    <3> QED  BY <1>1, <3>1, <3>2
  <2>4. Delegation(n, v) = seq[k]
    BY <1>3, <1>6, <2>3
  <2> HIDE DEF k
  <2>5. \A j \in 1 .. Len(seq) : j < k => j \notin I
    BY <1>1, <2>3
  <2>6. IsFirst(k, seq, Both(n, v))
    BY <1>2, <2>3, <2>5 DEF IsFirst
  <2> QED  BY <2>4, <2>6 DEF seq
<1> QED  BY <1>5, <1>6

-----------------------------------------------------------------------------
(* Answers.                                                                *)

(* What a request has, by its kind.                                        *)
LEMMA RequestIs ==
  ASSUME NEW request \in Requests
  PROVE  /\ request.kind = "balance" => request.name \in Names /\ request.denom \in Denoms
         /\ request.kind = "delegation" => request.name \in Names /\ request.validator \in Names
         /\ request.kind \in OfAccount => request.name \in Names
         /\ request.kind \in {"balance", "delegation"} \cup OfAccount \cup OfSystem
BY DEF Requests, OfAccount, OfSystem

(* A balance is a coin of the denomination that was asked for.             *)
LEMMA BalanceType ==
  ASSUME ChainTypeOK, NEW n \in Names, NEW d \in Denoms
  PROVE  BankBalance(n, d) \in {coin \in Coin : coin.denom = d}
<1> DEFINE k == First(Coins(n), d)
<1>1. Coins(n) \in Seq(Coin)  BY CoinsType
<1>2. k = 0 \/ k \in 1 .. Len(Coins(n))  BY <1>1, FirstIs
<1>3. BankBalance(n, d) = [denom |-> d, amount |-> IF k = 0 THEN 0 ELSE Coins(n)[k].amount]
  BY BankBalanceIs
<1>4. (IF k = 0 THEN 0 ELSE Coins(n)[k].amount) \in Amounts
  <2>1. \A coin \in Coin : coin.amount \in Amounts  BY DEF Coin
  <2>2. k # 0 => Coins(n)[k] \in Coin  BY <1>1, <1>2
  <2> HIDE DEF k
  <2> QED  BY <2>1, <2>2, AmountsAssumption
<1> HIDE DEF k
<1> QED  BY <1>3, <1>4 DEF Coin

Own(n) == {d \in FullDelegation : d.delegator = n}

(* All delegations are those of the delegator that was asked for.          *)
LEMMA DelegationsType ==
  ASSUME ChainTypeOK, NEW n \in Names
  PROVE  /\ DelegationsOf(n) \in Seq([delegator : {n}, validator : Names, amount : Coin])
         /\ DelegationsOf(n) \in Seq(BasicDelegation)
<1> DEFINE seq == staking.delegations
           own == Filtered(seq, Own(n))
           T   == [delegator : {n}, validator : Names, amount : Coin]
<1>1. seq \in Seq(FullDelegation)  BY DEF ChainTypeOK
<1>2. own \in Seq(FullDelegation) /\ Len(own) \in Nat /\ DOMAIN own = 1 .. Len(own)
  BY <1>1, FilteredType, LenProperties
<1>3. \A i \in 1 .. Len(own) : own[i] \in Own(n)
  BY <1>1, FilteredPicks DEF Picks
<1>4. DelegationsOf(n) = [i \in DOMAIN own |-> Basic(own[i])]
  BY DEF DelegationsOf, Own
<1> HIDE DEF own
<1>5. \A i \in DOMAIN own : Basic(own[i]) \in T /\ Basic(own[i]) \in BasicDelegation
  BY <1>2, <1>3 DEF Own, Basic, FullDelegation, BasicDelegation
<1> HIDE DEF T
<1> QED  BY <1>2, <1>4, <1>5 DEF T

(* The chain answers with what answers the question.                       *)
LEMMA AnswersFit ==
  ASSUME ChainTypeOK, NEW request \in Requests
  PROVE  LET answer == Query(request)
         IN  /\ answer.ok \in BOOLEAN
             /\ answer.ok => answer.value \in AnswerType(request)
             /\ ~ answer.ok => answer.err \in Errors
<1> DEFINE reply == HandleQuery(request)
<1>1. \/ /\ reply.level = "ok" /\ reply.value \in AnswerType(request)
      \/ /\ reply.level = "ok" /\ reply.value = NoBytes
      \/ /\ reply.level = "system"
      \/ /\ reply.level = "contract" /\ reply.err \in Errors
  <2>1. CASE request.kind = "balance"
    <3>1. reply = Answer(BankBalance(request.name, request.denom))
      BY <2>1 DEF HandleQuery
    <3>2. AnswerType(request) = {coin \in Coin : coin.denom = request.denom}
      BY <2>1 DEF AnswerType
    <3> QED  BY <2>1, <3>1, <3>2, RequestIs, BalanceType DEF Answer
  <2>2. CASE request.kind = "delegation"
    <3> DEFINE one == Delegation(request.name, request.validator)
    <3>1. reply = Answer(one)
      BY <2>2 DEF HandleQuery, StakingQuery
    <3>2. AnswerType(request) = {None} \cup Both(request.name, request.validator)
      BY <2>2 DEF AnswerType, Both
    <3>3. request.name \in Names /\ request.validator \in Names
      BY <2>2, RequestIs
    <3>4. one = None \/ one \in Both(request.name, request.validator)
      BY <3>3, DelegationIs DEF IsFirst
    <3> QED  BY <3>1, <3>2, <3>4 DEF Answer
  <2>3. CASE request.kind = "all_balances"
    <3>1. reply = Answer(Coins(request.name))
      BY <2>3 DEF HandleQuery
    <3>2. AnswerType(request) = Seq(Coin)
      BY <2>3 DEF AnswerType
    <3> QED  BY <3>1, <3>2, CoinsType DEF Answer
  <2>4. CASE request.kind \in {"all_delegations", "unbonding_delegations"}
    <3>1. reply = Answer(DelegationsOf(request.name))
      BY <2>4 DEF HandleQuery, StakingQuery
    <3>2. AnswerType(request) = Seq([delegator : {request.name}, validator : Names, amount : Coin])
      BY <2>4 DEF AnswerType
    <3>3. request.name \in Names
      BY <2>4, RequestIs DEF OfAccount
    <3> QED  BY <3>1, <3>2, <3>3, DelegationsType DEF Answer
  <2>5. CASE request.kind = "rewards"
    <3>1. reply = Answer([rewards |-> <<>>, total |-> <<>>])
      BY <2>5 DEF HandleQuery
    <3>2. AnswerType(request) = [rewards : {<<>>}, total : {<<>>}]
      BY <2>5 DEF AnswerType
    <3> QED  BY <3>1, <3>2 DEF Answer
  <2>6. CASE request.kind \in {"bonded_denom", "validators"}
    <3>1. reply = Answer(IF request.kind = "bonded_denom" THEN staking.denom ELSE staking.validators)
      BY <2>6 DEF HandleQuery, StakingQuery
    <3>2. AnswerType(request) = IF request.kind = "bonded_denom" THEN Denoms \cup {None} ELSE Seq(Names)
      BY <2>6 DEF AnswerType
    <3> QED  BY <2>6, <3>1, <3>2 DEF Answer, ChainTypeOK
  <2>7. CASE request.kind \in {"proposals", "inflation", "bonded_ratio"}
    <3>1. reply = Answer(NoBytes)
      BY <2>7 DEF HandleQuery
    <3> QED  BY <3>1 DEF Answer
  <2>8. CASE request.kind \in {"wasm", "malformed"}
    <3>1. reply.level = "system"
      BY <2>8 DEF HandleQuery, SystemErr
    <3> QED  BY <3>1
  <2>9. CASE request.kind = "custom"
    <3>1. reply = CustomQuery
      BY <2>9 DEF HandleQuery
    <3>2. AnswerType(request) = {"custom"}
      BY <2>9 DEF AnswerType
    <3>3. custom \in Handlers
      BY DEF ChainTypeOK
    <3> QED  BY <3>1, <3>2, <3>3
             DEF CustomQuery, Handlers, Answer, SystemErr, ContractErr, Errors
  <2> QED  BY RequestIs, <2>1, <2>2, <2>3, <2>4, <2>5, <2>6, <2>7, <2>8, <2>9
           DEF OfAccount, OfSystem
<1> DEFINE answer == Query(request)
<1>2. answer = Flatten(reply)
  BY DEF Query
<1> HIDE DEF reply
<1>3. /\ answer.ok \in BOOLEAN
      /\ answer.ok => answer.value \in AnswerType(request)
      /\ ~ answer.ok => answer.err \in Errors
  BY <1>1, <1>2 DEF Flatten, Ok, Err, Errors
<1> QED  BY <1>3

-----------------------------------------------------------------------------
(* Types.                                                                  *)

(* A fresh chain and a contract that was never called.                     *)
LEMMA InitTypes == Init => TypeOK
<1> SUFFICES ASSUME Init  PROVE TypeOK  OBVIOUS
<1>1. ChainTypeOK
  <2>1. contract \in Names  BY PursesAssumption
  <2> QED  BY <2>1 DEF Init, ChainInit, ChainTypeOK, Handlers
<1>2. ctx \in [messages : Seq(Messages), log : Seq(Logs), data : Texts \cup {None}]
  BY DEF Init, NewContext
<1>3. added \in Seq(Additions)
  BY DEF Init
<1>4. response.ok \in BOOLEAN /\ (~ response.ok => response.err \in Errors)
  BY DEF Init, NoResponse, Err, Errors
<1>5. credited \in [Names -> Nat] /\ \A a \in DOMAIN accounts : accounts[a] \in Nat
  BY DEF Init
<1>6. /\ running = FALSE /\ entry \in Entries \cup {"none"} /\ funds \in Purses \cup {<<>>}
      /\ heard = NotHeard
  BY DEF Init
<1> QED  BY <1>1, <1>2, <1>3, <1>4, <1>5, <1>6 DEF TypeOK

(* What leaves the chain alone, and what leaves the call alone.            *)
Response(r) == r.ok \in BOOLEAN /\ (~ r.ok => r.err \in Errors)

CallTypes ==
  /\ ctx \in [messages : Seq(Messages), log : Seq(Logs), data : Texts \cup {None}]
  /\ added \in Seq(Additions)

LedgerTypes ==
  /\ \A a \in DOMAIN accounts : accounts[a] \in Nat
  /\ credited \in [Names -> Nat]

Heard == heard = NotHeard \/ heard.value \in AnswerType(heard.request)

Entered ==
  running \in BOOLEAN /\ entry \in Entries \cup {"none"} /\ (running => entry \in Entries)

(* The type invariant by the variables that change together.               *)
LEMMA TypeParts ==
  TypeOK <=> /\ ChainTypeOK /\ CallTypes /\ LedgerTypes /\ Heard /\ Response(response)
             /\ Entered /\ funds \in Purses \cup {<<>>}
BY DEF TypeOK, CallTypes, LedgerTypes, Heard, Response, Entered

(* The same for the state after a step.                                    *)
LEMMA TypePartsAfter ==
  ASSUME ChainTypeOK', CallTypes', LedgerTypes', Heard', Response(response)', Entered',
         funds' \in Purses \cup {<<>>}
  PROVE  TypeOK'
BY DEF TypeOK, CallTypes, LedgerTypes, Heard, Response, Entered

(* A call leaves the chain as it is.                                       *)
LEMMA ChainSame ==
  ASSUME ChainTypeOK, UNCHANGED chain  PROVE ChainTypeOK'
BY DEF chain, ChainTypeOK

(* What a test sets is of the type of what it replaces.                    *)
LEMMA UpdatesTyped ==
  ASSUME ChainTypeOK,
         \/ \E name \in Names, coins \in Purses : UpdateBalance(name, coins)
         \/ \E s \in Stakings : UpdateStaking(s.denom, s.validators, s.delegations)
         \/ \E handler \in Handlers \ {"unsupported"} : WithCustomHandler(handler)
  PROVE  ChainTypeOK'
<1>1. ASSUME NEW name \in Names, NEW coins \in Purses, UpdateBalance(name, coins)
      PROVE  ChainTypeOK'
  <2>1. coins \in Seq(Coin)  BY PursesAssumption
  <2>2. /\ balances' = [n \in DOMAIN balances \cup {name} |-> IF n = name THEN coins ELSE balances[n]]
        /\ UNCHANGED <<staking, custom>>
    BY <1>1 DEF UpdateBalance
  <2>3. DOMAIN balances' \subseteq Names /\ \A n \in DOMAIN balances' : balances'[n] \in Seq(Coin)
    BY <2>1, <2>2 DEF ChainTypeOK
  <2> QED  BY <2>2, <2>3 DEF ChainTypeOK
<1>2. ASSUME NEW s \in Stakings, UpdateStaking(s.denom, s.validators, s.delegations)
      PROVE  ChainTypeOK'
  BY <1>2, StakingsAssumption DEF UpdateStaking, ChainTypeOK
<1>3. ASSUME NEW handler \in Handlers \ {"unsupported"}, WithCustomHandler(handler)
      PROVE  ChainTypeOK'
  BY <1>3 DEF WithCustomHandler, ChainTypeOK
<1> QED  BY <1>1, <1>2, <1>3

(* A return changes the response only.                                     *)
LEMMA ReturnsTyped ==
  ASSUME TypeOK, NEW result, Returns(result), Response(result)
  PROVE  TypeOK'
<1>1. UNCHANGED <<chain, entry, funds, context, heard, ledger>>
  BY DEF Returns
<1>2. ChainTypeOK'  BY <1>1, ChainSame DEF TypeOK
<1>3. CallTypes' /\ LedgerTypes' /\ Heard'
  BY <1>1, TypeParts DEF CallTypes, LedgerTypes, Heard, context, ledger
<1>4. Response(response)' /\ Entered'
  BY <1>1, TypeParts DEF Returns, Response, Entered
<1>5. (funds \in Purses \cup {<<>>})'
  BY <1>1 DEF TypeOK
<1> QED  BY <1>2, <1>3, <1>4, <1>5, TypePartsAfter

(* An error is a response.                                                 *)
LEMMA ErrTyped ==
  ASSUME NEW kind \in Errors
  PROVE  Response(Err(kind))
BY DEF Response, Err

(* No action breaks the types.                                             *)
LEMMA NextTyped ==
  ASSUME TypeOK, Next
  PROVE  TypeOK'
<1>0. /\ ChainTypeOK /\ CallTypes /\ LedgerTypes /\ Heard /\ Response(response)
      /\ Entered /\ funds \in Purses \cup {<<>>}
  BY TypeParts
<1> USE <1>0, TypePartsAfter
<1>1. ASSUME Updates, ChainTypeOK'
      PROVE  TypeOK'
  <2>1. UNCHANGED <<entry, running, funds, context, heard, response, ledger>>
    BY <1>1 DEF Updates
  <2>2. CallTypes' /\ LedgerTypes' /\ Heard'
    BY <2>1 DEF CallTypes, LedgerTypes, Heard, context, ledger
  <2>3. Response(response)' /\ Entered' /\ funds' = funds
    BY <2>1 DEF Response, Entered
  <2> QED  BY <1>1, <2>2, <2>3
<1>2. ASSUME NEW point \in Entries, NEW sent \in Purses, Enter(point, sent)
      PROVE  TypeOK'
  <2>1. UNCHANGED <<chain, ledger>>  BY <1>2 DEF Enter
  <2>2. ChainTypeOK'  BY <2>1, ChainSame
  <2>3. LedgerTypes'  BY <2>1 DEF LedgerTypes, ledger
  <2>4. CallTypes'
    <3>1. ctx' = NewContext /\ added' = <<>>  BY <1>2 DEF Enter
    <3>2. ctx' \in [messages : Seq(Messages), log : Seq(Logs), data : Texts \cup {None}]
      BY <3>1 DEF NewContext
    <3>3. added' \in Seq(Additions)  BY <3>1
    <3> QED  BY <3>2, <3>3 DEF CallTypes
  <2>5. Heard'  BY <1>2 DEF Enter, Heard
  <2>6. Response(response)'
    BY <1>2 DEF Enter, Response, NoResponse, Err, Errors
  <2>7. Entered' /\ funds' \in Purses \cup {<<>>}
    BY <1>2 DEF Enter, Entered
  <2> QED  BY <2>2, <2>3, <2>4, <2>5, <2>6, <2>7
<1>3. CASE EnterFails
  <2>1. UNCHANGED <<chain, entry, running, funds, heard, ledger>>  BY <1>3 DEF EnterFails
  <2>2. ChainTypeOK'  BY <2>1, ChainSame
  <2>3. LedgerTypes' /\ Heard'  BY <2>1 DEF LedgerTypes, ledger, Heard
  <2>4. CallTypes'
    <3>1. ctx' = NewContext /\ added' = <<>>  BY <1>3 DEF EnterFails
    <3>2. ctx' \in [messages : Seq(Messages), log : Seq(Logs), data : Texts \cup {None}]
      BY <3>1 DEF NewContext
    <3>3. added' \in Seq(Additions)  BY <3>1
    <3> QED  BY <3>2, <3>3 DEF CallTypes
  <2>5. Response(response)'
    BY <1>3 DEF EnterFails, Response, Err, Errors
  <2>6. Entered' /\ funds' = funds  BY <2>1 DEF Entered
  <2> QED  BY <2>2, <2>3, <2>4, <2>5, <2>6
<1>4. ASSUME NEW what \in Additions, Adds(what),
             ctx' \in [messages : Seq(Messages), log : Seq(Logs), data : Texts \cup {None}]
      PROVE  TypeOK'
  <2>1. UNCHANGED <<chain, entry, running, funds, heard, response, ledger>>  BY <1>4 DEF Adds
  <2>2. ChainTypeOK'  BY <2>1, ChainSame
  <2>3. LedgerTypes' /\ Heard'  BY <2>1 DEF LedgerTypes, ledger, Heard
  <2>4. added' \in Seq(Additions)
    <3>1. added' = Append(added, what) /\ added \in Seq(Additions)
      BY <1>4 DEF Adds, CallTypes
    <3> QED  BY <3>1
  <2>5. CallTypes'  BY <1>4, <2>4 DEF CallTypes
  <2>6. Response(response)' /\ Entered' /\ funds' = funds
    BY <2>1 DEF Response, Entered
  <2> QED  BY <2>2, <2>3, <2>5, <2>6
<1>5. ASSUME NEW key \in LogKeys, NEW encrypted \in BOOLEAN, AddLog(key, encrypted)
      PROVE  TypeOK'
  <2>1. Log(key, encrypted) \in Logs  BY DEF Log, Logs
  <2>2. [kind |-> "log", content |-> Log(key, encrypted)] \in Additions
    BY <2>1 DEF Additions
  <2>3. ctx' = [ctx EXCEPT !.log = Append(@, Log(key, encrypted))]  BY <1>5 DEF AddLog
  <2>4. ctx' \in [messages : Seq(Messages), log : Seq(Logs), data : Texts \cup {None}]
    <3>1. Append(ctx.log, Log(key, encrypted)) \in Seq(Logs)  BY <2>1 DEF CallTypes
    <3> QED  BY <2>3, <3>1 DEF CallTypes
  <2> QED  BY <1>4, <1>5, <2>2, <2>4 DEF AddLog
<1>6. ASSUME NEW msg \in Messages, AddMessage(msg)
      PROVE  TypeOK'
  <2>1. [kind |-> "message", content |-> msg] \in Additions
    BY DEF Additions
  <2>2. ctx' = [ctx EXCEPT !.messages = Append(@, msg)]  BY <1>6 DEF AddMessage
  <2>3. ctx' \in [messages : Seq(Messages), log : Seq(Logs), data : Texts \cup {None}]
    <3>1. Append(ctx.messages, msg) \in Seq(Messages)  BY DEF CallTypes
    <3> QED  BY <2>2, <3>1 DEF CallTypes
  <2> QED  BY <1>4, <1>6, <2>1, <2>3 DEF AddMessage
<1>7. ASSUME NEW data \in Texts, SetData(data)
      PROVE  TypeOK'
  <2>1. [kind |-> "data", content |-> data] \in Additions
    BY DEF Additions
  <2>2. ctx' = [ctx EXCEPT !.data = data]  BY <1>7 DEF SetData
  <2>3. ctx' \in [messages : Seq(Messages), log : Seq(Logs), data : Texts \cup {None}]
    BY <2>2 DEF CallTypes
  <2> QED  BY <1>4, <1>7, <2>1, <2>3 DEF SetData
<1>8. ASSUME NEW request \in Requests, Ask(request)
      PROVE  TypeOK'
  <2> DEFINE answer == Query(request)
  <2>1. /\ answer.ok \in BOOLEAN
        /\ answer.ok => answer.value \in AnswerType(request)
        /\ ~ answer.ok => answer.err \in Errors
    BY AnswersFit
  <2>2. IF answer.ok
        THEN /\ heard' = IF entry = "query" THEN [request |-> request, value |-> answer.value] ELSE heard
             /\ UNCHANGED <<chain, entry, running, funds, context, response, ledger>>
        ELSE Returns(answer)
    BY <1>8 DEF Ask
  <2> HIDE DEF answer
  <2>3. CASE answer.ok
    <3>1. UNCHANGED <<chain, entry, running, funds, context, response, ledger>>  BY <2>2, <2>3
    <3>2. ChainTypeOK'  BY <3>1, ChainSame
    <3>3. LedgerTypes' /\ CallTypes'  BY <3>1 DEF LedgerTypes, ledger, CallTypes, context
    <3>4. Heard'
      <4>1. CASE entry = "query"
        <5>1. heard' = [request |-> request, value |-> answer.value]  BY <2>2, <2>3, <4>1
        <5>2. heard'.value = answer.value /\ heard'.request = request  BY <5>1
        <5>3. heard'.value \in AnswerType(heard'.request)  BY <2>1, <2>3, <5>2
        <5> QED  BY <5>3 DEF Heard, AnswerType
      <4>2. CASE entry # "query"
        <5>1. heard' = heard  BY <2>2, <2>3, <4>2
        <5> QED  BY <5>1 DEF Heard, AnswerType
      <4> QED  BY <4>1, <4>2
    <3>5. Response(response)' /\ Entered' /\ funds' = funds
      BY <3>1 DEF Response, Entered
    <3> QED  BY <3>2, <3>3, <3>4, <3>5
  <2>4. CASE ~ answer.ok
    BY <2>1, <2>2, <2>4, ReturnsTyped DEF Response
  <2> QED  BY <2>1, <2>3, <2>4
<1>9. CASE AskGarbled
  <2>1. Flatten(ContractErr("ParseErr")) = Err("ParseErr")
    BY DEF Flatten, ContractErr
  <2>2. Returns(Err("ParseErr"))  BY <1>9, <2>1 DEF AskGarbled
  <2> QED  BY <2>2, ReturnsTyped, ErrTyped DEF Errors
<1>10. ASSUME NEW price \in Coin, Charge(price)
       PROVE  TypeOK'
  <2>1. UNCHANGED <<chain, entry, funds, context, heard, ledger>>  BY <1>10 DEF Charge
  <2>2. ChainTypeOK'  BY <2>1, ChainSame
  <2>3. LedgerTypes' /\ Heard' /\ CallTypes'
    BY <2>1 DEF LedgerTypes, ledger, Heard, CallTypes, context
  <2>4. CASE HasCoins(funds, price)
    <3>1. UNCHANGED <<running, response>>  BY <1>10, <2>4 DEF Charge
    <3>2. Response(response)' /\ Entered' /\ funds' = funds
      BY <2>1, <3>1 DEF Response, Entered
    <3> QED  BY <2>2, <2>3, <3>2
  <2>5. CASE ~ HasCoins(funds, price)
    <3>1. running' = FALSE /\ response' = Err("GenericErr")  BY <1>10, <2>5 DEF Charge
    <3>2. Response(response)'  BY <3>1, ErrTyped DEF Errors, Response, Err
    <3>3. Entered' /\ funds' = funds  BY <2>1, <3>1 DEF Entered
    <3> QED  BY <2>2, <2>3, <3>2, <3>3
  <2> QED  BY <2>4, <2>5
<1>11. ASSUME NEW name \in Names, Credit(name)
       PROVE  TypeOK'
  <2> DEFINE address == CanonicalAddress(name)
             credit(a) == IF a \in DOMAIN accounts THEN accounts[a] ELSE 0
  <2>1. address.ok \/ address = Err("GenericErr")
    BY DEF CanonicalAddress, Ok
  <2>2. CASE address.ok
    <3>1. /\ accounts' = [a \in DOMAIN accounts \cup {address.value} |->
                            IF a = address.value THEN credit(a) + 1 ELSE accounts[a]]
          /\ credited' = [credited EXCEPT ![name] = @ + 1]
          /\ UNCHANGED <<chain, entry, running, funds, context, heard, response>>
      BY <1>11, <2>2 DEF Credit
    <3>2. \A a : credit(a) \in Nat  BY DEF LedgerTypes
    <3> HIDE DEF address, credit
    <3>3. \A a \in DOMAIN accounts' : accounts'[a] \in Nat
      BY <3>1, <3>2 DEF LedgerTypes
    <3>4. credited' \in [Names -> Nat]
      BY <3>1 DEF LedgerTypes
    <3>5. ChainTypeOK'  BY <3>1, ChainSame
    <3>6. Heard' /\ CallTypes'  BY <3>1 DEF Heard, CallTypes, context
    <3>7. LedgerTypes'  BY <3>3, <3>4 DEF LedgerTypes
    <3>8. Response(response)' /\ Entered' /\ funds' = funds
      BY <3>1 DEF Response, Entered
    <3> QED  BY <3>5, <3>6, <3>7, <3>8
  <2>3. CASE ~ address.ok
    <3>1. Returns(address)  BY <1>11, <2>3 DEF Credit
    <3> QED  BY <2>1, <2>3, <3>1, ReturnsTyped, ErrTyped DEF Errors
  <2> QED  BY <2>2, <2>3
<1>12. CASE Refuse
  BY <1>12, ReturnsTyped, ErrTyped DEF Refuse, Errors
<1>13. CASE Return
  <2>1. entry \in Entries  BY <1>13 DEF Return, Entered
  <2> DEFINE result == CASE entry = "init" -> InitResponse
                         [] entry \in {"handle", "migrate"} -> HandleResponse
                         [] entry = "query" -> Ok(heard.value)
  <2>2. PICK r : Returns(r) /\ r = result  BY <1>13 DEF Return
  <2>3. Response(result)
    BY <2>1 DEF Entries, InitResponse, HandleResponse, Ok, Err, Response, Errors
  <2> QED  BY <2>2, <2>3, ReturnsTyped
<1> QED  BY <1>1, <1>2, <1>3, <1>5, <1>6, <1>7, <1>8, <1>9, <1>10, <1>11, <1>12, <1>13,
            UpdatesTyped DEF Next

(* Nor does a step that changes nothing.                                   *)
LEMMA StepTyped == TypeOK /\ [Next]_vars => TypeOK'
<1> SUFFICES ASSUME TypeOK, UNCHANGED vars  PROVE TypeOK'
  BY NextTyped
<1>1. UNCHANGED <<chain, entry, running, funds, ctx, added, heard, response, accounts, credited>>
  BY DEF vars, context, ledger
<1>2. ChainTypeOK'  BY <1>1, ChainSame DEF TypeOK
<1>3. CallTypes' /\ LedgerTypes' /\ Heard' /\ Response(response)' /\ Entered'
  BY <1>1, TypeParts DEF CallTypes, LedgerTypes, Heard, Response, Entered
<1>4. funds' \in Purses \cup {<<>>}
  BY <1>1 DEF TypeOK
<1> QED  BY <1>2, <1>3, <1>4, TypePartsAfter

(* The variables keep their types, and a contract hears from the chain     *)
(* only what is of the type of an answer to its question, whatever a test  *)
(* has made of the chain.                                                  *)
THEOREM CallsTypeCorrect == Spec => []TypeOK
BY InitTypes, StepTyped, PTL DEF Spec

-----------------------------------------------------------------------------
(* Two ways to ask.                                                        *)

(* Neither query of balances fails, and none is taken for an empty answer. *)
LEMMA AskedBalance ==
  ASSUME ChainTypeOK, NEW n \in Names, NEW d \in Denoms
  PROVE  /\ Query([kind |-> "balance", name |-> n, denom |-> d]) = Ok(BankBalance(n, d))
         /\ Query([kind |-> "all_balances", name |-> n]) = Ok(Coins(n))
<1>1. BankBalance(n, d) # NoBytes /\ Coins(n) # NoBytes
  BY BalanceType, CoinsType, NoneAssumption
<1>2. HandleQuery([kind |-> "balance", name |-> n, denom |-> d]) = Answer(BankBalance(n, d))
  BY DEF HandleQuery
<1>3. HandleQuery([kind |-> "all_balances", name |-> n]) = Answer(Coins(n))
  BY DEF HandleQuery
<1> QED  BY <1>1, <1>2, <1>3 DEF Query, Flatten, Answer

(* Nor does one of the queries of delegations.                             *)
LEMMA AskedDelegation ==
  ASSUME ChainTypeOK, NEW n \in Names, NEW v \in Names
  PROVE  /\ Query([kind |-> "delegation", name |-> n, validator |-> v]) = Ok(Delegation(n, v))
         /\ Query([kind |-> "all_delegations", name |-> n]) = Ok(DelegationsOf(n))
<1>1. Delegation(n, v) # NoBytes
  <2>1. Delegation(n, v) = None \/ Delegation(n, v) \in Both(n, v)
    BY DelegationIs DEF IsFirst
  <2> QED  BY <2>1, NoneAssumption DEF Both
<1>2. DelegationsOf(n) # NoBytes
  BY DelegationsType, NoneAssumption
<1>3. HandleQuery([kind |-> "delegation", name |-> n, validator |-> v]) = Answer(Delegation(n, v))
  BY DEF HandleQuery, StakingQuery
<1>4. HandleQuery([kind |-> "all_delegations", name |-> n]) = Answer(DelegationsOf(n))
  BY DEF HandleQuery, StakingQuery
<1> QED  BY <1>1, <1>2, <1>3, <1>4 DEF Query, Flatten, Answer

(* query_balance, and has_coins on query_all_balances, look at the same    *)
(* coin.                                                                   *)
LEMMA BalancesDoAgree ==
  ASSUME ChainTypeOK
  PROVE  BalancesAgree
<1> SUFFICES ASSUME NEW n \in Names, NEW d \in Denoms, NEW x \in Amounts \ {0}
             PROVE  LET one == Query([kind |-> "balance", name |-> n, denom |-> d])
                        all == Query([kind |-> "all_balances", name |-> n])
                    IN  x <= one.value.amount <=> HasCoins(all.value, [denom |-> d, amount |-> x])
  BY DEF BalancesAgree
<1> DEFINE k    == First(Coins(n), d)
           coin == [denom |-> d, amount |-> x]
<1>1. Query([kind |-> "balance", name |-> n, denom |-> d]).value = BankBalance(n, d)
      /\ Query([kind |-> "all_balances", name |-> n]).value = Coins(n)
  <2>1. \A value : Ok(value).value = value  BY DEF Ok
  <2> QED  BY <2>1, AskedBalance
<1>2. BankBalance(n, d).amount = IF k = 0 THEN 0 ELSE Coins(n)[k].amount
  BY BankBalanceIs
<1>3. HasCoins(Coins(n), coin) <=> k # 0 /\ Coins(n)[k].amount >= x
  BY HasCoinsIs
<1>4. x \in Nat /\ x # 0 /\ (k # 0 => Coins(n)[k].amount \in Nat)
  <2>1. Coins(n) \in Seq(Coin)  BY CoinsType
  <2>2. k # 0 => Coins(n)[k] \in Coin  BY <2>1, FirstIs
  <2>3. \A c \in Coin : c.amount \in Nat  BY AmountsAssumption DEF Coin
  <2> HIDE DEF k
  <2> QED  BY <2>2, <2>3, AmountsAssumption
<1> HIDE DEF k, coin
<1>5. x <= BankBalance(n, d).amount <=> HasCoins(Coins(n), coin)
  BY <1>2, <1>3, <1>4
<1> QED  BY <1>1, <1>5 DEF coin

(* The first delegation to the validator among all of the delegator is the *)
(* first of the delegator to the validator.                                *)
LEMMA DelegationsDoAgree ==
  ASSUME ChainTypeOK
  PROVE  DelegationsAgree
<1> SUFFICES ASSUME NEW n \in Names, NEW v \in Names
             PROVE  LET one == Query([kind |-> "delegation", name |-> n, validator |-> v]).value
                        all == Query([kind |-> "all_delegations", name |-> n]).value
                        to  == Filtered(all, {d \in BasicDelegation : d.validator = v})
                    IN  IF to = <<>> THEN one = None ELSE one # None /\ Basic(one) = Head(to)
  BY DEF DelegationsAgree
<1> DEFINE seq == staking.delegations
           own == Filtered(seq, Own(n))
           all == DelegationsOf(n)
           ToV == {d \in BasicDelegation : d.validator = v}
           one == Delegation(n, v)
           to  == Filtered(all, ToV)
<1>1. Query([kind |-> "delegation", name |-> n, validator |-> v]).value = one
      /\ Query([kind |-> "all_delegations", name |-> n]).value = all
  <2>1. \A value : Ok(value).value = value  BY DEF Ok
  <2> QED  BY <2>1, AskedDelegation
<1>2. seq \in Seq(FullDelegation) /\ all \in Seq(BasicDelegation)
  BY DelegationsType DEF ChainTypeOK
<1>3. own \in Seq(FullDelegation) /\ all = [i \in DOMAIN own |-> Basic(own[i])]
  BY <1>2, FilteredType DEF DelegationsOf, Own
<1>4. /\ Len(own) \in Nat /\ Len(seq) \in Nat /\ Len(all) = Len(own)
      /\ \A j \in 1 .. Len(own) : all[j] = Basic(own[j])
  BY <1>2, <1>3, LenProperties
<1>5. PICK e : Picks(own, seq, Own(n), Len(seq), e)
  BY <1>2, FilteredPicks
<1>6. /\ e \in [1 .. Len(own) -> 1 .. Len(seq)]
      /\ \A i, j \in 1 .. Len(own) : i < j => e[i] < e[j]
      /\ \A j \in 1 .. Len(own) : own[j] = seq[e[j]] /\ seq[e[j]] \in Own(n)
      /\ \A i \in 1 .. Len(seq) : seq[i] \in Own(n) => \E j \in 1 .. Len(own) : e[j] = i
  BY <1>5 DEF Picks
<1> HIDE DEF seq, own
<1>7. \A j \in 1 .. Len(own) : all[j] \in ToV <=> seq[e[j]] \in Both(n, v)
  <2> TAKE j \in 1 .. Len(own)
  <2>1. seq[e[j]] \in FullDelegation /\ seq[e[j]].delegator = n  BY <1>6 DEF Own
  <2>2. all[j] = Basic(seq[e[j]]) /\ all[j] \in BasicDelegation
    BY <1>2, <1>4, <1>6
  <2>3. all[j].validator = seq[e[j]].validator  BY <2>2 DEF Basic
  <2> HIDE DEF all
  <2> QED  BY <2>1, <2>2, <2>3 DEF Both
<1> HIDE DEF all
<1>8. \/ one = None /\ \A i \in 1 .. Len(seq) : seq[i] \notin Both(n, v)
      \/ \E i : IsFirst(i, seq, Both(n, v)) /\ one = seq[i]
  BY DelegationIs DEF seq
<1> HIDE DEF one, ToV
<1>9. ASSUME one = None, \A i \in 1 .. Len(seq) : seq[i] \notin Both(n, v)
      PROVE  to = <<>>
  <2>1. \A j \in 1 .. Len(all) : all[j] \notin ToV  BY <1>4, <1>6, <1>7, <1>9
  <2> QED  BY <1>2, <2>1, FilteredFirst
<1>10. ASSUME NEW i, IsFirst(i, seq, Both(n, v)), one = seq[i]
       PROVE  to # <<>> /\ one # None /\ Basic(one) = to[1]
  <2>1. i \in 1 .. Len(seq) /\ seq[i] \in Both(n, v)
        /\ \A j \in 1 .. Len(seq) : j < i => seq[j] \notin Both(n, v)
    BY <1>10 DEF IsFirst
  <2>2. PICK j \in 1 .. Len(own) : e[j] = i
    BY <1>6, <2>1 DEF Both, Own
  <2>3. IsFirst(j, all, ToV)
    <3>1. j \in 1 .. Len(all) /\ all[j] \in ToV  BY <1>4, <1>7, <2>1, <2>2
    <3>2. ASSUME NEW m \in 1 .. Len(all), m < j  PROVE all[m] \notin ToV
      <4>1. m \in 1 .. Len(own) /\ e[m] \in 1 .. Len(seq) /\ e[m] < i
        BY <1>4, <1>6, <2>2, <3>2
      <4> QED  BY <1>7, <2>1, <4>1
    <3> QED  BY <3>1, <3>2 DEF IsFirst
  <2>4. to # <<>> /\ to[1] = all[j]  BY <1>2, <2>3, FilteredFirst
  <2>5. all[j] = Basic(one)  BY <1>4, <1>6, <1>10, <2>2
  <2>6. one # None  BY <1>10, <2>1, NoneAssumption DEF Both
  <2> QED  BY <2>4, <2>5, <2>6
<1>11. to # <<>> => Head(to) = to[1]
  <2>1. to \in Seq(BasicDelegation)  BY <1>2, FilteredType
  <2> HIDE DEF to
  <2> QED  BY <2>1
<1>12. IF to = <<>> THEN one = None ELSE one # None /\ Basic(one) = Head(to)
  BY <1>8, <1>9, <1>10, <1>11
<1> QED  BY <1>1, <1>12 DEF ToV

(* Whatever a test made of the chain: query_balance tells of a coin what   *)
(* has_coins finds in query_all_balances, and query_delegation what the    *)
(* list of query_all_delegations has first for the validator.              *)
THEOREM AnswersAgree == Spec => []QueriesAgree
<1>1. TypeOK => QueriesAgree
  BY BalancesDoAgree, DelegationsDoAgree DEF TypeOK, QueriesAgree
<1> QED  BY <1>1, CallsTypeCorrect, PTL

-----------------------------------------------------------------------------
(* The Context and the response.                                           *)

(* What a list of additions has of a kind.                                 *)
ContentsOf(seq, kind) ==
  LET these == Filtered(seq, {what \in Additions : what.kind = kind})
  IN  [i \in DOMAIN these |-> these[i].content]

ContentTypes == Logs \cup Messages \cup Texts

(* Contents have the type of what was added.                               *)
LEMMA ContentsType ==
  ASSUME NEW seq \in Seq(Additions), NEW kind
  PROVE  /\ ContentsOf(seq, kind) \in Seq(ContentTypes)
         /\ kind = "data" => ContentsOf(seq, kind) \in Seq(Texts)
<1> DEFINE S     == {what \in Additions : what.kind = kind}
           these == Filtered(seq, S)
<1>1. these \in Seq(Additions) /\ Len(these) \in Nat /\ DOMAIN these = 1 .. Len(these)
  BY FilteredType, LenProperties
<1>2. \A i \in 1 .. Len(these) : these[i] \in S
  BY FilteredPicks DEF Picks
<1>3. ContentsOf(seq, kind) = [i \in 1 .. Len(these) |-> these[i].content]
  BY <1>1 DEF ContentsOf
<1> HIDE DEF these
<1>4. \A what \in S : /\ what.content \in ContentTypes
                      /\ kind = "data" => what.content \in Texts
  BY DEF Additions, ContentTypes
<1> HIDE DEF S
<1>5. \A i \in 1 .. Len(these) : /\ these[i].content \in ContentTypes
                                 /\ kind = "data" => these[i].content \in Texts
  BY <1>2, <1>4
<1> QED  BY <1>1, <1>3, <1>5

(* One more addition adds to the contents of its own kind only.            *)
LEMMA ContentsAppend ==
  ASSUME NEW seq \in Seq(Additions), NEW what \in Additions, NEW kind
  PROVE  ContentsOf(Append(seq, what), kind) =
           IF what.kind = kind THEN Append(ContentsOf(seq, kind), what.content)
           ELSE ContentsOf(seq, kind)
<1> DEFINE S     == {w \in Additions : w.kind = kind}
           these == Filtered(seq, S)
           those == Filtered(Append(seq, what), S)
<1>1. those = IF what \in S THEN Append(these, what) ELSE these
  BY FilteredAppend
<1>2. these \in Seq(Additions) /\ Len(these) \in Nat /\ DOMAIN these = 1 .. Len(these)
  BY FilteredType, LenProperties
<1>3. /\ ContentsOf(seq, kind) = [i \in 1 .. Len(these) |-> these[i].content]
      /\ ContentsOf(Append(seq, what), kind) = [i \in DOMAIN those |-> those[i].content]
  BY <1>2 DEF ContentsOf
<1>4. ContentsOf(seq, kind) \in Seq(ContentTypes)
  BY ContentsType
<1>5. what \in S <=> what.kind = kind
  OBVIOUS
<1> HIDE DEF S, these, those
<1>6. CASE what \notin S
  BY <1>1, <1>2, <1>3, <1>5, <1>6
<1>7. CASE what \in S
  <2> DEFINE n == Len(these)
             q == Append(these, what)
             r == Append(ContentsOf(seq, kind), what.content)
  <2>1. DOMAIN q = 1 .. n + 1 /\ q[n + 1] = what /\ \A i \in 1 .. n : q[i] = these[i]
    BY <1>2
  <2>2. Len(ContentsOf(seq, kind)) = n
    BY <1>2, <1>3
  <2>3. what.content \in ContentTypes
    BY DEF Additions, ContentTypes
  <2>4. /\ r = [i \in 1 .. n + 1 |-> r[i]] /\ r[n + 1] = what.content
        /\ \A i \in 1 .. n : r[i] = these[i].content
    <3>1. r \in Seq(ContentTypes) /\ Len(r) = n + 1 /\ r[n + 1] = what.content
          /\ \A i \in 1 .. n : r[i] = ContentsOf(seq, kind)[i]
      BY <1>4, <2>2, <2>3, AppendProperties
    <3>2. r = [i \in 1 .. Len(r) |-> r[i]]
      BY <3>1
    <3> QED  BY <1>3, <3>1, <3>2
  <2>5. [i \in DOMAIN q |-> q[i].content] = r
    <3> HIDE DEF q, r, n
    <3>1. \A i \in 1 .. n + 1 : i \in 1 .. n \/ i = n + 1  BY <1>2 DEF n
    <3>2. \A i \in 1 .. n + 1 : q[i].content = r[i]
      BY <2>1, <2>4, <3>1
    <3> QED  BY <2>1, <2>4, <3>2
  <2> QED  BY <1>1, <1>3, <1>5, <1>7, <2>5
<1> QED  BY <1>6, <1>7

(* Nothing was added to a new Context.                                     *)
LEMMA ContentsNone ==
  ASSUME NEW kind
  PROVE  ContentsOf(<<>>, kind) = <<>>
<1>1. Filtered(<<>>, {what \in Additions : what.kind = kind}) = <<>>
  BY FilteredEmpty
<1>2. [i \in DOMAIN <<>> |-> <<>>[i].content] = <<>>
  OBVIOUS
<1> QED  BY <1>1, <1>2 DEF ContentsOf

(* The Context is what was put into it.                                    *)
LastOf(seq) == IF seq = <<>> THEN None ELSE seq[Len(seq)]

Holds(c, seq) ==
  /\ c.messages = ContentsOf(seq, "message")
  /\ c.log = ContentsOf(seq, "log")
  /\ c.data = LastOf(ContentsOf(seq, "data"))

Collected == Holds(ctx, added)

(* The last element is the one appended last.                              *)
LEMMA AppendLast ==
  ASSUME NEW V, NEW seq \in Seq(V), NEW x \in V
  PROVE  LastOf(Append(seq, x)) = x
<1>1. /\ Append(seq, x) \in Seq(V) /\ Len(Append(seq, x)) = Len(seq) + 1
      /\ Append(seq, x)[Len(seq) + 1] = x /\ Len(seq) \in Nat
  BY AppendProperties, LenProperties
<1>2. Append(seq, x) # <<>>
  BY <1>1
<1> QED  BY <1>1, <1>2 DEF LastOf

(* What may happen to it in a step.                                        *)
Begins   == ctx' = NewContext /\ added' = <<>> /\ ~ response'.ok
Goes     == UNCHANGED <<ctx, added, running, entry, response>>
Fails    == UNCHANGED <<ctx, added, entry>> /\ running' = FALSE /\ ~ response'.ok
Collects ==
  \E what \in Additions :
    /\ running /\ UNCHANGED <<running, entry, response>>
    /\ added' = Append(added, what)
    /\ \/ what.kind = "log" /\ ctx' = [ctx EXCEPT !.log = Append(@, what.content)]
       \/ what.kind = "message" /\ ctx' = [ctx EXCEPT !.messages = Append(@, what.content)]
       \/ what.kind = "data" /\ ctx' = [ctx EXCEPT !.data = what.content]

(* An error is not a success.                                              *)
LEMMA ErrIs == ASSUME NEW kind  PROVE ~ Err(kind).ok
BY DEF Err

(* A call that ends in an error leaves no response to compare.             *)
LEMMA ReturnsFails ==
  ASSUME NEW result, Returns(result), ~ result.ok
  PROVE  Fails
BY DEF Returns, Fails, context

(* A step begins a call, goes on with it, ends it in an error, adds to its *)
(* Context, or returns.                                                    *)
LEMMA CallSteps ==
  ASSUME TypeOK, [Next]_vars
  PROVE  Begins \/ Goes \/ Fails \/ Collects \/ Return
<1>1. ASSUME Updates  PROVE Goes
  BY <1>1 DEF Updates, Goes, context
<1>2. ASSUME NEW point, NEW sent, Enter(point, sent)  PROVE Begins
  BY <1>2, ErrIs DEF Enter, Begins, NoResponse
<1>3. ASSUME EnterFails  PROVE Begins
  BY <1>3, ErrIs DEF EnterFails, Begins
<1>4. ASSUME NEW key \in LogKeys, NEW encrypted \in BOOLEAN, AddLog(key, encrypted)  PROVE Collects
  <2> DEFINE what == [kind |-> "log", content |-> Log(key, encrypted)]
  <2>1. what \in Additions  BY DEF Additions, Log, Logs
  <2>2. what.kind = "log" /\ what.content = Log(key, encrypted)  OBVIOUS
  <2>3. Adds(what) /\ ctx' = [ctx EXCEPT !.log = Append(@, what.content)]
    BY <1>4, <2>2 DEF AddLog
  <2> HIDE DEF what
  <2> QED  BY <2>1, <2>2, <2>3 DEF Adds, Collects
<1>5. ASSUME NEW msg \in Messages, AddMessage(msg)  PROVE Collects
  <2> DEFINE what == [kind |-> "message", content |-> msg]
  <2>1. what \in Additions  BY DEF Additions
  <2>2. what.kind = "message" /\ what.content = msg  OBVIOUS
  <2>3. Adds(what) /\ ctx' = [ctx EXCEPT !.messages = Append(@, what.content)]
    BY <1>5, <2>2 DEF AddMessage
  <2> HIDE DEF what
  <2> QED  BY <2>1, <2>2, <2>3 DEF Adds, Collects
<1>6. ASSUME NEW data \in Texts, SetData(data)  PROVE Collects
  <2> DEFINE what == [kind |-> "data", content |-> data]
  <2>1. what \in Additions  BY DEF Additions
  <2>2. what.kind = "data" /\ what.content = data  OBVIOUS
  <2>3. Adds(what) /\ ctx' = [ctx EXCEPT !.data = what.content]
    BY <1>6, <2>2 DEF SetData
  <2> HIDE DEF what
  <2> QED  BY <2>1, <2>2, <2>3 DEF Adds, Collects
<1>7. ASSUME NEW request, Ask(request)  PROVE Goes \/ Fails
  <2>1. CASE Query(request).ok
    BY <1>7, <2>1 DEF Ask, Goes, context
  <2>2. CASE ~ Query(request).ok
    BY <1>7, <2>2, ReturnsFails DEF Ask
  <2> QED  BY <2>1, <2>2
<1>8. ASSUME AskGarbled  PROVE Fails
  <2>1. ~ Flatten(ContractErr("ParseErr")).ok  BY DEF Flatten, ContractErr, Err
  <2> QED  BY <1>8, <2>1, ReturnsFails DEF AskGarbled
<1>9. ASSUME NEW price, Charge(price)  PROVE Goes \/ Fails
  <2>1. UNCHANGED <<ctx, added, entry>>  BY <1>9 DEF Charge, context
  <2>2. CASE HasCoins(funds, price)
    BY <1>9, <2>1, <2>2 DEF Charge, Goes
  <2>3. CASE ~ HasCoins(funds, price)
    BY <1>9, <2>1, <2>3, ErrIs DEF Charge, Fails
  <2> QED  BY <2>2, <2>3
<1>10. ASSUME NEW name, Credit(name)  PROVE Goes \/ Fails
  <2>1. CASE CanonicalAddress(name).ok
    BY <1>10, <2>1 DEF Credit, Goes, context
  <2>2. CASE ~ CanonicalAddress(name).ok
    BY <1>10, <2>2, ReturnsFails DEF Credit
  <2> QED  BY <2>1, <2>2
<1>11. ASSUME Refuse  PROVE Fails
  BY <1>11, ErrIs, ReturnsFails DEF Refuse
<1>12. CASE UNCHANGED vars
  BY <1>12 DEF vars, context, Goes
<1> QED  BY <1>1, <1>2, <1>3, <1>4, <1>5, <1>6, <1>7, <1>8, <1>9, <1>10, <1>11, <1>12 DEF Next

(* A new Context holds nothing.                                            *)
LEMMA NewIsCollected == Holds(NewContext, <<>>)
BY ContentsNone DEF Holds, NewContext, LastOf

(* The Context goes on to hold exactly what was added, whatever happens.   *)
LEMMA CollectedKept ==
  ASSUME TypeOK, Collected, [Next]_vars
  PROVE  Collected'
<1>1. CASE UNCHANGED <<ctx, added>>
  BY <1>1 DEF Collected
<1>2. CASE Begins
  BY <1>2, NewIsCollected DEF Begins, Collected
<1>3. CASE Collects
  <2>1. PICK what \in Additions :
          /\ added' = Append(added, what)
          /\ \/ what.kind = "log" /\ ctx' = [ctx EXCEPT !.log = Append(@, what.content)]
             \/ what.kind = "message" /\ ctx' = [ctx EXCEPT !.messages = Append(@, what.content)]
             \/ what.kind = "data" /\ ctx' = [ctx EXCEPT !.data = what.content]
    BY <1>3 DEF Collects
  <2>2. /\ added \in Seq(Additions)
        /\ ctx \in [messages : Seq(Messages), log : Seq(Logs), data : Texts \cup {None}]
    BY DEF TypeOK
  <2>3. \A kind : ContentsOf(added', kind) =
                    IF what.kind = kind THEN Append(ContentsOf(added, kind), what.content)
                    ELSE ContentsOf(added, kind)
    BY <2>1, <2>2, ContentsAppend
  <2>4. /\ ctx.messages = ContentsOf(added, "message")
        /\ ctx.log = ContentsOf(added, "log")
        /\ ctx.data = LastOf(ContentsOf(added, "data"))
    BY DEF Collected, Holds
  <2>5. CASE what.kind = "log"
    <3>1. ctx' = [ctx EXCEPT !.log = Append(@, what.content)]  BY <2>1, <2>5
    <3>2. ctx'.log = Append(ctx.log, what.content) /\ ctx'.messages = ctx.messages /\ ctx'.data = ctx.data
      BY <2>2, <3>1
    <3> QED  BY <2>3, <2>4, <2>5, <3>2 DEF Collected, Holds
  <2>6. CASE what.kind = "message"
    <3>1. ctx' = [ctx EXCEPT !.messages = Append(@, what.content)]  BY <2>1, <2>6
    <3>2. ctx'.messages = Append(ctx.messages, what.content) /\ ctx'.log = ctx.log /\ ctx'.data = ctx.data
      BY <2>2, <3>1
    <3> QED  BY <2>3, <2>4, <2>6, <3>2 DEF Collected, Holds
  <2>7. CASE what.kind = "data"
    <3>1. ctx' = [ctx EXCEPT !.data = what.content]  BY <2>1, <2>7
    <3>2. ctx'.data = what.content /\ ctx'.log = ctx.log /\ ctx'.messages = ctx.messages
      BY <2>2, <3>1
    <3>3. what.content \in Texts  BY <2>7 DEF Additions
    <3>4. LastOf(ContentsOf(added', "data")) = what.content
      <4>1. ContentsOf(added, "data") \in Seq(Texts)  BY <2>2, ContentsType
      <4>2. ContentsOf(added', "data") = Append(ContentsOf(added, "data"), what.content)
        BY <2>3, <2>7
      <4> QED  BY <3>3, <4>1, <4>2, AppendLast
    <3> QED  BY <2>3, <2>4, <2>7, <3>2, <3>4 DEF Collected, Holds
  <2> QED  BY <2>1, <2>5, <2>6, <2>7
<1> QED  BY <1>1, <1>2, <1>3, CallSteps DEF Goes, Fails, Return, Returns, context

(* What Return makes of it.                                                *)
LEMMA ReturnIsWhatWasAdded ==
  ASSUME TypeOK, Collected, Return
  PROVE  ResponseIsWhatWasAdded'
<1>1. running' = FALSE /\ UNCHANGED <<ctx, added, entry>> /\ entry \in Entries
  BY DEF Return, Returns, context, TypeOK
<1>2. response' = CASE entry = "init" -> InitResponse
                    [] entry \in {"handle", "migrate"} -> HandleResponse
                    [] entry = "query" -> Ok(heard.value)
  BY DEF Return, Returns
<1> SUFFICES ASSUME response'.ok, entry # "query"
             PROVE  /\ response'.value.messages = ContentsOf(added, "message")
                    /\ response'.value.log = ContentsOf(added, "log")
                    /\ IF ContentsOf(added, "data") = <<>>
                       THEN entry = "init" \/ response'.value.data = None
                       ELSE entry # "init" /\
                            response'.value.data = LastOf(ContentsOf(added, "data"))
  BY <1>1 DEF ResponseIsWhatWasAdded, Contents, ContentsOf, LastOf, Seqs!Last
<1>3. /\ ctx.messages = ContentsOf(added, "message")
      /\ ctx.log = ContentsOf(added, "log")
      /\ ctx.data = LastOf(ContentsOf(added, "data"))
  BY DEF Collected, Holds
<1>4. CASE entry = "init"
  <2>1. response' = InitResponse  BY <1>2, <1>4
  <2>2. ctx.data = None /\ response' = Ok([messages |-> ctx.messages, log |-> ctx.log])
    BY <2>1, ErrIs DEF InitResponse
  <2>3. ContentsOf(added, "data") = <<>>
    <3>1. ContentsOf(added, "data") \in Seq(Texts)  BY ContentsType DEF TypeOK
    <3>2. ContentsOf(added, "data") # <<>> => LastOf(ContentsOf(added, "data")) \in Texts
      BY <3>1 DEF LastOf
    <3> QED  BY <1>3, <2>2, <3>2, MessagesAssumption
  <2> QED  BY <1>3, <1>4, <2>2, <2>3 DEF Ok
<1>5. CASE entry # "init"
  <2>1. response' = Ok(ctx)  BY <1>1, <1>2, <1>5 DEF Entries, HandleResponse
  <2> QED  BY <1>3, <1>5, <2>1 DEF Ok, LastOf
<1> QED  BY <1>4, <1>5

(* A response stays what it was until the next call begins.                *)
LEMMA ResponseKept ==
  ASSUME TypeOK, Collected, ResponseIsWhatWasAdded, [Next]_vars
  PROVE  ResponseIsWhatWasAdded'
<1>1. CASE Goes
  <2>1. \A kind : Contents(kind)' = Contents(kind)  BY <1>1 DEF Goes, Contents
  <2> QED  BY <1>1, <2>1 DEF Goes, ResponseIsWhatWasAdded
<1>2. CASE Begins \/ Fails
  BY <1>2 DEF Begins, Fails, ResponseIsWhatWasAdded
<1>3. CASE Collects
  BY <1>3 DEF Collects, ResponseIsWhatWasAdded
<1> QED  BY <1>1, <1>2, <1>3, CallSteps, ReturnIsWhatWasAdded

(* A response has all that the call put into its Context, in order; it is  *)
(* what the Context has collected (Collected), which every addition keeps. *)
THEOREM ResponsesAreComplete == Spec => []ResponseIsWhatWasAdded
<1>1. Init => TypeOK /\ Collected /\ ResponseIsWhatWasAdded
  <2>1. Init => Collected  BY NewIsCollected DEF Init, Collected
  <2>2. Init => ResponseIsWhatWasAdded
    BY ErrIs DEF Init, NoResponse, ResponseIsWhatWasAdded
  <2> QED  BY <2>1, <2>2, InitTypes
<1>2. TypeOK /\ Collected /\ ResponseIsWhatWasAdded /\ [Next]_vars
        => (TypeOK /\ Collected /\ ResponseIsWhatWasAdded)'
  BY StepTyped, CollectedKept, ResponseKept
<1> QED  BY <1>1, <1>2, PTL DEF Spec

-----------------------------------------------------------------------------
(* Funds.                                                                  *)

(* What the first positions of a purse have of a denomination.             *)
Sums(f, coins, d) ==
  /\ f \in [0 .. Len(coins) -> Nat]
  /\ f[0] = 0
  /\ \A i \in 1 .. Len(coins) :
       f[i] = f[i - 1] + (IF coins[i].denom = d THEN coins[i].amount ELSE 0)

(* A sum, position by position.                                            *)
LEMMA TotalIs ==
  ASSUME NEW coins \in Seq(Coin), NEW d
  PROVE  \E f : Sums(f, coins, d) /\ Total(coins, d) = f[Len(coins)]
<1> DEFINE n     == Len(coins)
           of(i) == IF coins[i].denom = d THEN coins[i].amount ELSE 0
           step  == [p \in (1 .. n) \X Nat |-> p[2] + of(p[1])]
           P(g)  == g = [i \in 0 .. n |-> IF i = 0 THEN 0 ELSE g[i - 1] + of(i)]
           whole == CHOOSE g : P(g)
<1>1. n \in Nat
  BY LenProperties
<1>2. \A i \in 1 .. n : of(i) \in Nat
  <2>1. \A coin \in Coin : coin.amount \in Nat  BY AmountsAssumption DEF Coin
  <2>2. \A i \in 1 .. n : coins[i] \in Coin  OBVIOUS
  <2> QED  BY <2>1, <2>2
<1>3. Total(coins, d) = whole[n]
  BY DEF Total
<1> HIDE DEF of, n
<1>4. step \in Steps(n, Nat)
  <2>1. \A i \in 1 .. n, q \in Nat : q + of(i) \in Nat  BY <1>2
  <2> QED  BY <2>1 DEF Steps
<1>5. \A i \in 1 .. n, q \in Nat : step[<<i, q>>] = q + of(i)
  OBVIOUS
<1> HIDE DEF step
<1>6. PICK f : Follows(f, n, Nat, 0, step)
  <2>1. 0 \in Nat  OBVIOUS
  <2> QED  BY <1>1, <1>4, <2>1, Recursion
<1>7. f \in [0 .. n -> Nat] /\ f[0] = 0 /\ \A i \in 1 .. n : f[i] = step[<<i, f[i - 1]>>]
  BY <1>6 DEF Follows
<1>8. \A i \in 1 .. n : f[i] = f[i - 1] + of(i)
  <2> TAKE i \in 1 .. n
  <2>1. i - 1 \in 0 .. n /\ f[i - 1] \in Nat  BY <1>1, <1>7
  <2> QED  BY <1>5, <1>7, <2>1
<1>9. P(whole)
  <2>1. P(f)
    <3>1. \A i \in 0 .. n : f[i] = IF i = 0 THEN 0 ELSE f[i - 1] + of(i)
      <4> TAKE i \in 0 .. n
      <4>1. i # 0 => i \in 1 .. n  BY <1>1
      <4> QED  BY <1>7, <1>8, <4>1
    <3>2. f = [i \in 0 .. n |-> f[i]]
      BY <1>7
    <3> QED  BY <3>1, <3>2
  <2>2. P(CHOOSE h : P(h))
    BY <2>1
  <2> QED  BY <2>2
<1> HIDE DEF whole
<1>10. whole[0] = 0 /\ \A i \in 1 .. n : whole[i] = whole[i - 1] + of(i)
  <2>1. 0 \in 0 .. n /\ \A i \in 1 .. n : i \in 0 .. n /\ i # 0
    BY <1>1
  <2> QED  BY <1>9, <2>1
<1> DEFINE G == {m \in 0 .. n : whole[m] = f[m]}
<1>11. \A m \in 0 .. n : m + 1 \in 0 .. n /\ m \in G => m + 1 \in G
  <2> TAKE m \in 0 .. n
  <2> HAVE m + 1 \in 0 .. n /\ m \in G
  <2>1. m + 1 \in 1 .. n /\ (m + 1) - 1 = m
    BY <1>1
  <2> QED  BY <1>8, <1>10, <2>1
<1>12. 0 \in G
  BY <1>1, <1>7, <1>10
<1>13. n \in G
  <2> HIDE DEF G
  <2>1. n \in 0 .. n  BY <1>1
  <2> QED  BY <1>1, <1>11, <1>12, <2>1, UpTo
<1>14. Sums(f, coins, d)
  BY <1>7, <1>8 DEF Sums, n, of
<1> QED  BY <1>3, <1>13, <1>14 DEF n

(* Nothing before the first coin of the denomination, and never less after *)
(* it; just that coin, if there is one only.                               *)
LEMMA TotalOfFirst ==
  ASSUME NEW coins \in Seq(Coin), NEW d
  PROVE  LET k == First(coins, d)
         IN  /\ k # 0 => Total(coins, d) >= coins[k].amount
             /\ k = 0 => Total(coins, d) = 0
             /\ k # 0 /\ Distinct(coins) => Total(coins, d) = coins[k].amount
             /\ Total(coins, d) \in Nat
<1> DEFINE n == Len(coins)
           k == First(coins, d)
<1>1. PICK f : Sums(f, coins, d) /\ Total(coins, d) = f[n]
  BY TotalIs
<1>2. /\ f \in [0 .. n -> Nat] /\ f[0] = 0 /\ n \in Nat
      /\ \A i \in 1 .. n : f[i] = f[i - 1] + (IF coins[i].denom = d THEN coins[i].amount ELSE 0)
  BY <1>1, LenProperties DEF Sums
<1>3. \A i \in 1 .. n : coins[i].amount \in Nat
  <2>1. \A coin \in Coin : coin.amount \in Nat  BY AmountsAssumption DEF Coin
  <2>2. \A i \in 1 .. n : coins[i] \in Coin  OBVIOUS
  <2> QED  BY <2>1, <2>2
<1>4. \/ k = 0 /\ \A i \in 1 .. n : coins[i].denom # d
      \/ k \in 1 .. n /\ coins[k].denom = d /\ \A i \in 1 .. n : coins[i].denom = d => k <= i
  BY FirstIs
<1>5. Distinct(coins) => \A i, j \in 1 .. n : coins[i].denom = d /\ coins[j].denom = d => i = j
  <2>1. DOMAIN coins = 1 .. n  BY LenProperties
  <2> QED  BY <2>1 DEF Distinct
<1> HIDE DEF n, k
<1> DEFINE G == {m \in 0 .. n : /\ k = 0 \/ m < k => f[m] = 0
                                /\ k # 0 /\ m >= k => f[m] >= coins[k].amount
                                /\ k # 0 /\ m >= k /\ Distinct(coins) => f[m] = coins[k].amount}
<1>6. 0 \in G
  BY <1>2, <1>4
<1>7. \A m \in 0 .. n : m + 1 \in 0 .. n /\ m \in G => m + 1 \in G
  <2> TAKE m \in 0 .. n
  <2> HAVE m + 1 \in 0 .. n /\ m \in G
  <2>0. /\ k = 0 \/ m < k => f[m] = 0
        /\ k # 0 /\ m >= k => f[m] >= coins[k].amount
        /\ k # 0 /\ m >= k /\ Distinct(coins) => f[m] = coins[k].amount
    OBVIOUS
  <2>1. /\ m + 1 \in 1 .. n /\ m \in Nat
        /\ f[m + 1] = f[m] + (IF coins[m + 1].denom = d THEN coins[m + 1].amount ELSE 0)
        /\ f[m] \in Nat /\ f[m + 1] \in Nat /\ coins[m + 1].amount \in Nat
    <3>1. m + 1 \in 1 .. n /\ (m + 1) - 1 = m  BY <1>2
    <3> QED  BY <1>2, <1>3, <3>1
  <2>2. CASE k = 0
    BY <1>4, <2>1, <2>2
  <2>3. CASE k # 0
    <3>1. k \in 1 .. n /\ coins[k].denom = d /\ coins[k].amount \in Nat
      BY <1>3, <1>4, <2>3
    <3>2. CASE m + 1 < k
      BY <1>2, <1>4, <2>1, <2>3, <3>1, <3>2
    <3>3. CASE m + 1 = k
      <4>1. f[m] = 0
        <5>1. m < k  BY <2>1, <3>1, <3>3
        <5> QED  BY <5>1, <2>0
      <4>2. f[m + 1] = coins[k].amount
        <5>1. coins[m + 1] = coins[k]  BY <3>3
        <5> HIDE DEF G
        <5> QED  BY <2>1, <3>1, <4>1, <5>1
      <4> QED  BY <1>2, <2>3, <3>1, <3>3, <4>2
    <3>4. CASE m + 1 > k
      <4>1. Distinct(coins) => coins[m + 1].denom # d
        <5>1. SUFFICES ASSUME Distinct(coins), coins[m + 1].denom = d  PROVE FALSE
          OBVIOUS
        <5>2. m + 1 = k
          <6> HIDE DEF G
          <6> QED  BY <1>5, <2>1, <3>1, <5>1
        <5> QED  BY <3>4, <5>2
      <4>2. f[m] >= coins[k].amount /\ (Distinct(coins) => f[m] = coins[k].amount)
        <5>1. m >= k  BY <2>1, <3>1, <3>4, <1>2
        <5> QED  BY <5>1, <2>0, <2>3
      <4>3. f[m + 1] >= coins[k].amount /\ (Distinct(coins) => f[m + 1] = coins[k].amount)
        <5> DEFINE x == f[m]
                   y == f[m + 1]
                   z == coins[k].amount
                   w == coins[m + 1].amount
        <5>1. x \in Nat /\ y \in Nat /\ z \in Nat /\ w \in Nat
          BY <2>1, <3>1
        <5>2. y = x + w \/ y = x + 0
          BY <2>1
        <5>3. Distinct(coins) => y = x + 0
          BY <2>1, <4>1
        <5>4. x >= z /\ (Distinct(coins) => x = z)
          BY <4>2
        <5> HIDE DEF x, y, z, w, G
        <5>5. y >= z /\ (Distinct(coins) => y = z)
          BY <5>1, <5>2, <5>3, <5>4
        <5> QED  BY <5>5 DEF y, z
      <4>4. ~ (m + 1 < k)
        BY <2>1, <3>1, <3>4, <1>2
      <4> QED  BY <2>3, <3>1, <4>3, <4>4, <2>1
    <3> QED  BY <1>2, <2>1, <3>1, <3>2, <3>3, <3>4
  <2> QED  BY <2>2, <2>3
<1>8. n \in G
  <2> HIDE DEF G
  <2>1. n \in 0 .. n  BY <1>2
  <2> QED  BY <1>2, <1>6, <1>7, <2>1, UpTo
<1>9. f[n] \in Nat
  <2>1. n \in 0 .. n  BY <1>2
  <2> QED  BY <1>2, <2>1
<1>10. k # 0 => n >= k
  BY <1>2, <1>4
<1> QED  BY <1>1, <1>8, <1>9, <1>10 DEF n, k

(* has_coins accepts what the funds cover.                                 *)
LEMMA AcceptsCovered ==
  ASSUME NEW coins \in Seq(Coin), NEW price \in Coin
  PROVE  LET covered == Total(coins, price.denom) >= price.amount
         IN  /\ HasCoins(coins, price) => covered
             /\ Distinct(coins) /\ price.amount > 0 /\ covered => HasCoins(coins, price)
<1> DEFINE k == First(coins, price.denom)
           t == Total(coins, price.denom)
<1>1. HasCoins(coins, price) <=> k # 0 /\ coins[k].amount >= price.amount
  BY HasCoinsIs
<1>2. /\ k # 0 => t >= coins[k].amount
      /\ k = 0 => t = 0
      /\ k # 0 /\ Distinct(coins) => t = coins[k].amount
      /\ t \in Nat
  BY TotalOfFirst
<1>3. price.amount \in Nat /\ (k # 0 => coins[k].amount \in Nat)
  <2>1. \A coin \in Coin : coin.amount \in Nat  BY AmountsAssumption DEF Coin
  <2>2. k # 0 => coins[k] \in Coin  BY FirstIs
  <2> HIDE DEF k
  <2> QED  BY <2>1, <2>2
<1> HIDE DEF k, t
<1>4. /\ HasCoins(coins, price) => t >= price.amount
      /\ Distinct(coins) /\ price.amount > 0 /\ t >= price.amount => HasCoins(coins, price)
  BY <1>1, <1>2, <1>3
<1> QED  BY <1>4 DEF t

(* The price of the call was weighed with the funds of the call.           *)
Charged ==
  charge # NoCharge => charge.price \in Coin /\ charge.accepted = HasCoins(funds, charge.price)

(* Funds do not change during a call, so that the weighing holds to its    *)
(* end.                                                                    *)
LEMMA ChargedKept ==
  ASSUME TypeOK, Charged, [Next]_vars
  PROVE  Charged'
<1>1. ASSUME NEW point, NEW sent, Enter(point, sent)  PROVE Charged'
  BY <1>1 DEF Enter, Charged
<1>2. ASSUME NEW price \in Coin, Charge(price)  PROVE Charged'
  <2>1. charge' = [price |-> price, accepted |-> HasCoins(funds, price)] /\ funds' = funds
    BY <1>2 DEF Charge
  <2>2. charge'.price = price /\ charge'.accepted = HasCoins(funds, price)
    BY <2>1
  <2> QED  BY <2>1, <2>2 DEF Charged
<1>3. CASE UNCHANGED <<charge, funds>>
  BY <1>3 DEF Charged
<1>4. \/ \E point \in Entries, sent \in Purses : Enter(point, sent)
      \/ \E price \in Coin : Charge(price)
      \/ UNCHANGED <<charge, funds>>
  <2>1. ASSUME NEW name \in Names, Credit(name)  PROVE UNCHANGED <<charge, funds>>
    BY <2>1 DEF Credit, Returns
  <2>2. ASSUME NEW request \in Requests, Ask(request)  PROVE UNCHANGED <<charge, funds>>
    BY <2>2 DEF Ask, Returns
  <2>3. ASSUME UNCHANGED vars  PROVE UNCHANGED <<charge, funds>>
    BY <2>3 DEF vars
  <2> QED  BY <2>1, <2>2, <2>3
           DEF Next, Updates, EnterFails, AddLog, AddMessage, SetData, Adds, AskGarbled, Refuse,
               Return, Returns
<1> QED  BY <1>1, <1>2, <1>3, <1>4

(* A price is accepted only if the funds cover it, and, where has_coins    *)
(* can tell, refused only if they do not.                                  *)
THEOREM PricesAreCovered == Spec => []FundsCover
<1>1. Init => TypeOK /\ Charged
  BY InitTypes DEF Init, Charged
<1>2. TypeOK /\ Charged /\ [Next]_vars => (TypeOK /\ Charged)'
  BY StepTyped, ChargedKept
<1>3. TypeOK /\ Charged => FundsCover
  <2> SUFFICES ASSUME TypeOK, Charged, charge # NoCharge
               PROVE  LET covered == Total(funds, charge.price.denom) >= charge.price.amount
                      IN  /\ charge.accepted => covered
                          /\ Distinct(funds) /\ charge.price.amount > 0 /\ covered => charge.accepted
    BY DEF FundsCover
  <2>1. funds \in Seq(Coin)
    <3>1. <<>> \in Seq(Coin)
      BY EmptySeq
    <3>2. funds \in Purses \cup {<<>>}
      BY DEF TypeOK
    <3> QED  BY <3>1, <3>2, PursesAssumption
  <2>2. charge.price \in Coin /\ charge.accepted = HasCoins(funds, charge.price)
    BY DEF Charged
  <2> QED  BY <2>1, <2>2, AcceptsCovered
<1> QED  BY <1>1, <1>2, <1>3, PTL DEF Spec

-----------------------------------------------------------------------------
(* Accounts.                                                               *)

(* The address of a name, where it has one.                                *)
Padded(name) == [i \in 1 .. canonical_length |-> IF i <= Len(name) THEN name[i] ELSE 0]

(* A name that is neither too short nor too long has its bytes for an      *)
(* address, with zeros after them.                                         *)
LEMMA CanonicalIs ==
  ASSUME NEW name \in Names, CanonicalAddress(name).ok
  PROVE  /\ CanonicalAddress(name) = Ok(Padded(name)) /\ CanonicalAddress(name).value = Padded(name)
         /\ Len(name) \in 0 .. canonical_length
<1>1. name \in Seq(Nat) /\ Len(name) \in Nat /\ canonical_length \in Nat
  BY NamesAssumption, LengthAssumption, LenProperties
<1>2. ~ (Len(name) < 3 \/ Len(name) > canonical_length)
  BY DEF CanonicalAddress, Err
<1>3. CanonicalAddress(name) = Ok(Padded(name))
  BY <1>2 DEF CanonicalAddress, Padded
<1> QED  BY <1>1, <1>2, <1>3 DEF Ok

(* A name is any sequence of bytes.                                        *)
LEMMA NameIs ==
  ASSUME NEW name \in Names
  PROVE  name \in Seq(Nat) /\ Len(name) \in Nat /\ DOMAIN name = 1 .. Len(name)
BY NamesAssumption, LenProperties

(* Zeros pad: names with one address differ in nothing else.               *)
LEMMA AddressesApart ==
  ASSUME NEW a \in Names, NEW b \in Names, CanonicalAddress(a).ok, CanonicalAddress(b).ok,
         Padded(a) = Padded(b)
  PROVE  ZerosApart(a, b)
<1>1. /\ DOMAIN a = 1 .. Len(a) /\ Len(a) \in 0 .. canonical_length
      /\ DOMAIN b = 1 .. Len(b) /\ Len(b) \in 0 .. canonical_length
      /\ canonical_length \in Nat
  BY CanonicalIs, NameIs, LengthAssumption
<1>2. ASSUME NEW i \in 1 .. canonical_length
      PROVE  (IF i <= Len(a) THEN a[i] ELSE 0) = (IF i <= Len(b) THEN b[i] ELSE 0)
  <2>1. Padded(a)[i] = Padded(b)[i]
    OBVIOUS
  <2> QED  BY <2>1 DEF Padded
<1>3. ASSUME NEW i \in DOMAIN a \cap DOMAIN b  PROVE a[i] = b[i]
  <2>1. i \in 1 .. canonical_length /\ i <= Len(a) /\ i <= Len(b)  BY <1>1
  <2> QED  BY <1>2, <2>1
<1>4. ASSUME NEW i \in DOMAIN a \ DOMAIN b  PROVE a[i] = 0
  <2>1. i \in 1 .. canonical_length /\ i <= Len(a) /\ ~ i <= Len(b)  BY <1>1
  <2> QED  BY <1>2, <2>1
<1>5. ASSUME NEW i \in DOMAIN b \ DOMAIN a  PROVE b[i] = 0
  <2>1. i \in 1 .. canonical_length /\ i <= Len(b) /\ ~ i <= Len(a)  BY <1>1
  <2> QED  BY <1>2, <2>1
<1> QED  BY <1>3, <1>4, <1>5 DEF ZerosApart

(* A filter that drops nothing returns the sequence.                       *)
LEMMA NothingDropped ==
  ASSUME NEW seq \in Seq(Nat), NEW S, \A i \in 1 .. Len(seq) : seq[i] \in S
  PROVE  Filtered(seq, S) = seq
<1> DEFINE n == Len(seq)
<1>1. n \in Nat /\ n \in 0 .. n /\ 0 \in 0 .. n  BY LenProperties
<1>2. PICK f : Keeps(f, seq, S, Nat) /\ Filtered(seq, S) = f[n]
  BY FilteredIs
<1> DEFINE K == {m \in 0 .. n : f[m] \in Seq(Nat) /\ Len(f[m]) = m /\ \A i \in 1 .. m : f[m][i] = seq[i]}
<1>3. 0 \in K
  BY <1>1, <1>2, EmptySeq DEF Keeps
<1>4. \A m \in 0 .. n : m + 1 \in 0 .. n /\ m \in K => m + 1 \in K
  <2> TAKE m \in 0 .. n
  <2> HAVE m + 1 \in 0 .. n /\ m \in K
  <2>1. m \in Nat /\ m + 1 \in 1 .. n /\ (m + 1) - 1 = m  BY <1>1
  <2>2. f[m + 1] = Append(f[m], seq[m + 1]) /\ seq[m + 1] \in Nat
    <3>1. f[m + 1] = IF seq[m + 1] \in S THEN Append(f[m], seq[m + 1]) ELSE f[m]
      BY <1>2, <2>1 DEF Keeps
    <3>2. seq[m + 1] \in S /\ seq[m + 1] \in Nat
      BY <2>1
    <3> QED  BY <3>1, <3>2
  <2>3. f[m] \in Seq(Nat) /\ Len(f[m]) = m /\ \A i \in 1 .. m : f[m][i] = seq[i]
    OBVIOUS
  <2>4. /\ f[m + 1] \in Seq(Nat) /\ Len(f[m + 1]) = m + 1 /\ f[m + 1][m + 1] = seq[m + 1]
        /\ \A i \in 1 .. m : f[m + 1][i] = f[m][i]
    BY <2>2, <2>3, AppendProperties
  <2>5. \A i \in 1 .. m + 1 : i \in 1 .. m \/ i = m + 1  BY <2>1
  <2> QED  BY <2>3, <2>4, <2>5
<1>5. n \in K
  <2> HIDE DEF K
  <2> QED  BY <1>1, <1>3, <1>4, UpTo
<1> QED  BY <1>2, <1>5, SeqEqual

(* Dropping the zeros of an address leaves the name without its own.       *)
LEMMA PaddingDropped ==
  ASSUME NEW name \in Names, CanonicalAddress(name).ok
  PROVE  HumanAddress(Padded(name)) = Ok(Filtered(name, Nat \ {0}))
<1> DEFINE n      == canonical_length
           length == Len(name)
           some   == Nat \ {0}
           bytes  == Padded(name)
<1>1. name \in Seq(Nat) /\ length \in 0 .. n /\ n \in Nat /\ length \in Nat
  BY CanonicalIs, NameIs, LengthAssumption
<1>2. bytes \in Seq(Nat) /\ Len(bytes) = n
      /\ \A i \in 1 .. n : bytes[i] = IF i <= length THEN name[i] ELSE 0
  <2>1. \A i \in 1 .. n : (IF i <= length THEN name[i] ELSE 0) \in Nat
    <3> TAKE i \in 1 .. n
    <3>1. i <= length => i \in 1 .. length  BY <1>1
    <3> QED  BY <1>1, <3>1
  <2>2. bytes \in [1 .. n -> Nat]
    BY <2>1 DEF Padded
  <2>3. bytes \in Seq(Nat) /\ Len(bytes) = n
    BY <1>1, <2>2
  <2> QED  BY <2>3 DEF Padded
<1> HIDE DEF bytes
<1>3. PICK f : Keeps(f, bytes, some, Nat) /\ Filtered(bytes, some) = f[n]
  BY <1>2, FilteredIs, SMTT(60)
<1>4. PICK g : Keeps(g, name, some, Nat) /\ Filtered(name, some) = g[length]
  BY <1>1, FilteredIs, SMTT(60)
<1>5. /\ f[0] = <<>> /\ g[0] = <<>>
      /\ \A i \in 1 .. n : f[i] = IF bytes[i] \in some THEN Append(f[i - 1], bytes[i]) ELSE f[i - 1]
      /\ \A i \in 1 .. length : g[i] = IF name[i] \in some THEN Append(g[i - 1], name[i]) ELSE g[i - 1]
  BY <1>2, <1>3, <1>4 DEF Keeps
<1> DEFINE K == {m \in 0 .. n : f[m] = g[IF m <= length THEN m ELSE length]}
<1>6. 0 \in K
  BY <1>1, <1>5
<1>7. \A m \in 0 .. n : m + 1 \in 0 .. n /\ m \in K => m + 1 \in K
  <2> TAKE m \in 0 .. n
  <2> HAVE m + 1 \in 0 .. n /\ m \in K
  <2>1. m \in Nat /\ m + 1 \in 1 .. n /\ (m + 1) - 1 = m
    BY <1>1
  <2>2. f[m + 1] = IF bytes[m + 1] \in some THEN Append(f[m], bytes[m + 1]) ELSE f[m]
    BY <1>5, <2>1
  <2>3. CASE m + 1 <= length
    <3>1. m <= length /\ m + 1 \in 1 .. length  BY <1>1, <2>1, <2>3
    <3>2. bytes[m + 1] = name[m + 1] /\ f[m] = g[m]
      BY <1>2, <2>1, <2>3, <3>1
    <3>3. g[m + 1] = IF name[m + 1] \in some THEN Append(g[m], name[m + 1]) ELSE g[m]
      BY <1>5, <2>1, <3>1
    <3> QED  BY <2>2, <2>3, <3>2, <3>3
  <2>4. CASE ~ m + 1 <= length
    <3>1. bytes[m + 1] = 0 /\ 0 \notin some
      BY <1>2, <2>1, <2>4
    <3>2. f[m] = g[length]
      <4>1. m <= length => m = length  BY <1>1, <2>1, <2>4
      <4> QED  BY <4>1
    <3> QED  BY <2>2, <2>4, <3>1, <3>2
  <2> QED  BY <2>3, <2>4
<1>8. n \in K
  <2> HIDE DEF K
  <2>1. n \in 0 .. n  BY <1>1
  <2> QED  BY <1>1, <1>6, <1>7, <2>1, UpTo
<1>9. f[n] = g[length]
  <2>1. n <= length => n = length  BY <1>1
  <2> QED  BY <1>8, <2>1
<1> QED  BY <1>2, <1>3, <1>4, <1>9 DEF HumanAddress, bytes

(* The name comes back if it has no zeros, and only then.                  *)
LEMMA NameIsFound ==
  ASSUME NEW name \in Names, CanonicalAddress(name).ok
  PROVE  HumanAddress(Padded(name)) = Ok(name) <=> \A i \in DOMAIN name : name[i] # 0
<1> DEFINE some == Nat \ {0}
<1>1. name \in Seq(Nat) /\ Len(name) \in Nat /\ DOMAIN name = 1 .. Len(name)
  BY NameIs
<1>2. HumanAddress(Padded(name)) = Ok(name) <=> Filtered(name, some) = name
  BY PaddingDropped DEF Ok
<1>3. (\A i \in DOMAIN name : name[i] # 0) => Filtered(name, some) = name
  <2> HAVE \A i \in DOMAIN name : name[i] # 0
  <2>1. \A i \in 1 .. Len(name) : name[i] \in some  BY <1>1
  <2> QED  BY <1>1, <2>1, NothingDropped
<1>4. Filtered(name, some) = name => \A i \in DOMAIN name : name[i] # 0
  <2> HAVE Filtered(name, some) = name
  <2>1. PICK e : Picks(name, name, some, Len(name), e)
    BY <1>1, FilteredPicks
  <2> QED  BY <1>1, <2>1 DEF Picks
<1> QED  BY <1>2, <1>3, <1>4

(* Whoever was credited has an account with at least that under the        *)
(* address of the name, with exactly that unless another name of the same  *)
(* address was credited too; and there are no other accounts.              *)
Apart(n) == \A m \in Names \ {n} :
              credited[m] > 0 => ~ (CanonicalAddress(m).ok /\ Padded(m) = Padded(n))

Booked ==
  /\ \A n \in Names : credited[n] > 0 =>
       /\ CanonicalAddress(n).ok
       /\ Padded(n) \in DOMAIN accounts
       /\ accounts[Padded(n)] >= credited[n]
       /\ Apart(n) => accounts[Padded(n)] = credited[n]
  /\ \A a \in DOMAIN accounts :
       \E n \in Names : credited[n] > 0 /\ CanonicalAddress(n).ok /\ a = Padded(n)

(* A credit goes to the account of the name, or opens one at zero.         *)
LEMMA CreditBooked ==
  ASSUME TypeOK, Booked, NEW name \in Names, Credit(name)
  PROVE  Booked'
<1> DEFINE p == Padded(name)
<1>1. credited \in [Names -> Nat] /\ \A a \in DOMAIN accounts : accounts[a] \in Nat
  BY DEF TypeOK
<1>2. CASE ~ CanonicalAddress(name).ok
  <2>1. UNCHANGED ledger
    BY <1>2 DEF Credit, Returns
  <2> QED  BY <2>1 DEF ledger, Booked, Apart
<1>3. CASE CanonicalAddress(name).ok
  <2>1. CanonicalAddress(name).value = p
    BY <1>3, CanonicalIs
  <2>2. /\ accounts' = [a \in DOMAIN accounts \cup {p} |->
                          IF a = p THEN (IF a \in DOMAIN accounts THEN accounts[a] ELSE 0) + 1
                          ELSE accounts[a]]
        /\ credited' = [credited EXCEPT ![name] = @ + 1]
    <3>1. LET credit(a) == IF a \in DOMAIN accounts THEN accounts[a] ELSE 0
          IN  /\ accounts' = [a \in DOMAIN accounts \cup {CanonicalAddress(name).value} |->
                                IF a = CanonicalAddress(name).value THEN credit(a) + 1
                                ELSE accounts[a]]
              /\ credited' = [credited EXCEPT ![name] = @ + 1]
      BY <1>3 DEF Credit
    <3> QED  BY <2>1, <3>1, Zenon
  <2> DEFINE old == IF p \in DOMAIN accounts THEN accounts[p] ELSE 0
  <2>3. /\ DOMAIN accounts' = DOMAIN accounts \cup {p}
        /\ accounts'[p] = old + 1
        /\ \A a \in DOMAIN accounts : a # p => accounts'[a] = accounts[a]
    BY <2>2
  <2>4. credited'[name] = credited[name] + 1 /\ \A n \in Names \ {name} : credited'[n] = credited[n]
    BY <1>1, <2>2
  <2>5. old \in Nat /\ credited[name] \in Nat /\ credited'[name] > 0
    BY <1>1, <2>4
  <2>6. old >= credited[name]
    <3>1. CASE credited[name] > 0
      <4>1. p \in DOMAIN accounts /\ accounts[p] >= credited[name]  BY <3>1 DEF Booked
      <4> QED  BY <4>1
    <3>2. CASE ~ credited[name] > 0
      BY <2>5, <3>2
    <3> QED  BY <3>1, <3>2
  <2> HIDE DEF p
  <2>7. Apart(name) => old = credited[name]
    <3> HAVE Apart(name)
    <3>1. CASE p \in DOMAIN accounts
      <4>1. PICK n \in Names : credited[n] > 0 /\ CanonicalAddress(n).ok /\ p = Padded(n)
        BY <3>1 DEF Booked
      <4>2. n = name
        BY <4>1 DEF Apart, p
      <4> QED  BY <3>1, <4>1, <4>2 DEF Booked
    <3>2. CASE p \notin DOMAIN accounts
      <4>1. ~ credited[name] > 0
        BY <3>2 DEF Booked, p
      <4> QED  BY <2>5, <3>2, <4>1
    <3> QED  BY <3>1, <3>2
  <2>8. \A n \in Names : credited[n] > 0 => credited'[n] > 0
    <3> TAKE n \in Names
    <3>1. CASE n = name  BY <2>5, <3>1
    <3>2. CASE n # name  BY <2>4, <3>2
    <3> QED  BY <3>1, <3>2
  <2>9. /\ \A n : CanonicalAddress(n)' = CanonicalAddress(n)
        /\ \A n : Padded(n)' = Padded(n)
    BY DEF CanonicalAddress, Padded, Ok, Err
  <2>10. \A n \in Names : Apart(n)' => Apart(n)
    <3> TAKE n \in Names
    <3> HAVE Apart(n)'
    <3>1. \A m \in Names \ {n} :
            credited'[m] > 0 => ~ (CanonicalAddress(m).ok /\ Padded(m) = Padded(n))
      BY DEF Apart, CanonicalAddress, Padded, Ok, Err
    <3> QED  BY <2>8, <3>1 DEF Apart
  <2>11. ASSUME NEW n \in Names, credited'[n] > 0
        PROVE  /\ CanonicalAddress(n).ok /\ Padded(n) \in DOMAIN accounts'
               /\ accounts'[Padded(n)] >= credited'[n]
               /\ Apart(n)' => accounts'[Padded(n)] = credited'[n]
    <3>1. CASE n = name
      <4>1. accounts'[p] >= credited'[name]  BY <2>3, <2>4, <2>5, <2>6
      <4>2. Apart(name)' => accounts'[p] = credited'[name]  BY <2>3, <2>4, <2>7, <2>10
      <4> QED  BY <1>3, <2>3, <3>1, <4>1, <4>2 DEF p
    <3>2. CASE n # name
      <4>1. credited'[n] = credited[n] /\ credited[n] > 0
        BY <2>4, <2>11, <3>2
      <4>2. /\ CanonicalAddress(n).ok /\ Padded(n) \in DOMAIN accounts
            /\ accounts[Padded(n)] >= credited[n]
            /\ Apart(n) => accounts[Padded(n)] = credited[n]
        BY <4>1 DEF Booked
      <4>3. CASE Padded(n) # p
        BY <2>3, <2>10, <4>1, <4>2, <4>3
      <4>4. CASE Padded(n) = p
        <5>1. old = accounts[p] /\ old >= credited[n] /\ credited[n] \in Nat
          BY <1>1, <4>2, <4>4
        <5>2. accounts'[p] >= credited'[n]  BY <2>3, <2>5, <4>1, <5>1
        <5>3. ~ Apart(n)'
          <6>1. ~ (\A m \in Names \ {n} :
                     credited'[m] > 0 => ~ (CanonicalAddress(m).ok /\ Padded(m) = Padded(n)))
            BY <1>3, <2>5, <3>2, <4>4 DEF p
          <6> QED  BY <6>1 DEF Apart, CanonicalAddress, Padded, Ok, Err
        <5> QED  BY <2>3, <4>2, <4>4, <5>2, <5>3
      <4> QED  BY <4>3, <4>4
    <3> QED  BY <3>1, <3>2
  <2>12. ASSUME NEW a \in DOMAIN accounts'
        PROVE  \E n \in Names : credited'[n] > 0 /\ CanonicalAddress(n).ok /\ a = Padded(n)
    <3>1. CASE a = p
      BY <1>3, <2>5, <3>1 DEF p
    <3>2. CASE a # p
      <4>1. PICK n \in Names : credited[n] > 0 /\ CanonicalAddress(n).ok /\ a = Padded(n)
        BY <2>3, <2>12, <3>2 DEF Booked
      <4> QED  BY <2>8, <4>1
    <3> QED  BY <3>1, <3>2
  <2> QED  BY <2>11, <2>12 DEF Booked, CanonicalAddress, Padded, Ok, Err
<1> QED  BY <1>2, <1>3

(* Only a credit changes an account.                                       *)
LEMMA BookedKept ==
  ASSUME TypeOK, Booked, [Next]_vars
  PROVE  Booked'
<1>1. CASE UNCHANGED ledger
  BY <1>1 DEF ledger, Booked, Apart
<1>2. UNCHANGED ledger \/ \E name \in Names : Credit(name)
  <2>1. ASSUME NEW request \in Requests, Ask(request)  PROVE UNCHANGED ledger
    BY <2>1 DEF Ask, Returns
  <2>2. ASSUME NEW price \in Coin, Charge(price)  PROVE UNCHANGED ledger
    BY <2>2 DEF Charge
  <2>3. ASSUME UNCHANGED vars  PROVE UNCHANGED ledger
    BY <2>3 DEF vars
  <2> QED  BY <2>1, <2>2, <2>3
           DEF Next, Updates, Enter, EnterFails, AddLog, AddMessage, SetData, Adds, AskGarbled,
               Refuse, Return, Returns
<1> QED  BY <1>1, <1>2, CreditBooked

(* Whatever bytes names are made of: accounts meet only for names that     *)
(* zeros at the end tell apart, and names come back if they have no zeros. *)
THEOREM AccountsAreApart == Spec => []AccountsApart
<1>1. Init => TypeOK /\ Booked
  <2>1. ASSUME Init  PROVE Booked
    <3>1. DOMAIN accounts = {} /\ \A n \in Names : credited[n] = 0
      BY <2>1 DEF Init
    <3> QED  BY <3>1 DEF Booked
  <2> QED  BY <2>1, InitTypes
<1>2. TypeOK /\ Booked /\ [Next]_vars => (TypeOK /\ Booked)'
  BY StepTyped, BookedKept
<1>3. Booked => AccountsApart
  <2> SUFFICES ASSUME Booked  PROVE AccountsApart  OBVIOUS
  <2>1. ASSUME NEW n \in Names, credited[n] > 0
        PROVE  LET address == CanonicalAddress(n)
               IN  /\ address.ok
                   /\ accounts[address.value] >= credited[n]
                   /\ Alone(n) => accounts[address.value] = credited[n]
                   /\ HumanAddress(address.value) = Ok(n) <=> \A i \in DOMAIN n : n[i] # 0
    <3>1. /\ CanonicalAddress(n).ok /\ accounts[Padded(n)] >= credited[n]
          /\ Apart(n) => accounts[Padded(n)] = credited[n]
      BY <2>1 DEF Booked
    <3>2. /\ CanonicalAddress(n).value = Padded(n)
          /\ HumanAddress(Padded(n)) = Ok(n) <=> \A i \in DOMAIN n : n[i] # 0
      BY <3>1, CanonicalIs, NameIsFound
    <3>3. Alone(n) => Apart(n)
      BY <3>1, AddressesApart DEF Alone, Apart
    <3> QED  BY <3>1, <3>2, <3>3
  <2>2. ASSUME NEW a \in DOMAIN accounts
        PROVE  \E n \in Names : credited[n] > 0 /\ CanonicalAddress(n) = Ok(a)
    <3>1. PICK n \in Names : credited[n] > 0 /\ CanonicalAddress(n).ok /\ a = Padded(n)
      BY DEF Booked
    <3>2. CanonicalAddress(n) = Ok(Padded(n))
      BY <3>1, CanonicalIs
    <3> QED  BY <3>1, <3>2
  <2> QED  BY <2>1, <2>2 DEF AccountsApart
<1> QED  BY <1>1, <1>2, <1>3, PTL DEF Spec
=============================================================================
