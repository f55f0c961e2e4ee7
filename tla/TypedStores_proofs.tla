-------------------------- MODULE TypedStores_proofs --------------------------
(***************************************************************************)
(* That the views of one storage keep apart, whatever their names, and     *)
(* what follows from it: raw keys tell their namespaces (NoCollision,      *)
(* NestedTell, ExpandTells), so that views that meet in a raw key are      *)
(* related (RawKeysTell), so that a call on a view changes no unrelated    *)
(* one and sequences remember; and that ranges, which go by the order of   *)
(* raw keys, find what is behind a prefix.                                 *)
(***************************************************************************)
EXTENDS TypedStores, SequenceTheorems, WellFoundedInduction, TLAPS

(* Induction, on a set of numbers in place of a predicate.                 *)
LEMMA UpTo ==
  ASSUME NEW n \in Nat, NEW G, 0 \in G, \A m \in 0 .. n : m + 1 \in 0 .. n /\ m \in G => m + 1 \in G
  PROVE  \A m \in 0 .. n : m \in G
<1> DEFINE Less == OpToRel(<, Nat)
           Bad  == {m \in 0 .. n : m \notin G}
<1> SUFFICES ASSUME Bad # {}  PROVE FALSE  OBVIOUS
<1>1. PICK m \in Bad : \A j \in Bad : <<j, m>> \notin Less
  <2>1. IsWellFoundedOn(Less, Nat)  BY NatLessThanWellFounded, Zenon DEF Less
  <2>2. Bad \subseteq Nat OBVIOUS
  <2> HIDE DEF Less, Bad
  <2> QED  BY <2>1, <2>2, WFMin
<1>2. m \in 0 .. n /\ m \notin G
  OBVIOUS
<1>3. m # 0
  BY <1>2
<1>4. m - 1 \in 0 .. n /\ (m - 1) + 1 = m
  BY <1>2, <1>3
<1>5. m - 1 \notin Bad
  <2>1. <<m - 1, m>> \in Less  BY <1>2, <1>4 DEF OpToRel
  <2> HIDE DEF Less
  <2> QED  BY <2>1, <1>1
<1> QED  BY <1>2, <1>4, <1>5

(* A function defined by primitive recursion exists.                       *)
Steps(n, V) == [(1 .. n) \X V -> V]

Follows(f, n, V, first, step) ==
  /\ f \in [0 .. n -> V]
  /\ f[0] = first
  /\ \A i \in 1 .. n : f[i] = step[<<i, f[i - 1]>>]

LEMMA Recursion ==
  ASSUME NEW n \in Nat, NEW V, NEW first \in V, NEW step \in Steps(n, V)
  PROVE  \E f : Follows(f, n, V, first, step)
<1> USE DEF Steps
<1> DEFINE Good(m, f) == /\ f \in [0 .. m -> V]
                         /\ \A i \in 0 .. m : f[i] = IF i = 0 THEN first ELSE step[<<i, f[i - 1]>>]
           G == {m \in 0 .. n : \E f : Good(m, f)}
<1>1. 0 \in G
  <2> DEFINE g == [i \in 0 .. 0 |-> first]
  <2>1. g \in [0 .. 0 -> V]
    OBVIOUS
  <2>2. \A i \in 0 .. 0 : i = 0 /\ g[i] = first
    OBVIOUS
  <2> HIDE DEF g
  <2>3. Good(0, g)
    BY <2>1, <2>2
  <2> QED  BY <2>3
<1>2. ASSUME NEW m \in 0 .. n, m + 1 \in 0 .. n, m \in G  PROVE m + 1 \in G
  <2>1. PICK f : Good(m, f)  BY <1>2
  <2> DEFINE last == step[<<m + 1, f[m]>>]
             g    == [i \in 0 .. m + 1 |-> IF i = m + 1 THEN last ELSE f[i]]
  <2>2. last \in V
    <3>1. f[m] \in V /\ m + 1 \in 1 .. n  BY <1>2, <2>1
    <3> QED  BY <3>1
  <2> HIDE DEF last
  <2>3. g \in [0 .. m + 1 -> V]
    BY <2>1, <2>2
  <2>4. ASSUME NEW i \in 0 .. m + 1
        PROVE  g[i] = IF i = 0 THEN first ELSE step[<<i, g[i - 1]>>]
    <3>1. CASE i = m + 1
      <4>1. g[i] = last /\ i # 0 /\ g[i - 1] = f[m]  BY <3>1
      <4> QED  BY <3>1, <4>1 DEF last
    <3>2. CASE i # m + 1
      <4>1. i \in 0 .. m /\ (i # 0 => i - 1 \in 0 .. m)  BY <2>4, <3>2
      <4>2. g[i] = f[i] /\ (i # 0 => g[i - 1] = f[i - 1])  BY <4>1
      <4> QED  BY <2>1, <4>1, <4>2
    <3> QED  BY <3>1, <3>2
  <2> QED  BY <1>2, <2>3, <2>4
<1>3. \A m \in 0 .. n : m \in G
  <2> HIDE DEF G
  <2> QED  BY <1>1, <1>2, UpTo
<1>4. PICK f : Good(n, f)  BY <1>3
<1>5. f[0] = first
  <2>1. 0 \in 0 .. n  OBVIOUS
  <2> QED  BY <1>4, <2>1
<1>6. \A i \in 1 .. n : f[i] = step[<<i, f[i - 1]>>]
  BY <1>4
<1> QED  BY <1>4, <1>5, <1>6 DEF Follows

-----------------------------------------------------------------------------
(* One namespace and a key.                                                *)

(* A length is told by its two digits.                                     *)
LEMMA DigitsTell ==
  ASSUME NEW m \in Nat, NEW n \in Nat,
         m \div Radix = n \div Radix, m % Radix = n % Radix
  PROVE  m = n
<1>1. Radix \in Nat /\ Radix > 0
  BY RadixAssumption
<1>2. \A x \in Nat : x = (Radix * (x \div Radix)) + (x % Radix)
  BY <1>1
<1> QED  BY <1>1, <1>2

(* The bytes of a raw key: two of the length, the namespace, the key.      *)
LEMMA RawKey ==
  ASSUME NEW n \in Seq(Bytes), NEW k \in Seq(Bytes)
  PROVE  LET raw == Concat(ToLengthPrefixed(n), k)
         IN  /\ Len(raw) = 2 + Len(n) + Len(k)
             /\ raw[1] = Len(n) \div Radix
             /\ raw[2] = Len(n) % Radix
             /\ \A i \in 1 .. Len(n) : raw[i + 2] = n[i]
             /\ \A i \in 1 .. Len(k) : raw[i + 2 + Len(n)] = k[i]
<1> DEFINE digits == <<Len(n) \div Radix, Len(n) % Radix>>
           prefix == digits \o n
           raw    == prefix \o k
<1>1. /\ Len(n) \in Nat /\ Len(k) \in Nat
      /\ Len(n) \div Radix \in Int /\ Len(n) % Radix \in Int
  <2>1. Len(n) \in Nat /\ Len(k) \in Nat
    BY LenProperties
  <2> QED  BY <2>1, RadixAssumption
<1>2. digits \in Seq(Int) /\ Len(digits) = 2
  BY <1>1
<1>3. n \in Seq(Int) /\ k \in Seq(Int)
  BY SeqMonotonic, RadixAssumption DEF Bytes
<1>4. /\ prefix \in Seq(Int)
      /\ Len(prefix) = 2 + Len(n)
      /\ \A i \in 1 .. (2 + Len(n)) :
           prefix[i] = IF i <= 2 THEN digits[i] ELSE n[i - 2]
  BY <1>2, <1>3, ConcatProperties
<1>5. /\ Len(raw) = 2 + Len(n) + Len(k)
      /\ \A i \in 1 .. (2 + Len(n) + Len(k)) :
           raw[i] = IF i <= 2 + Len(n) THEN prefix[i] ELSE k[i - (2 + Len(n))]
  <2> HIDE DEF prefix
  <2>1. Len(prefix \o k) = Len(prefix) + Len(k)
    BY <1>3, <1>4, ConcatProperties
  <2>2. \A i \in 1 .. (Len(prefix) + Len(k)) :
          (prefix \o k)[i] = IF i <= Len(prefix) THEN prefix[i] ELSE k[i - Len(prefix)]
    BY <1>3, <1>4, ConcatProperties
  <2> QED  BY <1>4, <2>1, <2>2
<1>6. raw = Concat(ToLengthPrefixed(n), k)
  BY DEF Concat, ToLengthPrefixed, EncodeLength
<1>7. raw[1] = Len(n) \div Radix /\ raw[2] = Len(n) % Radix
  <2> HIDE DEF prefix, raw
  <2>1. 1 \in 1 .. (2 + Len(n)) /\ 2 \in 1 .. (2 + Len(n))
    BY <1>1
  <2>2. prefix[1] = digits[1] /\ prefix[2] = digits[2]
    BY <1>1, <1>4, <2>1
  <2>3. raw[1] = prefix[1] /\ raw[2] = prefix[2]
    BY <1>1, <1>5
  <2> QED  BY <2>2, <2>3
<1>8. \A i \in 1 .. Len(n) : raw[i + 2] = n[i]
  <2> HIDE DEF prefix, raw, digits
  <2> TAKE i \in 1 .. Len(n)
  <2>1. raw[i + 2] = prefix[i + 2]
    BY <1>1, <1>5
  <2>2. prefix[i + 2] = n[(i + 2) - 2]
    BY <1>1, <1>4
  <2>3. (i + 2) - 2 = i
    BY <1>1
  <2> QED  BY <2>1, <2>2, <2>3
<1>9. \A i \in 1 .. Len(k) : raw[i + 2 + Len(n)] = k[i]
  <2> HIDE DEF prefix, raw, digits
  <2> TAKE i \in 1 .. Len(k)
  <2>1. raw[i + 2 + Len(n)] = k[(i + 2 + Len(n)) - (2 + Len(n))]
    BY <1>1, <1>5
  <2>2. (i + 2 + Len(n)) - (2 + Len(n)) = i
    BY <1>1
  <2> QED  BY <2>1, <2>2
<1> HIDE DEF raw
<1> QED  BY <1>5, <1>6, <1>7, <1>8, <1>9

(* Two stores with different names never share a raw key, nor do two keys  *)
(* of one store: to_length_prefixed and concat lose nothing.               *)
THEOREM NoCollision ==
  ASSUME NEW n1 \in Seq(Bytes), NEW k1 \in Seq(Bytes),
         NEW n2 \in Seq(Bytes), NEW k2 \in Seq(Bytes),
         Concat(ToLengthPrefixed(n1), k1) = Concat(ToLengthPrefixed(n2), k2)
  PROVE  n1 = n2 /\ k1 = k2
<1> DEFINE raw  == Concat(ToLengthPrefixed(n1), k1)
           raw2 == Concat(ToLengthPrefixed(n2), k2)
<1>1. raw2 = raw
  OBVIOUS
<1>2. Len(n1) \in Nat /\ Len(n2) \in Nat /\ Len(k1) \in Nat /\ Len(k2) \in Nat
  BY LenProperties
<1>3. /\ Len(raw) = 2 + Len(n1) + Len(k1)
      /\ raw[1] = Len(n1) \div Radix
      /\ raw[2] = Len(n1) % Radix
      /\ \A i \in 1 .. Len(n1) : raw[i + 2] = n1[i]
      /\ \A i \in 1 .. Len(k1) : raw[i + 2 + Len(n1)] = k1[i]
  BY RawKey
<1>4. /\ Len(raw2) = 2 + Len(n2) + Len(k2)
      /\ raw2[1] = Len(n2) \div Radix
      /\ raw2[2] = Len(n2) % Radix
      /\ \A i \in 1 .. Len(n2) : raw2[i + 2] = n2[i]
      /\ \A i \in 1 .. Len(k2) : raw2[i + 2 + Len(n2)] = k2[i]
  BY RawKey
<1> HIDE DEF raw, raw2
<1>5. Len(n1) = Len(n2)
  BY <1>1, <1>2, <1>3, <1>4, DigitsTell
<1>6. Len(k1) = Len(k2)
  BY <1>1, <1>2, <1>3, <1>4, <1>5
<1>7. n1 = n2
  <2>1. \A i \in 1 .. Len(n1) : n1[i] = n2[i]
    BY <1>1, <1>3, <1>4, <1>5
  <2> QED  BY <1>5, <2>1, SeqEqual
<1>8. k1 = k2
  <2>1. \A i \in 1 .. Len(k1) : k1[i] = k2[i]
    <3> TAKE i \in 1 .. Len(k1)
    <3>1. raw[i + 2 + Len(n1)] = k1[i]
      BY <1>3
    <3>2. raw2[i + 2 + Len(n2)] = k2[i]
      BY <1>4, <1>6
    <3> QED  BY <1>1, <1>5, <3>1, <3>2
  <2> QED  BY <1>6, <2>1, SeqEqual
<1> QED  BY <1>7, <1>8

-----------------------------------------------------------------------------
(* Several namespaces one after the other.                                 *)

(* FlattenSeq is the last of the concatenations of the first so many.      *)
LEMMA FlattenIs ==
  ASSUME NEW V, NEW s \in Seq(Seq(V))
  PROVE  \E f \in [0 .. Len(s) -> Seq(V)] :
           /\ f[0] = <<>>
           /\ \A i \in 1 .. Len(s) : f[i] = f[i - 1] \o s[i]
           /\ Seqs!FlattenSeq(s) = f[Len(s)]
<1> DEFINE n    == Len(s)
           T    == Seq(V)
           step == [p \in (1 .. n) \X T |-> p[2] \o s[p[1]]]
           P(g) == g = [i \in 1 .. n |-> IF i = 1 THEN s[i] ELSE g[i - 1] \o s[i]]
           whole == CHOOSE g : P(g)
<1>1. n \in Nat /\ \A i \in 1 .. n : s[i] \in Seq(V)
  BY LenProperties
<1>2. Seqs!FlattenSeq(s) = IF n = 0 THEN s ELSE whole[n]
  BY DEF Seqs!FlattenSeq
<1>3. step \in Steps(n, T)
  BY <1>1 DEF Steps
<1>4. \A i \in 1 .. n, q \in T : step[<<i, q>>] = q \o s[i]
  OBVIOUS
<1> HIDE DEF step
<1>5. PICK f : Follows(f, n, T, <<>>, step)
  <2>1. <<>> \in T
    OBVIOUS
  <2> HIDE DEF T
  <2> QED  BY <1>1, <1>3, <2>1, Recursion
<1>6. f \in [0 .. n -> T] /\ f[0] = <<>> /\ \A i \in 1 .. n : f[i] = step[<<i, f[i - 1]>>]
  BY <1>5 DEF Follows
<1> HIDE DEF n
<1>7. \A i \in 1 .. n : f[i - 1] \in Seq(V) /\ f[i] = f[i - 1] \o s[i]
  <2> TAKE i \in 1 .. n
  <2>1. i - 1 \in 0 .. n
    BY <1>1
  <2> QED  BY <1>4, <1>6, <2>1
<1>8. CASE n = 0
  <2>1. s = <<>>
    BY <1>8, EmptySeq DEF n
  <2> QED  BY <1>2, <1>6, <1>8, <2>1 DEF n
<1>9. CASE n # 0
  <2> DEFINE g == [i \in 1 .. n |-> f[i]]
  <2>1. f[1] = s[1]
    <3>1. 1 \in 1 .. n /\ 1 - 1 = 0
      BY <1>1, <1>9
    <3>2. f[1] = <<>> \o s[1]
      BY <1>6, <1>7, <3>1
    <3> QED  BY <1>1, <3>1, <3>2
  <2>2. P(g)
    <3>1. \A i \in 1 .. n : g[i] = IF i = 1 THEN s[i] ELSE g[i - 1] \o s[i]
      <4> TAKE i \in 1 .. n
      <4>1. CASE i = 1
        BY <2>1, <4>1
      <4>2. CASE i # 1
        <5>1. i - 1 \in 1 .. n
          BY <1>1, <4>2
        <5> QED  BY <1>7, <4>2, <5>1
      <4> QED  BY <4>1, <4>2
    <3>2. g = [i \in 1 .. n |-> g[i]]
      OBVIOUS
    <3> HIDE DEF g
    <3> QED  BY <3>1, <3>2
  <2>3. P(whole)
    <3>1. P(CHOOSE h : P(h))
      BY <2>2
    <3> QED  BY <3>1
  <2> HIDE DEF whole
  <2> DEFINE G == {m \in 0 .. n : m = 0 \/ whole[m] = f[m]}
  <2>4. \A m \in 0 .. n : m + 1 \in 0 .. n /\ m \in G => m + 1 \in G
    <3> TAKE m \in 0 .. n
    <3> HAVE m + 1 \in 0 .. n /\ m \in G
    <3>1. m + 1 \in 1 .. n /\ (m + 1) - 1 = m
      BY <1>1
    <3>2. whole[m + 1] = IF m + 1 = 1 THEN s[m + 1] ELSE whole[(m + 1) - 1] \o s[m + 1]
      BY <2>3, <3>1
    <3>3. f[m + 1] = f[(m + 1) - 1] \o s[m + 1]
      BY <1>7, <3>1
    <3>4. CASE m = 0
      BY <2>1, <3>2, <3>4
    <3>5. CASE m # 0
      <4>1. whole[m] = f[m] /\ m + 1 # 1
        BY <1>1, <3>5
      <4>2. whole[m + 1] = f[m + 1]
        BY <3>1, <3>2, <3>3, <4>1
      <4> QED  BY <4>2
    <3> QED  BY <3>4, <3>5
  <2>5. n \in G
    <3>1. 0 \in G
      BY <1>1
    <3> HIDE DEF G
    <3>2. \A m \in 0 .. n : m \in G
      BY <1>1, <2>4, <3>1, UpTo
    <3> QED  BY <1>1, <3>2
  <2>6. whole[n] = f[n]
    BY <1>9, <2>5
  <2> QED  BY <1>2, <1>6, <1>7, <1>9, <2>6 DEF n
<1> QED  BY <1>8, <1>9

(* Sequences that begin alike.                                             *)
LEMMA PrefixIs ==
  ASSUME NEW V, NEW s \in Seq(V), NEW t \in Seq(V)
  PROVE  Seqs!IsPrefix(s, t) <=> Len(s) <= Len(t) /\ \A i \in 1 .. Len(s) : s[i] = t[i]
<1>1. Len(s) \in Nat /\ Len(t) \in Nat
  BY LenProperties
<1>2. ASSUME Len(s) <= Len(t)
      PROVE  SubSeq(s, 1, Len(s)) = SubSeq(t, 1, Len(s)) <=> \A i \in 1 .. Len(s) : s[i] = t[i]
  <2> DEFINE u == SubSeq(t, 1, Len(s))
  <2>1. \A i \in 1 .. Len(s) : t[i] \in V
    BY <1>1, <1>2, ElementOfSeq
  <2>2. u \in Seq(V) /\ Len(u) = Len(s) /\ \A i \in 1 .. Len(s) : u[i] = t[i]
    <3>1. /\ SubSeq(t, 1, Len(s)) \in Seq(V)
          /\ Len(SubSeq(t, 1, Len(s))) = IF 1 <= Len(s) THEN Len(s) - 1 + 1 ELSE 0
          /\ \A i \in 1 .. Len(s) - 1 + 1 : SubSeq(t, 1, Len(s))[i] = t[1 + i - 1]
      BY <1>1, <2>1, SubSeqProperties
    <3> QED  BY <1>1, <3>1
  <2>3. SubSeq(s, 1, Len(s)) = s
    BY SubSeqFull
  <2> HIDE DEF u
  <2>4. s = u <=> \A i \in 1 .. Len(s) : s[i] = u[i]
    BY <2>2, SeqEqual
  <2> QED  BY <2>2, <2>3, <2>4 DEF u
<1> QED  BY <1>2 DEF Seqs!IsPrefix

(* What is put together begins with its first part.                        *)
LEMMA PrefixOfConcat ==
  ASSUME NEW V, NEW s \in Seq(V), NEW t \in Seq(V)
  PROVE  Seqs!IsPrefix(s, s \o t)
<1>1. /\ s \o t \in Seq(V)
      /\ Len(s \o t) = Len(s) + Len(t)
      /\ \A i \in 1 .. Len(s) + Len(t) : (s \o t)[i] = IF i <= Len(s) THEN s[i] ELSE t[i - Len(s)]
  BY ConcatProperties
<1>2. Len(s) \in Nat /\ Len(t) \in Nat
  BY LenProperties
<1> DEFINE u == s \o t
<1> HIDE DEF u
<1>3. \A i \in 1 .. Len(s) : s[i] = u[i]
  BY <1>1, <1>2 DEF u
<1>4. Len(s) <= Len(u)
  BY <1>1, <1>2 DEF u
<1>5. u \in Seq(V)
  BY <1>1 DEF u
<1> QED  BY <1>3, <1>4, <1>5, PrefixIs DEF u

(* What is cut off is what was put before.                                 *)
LEMMA TrimConcat ==
  ASSUME NEW V, NEW s \in Seq(V), NEW t \in Seq(V)
  PROVE  Trim(s, s \o t) = t
<1> DEFINE u == s \o t
           r == SubSeq(u, Len(s) + 1, Len(u))
<1>1. Len(s) \in Nat /\ Len(t) \in Nat
  BY LenProperties
<1>2. /\ Len(u) = Len(s) + Len(t)
      /\ \A i \in 1 .. Len(s) + Len(t) : u[i] = IF i <= Len(s) THEN s[i] ELSE t[i - Len(s)]
  BY ConcatProperties
<1> HIDE DEF u
<1>3. \A i \in 1 .. Len(t) : u[Len(s) + i] = t[i]
  <2> TAKE i \in 1 .. Len(t)
  <2>1. Len(s) + i \in 1 .. Len(s) + Len(t) /\ ~ (Len(s) + i <= Len(s)) /\ (Len(s) + i) - Len(s) = i
    BY <1>1
  <2> QED  BY <1>2, <2>1
<1>4. \A i \in Len(s) + 1 .. Len(u) : u[i] \in V
  <2> TAKE i \in Len(s) + 1 .. Len(u)
  <2>1. i - Len(s) \in 1 .. Len(t) /\ Len(s) + (i - Len(s)) = i
    BY <1>1, <1>2
  <2> QED  BY <1>3, <2>1, ElementOfSeq
<1>5. /\ r \in Seq(V)
      /\ Len(r) = IF Len(s) + 1 <= Len(u) THEN Len(u) - (Len(s) + 1) + 1 ELSE 0
      /\ \A i \in 1 .. Len(u) - (Len(s) + 1) + 1 : r[i] = u[(Len(s) + 1) + i - 1]
  <2>1. Len(s) + 1 \in Int /\ Len(u) \in Int
    BY <1>1, <1>2
  <2> QED  BY <1>4, <2>1, SubSeqProperties
<1> HIDE DEF r
<1>6. Len(r) = Len(t)
  BY <1>1, <1>2, <1>5
<1>7. \A i \in 1 .. Len(t) : r[i] = t[i]
  <2> TAKE i \in 1 .. Len(t)
  <2>1. i \in 1 .. Len(u) - (Len(s) + 1) + 1 /\ (Len(s) + 1) + i - 1 = Len(s) + i
    BY <1>1, <1>2
  <2> QED  BY <1>3, <1>5, <2>1
<1>8. r = t
  BY <1>5, <1>6, <1>7, SeqEqual
<1> QED  BY <1>8 DEF r, u, Trim

(* What begins with a prefix is the prefix and what is left without it.    *)
LEMMA ConcatTrim ==
  ASSUME NEW V, NEW s \in Seq(V), NEW u \in Seq(V), Seqs!IsPrefix(s, u)
  PROVE  Trim(s, u) \in Seq(V) /\ u = s \o Trim(s, u)
<1> DEFINE r == SubSeq(u, Len(s) + 1, Len(u))
<1>1. Len(s) \in Nat /\ Len(u) \in Nat
  BY LenProperties
<1>2. Len(s) <= Len(u) /\ \A i \in 1 .. Len(s) : s[i] = u[i]
  BY PrefixIs
<1>3. \A i \in Len(s) + 1 .. Len(u) : u[i] \in V
  <2> TAKE i \in Len(s) + 1 .. Len(u)
  <2>1. i \in 1 .. Len(u)
    BY <1>1
  <2> QED  BY <2>1, ElementOfSeq
<1>4. /\ r \in Seq(V)
      /\ Len(r) = IF Len(s) + 1 <= Len(u) THEN Len(u) - (Len(s) + 1) + 1 ELSE 0
      /\ \A i \in 1 .. Len(u) - (Len(s) + 1) + 1 : r[i] = u[(Len(s) + 1) + i - 1]
  <2>1. Len(s) + 1 \in Int /\ Len(u) \in Int
    BY <1>1
  <2> QED  BY <1>3, <2>1, SubSeqProperties
<1> HIDE DEF r
<1>5. Len(r) = Len(u) - Len(s)
  BY <1>1, <1>2, <1>4
<1> DEFINE w == s \o r
<1>6. /\ w \in Seq(V)
      /\ Len(w) = Len(s) + Len(r)
      /\ \A i \in 1 .. Len(s) + Len(r) : w[i] = IF i <= Len(s) THEN s[i] ELSE r[i - Len(s)]
  BY <1>4, ConcatProperties
<1> HIDE DEF w
<1>7. Len(w) = Len(u)
  BY <1>1, <1>2, <1>5, <1>6
<1>8. \A i \in 1 .. Len(u) : w[i] = u[i]
  <2> TAKE i \in 1 .. Len(u)
  <2>1. CASE i <= Len(s)
    <3>1. i \in 1 .. Len(s) /\ i \in 1 .. Len(s) + Len(r)
      BY <1>1, <1>5, <2>1
    <3> QED  BY <1>2, <1>6, <2>1, <3>1
  <2>2. CASE i > Len(s)
    <3>1. /\ i - Len(s) \in 1 .. Len(u) - (Len(s) + 1) + 1 /\ i \in 1 .. Len(s) + Len(r)
          /\ (Len(s) + 1) + (i - Len(s)) - 1 = i /\ ~ (i <= Len(s))
      BY <1>1, <1>5, <2>2
    <3> QED  BY <1>4, <1>6, <3>1
  <2> QED  BY <1>1, <2>1, <2>2
<1>9. w = u
  BY <1>6, <1>7, <1>8, SeqEqual
<1> QED  BY <1>4, <1>9 DEF w, r, Trim

(* A namespace that can be encoded, with its length, is bytes.             *)
LEMMA EncodedBytes ==
  ASSUME NEW n \in Seq(Bytes), CanEncode(n)
  PROVE  EncodeLength(n) \in Seq(Bytes) /\ ToLengthPrefixed(n) \in Seq(Bytes)
<1> DEFINE q == Len(n) \div Radix
           r == Len(n) % Radix
<1>1. Len(n) \in Nat /\ Radix \in Nat /\ Radix >= 2
  BY LenProperties, RadixAssumption
<1>2. q \in Nat /\ r \in 0 .. Radix - 1 /\ Len(n) = Radix * q + r
  BY <1>1
<1>3. q < Radix
  <2> SUFFICES ASSUME q >= Radix  PROVE FALSE
    BY <1>1, <1>2
  <2> HIDE DEF q, r
  <2>1. Radix * q >= Radix * Radix
    BY <1>1, <1>2
  <2>2. Len(n) <= Radix * Radix - 1
    BY DEF CanEncode, MaxLength
  <2>3. Radix * q \in Nat /\ Radix * Radix \in Nat
    BY <1>1, <1>2
  <2> QED  BY <1>1, <1>2, <2>1, <2>2, <2>3
<1>4. q \in Bytes /\ r \in Bytes
  BY <1>1, <1>2, <1>3 DEF Bytes
<1> HIDE DEF q, r
<1>5. <<q, r>> \in Seq(Bytes)
  BY <1>4
<1> QED  BY <1>5, ConcatProperties DEF EncodeLength, ToLengthPrefixed, q, r

Names == {names \in Seq(Seq(Bytes)) : \A i \in DOMAIN names : CanEncode(names[i])}

Encoded(names) == [i \in DOMAIN names |-> ToLengthPrefixed(names[i])]

(* What FlattenSeq gets to see: namespaces with their lengths.             *)
LEMMA EncodedIs ==
  ASSUME NEW names \in Names
  PROVE  /\ Encoded(names) \in Seq(Seq(Bytes))
         /\ Len(Encoded(names)) = Len(names)
         /\ \A i \in 1 .. Len(names) : Encoded(names)[i] = ToLengthPrefixed(names[i])
<1>1. names \in Seq(Seq(Bytes)) /\ \A i \in DOMAIN names : CanEncode(names[i])
  BY DEF Names
<1>2. Len(names) \in Nat /\ DOMAIN names = 1 .. Len(names)
  BY <1>1, LenProperties
<1>3. \A i \in 1 .. Len(names) : ToLengthPrefixed(names[i]) \in Seq(Bytes)
  BY <1>1, <1>2, ElementOfSeq, EncodedBytes
<1> QED  BY <1>2, <1>3 DEF Encoded

(* The prefix of some namespaces: what there is of it after each of them.  *)
LEMMA NestedIs ==
  ASSUME NEW names \in Names
  PROVE  \E f \in [0 .. Len(names) -> Seq(Bytes)] :
           /\ f[0] = <<>>
           /\ \A i \in 1 .. Len(names) : f[i] = Concat(f[i - 1], ToLengthPrefixed(names[i]))
           /\ ToLengthPrefixedNested(names) = f[Len(names)]
<1> DEFINE s == Encoded(names)
<1>1. /\ s \in Seq(Seq(Bytes)) /\ Len(s) = Len(names)
      /\ \A i \in 1 .. Len(names) : s[i] = ToLengthPrefixed(names[i])
  BY EncodedIs
<1> HIDE DEF s
<1>2. PICK f \in [0 .. Len(s) -> Seq(Bytes)] :
        /\ f[0] = <<>>
        /\ \A i \in 1 .. Len(s) : f[i] = f[i - 1] \o s[i]
        /\ Seqs!FlattenSeq(s) = f[Len(s)]
  BY <1>1, FlattenIs
<1> QED  BY <1>1, <1>2 DEF ToLengthPrefixedNested, Encoded, Concat, s

(* Of byte strings, put together with the code's concat.                   *)
LEMMA BytesConcat ==
  \A a, b \in Seq(Bytes) : Concat(a, b) \in Seq(Bytes)
BY ConcatProperties DEF Concat

LEMMA BytesAssociate ==
  \A a, b, c \in Seq(Bytes) : Concat(Concat(a, b), c) = Concat(a, Concat(b, c))
BY ConcatAssociative DEF Concat

LEMMA BytesCancel ==
  \A a, b, c \in Seq(Bytes) : Concat(a, b) = Concat(a, c) => b = c
BY ConcatSimplifications DEF Concat

LEMMA BytesEmpty ==
  \A a \in Seq(Bytes) : Concat(a, <<>>) = a /\ Concat(<<>>, a) = a
BY ConcatEmptySeq DEF Concat

LEMMA BytesLen ==
  \A a, b \in Seq(Bytes) : Len(Concat(a, b)) = Len(a) + Len(b)
BY ConcatProperties DEF Concat

(* What comes after the same beginning is the same.                        *)
LEMMA BytesAfter ==
  ASSUME NEW h \in Seq(Bytes), NEW a \in Seq(Bytes), NEW r \in Seq(Bytes),
         NEW b \in Seq(Bytes), NEW z \in Seq(Bytes),
         Concat(Concat(h, a), r) = Concat(Concat(h, b), z)
  PROVE  Concat(a, r) = Concat(b, z)
<1> DEFINE x == Concat(a, r)
           y == Concat(b, z)
<1>1. x \in Seq(Bytes) /\ y \in Seq(Bytes)
  BY BytesConcat
<1>2. Concat(Concat(h, a), r) = Concat(h, x) /\ Concat(Concat(h, b), z) = Concat(h, y)
  BY BytesAssociate
<1> HIDE DEF x, y
<1>3. Concat(h, x) = Concat(h, y)
  BY <1>2, Zenon
<1>4. x = y
  BY <1>1, <1>3, BytesCancel
<1> QED  BY <1>4 DEF x, y

LEMMA BytesRest ==
  ASSUME NEW h \in Seq(Bytes),
         NEW a \in Seq(Bytes), NEW r \in Seq(Bytes), NEW k \in Seq(Bytes),
         NEW b \in Seq(Bytes), NEW q \in Seq(Bytes), NEW l \in Seq(Bytes),
         Concat(Concat(Concat(h, a), r), k) = Concat(Concat(Concat(h, b), q), l)
  PROVE  Concat(a, Concat(r, k)) = Concat(b, Concat(q, l))
<1> DEFINE x == Concat(a, Concat(r, k))
           y == Concat(b, Concat(q, l))
<1>1. \A c, d, e \in Seq(Bytes) : Concat(Concat(Concat(h, c), d), e) = Concat(h, Concat(c, Concat(d, e)))
  <2> TAKE c, d, e \in Seq(Bytes)
  <2>1. Concat(h, c) \in Seq(Bytes) /\ Concat(d, e) \in Seq(Bytes)
    BY BytesConcat
  <2>2. Concat(Concat(Concat(h, c), d), e) = Concat(Concat(h, c), Concat(d, e))
    BY <2>1, BytesAssociate
  <2>3. Concat(Concat(h, c), Concat(d, e)) = Concat(h, Concat(c, Concat(d, e)))
    BY <2>1, BytesAssociate
  <2> QED  BY <2>2, <2>3
<1>2. x \in Seq(Bytes) /\ y \in Seq(Bytes)
  BY BytesConcat
<1>3. Concat(h, x) = Concat(h, y)
  BY <1>1
<1> HIDE DEF x, y
<1>4. x = y
  BY <1>2, <1>3, BytesCancel
<1> QED  BY <1>4 DEF x, y

(* What was concatenated begins with each of its parts.                    *)
Grows(f, n) ==
  /\ f \in [0 .. n -> Seq(Bytes)]
  /\ \A i \in 1 .. n : \E r \in Seq(Bytes) : f[i] = Concat(f[i - 1], r)

LEMMA Split ==
  ASSUME NEW n \in Nat, NEW f, Grows(f, n)
  PROVE  \A i \in 0 .. n : \E r \in Seq(Bytes) : f[n] = Concat(f[i], r)
<1> DEFINE G == {j \in 0 .. n : \E r \in Seq(Bytes) : f[n] = Concat(f[n - j], r)}
<1>1. 0 \in G
  <2>1. n - 0 = n /\ 0 \in 0 .. n /\ f[n] \in Seq(Bytes) /\ <<>> \in Seq(Bytes)
    BY DEF Grows
  <2>2. f[n] = Concat(f[n], <<>>)
    BY <2>1, BytesEmpty
  <2>3. \E r \in Seq(Bytes) : f[n] = Concat(f[n - 0], r)
    BY <2>1, <2>2
  <2> QED  BY <2>1, <2>3
<1>2. \A j \in 0 .. n : j + 1 \in 0 .. n /\ j \in G => j + 1 \in G
  <2> TAKE j \in 0 .. n
  <2> HAVE j + 1 \in 0 .. n /\ j \in G
  <2> DEFINE i == n - j
             a == f[i - 1]
  <2>1. i \in 1 .. n /\ i - 1 \in 0 .. n /\ n - (j + 1) = i - 1
    OBVIOUS
  <2>2. PICK r \in Seq(Bytes) : f[n] = Concat(f[i], r)
    OBVIOUS
  <2> HIDE DEF i
  <2>3. PICK q \in Seq(Bytes) : f[i] = Concat(a, q)
    BY <2>1 DEF Grows
  <2>4. a \in Seq(Bytes)
    BY <2>1 DEF Grows
  <2> HIDE DEF a
  <2>5. f[n] = Concat(a, Concat(q, r)) /\ Concat(q, r) \in Seq(Bytes)
    BY <2>2, <2>3, <2>4, BytesAssociate, BytesConcat
  <2>6. \E z \in Seq(Bytes) : f[n] = Concat(f[n - (j + 1)], z)
    BY <2>1, <2>5 DEF a
  <2> QED  BY <2>6
<1>3. \A j \in 0 .. n : j \in G
  <2> HIDE DEF G
  <2> QED  BY <1>1, <1>2, UpTo
<1>4. \A i \in 0 .. n : n - i \in 0 .. n /\ n - (n - i) = i
  OBVIOUS
<1> QED  BY <1>3, <1>4

(* The namespaces of a raw key are told one by one: of two views with one  *)
(* raw key, the namespaces of one are the first of the other's.            *)
LEMMA NestedTell ==
  ASSUME NEW ns \in Names, NEW ms \in Names, Len(ns) <= Len(ms),
         NEW k \in Seq(Bytes), NEW l \in Seq(Bytes),
         Concat(ToLengthPrefixedNested(ns), k) = Concat(ToLengthPrefixedNested(ms), l)
  PROVE  /\ \A i \in 1 .. Len(ns) : ns[i] = ms[i]
         /\ ToLengthPrefixedNested(ns) = ToLengthPrefixedNested(ms) => Len(ns) = Len(ms)
<1> DEFINE n == Len(ns)
           m == Len(ms)
<1>1. n \in Nat /\ m \in Nat /\ n <= m
  BY LenProperties DEF Names
<1>2. /\ \A i \in 1 .. n : ns[i] \in Seq(Bytes) /\ ToLengthPrefixed(ns[i]) \in Seq(Bytes)
      /\ \A i \in 1 .. m : ms[i] \in Seq(Bytes) /\ ToLengthPrefixed(ms[i]) \in Seq(Bytes)
  <2> SUFFICES ASSUME NEW names \in Names, NEW i \in 1 .. Len(names)
               PROVE  names[i] \in Seq(Bytes) /\ ToLengthPrefixed(names[i]) \in Seq(Bytes)
    OBVIOUS
  <2>1. names[i] \in Seq(Bytes) /\ CanEncode(names[i])
    <3>1. DOMAIN names = 1 .. Len(names) /\ names \in Seq(Seq(Bytes))
      BY LenProperties DEF Names
    <3> QED  BY <3>1, ElementOfSeq DEF Names
  <2> QED  BY <2>1, EncodedBytes
<1>3. PICK f \in [0 .. n -> Seq(Bytes)] :
        /\ f[0] = <<>>
        /\ \A i \in 1 .. n : f[i] = Concat(f[i - 1], ToLengthPrefixed(ns[i]))
        /\ ToLengthPrefixedNested(ns) = f[n]
  BY NestedIs
<1>4. PICK g \in [0 .. m -> Seq(Bytes)] :
        /\ g[0] = <<>>
        /\ \A i \in 1 .. m : g[i] = Concat(g[i - 1], ToLengthPrefixed(ms[i]))
        /\ ToLengthPrefixedNested(ms) = g[m]
  BY NestedIs
<1> HIDE DEF n, m
<1>5. \A i \in 0 .. n : \E r \in Seq(Bytes) : f[n] = Concat(f[i], r)
  <2>1. Grows(f, n)
    BY <1>2, <1>3 DEF Grows
  <2> QED  BY <1>1, <2>1, Split
<1>6. \A i \in 0 .. m : \E r \in Seq(Bytes) : g[m] = Concat(g[i], r)
  <2>1. Grows(g, m)
    BY <1>2, <1>4 DEF Grows
  <2> QED  BY <1>1, <2>1, Split
<1> DEFINE G == {i \in 0 .. n : f[i] = g[i] /\ \A j \in 1 .. i : ns[j] = ms[j]}
<1>7. 0 \in G
  BY <1>1, <1>3, <1>4
<1>8. \A i \in 0 .. n : i + 1 \in 0 .. n /\ i \in G => i + 1 \in G
  <2> TAKE i \in 0 .. n
  <2> HAVE i + 1 \in 0 .. n /\ i \in G
  <2>1. i + 1 \in 1 .. n /\ i + 1 \in 1 .. m /\ i + 1 \in 0 .. m /\ (i + 1) - 1 = i
    BY <1>1
  <2> DEFINE a == ToLengthPrefixed(ns[i + 1])
             b == ToLengthPrefixed(ms[i + 1])
  <2>2. a \in Seq(Bytes) /\ b \in Seq(Bytes)
    BY <1>2, <2>1
  <2>3. f[i] \in Seq(Bytes) /\ f[i] = g[i] /\ f[i + 1] = Concat(f[i], a) /\ g[i + 1] = Concat(f[i], b)
    BY <1>1, <1>3, <1>4, <2>1
  <2>4. PICK r \in Seq(Bytes) : f[n] = Concat(f[i + 1], r)
    BY <1>5
  <2>5. PICK q \in Seq(Bytes) : g[m] = Concat(g[i + 1], q)
    BY <1>6, <2>1
  <2> DEFINE h == f[i]
  <2> HIDE DEF a, b, h, G
  <2>6. h \in Seq(Bytes)
    BY <2>3 DEF h
  <2>7. Concat(Concat(Concat(h, a), r), k) = Concat(Concat(Concat(h, b), q), l)
    BY <1>3, <1>4, <2>3, <2>4, <2>5 DEF h
  <2>8. Concat(a, Concat(r, k)) = Concat(b, Concat(q, l))
    BY <2>2, <2>4, <2>5, <2>6, <2>7, BytesRest, SMTT(60)
  <2>9. ns[i + 1] = ms[i + 1]
    <3>1. ns[i + 1] \in Seq(Bytes) /\ ms[i + 1] \in Seq(Bytes)
      BY <1>2, <2>1
    <3>2. Concat(r, k) \in Seq(Bytes) /\ Concat(q, l) \in Seq(Bytes)
      BY BytesConcat
    <3>3. Concat(ToLengthPrefixed(ns[i + 1]), Concat(r, k)) = Concat(ToLengthPrefixed(ms[i + 1]), Concat(q, l))
      BY <2>8 DEF a, b
    <3> QED  BY <3>1, <3>2, <3>3, NoCollision
  <2>10. f[i + 1] = g[i + 1]
    BY <2>3, <2>9 DEF a, b
  <2>11. \A j \in 1 .. i + 1 : j = i + 1 \/ j \in 1 .. i
    OBVIOUS
  <2>12. \A j \in 1 .. i + 1 : ns[j] = ms[j]
    BY <2>9, <2>11 DEF G
  <2> QED  BY <2>10, <2>12 DEF G
<1>9. n \in G
  <2> HIDE DEF G
  <2>1. \A i \in 0 .. n : i \in G
    BY <1>1, <1>7, <1>8, UpTo
  <2> QED  BY <1>1, <2>1
<1>10. n < m => f[n] # g[m]
  <2> SUFFICES ASSUME n < m, f[n] = g[m]  PROVE FALSE
    OBVIOUS
  <2> DEFINE a == g[n]
             b == ToLengthPrefixed(ms[n + 1])
  <2>1. n + 1 \in 1 .. m /\ n + 1 \in 0 .. m /\ n \in 0 .. m /\ (n + 1) - 1 = n
    BY <1>1
  <2>2. a \in Seq(Bytes) /\ b \in Seq(Bytes) /\ g[n + 1] = Concat(a, b)
    BY <1>2, <1>4, <2>1
  <2>3. PICK z \in Seq(Bytes) : g[m] = Concat(g[n + 1], z)
    BY <1>6, <2>1
  <2>4. Len(b) >= 2
    <3>1. ms[n + 1] \in Seq(Bytes)
      BY <1>2, <2>1
    <3>2. b = EncodeLength(ms[n + 1]) \o ms[n + 1]
      BY DEF ToLengthPrefixed
    <3>3. Concat(b, <<>>) = b
      BY <2>2, BytesEmpty
    <3>4. Len(Concat(ToLengthPrefixed(ms[n + 1]), <<>>)) = 2 + Len(ms[n + 1]) + Len(<<>>)
      <4>1. <<>> \in Seq(Bytes)
        OBVIOUS
      <4> QED  BY <3>1, <4>1, RawKey
    <3>5. Len(ms[n + 1]) \in Nat
      BY <3>1, LenProperties
    <3> QED  BY <3>3, <3>4, <3>5
  <2>5. g[m] = a
    BY <1>9 DEF G
  <2> HIDE DEF a, b, G
  <2> DEFINE c == Concat(a, b)
  <2>6. c \in Seq(Bytes) /\ Len(c) = Len(a) + Len(b)
    BY <2>2, BytesConcat, BytesLen
  <2> HIDE DEF c
  <2>7. a = Concat(c, z)
    BY <2>2, <2>3, <2>5 DEF c
  <2>8. Len(a) = Len(c) + Len(z)
    BY <2>6, <2>7, BytesLen
  <2>9. Len(a) \in Nat /\ Len(b) \in Nat /\ Len(z) \in Nat
    BY <2>2, LenProperties
  <2> QED  BY <2>4, <2>6, <2>8, <2>9
<1>11. f[n] = g[m] => n = m
  BY <1>1, <1>10
<1> QED  BY <1>3, <1>4, <1>9, <1>11 DEF n, m

-----------------------------------------------------------------------------
(* The key paths of scripts.                                               *)

Clean == Seq(Bytes \ {0})

(* The paths no two of which read the same.                                *)
Paths == {path \in Seq(Seq(Bytes \ {Dot}) \ {<<>>}) : path # <<>>}

Separator(i) == IF i = 1 THEN <<>> ELSE <<Dot>>

(* Keys without zeros are byte strings.                                    *)
LEMMA CleanIsBytes == Clean \subseteq Seq(Bytes)
BY SeqMonotonic DEF Clean

(* The parts of a path that is told from others.                           *)
LEMMA PathIs ==
  ASSUME NEW path \in Paths
  PROVE  /\ Len(path) \in Nat \ {0}
         /\ path \in Seq(Seq(Bytes))
         /\ \A i \in 1 .. Len(path) : /\ path[i] \in Seq(Bytes)
                                      /\ path[i] \in Seq(Bytes \ {Dot})
                                      /\ path[i] # <<>>
<1>1. path \in Seq(Seq(Bytes \ {Dot}) \ {<<>>}) /\ path # <<>>
  BY DEF Paths
<1>2. Len(path) \in Nat \ {0}
  BY <1>1, EmptySeq
<1>3. \A i \in 1 .. Len(path) : path[i] \in Seq(Bytes \ {Dot}) \ {<<>>}
  BY <1>1, ElementOfSeq
<1>4. \A t \in Seq(Bytes \ {Dot}) : t \in Seq(Bytes)
  BY SeqMonotonic
<1>5. path \in Seq(Seq(Bytes))
  <2> DEFINE T == Seq(Bytes \ {Dot}) \ {<<>>}
  <2>1. T \subseteq Seq(Bytes) /\ path \in Seq(T)
    BY <1>1, <1>4
  <2> HIDE DEF T
  <2> QED  BY <2>1, SeqMonotonic
<1> QED  BY <1>2, <1>3, <1>4, <1>5

(* What comes before a part.                                               *)
LEMMA SeparatorIs ==
  \A i : Separator(i) \in Seq(Bytes)
BY DotAssumption DEF Separator

(* expand_key_path part by part, over any bytes that include the dot.      *)
LEMMA ExpandSteps ==
  ASSUME NEW A, Dot \in A, NEW path \in Seq(Seq(A)), path # <<>>
  PROVE  \E f \in [0 .. Len(path) -> Seq(A)] :
           /\ f[0] = <<>>
           /\ \A i \in 1 .. Len(path) :
                f[i] = (IF f[i - 1] = <<>> THEN <<>> ELSE Append(f[i - 1], Dot)) \o path[i]
           /\ ExpandKeyPath(path) = f[Len(path)]
<1> DEFINE n       == Len(path)
           T       == Seq(A)
           Next1(q) == IF q = <<>> THEN <<>> ELSE Append(q, Dot)
           step    == [p \in (1 .. n) \X T |-> Next1(p[2]) \o path[p[1]]]
           P(g)    == g = [i \in 0 .. n |-> IF i = 0 THEN <<>> ELSE Next1(g[i - 1]) \o path[i]]
           whole   == CHOOSE g : P(g)
<1>1. n \in Nat \ {0} /\ \A i \in 1 .. n : path[i] \in T
  BY EmptySeq, ElementOfSeq
<1>2. ExpandKeyPath(path) = whole[n]
  BY DEF ExpandKeyPath
<1>3. \A q \in T : Next1(q) \in T
  <2> TAKE q \in T
  <2>1. <<>> \in T
    OBVIOUS
  <2>2. Append(q, Dot) \in T
    BY AppendProperties
  <2> QED  BY <2>1, <2>2
<1>4. \A a, b \in T : a \o b \in T
  BY ConcatProperties
<1>5. step \in Steps(n, T)
  <2> HIDE DEF T, Next1, n
  <2> QED  BY <1>1, <1>3, <1>4 DEF Steps
<1>6. \A i \in 1 .. n, q \in T : step[<<i, q>>] = Next1(q) \o path[i]
  <2> HIDE DEF T, Next1, n
  <2> QED  OBVIOUS
<1> HIDE DEF step
<1>7. PICK f : Follows(f, n, T, <<>>, step)
  <2>1. <<>> \in T /\ n \in Nat
    BY <1>1
  <2> HIDE DEF T, n
  <2> QED  BY <1>5, <2>1, Recursion
<1>8. f \in [0 .. n -> T] /\ f[0] = <<>> /\ \A i \in 1 .. n : f[i] = step[<<i, f[i - 1]>>]
  BY <1>7 DEF Follows
<1> HIDE DEF n, T, Next1
<1>9. \A i \in 1 .. n : f[i - 1] \in T /\ f[i] = Next1(f[i - 1]) \o path[i]
  <2> TAKE i \in 1 .. n
  <2>1. i - 1 \in 0 .. n
    BY <1>1
  <2> QED  BY <1>6, <1>8, <2>1
<1>10. P(whole)
  <2>1. P(f)
    <3>1. \A i \in 0 .. n : f[i] = IF i = 0 THEN <<>> ELSE Next1(f[i - 1]) \o path[i]
      <4> TAKE i \in 0 .. n
      <4>1. i # 0 => i \in 1 .. n
        BY <1>1
      <4> QED  BY <1>8, <1>9, <4>1
    <3>2. f = [i \in 0 .. n |-> f[i]]
      BY <1>8
    <3> QED  BY <3>1, <3>2
  <2>2. P(CHOOSE g : P(g))
    BY <2>1
  <2> QED  BY <2>2
<1> HIDE DEF whole
<1>11. \A i \in 1 .. n : i - 1 \in 0 .. n /\ whole[i] = Next1(whole[i - 1]) \o path[i]
  <2> TAKE i \in 1 .. n
  <2>1. i \in 0 .. n /\ i # 0 /\ i - 1 \in 0 .. n
    BY <1>1
  <2> QED  BY <1>10, <2>1
<1>12. whole[0] = <<>>
  <2>1. 0 \in 0 .. n
    BY <1>1
  <2> QED  BY <1>10, <2>1
<1>13. \A i \in 0 .. n : whole[i] \in T
  <2> DEFINE G == {i \in 0 .. n : whole[i] \in T}
  <2>1. 0 \in G
    BY <1>1, <1>8, <1>12
  <2>2. \A i \in 0 .. n : i + 1 \in 0 .. n /\ i \in G => i + 1 \in G
    <3> TAKE i \in 0 .. n
    <3> HAVE i + 1 \in 0 .. n /\ i \in G
    <3>1. i + 1 \in 1 .. n /\ (i + 1) - 1 = i
      BY <1>1
    <3>2. whole[i + 1] = Next1(whole[i]) \o path[i + 1]
      BY <1>11, <3>1
    <3>3. whole[i + 1] \in T
      BY <1>1, <1>3, <1>4, <3>1, <3>2
    <3> QED  BY <3>3
  <2> HIDE DEF G
  <2>3. \A i \in 0 .. n : i \in G
    BY <1>1, <2>1, <2>2, UpTo
  <2> QED  BY <2>3 DEF G
<1>14. whole \in [0 .. n -> T]
  <2>1. whole = [i \in 0 .. n |-> whole[i]]
    BY <1>10
  <2> QED  BY <1>13, <2>1
<1> QED  BY <1>2, <1>11, <1>12, <1>14 DEF n, T, Next1

(* So the parts with dots between them, if none is empty.                  *)
LEMMA ExpandIs ==
  ASSUME NEW path \in Paths
  PROVE  \E f \in [0 .. Len(path) -> Seq(Bytes)] :
           /\ f[0] = <<>>
           /\ \A i \in 1 .. Len(path) : f[i] = Concat(f[i - 1], Concat(Separator(i), path[i]))
           /\ ExpandKeyPath(path) = f[Len(path)]
<1> DEFINE n == Len(path)
<1>1. n \in Nat \ {0} /\ \A i \in 1 .. n : path[i] \in Seq(Bytes) /\ path[i] # <<>>
  BY PathIs
<1>2. PICK f \in [0 .. n -> Seq(Bytes)] :
        /\ f[0] = <<>>
        /\ \A i \in 1 .. n : f[i] = (IF f[i - 1] = <<>> THEN <<>> ELSE Append(f[i - 1], Dot)) \o path[i]
        /\ ExpandKeyPath(path) = f[n]
  <2>1. path \in Seq(Seq(Bytes)) /\ path # <<>> /\ Dot \in Bytes
    BY PathIs, DotAssumption DEF Paths
  <2> QED  BY <2>1, ExpandSteps
<1> HIDE DEF n
<1>3. \A i \in 1 .. n : i - 1 \in 0 .. n /\ f[i - 1] \in Seq(Bytes) /\ f[i] \in Seq(Bytes)
  <2> TAKE i \in 1 .. n
  <2>1. i - 1 \in 0 .. n /\ i \in 0 .. n
    BY <1>1
  <2> QED  BY <1>2, <2>1
<1>4. \A i \in 1 .. n : f[i] # <<>>
  <2> TAKE i \in 1 .. n
  <2> DEFINE a == IF f[i - 1] = <<>> THEN <<>> ELSE Append(f[i - 1], Dot)
             b == path[i]
  <2>1. a \in Seq(Bytes)
    <3>1. Append(f[i - 1], Dot) \in Seq(Bytes)
      BY <1>3, DotAssumption, AppendProperties
    <3> QED  BY <3>1
  <2>2. b \in Seq(Bytes) /\ b # <<>> /\ f[i] = a \o b
    BY <1>1, <1>2
  <2> HIDE DEF a, b
  <2> QED  BY <2>1, <2>2, ConcatEqualIffEmpty
<1>5. \A i \in 1 .. n : f[i] = Concat(f[i - 1], Concat(Separator(i), path[i]))
  <2> TAKE i \in 1 .. n
  <2>1. f[i - 1] \in Seq(Bytes) /\ path[i] \in Seq(Bytes) /\ Separator(i) \in Seq(Bytes)
    BY <1>1, <1>3, SeparatorIs
  <2>2. (IF f[i - 1] = <<>> THEN <<>> ELSE Append(f[i - 1], Dot)) = Concat(f[i - 1], Separator(i))
    <3>1. CASE i = 1
      <4>1. f[i - 1] = <<>>
        BY <1>2, <3>1
      <4> QED  BY <3>1, <4>1 DEF Separator, Concat
    <3>2. CASE i # 1
      <4>1. i - 1 \in 1 .. n
        BY <1>1, <3>2
      <4>2. f[i - 1] # <<>>
        BY <1>4, <4>1
      <4>3. Append(f[i - 1], Dot) = f[i - 1] \o <<Dot>>
        BY <2>1, AppendIsConcat, DotAssumption
      <4> QED  BY <3>2, <4>2, <4>3 DEF Separator, Concat
    <3> QED  BY <3>1, <3>2
  <2>3. f[i] = Concat(Concat(f[i - 1], Separator(i)), path[i])
    BY <1>2, <2>2 DEF Concat
  <2> DEFINE a == f[i - 1]
             b == Separator(i)
             c == path[i]
  <2>4. a \in Seq(Bytes) /\ b \in Seq(Bytes) /\ c \in Seq(Bytes) /\ f[i] = Concat(Concat(a, b), c)
    BY <2>1, <2>3
  <2> HIDE DEF a, b, c
  <2>5. f[i] = Concat(a, Concat(b, c))
    BY <2>4, BytesAssociate
  <2> QED  BY <2>5 DEF a, b, c
<1> QED  BY <1>2, <1>5 DEF n

(* What can come after a part: nothing, or a dot and more.                 *)
Endings == {r \in Seq(Bytes) : r = <<>> \/ (Len(r) >= 1 /\ r[1] = Dot)}

(* A part without dots does not reach over a dot, or the end.              *)
LEMMA DotEnds ==
  ASSUME NEW a \in Seq(Bytes), NEW b \in Seq(Bytes \ {Dot}),
         NEW r \in Endings, NEW z \in Seq(Bytes),
         Concat(a, r) = Concat(b, z), Len(a) < Len(b)
  PROVE  FALSE
<1> DEFINE u == Concat(a, r)
           w == Concat(b, z)
           i == Len(a) + 1
<1>1. /\ Len(a) \in Nat /\ Len(b) \in Nat /\ Len(r) \in Nat /\ Len(z) \in Nat
      /\ r \in Seq(Bytes) /\ b \in Seq(Bytes) /\ b[i] # Dot
  <2>1. b \in Seq(Bytes)
    BY SeqMonotonic
  <2>2. Len(a) \in Nat /\ Len(b) \in Nat /\ Len(r) \in Nat /\ Len(z) \in Nat
    BY <2>1, LenProperties DEF Endings
  <2>3. b[i] \in Bytes \ {Dot}
    <3>1. i \in 1 .. Len(b)
      BY <2>2
    <3> QED  BY <3>1, ElementOfSeq
  <2> QED  BY <2>1, <2>2, <2>3 DEF Endings
<1>2. /\ Len(u) = Len(a) + Len(r)
      /\ \A j \in 1 .. Len(a) + Len(r) : u[j] = IF j <= Len(a) THEN a[j] ELSE r[j - Len(a)]
  BY <1>1, ConcatProperties DEF Concat
<1>3. /\ Len(w) = Len(b) + Len(z)
      /\ \A j \in 1 .. Len(b) + Len(z) : w[j] = IF j <= Len(b) THEN b[j] ELSE z[j - Len(b)]
  BY <1>1, ConcatProperties DEF Concat
<1>4. u = w
  OBVIOUS
<1> HIDE DEF u, w
<1>5. Len(r) > 0
  BY <1>1, <1>2, <1>3, <1>4
<1>6. r[1] = Dot
  BY <1>1, <1>5, EmptySeq DEF Endings
<1>7. u[i] = r[1]
  <2>1. i \in 1 .. Len(a) + Len(r) /\ ~ (i <= Len(a)) /\ i - Len(a) = 1
    BY <1>1, <1>5
  <2> QED  BY <1>2, <2>1
<1>8. w[i] = b[i]
  <2>1. i \in 1 .. Len(b) + Len(z) /\ i <= Len(b)
    BY <1>1
  <2> QED  BY <1>3, <2>1
<1> QED  BY <1>1, <1>4, <1>6, <1>7, <1>8

(* So where a part ends is told by what comes after it.                    *)
LEMMA DotTells ==
  ASSUME NEW a \in Seq(Bytes \ {Dot}), NEW b \in Seq(Bytes \ {Dot}),
         NEW r \in Endings, NEW z \in Endings, Concat(a, r) = Concat(b, z)
  PROVE  a = b
<1> DEFINE u == Concat(a, r)
           w == Concat(b, z)
<1>1. a \in Seq(Bytes) /\ b \in Seq(Bytes) /\ r \in Seq(Bytes) /\ z \in Seq(Bytes)
  BY SeqMonotonic DEF Endings
<1>2. Len(a) \in Nat /\ Len(b) \in Nat /\ Len(r) \in Nat /\ Len(z) \in Nat
  BY <1>1, LenProperties
<1>3. Len(a) = Len(b)
  <2>1. ~ (Len(a) < Len(b))
    BY <1>1, DotEnds
  <2>2. ~ (Len(b) < Len(a))
    BY <1>1, DotEnds
  <2> QED  BY <1>2, <2>1, <2>2
<1>4. \A j \in 1 .. Len(a) + Len(r) : u[j] = IF j <= Len(a) THEN a[j] ELSE r[j - Len(a)]
  BY <1>1, ConcatProperties DEF Concat
<1>5. \A j \in 1 .. Len(b) + Len(z) : w[j] = IF j <= Len(b) THEN b[j] ELSE z[j - Len(b)]
  BY <1>1, ConcatProperties DEF Concat
<1>6. u = w
  OBVIOUS
<1> HIDE DEF u, w
<1>7. \A j \in 1 .. Len(a) : a[j] = b[j]
  <2> TAKE j \in 1 .. Len(a)
  <2>1. j \in 1 .. Len(a) + Len(r) /\ j \in 1 .. Len(b) + Len(z) /\ j <= Len(a) /\ j <= Len(b)
    BY <1>2, <1>3
  <2> QED  BY <1>4, <1>5, <1>6, <2>1
<1> QED  BY <1>1, <1>3, <1>7, SeqEqual

(* What comes after one of the parts of an expanded path.                  *)
LEMMA ExpandRest ==
  ASSUME NEW path \in Paths, NEW f \in [0 .. Len(path) -> Seq(Bytes)],
         \A i \in 1 .. Len(path) : f[i] = Concat(f[i - 1], Concat(Separator(i), path[i])),
         NEW i \in 1 .. Len(path)
  PROVE  \E r \in Endings : f[Len(path)] = Concat(f[i], r)
<1> DEFINE n == Len(path)
<1>1. n \in Nat \ {0} /\ \A j \in 1 .. n : path[j] \in Seq(Bytes) /\ path[j] # <<>>
  BY PathIs
<1>2. \A j \in 0 .. n : f[j] \in Seq(Bytes)
  OBVIOUS
<1> HIDE DEF n
<1>3. Grows(f, n)
  <2>1. \A j \in 1 .. n : Concat(Separator(j), path[j]) \in Seq(Bytes)
    BY <1>1, SeparatorIs, BytesConcat
  <2>2. f \in [0 .. n -> Seq(Bytes)]
    BY <1>2 DEF n
  <2> QED  BY <2>1, <2>2 DEF Grows, n
<1>4. CASE i = n
  <2>1. f[n] = Concat(f[i], <<>>)
    <3>1. n \in 0 .. n
      BY <1>1
    <3>2. f[n] \in Seq(Bytes)
      BY <1>2, <3>1
    <3> QED  BY <1>4, <3>2, BytesEmpty
  <2>2. <<>> \in Endings
    BY DEF Endings
  <2> QED  BY <2>1, <2>2 DEF n
<1>5. CASE i # n
  <2> DEFINE p == path[i + 1]
             a == f[i]
  <2>1. i + 1 \in 1 .. n /\ i + 1 \in 0 .. n /\ i \in 0 .. n /\ i + 1 # 1 /\ (i + 1) - 1 = i
    BY <1>1, <1>5 DEF n
  <2>2. f[i + 1] = Concat(a, Concat(<<Dot>>, p)) /\ a \in Seq(Bytes) /\ p \in Seq(Bytes)
    BY <1>1, <1>2, <2>1 DEF Separator, n
  <2>3. PICK z \in Seq(Bytes) : f[n] = Concat(f[i + 1], z)
    <3>1. n \in Nat
      BY <1>1
    <3>2. \A j \in 0 .. n : \E r \in Seq(Bytes) : f[n] = Concat(f[j], r)
      BY <1>3, <3>1, Split
    <3> QED  BY <2>1, <3>2
  <2> HIDE DEF p, a
  <2> DEFINE d == <<Dot>>
             r == Concat(Concat(d, p), z)
  <2>4. d \in Seq(Bytes) /\ Len(d) = 1 /\ d[1] = Dot
    BY DotAssumption
  <2>5. f[n] = Concat(Concat(a, Concat(d, p)), z)
    BY <2>2, <2>3
  <2> HIDE DEF d
  <2>6. Concat(d, p) \in Seq(Bytes) /\ Concat(p, z) \in Seq(Bytes)
    BY <2>2, <2>4, BytesConcat
  <2>7. f[n] = Concat(a, r)
    BY <2>2, <2>5, <2>6, BytesAssociate
  <2>8. r = Concat(d, Concat(p, z))
    BY <2>2, <2>4, BytesAssociate
  <2>9. r \in Seq(Bytes)
    BY <2>6, BytesConcat
  <2>10. Len(r) >= 1 /\ r[1] = Dot
    <3> DEFINE q == Concat(p, z)
    <3> HIDE DEF q, r
    <3>1. q \in Seq(Bytes) /\ r = Concat(d, q)
      BY <2>6, <2>8 DEF q
    <3>2. Len(q) \in Nat
      BY <3>1, LenProperties
    <3>3. /\ Len(r) = Len(d) + Len(q)
          /\ \A j \in 1 .. Len(d) + Len(q) : r[j] = IF j <= Len(d) THEN d[j] ELSE q[j - Len(d)]
      BY <2>4, <3>1, ConcatProperties DEF Concat
    <3>4. 1 \in 1 .. Len(d) + Len(q) /\ 1 <= Len(d)
      BY <2>4, <3>2
    <3> QED  BY <2>4, <3>2, <3>3, <3>4
  <2> HIDE DEF r
  <2>11. r \in Endings
    BY <2>9, <2>10 DEF Endings
  <2> QED  BY <2>7, <2>11 DEF n, a
<1> QED  BY <1>4, <1>5

(* Key paths that expand to one key are the same path.                     *)
LEMMA ExpandTells ==
  ASSUME NEW path \in Paths, NEW other \in Paths, Len(path) <= Len(other),
         ExpandKeyPath(path) = ExpandKeyPath(other)
  PROVE  path = other
<1> DEFINE n == Len(path)
           m == Len(other)
<1>1. n \in Nat \ {0} /\ m \in Nat \ {0} /\ n <= m
  BY PathIs
<1>2. PICK f \in [0 .. n -> Seq(Bytes)] :
        /\ f[0] = <<>>
        /\ \A i \in 1 .. n : f[i] = Concat(f[i - 1], Concat(Separator(i), path[i]))
        /\ ExpandKeyPath(path) = f[n]
  BY ExpandIs
<1>3. PICK g \in [0 .. m -> Seq(Bytes)] :
        /\ g[0] = <<>>
        /\ \A i \in 1 .. m : g[i] = Concat(g[i - 1], Concat(Separator(i), other[i]))
        /\ ExpandKeyPath(other) = g[m]
  BY ExpandIs
<1>4. \A i \in 1 .. n : \E r \in Endings : f[n] = Concat(f[i], r)
  BY <1>2, ExpandRest
<1>5. \A i \in 1 .. m : \E r \in Endings : g[m] = Concat(g[i], r)
  BY <1>3, ExpandRest
<1>6. /\ \A i \in 1 .. n : path[i] \in Seq(Bytes \ {Dot}) /\ path[i] \in Seq(Bytes)
      /\ \A i \in 1 .. m : other[i] \in Seq(Bytes \ {Dot}) /\ other[i] \in Seq(Bytes) /\ other[i] # <<>>
      /\ Endings \subseteq Seq(Bytes)
  BY PathIs DEF Endings
<1> HIDE DEF n, m
<1> DEFINE G == {i \in 0 .. n : f[i] = g[i] /\ \A j \in 1 .. i : path[j] = other[j]}
<1>7. 0 \in G
  BY <1>1, <1>2, <1>3
<1>8. \A i \in 0 .. n : i + 1 \in 0 .. n /\ i \in G => i + 1 \in G
  <2> TAKE i \in 0 .. n
  <2> HAVE i + 1 \in 0 .. n /\ i \in G
  <2>1. i + 1 \in 1 .. n /\ i + 1 \in 1 .. m /\ (i + 1) - 1 = i
    BY <1>1
  <2> DEFINE h == f[i]
             s == Separator(i + 1)
             a == path[i + 1]
             b == other[i + 1]
  <2>2. f[i + 1] = Concat(h, Concat(s, a)) /\ g[i + 1] = Concat(h, Concat(s, b))
    BY <1>2, <1>3, <2>1
  <2>3. /\ h \in Seq(Bytes) /\ s \in Seq(Bytes)
        /\ a \in Seq(Bytes) /\ a \in Seq(Bytes \ {Dot})
        /\ b \in Seq(Bytes) /\ b \in Seq(Bytes \ {Dot})
    BY <1>2, <1>6, <2>1, SeparatorIs
  <2>4. PICK r \in Endings : f[n] = Concat(f[i + 1], r)
    BY <1>4, <2>1
  <2>5. PICK z \in Endings : g[m] = Concat(g[i + 1], z)
    BY <1>5, <2>1
  <2> HIDE DEF h, s, a, b, G
  <2>6. r \in Seq(Bytes) /\ z \in Seq(Bytes)
    BY <1>6
  <2>7. Concat(Concat(h, Concat(s, a)), r) = Concat(Concat(h, Concat(s, b)), z)
    BY <1>2, <1>3, <2>2, <2>4, <2>5
  <2>8. Concat(s, a) \in Seq(Bytes) /\ Concat(s, b) \in Seq(Bytes)
    BY <2>3, BytesConcat
  <2>9. Concat(Concat(s, a), r) = Concat(Concat(s, b), z)
    <3> DEFINE x == Concat(s, a)
               y == Concat(s, b)
    <3> HIDE DEF x, y
    <3>1. Concat(Concat(h, x), r) = Concat(Concat(h, y), z) /\ x \in Seq(Bytes) /\ y \in Seq(Bytes)
      BY <2>7, <2>8 DEF x, y
    <3>2. Concat(x, r) = Concat(y, z)
      BY <2>3, <2>6, <3>1, BytesAfter
    <3> QED  BY <3>2 DEF x, y
  <2>10. Concat(a, r) = Concat(b, z)
    BY <2>3, <2>6, <2>9, BytesAfter
  <2>11. a = b
    BY <2>3, <2>10, DotTells
  <2>12. f[i + 1] = g[i + 1]
    BY <2>2, <2>11
  <2>13. \A j \in 1 .. i + 1 : j = i + 1 \/ j \in 1 .. i
    OBVIOUS
  <2>14. \A j \in 1 .. i + 1 : path[j] = other[j]
    BY <2>11, <2>13 DEF G, a, b
  <2> QED  BY <2>12, <2>14 DEF G
<1>9. f[n] = g[n] /\ \A j \in 1 .. n : path[j] = other[j]
  <2> HIDE DEF G
  <2>1. \A i \in 0 .. n : i \in G
    BY <1>1, <1>7, <1>8, UpTo
  <2> QED  BY <1>1, <2>1 DEF G
<1>10. n = m
  <2> SUFFICES ASSUME n < m  PROVE FALSE
    BY <1>1
  <2> DEFINE h == g[n]
             s == Separator(n + 1)
             b == other[n + 1]
  <2>1. n + 1 \in 1 .. m /\ n \in 0 .. m /\ (n + 1) - 1 = n
    BY <1>1
  <2>2. PICK z \in Endings : g[m] = Concat(g[n + 1], z)
    BY <1>5, <2>1
  <2>3. /\ h \in Seq(Bytes) /\ s \in Seq(Bytes) /\ z \in Seq(Bytes)
        /\ b \in Seq(Bytes) /\ b # <<>> /\ g[n + 1] = Concat(h, Concat(s, b))
    BY <1>3, <1>6, <2>1, SeparatorIs
  <2>4. g[m] = h
    BY <1>2, <1>3, <1>9
  <2> HIDE DEF h, s, b
  <2> DEFINE x == Concat(s, b)
  <2>5. x \in Seq(Bytes) /\ x # <<>>
    <3>1. x \in Seq(Bytes)
      BY <2>3, BytesConcat
    <3>2. s \o b # <<>>
      BY <2>3, ConcatEqualIffEmpty
    <3> QED  BY <3>1, <3>2 DEF Concat
  <2> HIDE DEF x
  <2>6. Concat(Concat(h, x), z) = h
    BY <2>2, <2>3, <2>4 DEF x
  <2>7. Len(Concat(Concat(h, x), z)) = (Len(h) + Len(x)) + Len(z)
    <3> DEFINE y == Concat(h, x)
    <3>1. y \in Seq(Bytes) /\ Len(y) = Len(h) + Len(x)
      BY <2>3, <2>5, BytesLen, BytesConcat
    <3> HIDE DEF y
    <3>2. Len(Concat(y, z)) = Len(y) + Len(z)
      BY <2>3, <3>1, BytesLen
    <3> QED  BY <3>1, <3>2 DEF y
  <2>8. Len(h) \in Nat /\ Len(x) \in Nat \ {0} /\ Len(z) \in Nat
    BY <2>3, <2>5, LenProperties, EmptySeq
  <2> QED  BY <2>6, <2>7, <2>8
<1>11. path = other
  <2>1. path \in Seq(Seq(Bytes \ {Dot}) \ {<<>>}) /\ other \in Seq(Seq(Bytes \ {Dot}) \ {<<>>})
    BY DEF Paths
  <2>2. Len(path) = Len(other) /\ \A j \in 1 .. Len(path) : path[j] = other[j]
    BY <1>9, <1>10 DEF n, m
  <2> QED  BY <2>1, <2>2, SeqEqual
<1> QED  BY <1>11

-----------------------------------------------------------------------------
(* The raw keys of views.                                                  *)

(* The namespaces of a view can be encoded, and make its prefix.           *)
LEMMA NamesOf ==
  ASSUME NEW v \in Views, v \notin Scripts
  PROVE  v.namespaces \in Names /\ Prefix(v) = ToLengthPrefixedNested(v.namespaces)
<1> DEFINE names == v.namespaces
           n     == Len(names)
<1>1. names \in Seq({NotString} \cup Seq(Bytes))
  BY ViewsAssumption
<1>2. n \in Nat /\ names \in [1 .. n -> {NotString} \cup Seq(Bytes)] /\ DOMAIN names = 1 .. n
  BY <1>1, LenProperties
<1>3. \A i \in 1 .. n : names[i] # NotString /\ CanEncode(names[i])
  <2>1. v.kind # "script"
    BY DEF Scripts
  <2> QED  BY <1>2, <2>1, ViewsAssumption
<1> HIDE DEF names, n
<1>4. \A i \in 1 .. n : names[i] \in Seq(Bytes)
  BY <1>2, <1>3
<1>5. names \in Seq(Seq(Bytes))
  <2>1. names \in [1 .. n -> Seq(Bytes)]
    BY <1>2, <1>4
  <2> QED  BY <1>2, <2>1
<1>6. names \in Names
  BY <1>2, <1>3, <1>5 DEF Names
<1>7. Prefix(v) = ToLengthPrefixedNested(v.namespaces)
  BY DEF Prefix, Prefixes
<1> QED  BY <1>6, <1>7 DEF names

(* The key path of a script that can be expanded makes its prefix.  If it  *)
(* is plain it is told from others, and if it has no zeros, nor has this.  *)
LEMMA PathOf ==
  ASSUME NEW v \in Scripts, CanExpand(v.namespaces)
  PROVE  /\ v.namespaces \in Seq(Seq(Bytes)) /\ v.namespaces # <<>>
         /\ Plain(v.namespaces) => v.namespaces \in Paths
         /\ ~ HasZero(v.namespaces) => v.namespaces \in Seq(Clean)
         /\ Prefix(v) = ExpandKeyPath(v.namespaces)
<1> DEFINE path == v.namespaces
           n    == Len(path)
           T    == Seq(Bytes \ {Dot}) \ {<<>>}
<1>1. v \in Views /\ path \in Seq({NotString} \cup Seq(Bytes))
  BY ViewsAssumption DEF Scripts
<1>2. n \in Nat /\ path \in [1 .. n -> {NotString} \cup Seq(Bytes)] /\ DOMAIN path = 1 .. n
  BY <1>1, LenProperties
<1>3. path # <<>> /\ \A i \in 1 .. n : path[i] # NotString
  BY <1>2 DEF CanExpand
<1>4. Prefix(v) = ExpandKeyPath(v.namespaces)
  BY <1>1 DEF Prefix, Prefixes
<1> HIDE DEF path, n
<1>5. \A V : (\A i \in 1 .. n : path[i] \in V) => path \in Seq(V)
  <2> TAKE V
  <2> HAVE \A i \in 1 .. n : path[i] \in V
  <2>1. path \in [1 .. n -> V]
    BY <1>2
  <2> QED  BY <1>2, <2>1
<1>6. \A i \in 1 .. n : path[i] \in Seq(Bytes)
  BY <1>2, <1>3
<1>7. \A x \in Bytes : \A p \in Seq(Bytes) :
        (\A j \in DOMAIN p : p[j] # x) => p \in Seq(Bytes \ {x})
  <2> TAKE x \in Bytes
  <2> TAKE p \in Seq(Bytes)
  <2> HAVE \A j \in DOMAIN p : p[j] # x
  <2>1. Len(p) \in Nat /\ p \in [1 .. Len(p) -> Bytes] /\ DOMAIN p = 1 .. Len(p)
    BY LenProperties
  <2>2. p \in [1 .. Len(p) -> Bytes \ {x}]
    BY <2>1
  <2> QED  BY <2>1, <2>2
<1>8. ASSUME Plain(path)  PROVE path \in Paths
  <2>1. \A i \in 1 .. n : path[i] \in T
    <3> TAKE i \in 1 .. n
    <3>1. path[i] # <<>> /\ \A j \in DOMAIN path[i] : path[i][j] # Dot
      BY <1>2, <1>8 DEF Plain
    <3>2. path[i] \in Seq(Bytes \ {Dot})
      BY <1>6, <1>7, <3>1, DotAssumption
    <3> QED  BY <3>1, <3>2
  <2> HIDE DEF T
  <2>2. path \in Seq(T)
    BY <1>5, <2>1
  <2> QED  BY <1>3, <2>2 DEF Paths, T
<1>9. ASSUME ~ HasZero(path)  PROVE path \in Seq(Clean)
  <2>1. \A i \in 1 .. n : path[i] \in Clean
    <3> TAKE i \in 1 .. n
    <3>1. \A j \in DOMAIN path[i] : path[i][j] # 0
      BY <1>2, <1>9 DEF HasZero
    <3>2. 0 \in Bytes
      BY RadixAssumption DEF Bytes
    <3> QED  BY <1>6, <1>7, <3>1, <3>2 DEF Clean
  <2> QED  BY <1>5, <2>1
<1>10. path \in Seq(Seq(Bytes))
  BY <1>5, <1>6
<1> QED  BY <1>3, <1>4, <1>8, <1>9, <1>10 DEF path

(* The prefix of some namespaces is bytes.                                 *)
LEMMA NestedBytes ==
  ASSUME NEW names \in Names
  PROVE  ToLengthPrefixedNested(names) \in Seq(Bytes)
<1>1. Len(names) \in Nat
  BY LenProperties DEF Names
<1>2. PICK f \in [0 .. Len(names) -> Seq(Bytes)] : ToLengthPrefixedNested(names) = f[Len(names)]
  BY NestedIs
<1> QED  BY <1>1, <1>2

(* So is the key of a script, and without zeros if its path is.            *)
LEMMA ExpandBytes ==
  ASSUME NEW A, Dot \in A, NEW path \in Seq(Seq(A)), path # <<>>
  PROVE  ExpandKeyPath(path) \in Seq(A)
<1>1. PICK f \in [0 .. Len(path) -> Seq(A)] : ExpandKeyPath(path) = f[Len(path)]
  BY ExpandSteps
<1>2. Len(path) \in 0 .. Len(path)
  BY LenProperties
<1> QED  BY <1>1, <1>2

(* And what a view puts before its keys.                                   *)
LEMMA PrefixBytes ==
  ASSUME NEW v \in Readable
  PROVE  Prefix(v) \in Seq(Bytes)
<1>1. CASE v \in Scripts
  <2>1. CanExpand(v.namespaces)
    BY <1>1 DEF Readable
  <2> QED  BY <1>1, <2>1, PathOf, ExpandBytes, DotAssumption
<1>2. CASE v \notin Scripts
  <2>1. v \in Views
    BY DEF Readable
  <2> QED  BY <1>2, <2>1, NamesOf, NestedBytes
<1> QED  BY <1>1, <1>2

(* And its keys.                                                           *)
LEMMA KeyBytes ==
  ASSUME NEW v \in Views, NEW k \in KeysOf(v)
  PROVE  k \in Seq(Bytes)
<1>1. <<>> \in Seq(Bytes)
  OBVIOUS
<1> QED  BY <1>1, KeysAssumption DEF KeysOf

(* And what they make together.                                            *)
LEMMA RawBytes ==
  ASSUME NEW v \in Readable, NEW k \in KeysOf(v)
  PROVE  Raw(v, k) \in Seq(Bytes)
<1>1. v \in Views
  BY DEF Readable
<1>2. Prefix(v) \in Seq(Bytes) /\ k \in Seq(Bytes)
  BY <1>1, PrefixBytes, KeyBytes
<1> QED  BY <1>2, BytesConcat DEF Raw

(* A raw key that begins with a length of which one byte is zero has a     *)
(* zero where the key of a script has none.                                *)
LEMMA ScriptsApart ==
  ASSUME NEW v \in Readable \cap Scripts, NEW k \in KeysOf(v),
         NEW w \in Readable \ (Scripts \cup Typed), NEW l \in KeysOf(w),
         ~ HasZero(v.namespaces), LengthHasZero(w.namespaces)
  PROVE  Raw(v, k) # Raw(w, l)
<1> DEFINE names == w.namespaces
           raw   == Raw(w, l)
<1>1. v \in Views /\ w \in Views /\ CanExpand(v.namespaces)
  BY DEF Readable
<1>2. k = <<>> /\ l \in Seq(Bytes)
  BY <1>1, KeyBytes DEF KeysOf
<1>3. Raw(v, k) \in Clean
  <2>1. Prefix(v) \in Clean
    <3>1. v.namespaces \in Seq(Seq(Bytes \ {0})) /\ v.namespaces # <<>>
      BY <1>1, PathOf DEF Clean
    <3>2. Dot \in Bytes \ {0}
      BY DotAssumption
    <3>3. ExpandKeyPath(v.namespaces) \in Seq(Bytes \ {0})
      BY <3>1, <3>2, ExpandBytes
    <3> QED  BY <1>1, <3>3, PathOf DEF Clean
  <2>2. Concat(Prefix(v), <<>>) = Prefix(v)
    BY <2>1, CleanIsBytes, BytesEmpty
  <2> QED  BY <1>2, <2>1, <2>2 DEF Raw
<1>4. names \in Names /\ raw = Concat(ToLengthPrefixedNested(names), l)
  BY <1>1, NamesOf DEF Raw
<1>5. names # <<>> /\ \E i \in 1 .. 2 : EncodeLength(names[1])[i] = 0
  BY DEF LengthHasZero
<1> HIDE DEF names, raw
<1>6. Len(names) \in Nat \ {0} /\ names[1] \in Seq(Bytes) /\ ToLengthPrefixed(names[1]) \in Seq(Bytes)
  <2>1. names \in Seq(Seq(Bytes)) /\ \A i \in DOMAIN names : CanEncode(names[i])
    BY <1>4 DEF Names
  <2>2. Len(names) \in Nat \ {0} /\ DOMAIN names = 1 .. Len(names)
    BY <1>5, <2>1, EmptySeq, LenProperties
  <2>3. 1 \in 1 .. Len(names)
    BY <2>2
  <2>4. names[1] \in Seq(Bytes) /\ CanEncode(names[1])
    BY <2>1, <2>2, <2>3, ElementOfSeq
  <2> QED  BY <2>2, <2>4, EncodedBytes
<1>7. PICK r \in Seq(Bytes) : raw = Concat(ToLengthPrefixed(names[1]), r)
  <2> DEFINE n == Len(names)
  <2>1. PICK f \in [0 .. n -> Seq(Bytes)] :
          /\ f[0] = <<>>
          /\ \A i \in 1 .. n : f[i] = Concat(f[i - 1], ToLengthPrefixed(names[i]))
          /\ ToLengthPrefixedNested(names) = f[n]
    BY <1>4, NestedIs
  <2>2. \A i \in 1 .. n : ToLengthPrefixed(names[i]) \in Seq(Bytes)
    <3> TAKE i \in 1 .. n
    <3>1. names \in Seq(Seq(Bytes)) /\ DOMAIN names = 1 .. n /\ \A j \in DOMAIN names : CanEncode(names[j])
      BY <1>4, LenProperties DEF Names
    <3>2. names[i] \in Seq(Bytes) /\ CanEncode(names[i])
      BY <3>1, ElementOfSeq
    <3> QED  BY <3>2, EncodedBytes
  <2> HIDE DEF n
  <2>3. Grows(f, n)
    BY <2>1, <2>2 DEF Grows
  <2>4. \A i \in 0 .. n : \E q \in Seq(Bytes) : f[n] = Concat(f[i], q)
    BY <1>6, <2>3, Split DEF n
  <2>5. 1 \in 0 .. n /\ 1 \in 1 .. n /\ 1 - 1 = 0
    BY <1>6 DEF n
  <2>6. PICK q \in Seq(Bytes) : f[n] = Concat(f[1], q)
    BY <2>4, <2>5
  <2> DEFINE a == ToLengthPrefixed(names[1])
  <2>7. f[1] = a
    <3>1. f[1] = Concat(<<>>, a)
      BY <2>1, <2>5
    <3> QED  BY <1>6, <3>1, BytesEmpty
  <2>8. a \in Seq(Bytes)
    BY <1>6
  <2> HIDE DEF a
  <2>9. raw = Concat(Concat(a, q), l)
    BY <1>4, <2>1, <2>6, <2>7
  <2>10. raw = Concat(a, Concat(q, l)) /\ Concat(q, l) \in Seq(Bytes)
    BY <1>2, <2>8, <2>9, BytesAssociate, BytesConcat
  <2> QED  BY <2>10 DEF a
<1>8. /\ Len(raw) = 2 + Len(names[1]) + Len(r)
      /\ raw[1] = Len(names[1]) \div Radix
      /\ raw[2] = Len(names[1]) % Radix
  BY <1>6, <1>7, RawKey
<1>9. Len(raw) >= 2 /\ (raw[1] = 0 \/ raw[2] = 0)
  <2>1. Len(names[1]) \in Nat /\ Len(r) \in Nat
    BY <1>6, LenProperties
  <2>2. EncodeLength(names[1])[1] = 0 \/ EncodeLength(names[1])[2] = 0
    <3>1. \A i \in 1 .. 2 : i = 1 \/ i = 2
      OBVIOUS
    <3> QED  BY <1>5, <3>1
  <2> QED  BY <1>8, <2>1, <2>2 DEF EncodeLength
<1>10. SUFFICES ASSUME raw \in Clean  PROVE FALSE
  BY <1>3 DEF raw
<1>11. \A i \in 1 .. Len(raw) : raw[i] # 0
  BY <1>10, ElementOfSeq DEF Clean
<1>12. Len(raw) \in Nat
  BY <1>10, LenProperties DEF Clean
<1> QED  BY <1>9, <1>11, <1>12

(* Views that meet in a raw key are related.                               *)
LEMMA RawKeysTell ==
  ASSUME NEW v \in Readable, NEW k \in KeysOf(v),
         NEW w \in Readable, NEW l \in KeysOf(w),
         Raw(v, k) = Raw(w, l)
  PROVE  Related(v, w)
<1>1. v \in Views /\ w \in Views /\ k \in Seq(Bytes) /\ l \in Seq(Bytes)
  BY KeyBytes DEF Readable
<1>2. CASE v \in Typed \/ w \in Typed
  BY <1>2 DEF Related
<1>3. CASE v \notin Scripts /\ w \notin Scripts
  <2> DEFINE ns == v.namespaces
             ms == w.namespaces
             V  == Seq(Bytes)
  <2>1. ns \in Names /\ ms \in Names
    BY <1>1, <1>3, NamesOf
  <2>2. Concat(ToLengthPrefixedNested(ns), k) = Concat(ToLengthPrefixedNested(ms), l)
    BY <1>1, <1>3, NamesOf DEF Raw
  <2> HIDE DEF ns, ms
  <2>3. ns \in Seq(V) /\ ms \in Seq(V)
    BY <2>1 DEF Names
  <2>4. Len(ns) \in Nat /\ Len(ms) \in Nat
    BY <2>3, LenProperties
  <2>5. CASE Len(ns) <= Len(ms)
    <3>1. \A i \in 1 .. Len(ns) : ns[i] = ms[i]
      BY <1>1, <2>1, <2>2, <2>5, NestedTell
    <3>2. Seqs!IsPrefix(ns, ms)
      BY <2>3, <2>5, <3>1, PrefixIs
    <3> QED  BY <1>3, <3>2 DEF Related, ns, ms
  <2>6. CASE Len(ms) <= Len(ns)
    <3>1. \A i \in 1 .. Len(ms) : ms[i] = ns[i]
      BY <1>1, <2>1, <2>2, <2>6, NestedTell
    <3>2. Seqs!IsPrefix(ms, ns)
      BY <2>3, <2>6, <3>1, PrefixIs
    <3> QED  BY <1>3, <3>2 DEF Related, ns, ms
  <2> QED  BY <2>4, <2>5, <2>6
<1>4. CASE v \in Scripts /\ w \in Scripts /\ Plain(v.namespaces) /\ Plain(w.namespaces)
  <2> DEFINE p == v.namespaces
             q == w.namespaces
  <2>1. p \in Paths /\ q \in Paths /\ Prefix(v) = ExpandKeyPath(p) /\ Prefix(w) = ExpandKeyPath(q)
    BY <1>4, PathOf DEF Readable
  <2>2. k = <<>> /\ l = <<>>
    BY <1>4 DEF KeysOf
  <2> HIDE DEF p, q
  <2>3. ExpandKeyPath(p) = ExpandKeyPath(q)
    <3>1. ExpandKeyPath(p) \in Seq(Bytes) /\ ExpandKeyPath(q) \in Seq(Bytes)
      BY <2>1, PathIs, ExpandBytes, DotAssumption DEF Paths
    <3>2. Raw(v, k) = ExpandKeyPath(p) /\ Raw(w, l) = ExpandKeyPath(q)
      BY <2>1, <2>2, <3>1, BytesEmpty DEF Raw
    <3> QED  BY <3>2
  <2>4. p = q
    <3>1. Len(p) \in Nat /\ Len(q) \in Nat
      BY <2>1, PathIs
    <3>2. CASE Len(p) <= Len(q)
      BY <2>1, <2>3, <3>2, ExpandTells
    <3>3. CASE Len(q) <= Len(p)
      BY <2>1, <2>3, <3>3, ExpandTells
    <3> QED  BY <3>1, <3>2, <3>3
  <2>5. /\ v \in [kind : Kinds, namespaces : Seq({NotString} \cup Seq(Bytes)), type : STRING]
        /\ w \in [kind : Kinds, namespaces : Seq({NotString} \cup Seq(Bytes)), type : STRING]
        /\ v.kind = w.kind /\ v.type = w.type
    BY <1>1, <1>4, ViewsAssumption DEF Scripts
  <2>6. v = w
    BY <2>4, <2>5 DEF p, q
  <2> QED  BY <2>6 DEF Related
<1>5. CASE v \in Scripts /\ w \in Scripts /\ ~ (Plain(v.namespaces) /\ Plain(w.namespaces))
  BY <1>5 DEF Related
<1>6. CASE v \in Scripts /\ w \notin Scripts \cup Typed
  <2>1. HasZero(v.namespaces) \/ ~ LengthHasZero(w.namespaces)
    BY <1>6, ScriptsApart
  <2>2. v \in {v, w} \cap Scripts /\ w \in {v, w} \ Scripts
    BY <1>6
  <2> QED  BY <2>1, <2>2 DEF Related
<1>7. CASE w \in Scripts /\ v \notin Scripts \cup Typed
  <2>1. HasZero(w.namespaces) \/ ~ LengthHasZero(v.namespaces)
    BY <1>7, ScriptsApart
  <2>2. w \in {v, w} \cap Scripts /\ v \in {v, w} \ Scripts
    BY <1>7
  <2> QED  BY <2>1, <2>2 DEF Related
<1> QED  BY <1>2, <1>3, <1>4, <1>5, <1>6, <1>7

(* Sequences of numbers have raw keys of their own.                        *)
LEMMA CountersTell ==
  ASSUME NEW v \in Counters, NEW w \in Counters, Raw(v, <<>>) = Raw(w, <<>>)
  PROVE  v = w
<1> DEFINE ns == v.namespaces
           ms == w.namespaces
<1>1. /\ v \in Views /\ w \in Views /\ v \notin Scripts /\ w \notin Scripts
      /\ v.kind = "sequence" /\ w.kind = "sequence"
  BY DEF Counters, Scripts
<1>2. ns \in Names /\ ms \in Names
  BY <1>1, NamesOf
<1>3. Concat(ToLengthPrefixedNested(ns), <<>>) = Concat(ToLengthPrefixedNested(ms), <<>>)
  BY <1>1, NamesOf DEF Raw
<1> HIDE DEF ns, ms
<1>4. <<>> \in Seq(Bytes) /\ ns \in Seq(Seq(Bytes)) /\ ms \in Seq(Seq(Bytes))
  BY <1>2 DEF Names
<1>5. Len(ns) \in Nat /\ Len(ms) \in Nat
  BY <1>4, LenProperties
<1>6. ToLengthPrefixedNested(ns) = ToLengthPrefixedNested(ms)
  BY <1>2, <1>3, NestedBytes, BytesEmpty
<1>7. ns = ms
  <2>1. CASE Len(ns) <= Len(ms)
    <3>1. Len(ns) = Len(ms) /\ \A i \in 1 .. Len(ns) : ns[i] = ms[i]
      BY <1>2, <1>3, <1>4, <1>6, <2>1, NestedTell
    <3> QED  BY <1>4, <3>1, SeqEqual
  <2>2. CASE Len(ms) <= Len(ns)
    <3>1. Len(ns) = Len(ms) /\ \A i \in 1 .. Len(ms) : ms[i] = ns[i]
      BY <1>2, <1>3, <1>4, <1>6, <2>2, NestedTell
    <3> QED  BY <1>4, <3>1, SeqEqual
  <2> QED  BY <1>5, <2>1, <2>2
<1>8. /\ v \in [kind : Kinds, namespaces : Seq({NotString} \cup Seq(Bytes)), type : STRING]
      /\ w \in [kind : Kinds, namespaces : Seq({NotString} \cup Seq(Bytes)), type : STRING]
      /\ v.type = "u64" /\ w.type = "u64"
  BY <1>1, ViewsAssumption
<1> QED  BY <1>1, <1>7, <1>8 DEF ns, ms

-----------------------------------------------------------------------------
(* The types.                                                              *)

(* A stored u64 is in range, whatever view stored it.                      *)
LEMMA NumberContent ==
  ASSUME NEW type, NEW value \in Values(type), value.type = "u64"
  PROVE  value.content \in 0 .. MaxCounter
<1>1. CASE type = "bytes"
  BY <1>1, RawValuesAssumption DEF Values
<1>2. CASE type # "bytes"
  <2>1. value \in [type : {type}, content : Contents(type)]
    BY <1>2 DEF Values
  <2>2. type = "u64"
    BY <2>1
  <2> QED  BY <2>1, <2>2 DEF Contents
<1> QED  BY <1>1, <1>2

(* What currval reads, if it does not fail to parse.                       *)
LEMMA CounterReads ==
  ASSUME TypeOK, NEW v \in Counters, MayLoad(v, <<>>).result # "parse_err"
  PROVE  /\ Currval(v) \in 0 .. MaxCounter
         /\ Has(v, <<>>) => data[Raw(v, <<>>)].type = "u64"
<1>1. v.type = "u64"
  BY ViewsAssumption DEF Counters
<1>2. CASE Has(v, <<>>)
  <2>1. data[Raw(v, <<>>)].type = "u64"
    BY <1>1, <1>2 DEF MayLoad, Parse
  <2>2. PICK w \in Views : data[Raw(v, <<>>)] \in Values(w.type)
    BY <1>2 DEF TypeOK, Has
  <2>3. data[Raw(v, <<>>)].content \in 0 .. MaxCounter
    BY <2>1, <2>2, NumberContent
  <2> QED  BY <1>2, <2>1, <2>3 DEF Currval
<1>3. CASE ~ Has(v, <<>>)
  <2>1. 0 \in 0 .. MaxCounter
    BY MaxCounterAssumption
  <2> QED  BY <1>3, <2>1 DEF Currval
<1> QED  BY <1>2, <1>3

(* One more than a u64, without overflow checks.                           *)
LEMMA WrapIs ==
  ASSUME NEW cur \in 0 .. MaxCounter
  PROVE  (cur + 1) % (MaxCounter + 1) = IF cur = MaxCounter THEN 0 ELSE cur + 1
<1> DEFINE m == MaxCounter + 1
<1>1. m \in Nat \ {0} /\ cur \in Nat
  BY MaxCounterAssumption
<1>2. CASE cur = MaxCounter
  <2>1. cur + 1 = m
    BY <1>2
  <2> HIDE DEF m
  <2>2. m % m = 0
    BY <1>1
  <2> QED  BY <1>2, <2>1, <2>2 DEF m
<1>3. CASE cur # MaxCounter
  <2>1. cur + 1 \in Nat /\ cur + 1 < m
    BY <1>1, <1>3, MaxCounterAssumption
  <2> HIDE DEF m
  <2> DEFINE x == cur + 1
  <2> HIDE DEF x
  <2>2. x \in Nat /\ x < m
    BY <2>1 DEF x
  <2>3. x % m = x
    BY <1>1, <2>2
  <2> QED  BY <1>3, <2>3 DEF m, x
<1> QED  BY <1>2, <1>3

(* A set keeps the types of the storage.                                   *)
LEMMA PutTypes ==
  ASSUME TypeOK, NEW v \in Readable, NEW k \in KeysOf(v), NEW value \in Values(v.type),
         Put(Raw(v, k), value)
  PROVE  DOMAIN data' \subseteq Seq(Bytes) /\ \A r \in DOMAIN data' : \E w \in Views : data'[r] \in Values(w.type)
<1> DEFINE raw == Raw(v, k)
<1>1. raw \in Seq(Bytes) /\ v \in Views
  BY RawBytes DEF Readable
<1>2. data' = [r \in DOMAIN data \cup {raw} |-> IF r = raw THEN value ELSE data[r]]
  BY DEF Put
<1> HIDE DEF raw
<1> QED  BY <1>1, <1>2 DEF TypeOK

(* And what is forgotten, those of the sequences.                          *)
LEMMA ForgetTypes ==
  ASSUME TypeOK, NEW v, NEW k, Forget(v, k)
  PROVE  issued' \in [Counters -> SUBSET (0 .. MaxCounter)]
BY DEF TypeOK, Forget

(* Every call on every view keeps the types of the storage: raw keys are   *)
(* bytes, and stored values of the types of the views.                     *)
THEOREM ViewsTypeCorrect == Spec => []TypeOK
<1>1. Init => TypeOK
  BY DEF Init, TypeOK
<1>2. TypeOK /\ [Next]_vars => TypeOK'
  <2> SUFFICES ASSUME TypeOK, [Next]_vars  PROVE TypeOK'
    OBVIOUS
  <2>1. ASSUME NEW v \in Views, NEW k \in KeysOf(v), NEW value \in Values(v.type), Save(v, k, value)
        PROVE  TypeOK'
    <3>1. v \in Readable
      BY <2>1 DEF Save, Readable
    <3> QED  BY <2>1, <3>1, PutTypes, ForgetTypes DEF Save, TypeOK
  <2>2. ASSUME NEW v \in Scripts, ScriptFails(v)  PROVE TypeOK'
    BY <2>2 DEF ScriptFails, TypeOK
  <2>3. ASSUME NEW v \in Removable, NEW k \in KeysOf(v), Remove(v, k)  PROVE TypeOK'
    <3>1. issued' \in [Counters -> SUBSET (0 .. MaxCounter)]
      BY <2>3, ForgetTypes DEF Remove
    <3> QED  BY <2>3, <3>1 DEF Remove, TypeOK
  <2>4. ASSUME NEW v \in Updatable, NEW k \in KeysOf(v), UpdateLoadFails(v, k)  PROVE TypeOK'
    <3>1. MayLoad(v, k).result \in {"parse_err", "absent"}
      BY <2>4 DEF UpdateLoadFails
    <3> QED  BY <2>4, <3>1 DEF UpdateLoadFails, TypeOK
  <2>5. ASSUME NEW v \in Updatable, NEW k \in KeysOf(v), UpdateFails(v, k)  PROVE TypeOK'
    BY <2>5 DEF UpdateFails, TypeOK
  <2>6. ASSUME NEW v \in Updatable, NEW k \in KeysOf(v), NEW value \in Values(v.type), Update(v, k, value)
        PROVE  TypeOK'
    <3>1. v \in Readable
      BY DEF Updatable, Readable, Buckets, Singles, Typed, Scripts
    <3> QED  BY <2>6, <3>1, PutTypes, ForgetTypes DEF Update, TypeOK
  <2>7. ASSUME NEW v \in Counters, Nextval(v)  PROVE TypeOK'
    <3> DEFINE cur  == Currval(v)
               next == [type |-> "u64", content |-> (cur + 1) % (MaxCounter + 1)]
    <3>1. /\ cur \in 0 .. MaxCounter
          /\ (cur + 1) % (MaxCounter + 1) \in 0 .. MaxCounter
          /\ 0 \in 0 .. MaxCounter /\ (cur # MaxCounter => cur + 1 \in 0 .. MaxCounter)
      <4>1. cur \in 0 .. MaxCounter
        BY <2>7, CounterReads DEF Nextval
      <4> HIDE DEF cur
      <4> QED  BY <4>1, WrapIs, MaxCounterAssumption
    <3>2. v \in Readable /\ v.type = "u64" /\ <<>> \in KeysOf(v)
      BY ViewsAssumption DEF Counters, Readable, Scripts, KeysOf, Singles
    <3>3. next \in Values(v.type)
      BY <3>1, <3>2 DEF Values, Contents
    <3>4. Put(Raw(v, <<>>), next)
      BY <2>7 DEF Nextval
    <3>5. issued' \in [Counters -> SUBSET (0 .. MaxCounter)]
      <4>1. issued' = [issued EXCEPT ![v] = IF cur = MaxCounter THEN {0} ELSE @ \cup {cur + 1}]
        BY <2>7 DEF Nextval
      <4> HIDE DEF cur, next
      <4> QED  BY <3>1, <4>1 DEF TypeOK
    <3> HIDE DEF next
    <3>6. reply' = "ok"
      BY <2>7 DEF Nextval
    <3> QED  BY <3>2, <3>3, <3>4, <3>5, <3>6, PutTypes DEF TypeOK
  <2>8. ASSUME NEW v \in Counters, NextvalPanics(v) \/ NextvalFails(v)  PROVE TypeOK'
    BY <2>8 DEF NextvalPanics, NextvalFails, TypeOK
  <2>9. CASE UNCHANGED vars
    BY <2>9 DEF vars, TypeOK
  <2> QED  BY <2>1, <2>2, <2>3, <2>4, <2>5, <2>6, <2>7, <2>8, <2>9 DEF Next
<1> QED  BY <1>1, <1>2, PTL DEF Spec

-----------------------------------------------------------------------------
(* What a step may change: what is stored under one raw key.               *)

Touches(v, k) ==
  \A r : r # Raw(v, k) => /\ r \in DOMAIN data' <=> r \in DOMAIN data
                          /\ r \in DOMAIN data => data'[r] = data[r]

(* A set does.                                                             *)
LEMMA PutTouches ==
  ASSUME NEW v, NEW k, NEW value, Put(Raw(v, k), value)
  PROVE  Touches(v, k)
<1> DEFINE raw == Raw(v, k)
<1>1. data' = [r \in DOMAIN data \cup {raw} |-> IF r = raw THEN value ELSE data[r]]
  BY DEF Put
<1> HIDE DEF raw
<1>2. \A r : r # raw => /\ r \in DOMAIN data' <=> r \in DOMAIN data
                        /\ r \in DOMAIN data => data'[r] = data[r]
  BY <1>1
<1> QED  BY <1>2 DEF Touches, raw

(* A remove does.                                                          *)
LEMMA RemoveTouches ==
  ASSUME NEW v, NEW k, Remove(v, k)
  PROVE  Touches(v, k)
<1> DEFINE raw == Raw(v, k)
<1>1. data' = [r \in DOMAIN data \ {raw} |-> data[r]]
  BY DEF Remove
<1> HIDE DEF raw
<1>2. \A r : r # raw => /\ r \in DOMAIN data' <=> r \in DOMAIN data
                        /\ r \in DOMAIN data => data'[r] = data[r]
  BY <1>1
<1> QED  BY <1>2 DEF Touches, raw

(* A step leaves the storage and the sequences as they are, or is a        *)
(* nextval, or touches one raw key and forgets what it may overwrite.      *)
LEMMA StepTouches ==
  ASSUME [Next]_vars
  PROVE  \/ UNCHANGED <<data, issued>>
         \/ \E v \in Counters : Nextval(v) /\ Touches(v, <<>>)
         \/ \E v \in Readable : \E k \in KeysOf(v) : Touches(v, k) /\ Forget(v, k)
<1>1. ASSUME NEW v \in Views, NEW k \in KeysOf(v), NEW value \in Values(v.type), Save(v, k, value)
      PROVE  \E w \in Readable : \E l \in KeysOf(w) : Touches(w, l) /\ Forget(w, l)
  <2>1. v \in Readable
    BY <1>1 DEF Save, Readable
  <2>2. Touches(v, k) /\ Forget(v, k)
    BY <1>1, PutTouches DEF Save
  <2> QED  BY <2>1, <2>2
<1>2. ASSUME NEW v \in Removable, NEW k \in KeysOf(v), Remove(v, k)
      PROVE  \E w \in Readable : \E l \in KeysOf(w) : Touches(w, l) /\ Forget(w, l)
  <2>1. v \in Readable
    BY DEF Removable, Readable, Buckets, Singles, Prefixed, Scripts
  <2>2. Touches(v, k) /\ Forget(v, k)
    BY <1>2, RemoveTouches DEF Remove
  <2> QED  BY <2>1, <2>2
<1>3. ASSUME NEW v \in Updatable, NEW k \in KeysOf(v), NEW value \in Values(v.type), Update(v, k, value)
      PROVE  \E w \in Readable : \E l \in KeysOf(w) : Touches(w, l) /\ Forget(w, l)
  <2>1. v \in Readable
    BY DEF Updatable, Readable, Buckets, Singles, Typed, Scripts
  <2>2. Touches(v, k) /\ Forget(v, k)
    BY <1>3, PutTouches DEF Update
  <2> QED  BY <2>1, <2>2
<1>4. ASSUME NEW v \in Counters, Nextval(v)
      PROVE  Nextval(v) /\ Touches(v, <<>>)
  BY <1>4, PutTouches DEF Nextval
<1>5. ASSUME NEW v \in Scripts, ScriptFails(v)
      PROVE  UNCHANGED <<data, issued>>
  BY <1>5 DEF ScriptFails
<1>6. ASSUME NEW v \in Updatable, NEW k \in KeysOf(v), UpdateLoadFails(v, k) \/ UpdateFails(v, k)
      PROVE  UNCHANGED <<data, issued>>
  BY <1>6 DEF UpdateLoadFails, UpdateFails
<1>7. ASSUME NEW v \in Counters, NextvalPanics(v) \/ NextvalFails(v)
      PROVE  UNCHANGED <<data, issued>>
  BY <1>7 DEF NextvalPanics, NextvalFails
<1>8. CASE UNCHANGED vars
  BY <1>8 DEF vars
<1> QED  BY <1>1, <1>2, <1>3, <1>4, <1>5, <1>6, <1>7, <1>8 DEF Next

(* A sequence of numbers is a view with one key.                           *)
LEMMA CounterIs ==
  ASSUME NEW v \in Counters
  PROVE  v \in Readable /\ v \in Views /\ v.type = "u64" /\ <<>> \in KeysOf(v)
BY ViewsAssumption DEF Counters, Readable, Scripts, KeysOf, Singles

(* What is stored under a raw key that is not touched is read as before.   *)
LEMMA UntouchedReads ==
  ASSUME NEW v, NEW k, NEW w, NEW l, Touches(v, k), Raw(w, l) # Raw(v, k)
  PROVE  MayLoad(w, l)' = MayLoad(w, l)
<1>1. /\ Raw(w, l) \in DOMAIN data' <=> Raw(w, l) \in DOMAIN data
      /\ Raw(w, l) \in DOMAIN data => data'[Raw(w, l)] = data[Raw(w, l)]
  BY DEF Touches
<1>2. MayLoad(w, l)' = IF Raw(w, l) \in DOMAIN data' THEN Parse(w.type, data'[Raw(w, l)]) ELSE [result |-> "absent"]
  BY DEF MayLoad, Has, Raw, Prefix, Prefixes, Parse
<1>3. MayLoad(w, l) = IF Raw(w, l) \in DOMAIN data THEN Parse(w.type, data[Raw(w, l)]) ELSE [result |-> "absent"]
  BY DEF MayLoad, Has
<1> QED  BY <1>1, <1>2, <1>3

(* CounterRemembers of one sequence.                                       *)
Remembered(v) ==
  issued[v] # {} =>
    /\ Raw(v, <<>>) \in DOMAIN data /\ data[Raw(v, <<>>)].type = "u64"
    /\ \A n \in issued[v] : n <= data[Raw(v, <<>>)].content

(* However many views there are on the storage: the number nextval gives   *)
(* out next is greater than all it gave out since the sequence began anew  *)
(* at u64::MAX, or was removed or overwritten by a view that has it in its *)
(* space, or by a script whose path may read like its key.                 *)
THEOREM SequencesRemember == Spec => []CounterRemembers
<1> DEFINE Remember == \A v \in Counters : Remembered(v)
<1>1. Remember <=> CounterRemembers
  BY DEF CounterRemembers, Remembered, Has
<1>2. Init => Remember
  BY DEF Init, Remembered
<1>3. TypeOK /\ Remember /\ [Next]_vars => Remember'
  <2> SUFFICES ASSUME TypeOK, Remember, [Next]_vars, NEW c \in Counters  PROVE Remembered(c)'
    OBVIOUS
  <2> DEFINE raw == Raw(c, <<>>)
  <2>1. SUFFICES ASSUME issued'[c] # {}
                 PROVE  /\ raw \in DOMAIN data' /\ data'[raw].type = "u64"
                        /\ \A n \in issued'[c] : n <= data'[raw].content
    BY DEF Remembered, Raw, Prefix, Prefixes
  <2>2. c \in Readable /\ <<>> \in KeysOf(c) /\ Remembered(c)
    BY CounterIs
  <2>3. ASSUME raw \in DOMAIN data' <=> raw \in DOMAIN data,
               raw \in DOMAIN data => data'[raw] = data[raw],
               issued'[c] = issued[c]
        PROVE  /\ raw \in DOMAIN data' /\ data'[raw].type = "u64"
               /\ \A n \in issued'[c] : n <= data'[raw].content
    BY <2>1, <2>2, <2>3 DEF Remembered
  <2>4. CASE UNCHANGED <<data, issued>>
    BY <2>3, <2>4
  <2>5. ASSUME NEW v \in Readable, NEW k \in KeysOf(v), Touches(v, k), Forget(v, k)
        PROVE  /\ raw \in DOMAIN data' /\ data'[raw].type = "u64"
               /\ \A n \in issued'[c] : n <= data'[raw].content
    <3>1. issued'[c] = IF Related(v, c) /\ Raw(v, k) = raw THEN {} ELSE issued[c]
      BY <2>5 DEF Forget
    <3>2. Raw(v, k) # raw
      BY <2>1, <2>2, <3>1, RawKeysTell
    <3>3. issued'[c] = issued[c]
      BY <3>1, <3>2
    <3> HIDE DEF raw
    <3> QED  BY <2>3, <2>5, <3>2, <3>3 DEF Touches
  <2>6. ASSUME NEW v \in Counters, Nextval(v), Touches(v, <<>>)
        PROVE  /\ raw \in DOMAIN data' /\ data'[raw].type = "u64"
               /\ \A n \in issued'[c] : n <= data'[raw].content
    <3>1. CASE v # c
      <4>1. issued'[c] = issued[c]
        BY <2>6, <3>1 DEF Nextval, TypeOK
      <4>2. Raw(v, <<>>) # raw
        BY <3>1, CountersTell
      <4> HIDE DEF raw
      <4> QED  BY <2>3, <2>6, <4>1, <4>2 DEF Touches
    <3>2. CASE v = c
      <4> DEFINE cur  == Currval(c)
                 next == [type |-> "u64", content |-> (cur + 1) % (MaxCounter + 1)]
      <4>1. cur \in 0 .. MaxCounter /\ (Has(c, <<>>) => data[raw].type = "u64")
        BY <2>6, <3>2, CounterReads DEF Nextval
      <4>2. /\ data' = [r \in DOMAIN data \cup {raw} |-> IF r = raw THEN next ELSE data[r]]
            /\ issued' = [issued EXCEPT ![c] = IF cur = MaxCounter THEN {0} ELSE @ \cup {cur + 1}]
        BY <2>6, <3>2 DEF Nextval, Put
      <4>3. \A n \in issued[c] : n \in Nat /\ n <= cur
        <5> SUFFICES ASSUME NEW n \in issued[c]  PROVE n \in Nat /\ n <= cur
          OBVIOUS
        <5>1. n \in 0 .. MaxCounter
          BY DEF TypeOK
        <5>2. raw \in DOMAIN data /\ n <= data[raw].content
          BY <2>2 DEF Remembered
        <5>3. cur = data[raw].content
          BY <5>2 DEF Currval, Has
        <5> QED  BY <5>1, <5>2, <5>3, MaxCounterAssumption
      <4>4. issued'[c] = IF cur = MaxCounter THEN {0} ELSE issued[c] \cup {cur + 1}
        <5> HIDE DEF cur
        <5> QED  BY <4>2 DEF TypeOK
      <4> HIDE DEF cur, raw
      <4>5. (cur + 1) % (MaxCounter + 1) = IF cur = MaxCounter THEN 0 ELSE cur + 1
        BY <4>1, WrapIs
      <4>6. raw \in DOMAIN data' /\ data'[raw].type = "u64"
            /\ data'[raw].content = IF cur = MaxCounter THEN 0 ELSE cur + 1
        BY <4>2, <4>5
      <4> QED  BY <4>1, <4>3, <4>4, <4>6
    <3> QED  BY <3>1, <3>2
  <2> QED  BY <2>4, <2>5, <2>6, StepTouches
<1> QED  BY <1>1, <1>2, <1>3, ViewsTypeCorrect, PTL DEF Spec

(* However the views are named and whatever the keys: a call on one view   *)
(* changes no answer of a view that is not related to it.  Scripts are     *)
(* related if a part of a path is empty or has a dot, and to other views   *)
(* if the path has a zero or the length of the first name has none.        *)
THEOREM ViewsApart == Spec => Isolation
<1> DEFINE Changed   == {v \in Readable : \E k \in KeysOf(v) : MayLoad(v, k)' # MayLoad(v, k)}
           Separate  == \A v, w \in Changed : Related(v, w)
<1>1. [Next]_vars => Separate
  <2> SUFFICES ASSUME [Next]_vars, NEW v \in Changed, NEW w \in Changed  PROVE Related(v, w)
    OBVIOUS
  <2>1. PICK k \in KeysOf(v) : MayLoad(v, k)' # MayLoad(v, k)
    OBVIOUS
  <2>2. PICK l \in KeysOf(w) : MayLoad(w, l)' # MayLoad(w, l)
    OBVIOUS
  <2>3. v \in Readable /\ w \in Readable
    OBVIOUS
  <2> HIDE DEF Changed
  <2>4. PICK u, j : Touches(u, j)
    <3>1. ~ UNCHANGED <<data, issued>>
      BY <2>1 DEF MayLoad, Has, Raw, Prefix, Prefixes, Parse
    <3> QED  BY <3>1, StepTouches
  <2>5. Raw(v, k) = Raw(u, j) /\ Raw(w, l) = Raw(u, j)
    BY <2>1, <2>2, <2>4, UntouchedReads
  <2> QED  BY <2>3, <2>5, RawKeysTell
<1>2. Separate <=> LET changed == {v \in Readable : \E k \in KeysOf(v) : MayLoad(v, k)' # MayLoad(v, k)}
                   IN  \A v, w \in changed : Related(v, w)
  OBVIOUS
<1> QED  BY <1>1, <1>2, PTL DEF Spec, Isolation

-----------------------------------------------------------------------------
(* The order of raw keys.                                                  *)

(* Bytes are numbers up to the greatest.                                   *)
LEMMA ByteIs ==
  /\ Radix \in Nat /\ Radix >= 2
  /\ \A s \in Seq(Bytes) : /\ Len(s) \in Nat
                           /\ \A i \in 1 .. Len(s) : s[i] \in Nat /\ s[i] <= MaxByte
<1>1. \A b \in Bytes : b \in Nat /\ b <= MaxByte
  BY RadixAssumption DEF Bytes, MaxByte
<1>2. \A s \in Seq(Bytes) : Len(s) \in Nat /\ \A i \in 1 .. Len(s) : s[i] \in Bytes
  BY LenProperties, ElementOfSeq
<1> QED  BY <1>1, <1>2, RadixAssumption

(* The bytes of a prefix and a key.                                        *)
LEMMA ConcatIs ==
  ASSUME NEW p \in Seq(Bytes), NEW a \in Seq(Bytes)
  PROVE  /\ Len(Concat(p, a)) = Len(p) + Len(a)
         /\ \A i \in 1 .. Len(p) : Concat(p, a)[i] = p[i]
         /\ \A i \in 1 .. Len(a) : Concat(p, a)[Len(p) + i] = a[i]
<1> DEFINE w == Concat(p, a)
<1>1. Len(p) \in Nat /\ Len(a) \in Nat
  BY LenProperties
<1>2. /\ Len(w) = Len(p) + Len(a)
      /\ \A i \in 1 .. Len(p) + Len(a) : w[i] = IF i <= Len(p) THEN p[i] ELSE a[i - Len(p)]
  BY ConcatProperties DEF Concat
<1> HIDE DEF w
<1>3. \A i \in 1 .. Len(p) : w[i] = p[i]
  <2> TAKE i \in 1 .. Len(p)
  <2>1. i \in 1 .. Len(p) + Len(a) /\ i <= Len(p)
    BY <1>1
  <2> QED  BY <1>2, <2>1
<1>4. \A i \in 1 .. Len(a) : w[Len(p) + i] = a[i]
  <2> TAKE i \in 1 .. Len(a)
  <2>1. Len(p) + i \in 1 .. Len(p) + Len(a) /\ ~ (Len(p) + i <= Len(p)) /\ (Len(p) + i) - Len(p) = i
    BY <1>1
  <2> QED  BY <1>2, <2>1
<1> QED  BY <1>2, <1>3, <1>4 DEF w

(* Keys behind one prefix are in the order of the keys.                    *)
LEMMA LexBehind ==
  ASSUME NEW p \in Seq(Bytes), NEW a \in Seq(Bytes), NEW b \in Seq(Bytes)
  PROVE  LexLess(Concat(p, a), Concat(p, b)) <=> LexLess(a, b)
<1> DEFINE x == Concat(p, a)
           y == Concat(p, b)
<1>1. /\ Len(p) \in Nat /\ Len(a) \in Nat /\ Len(b) \in Nat
      /\ \A i \in 1 .. Len(p) : p[i] \in Nat
      /\ \A i \in 1 .. Len(a) : a[i] \in Nat
      /\ \A i \in 1 .. Len(b) : b[i] \in Nat
  BY ByteIs
<1>2. /\ Len(x) = Len(p) + Len(a)
      /\ \A i \in 1 .. Len(p) : x[i] = p[i]
      /\ \A i \in 1 .. Len(a) : x[Len(p) + i] = a[i]
  BY ConcatIs
<1>3. /\ Len(y) = Len(p) + Len(b)
      /\ \A i \in 1 .. Len(p) : y[i] = p[i]
      /\ \A i \in 1 .. Len(b) : y[Len(p) + i] = b[i]
  BY ConcatIs
<1> HIDE DEF x, y
<1>4. ASSUME LexLess(x, y)  PROVE LexLess(a, b)
  <2>1. PICK n \in 0 .. Len(x) : /\ n < Len(y)
                                 /\ \A i \in 1 .. n : x[i] = y[i]
                                 /\ n < Len(x) => x[n + 1] < y[n + 1]
    BY <1>4 DEF LexLess
  <2>2. n >= Len(p)
    <3> SUFFICES ASSUME n < Len(p)  PROVE FALSE
      BY <1>1, <1>2
    <3>1. n + 1 \in 1 .. Len(p) /\ n < Len(x)
      BY <1>1, <1>2
    <3>2. x[n + 1] = p[n + 1] /\ y[n + 1] = p[n + 1] /\ p[n + 1] \in Nat
      BY <1>1, <1>2, <1>3, <3>1
    <3> QED  BY <2>1, <3>1, <3>2
  <2> DEFINE m == n - Len(p)
  <2>3. m \in 0 .. Len(a) /\ m < Len(b) /\ n = Len(p) + m
    BY <1>1, <1>2, <1>3, <2>1, <2>2
  <2>4. \A i \in 1 .. m : a[i] = b[i]
    <3> TAKE i \in 1 .. m
    <3>1. i \in 1 .. Len(a) /\ i \in 1 .. Len(b) /\ Len(p) + i \in 1 .. n
      BY <1>1, <2>3
    <3> QED  BY <1>2, <1>3, <2>1, <3>1
  <2>5. ASSUME m < Len(a)  PROVE a[m + 1] < b[m + 1]
    <3>1. m + 1 \in 1 .. Len(a) /\ m + 1 \in 1 .. Len(b) /\ Len(p) + (m + 1) = n + 1 /\ n < Len(x)
      BY <1>1, <1>2, <2>3, <2>5
    <3>2. x[n + 1] = a[m + 1] /\ y[n + 1] = b[m + 1]
      BY <1>2, <1>3, <3>1
    <3> QED  BY <2>1, <3>1, <3>2
  <2> HIDE DEF m
  <2> QED  BY <2>3, <2>4, <2>5 DEF LexLess
<1>5. ASSUME LexLess(a, b)  PROVE LexLess(x, y)
  <2>1. PICK m \in 0 .. Len(a) : /\ m < Len(b)
                                 /\ \A i \in 1 .. m : a[i] = b[i]
                                 /\ m < Len(a) => a[m + 1] < b[m + 1]
    BY <1>5 DEF LexLess
  <2> DEFINE n == Len(p) + m
  <2>2. n \in 0 .. Len(x) /\ n < Len(y)
    BY <1>1, <1>2, <1>3, <2>1
  <2>3. \A i \in 1 .. n : x[i] = y[i]
    <3> TAKE i \in 1 .. n
    <3>1. CASE i <= Len(p)
      <4>1. i \in 1 .. Len(p)
        BY <1>1, <3>1
      <4> QED  BY <1>2, <1>3, <4>1
    <3>2. CASE i > Len(p)
      <4> DEFINE j == i - Len(p)
      <4>1. j \in 1 .. m /\ j \in 1 .. Len(a) /\ j \in 1 .. Len(b) /\ Len(p) + j = i
        BY <1>1, <2>1, <3>2
      <4> HIDE DEF j
      <4> QED  BY <1>2, <1>3, <2>1, <4>1
    <3> QED  BY <1>1, <3>1, <3>2
  <2>4. ASSUME n < Len(x)  PROVE x[n + 1] < y[n + 1]
    <3>1. m + 1 \in 1 .. Len(a) /\ m + 1 \in 1 .. Len(b) /\ Len(p) + (m + 1) = n + 1 /\ m < Len(a)
      BY <1>1, <1>2, <2>1, <2>4
    <3>2. x[n + 1] = a[m + 1] /\ y[n + 1] = b[m + 1]
      BY <1>2, <1>3, <3>1
    <3> QED  BY <2>1, <3>1, <3>2
  <2> HIDE DEF n
  <2> QED  BY <2>2, <2>3, <2>4 DEF LexLess
<1> QED  BY <1>4, <1>5 DEF x, y

(* No key behind a prefix is less than the prefix.                         *)
LEMMA LexPrefix ==
  ASSUME NEW p \in Seq(Bytes), NEW a \in Seq(Bytes)
  PROVE  ~ LexLess(Concat(p, a), p)
<1>1. <<>> \in Seq(Bytes) /\ Len(<<>>) = 0
  BY EmptySeq
<1>2. ~ LexLess(a, <<>>)
  <2>1. Len(a) \in Nat
    BY LenProperties
  <2> QED  BY <1>1, <2>1 DEF LexLess
<1>3. Concat(p, <<>>) = p
  BY BytesEmpty
<1>4. LexLess(Concat(p, a), Concat(p, <<>>)) <=> LexLess(a, <<>>)
  BY <1>1, LexBehind
<1> QED  BY <1>2, <1>3, <1>4

(* A raw key that is no less than one behind a prefix has the prefix too,  *)
(* or is greater than it at some byte.                                     *)
LEMMA LexFirst ==
  ASSUME NEW p \in Seq(Bytes), NEW s \in Seq(Bytes), NEW raw \in Seq(Bytes),
         ~ LexLess(raw, Concat(p, s))
  PROVE  \/ Seqs!IsPrefix(p, raw)
         \/ \E n \in 0 .. Len(p) - 1 : /\ n < Len(raw)
                                       /\ \A i \in 1 .. n : raw[i] = p[i]
                                       /\ raw[n + 1] > p[n + 1]
<1> DEFINE x == Concat(p, s)
           Greater == \E n \in 0 .. Len(p) - 1 : /\ n < Len(raw)
                                                 /\ \A i \in 1 .. n : raw[i] = p[i]
                                                 /\ raw[n + 1] > p[n + 1]
           G == {m \in 0 .. Len(p) : m <= Len(raw) /\ \A i \in 1 .. m : raw[i] = p[i]}
<1> SUFFICES ASSUME ~ Greater  PROVE Seqs!IsPrefix(p, raw)
  OBVIOUS
<1>1. /\ Len(p) \in Nat /\ Len(raw) \in Nat /\ Len(s) \in Nat
      /\ \A i \in 1 .. Len(p) : p[i] \in Nat
      /\ \A i \in 1 .. Len(raw) : raw[i] \in Nat
  BY ByteIs
<1>2. Len(x) = Len(p) + Len(s) /\ \A i \in 1 .. Len(p) : x[i] = p[i]
  BY ConcatIs
<1>3. ~ LexLess(raw, x)
  OBVIOUS
<1> HIDE DEF x
<1>4. 0 \in G
  BY <1>1
<1>5. \A m \in 0 .. Len(p) : m + 1 \in 0 .. Len(p) /\ m \in G => m + 1 \in G
  <2> TAKE m \in 0 .. Len(p)
  <2> HAVE m + 1 \in 0 .. Len(p) /\ m \in G
  <2>1. m <= Len(raw) /\ \A i \in 1 .. m : raw[i] = p[i]
    OBVIOUS
  <2>2. m + 1 \in 1 .. Len(p) /\ m \in 0 .. Len(p) - 1 /\ m \in 0 .. Len(raw) /\ m < Len(x)
    BY <1>1, <1>2, <2>1
  <2>3. \A i \in 1 .. m : raw[i] = x[i]
    <3> TAKE i \in 1 .. m
    <3>1. i \in 1 .. Len(p)
      BY <1>1, <2>2
    <3> QED  BY <1>2, <2>1, <3>1
  <2>4. m < Len(raw) /\ ~ (raw[m + 1] < p[m + 1])
    <3>1. ~ (m < Len(raw) => raw[m + 1] < x[m + 1])
      BY <1>3, <2>2, <2>3 DEF LexLess
    <3> QED  BY <1>2, <2>2, <3>1
  <2>5. ~ (raw[m + 1] > p[m + 1])
    BY <2>1, <2>2, <2>4
  <2>6. raw[m + 1] = p[m + 1]
    <3>1. m + 1 \in 1 .. Len(raw)
      BY <1>1, <2>2, <2>4
    <3>2. raw[m + 1] \in Nat /\ p[m + 1] \in Nat
      BY <1>1, <2>2, <3>1
    <3> QED  BY <2>4, <2>5, <3>2
  <2>7. \A i \in 1 .. m + 1 : raw[i] = p[i]
    <3>1. \A i \in 1 .. m + 1 : i = m + 1 \/ i \in 1 .. m
      OBVIOUS
    <3> QED  BY <2>1, <2>6, <3>1
  <2>8. m + 1 <= Len(raw)
    BY <1>1, <2>2, <2>4
  <2> QED  BY <2>7, <2>8
<1>6. Len(p) <= Len(raw) /\ \A i \in 1 .. Len(p) : raw[i] = p[i]
  <2> HIDE DEF G
  <2>1. \A m \in 0 .. Len(p) : m \in G
    BY <1>1, <1>4, <1>5, UpTo
  <2> QED  BY <1>1, <2>1 DEF G
<1> QED  BY <1>6, PrefixIs

(* What is between two keys behind a prefix is behind the prefix.          *)
LEMMA LexBetween ==
  ASSUME NEW p \in Seq(Bytes), NEW s \in Seq(Bytes), NEW e \in Seq(Bytes), NEW raw \in Seq(Bytes),
         ~ LexLess(raw, Concat(p, s)), LexLess(raw, Concat(p, e))
  PROVE  Seqs!IsPrefix(p, raw)
<1> DEFINE y == Concat(p, e)
<1>1. /\ Len(p) \in Nat /\ Len(raw) \in Nat /\ Len(e) \in Nat
      /\ \A i \in 1 .. Len(p) : p[i] \in Nat
      /\ \A i \in 1 .. Len(raw) : raw[i] \in Nat
  BY ByteIs
<1>2. Len(y) = Len(p) + Len(e) /\ \A i \in 1 .. Len(p) : y[i] = p[i]
  BY ConcatIs
<1>3. PICK m \in 0 .. Len(raw) : /\ m < Len(y)
                                 /\ \A i \in 1 .. m : raw[i] = y[i]
                                 /\ m < Len(raw) => raw[m + 1] < y[m + 1]
  BY DEF LexLess
<1> HIDE DEF y
<1>4. ASSUME NEW n \in 0 .. Len(p) - 1, n < Len(raw),
             \A i \in 1 .. n : raw[i] = p[i], raw[n + 1] > p[n + 1]
      PROVE  FALSE
  <2>1. n + 1 \in 1 .. Len(p) /\ n + 1 \in 1 .. Len(raw) /\ p[n + 1] \in Nat /\ raw[n + 1] \in Nat
    BY <1>1, <1>4
  <2>2. m >= n + 1 => raw[n + 1] = p[n + 1]
    BY <1>2, <1>3, <2>1
  <2>3. m <= n
    BY <1>3, <1>4, <2>1, <2>2
  <2>4. m < Len(raw) /\ m + 1 \in 1 .. Len(p)
    BY <1>1, <1>4, <2>3
  <2>5. raw[m + 1] < p[m + 1] /\ p[m + 1] \in Nat
    BY <1>1, <1>2, <1>3, <2>4
  <2>6. CASE m = n
    BY <1>4, <2>1, <2>5, <2>6
  <2>7. CASE m < n
    <3>1. m + 1 \in 1 .. n
      BY <2>7
    <3> QED  BY <1>4, <2>5, <3>1
  <2> QED  BY <2>3, <2>6, <2>7
<1> QED  BY <1>4, LexFirst

(* The upper bound of a prefix that is not all of the greatest byte: one   *)
(* is added to the last byte that is not, and those after it become zeros. *)
LEMMA UpperIs ==
  ASSUME NEW p \in Seq(Bytes), ~ AllMax(p)
  PROVE  LET upper == NamespaceUpperBound(p)
         IN  /\ upper \in Seq(Bytes) /\ Len(upper) = Len(p)
             /\ \E last \in 1 .. Len(p) :
                  /\ p[last] # MaxByte /\ upper[last] = p[last] + 1
                  /\ \A i \in 1 .. last - 1 : upper[i] = p[i]
                  /\ \A i \in last + 1 .. Len(p) : p[i] = MaxByte /\ upper[i] = 0
<1> DEFINE upper   == NamespaceUpperBound(p)
           After(i) == \A j \in i + 1 .. Len(p) : p[j] = MaxByte
<1>1. /\ Len(p) \in Nat /\ DOMAIN p = 1 .. Len(p)
      /\ \A i \in 1 .. Len(p) : p[i] \in Bytes /\ p[i] \in Nat /\ p[i] <= MaxByte
  BY ByteIs, LenProperties, ElementOfSeq
<1>2. Radix \in Nat /\ Radix >= 2 /\ MaxByte = Radix - 1 /\ Bytes = 0 .. Radix - 1
  BY RadixAssumption DEF MaxByte, Bytes
<1>3. upper = [i \in 1 .. Len(p) |-> IF After(i) THEN (p[i] + 1) % Radix ELSE p[i]]
  BY <1>1 DEF NamespaceUpperBound
<1>4. \A i \in 1 .. Len(p) : (p[i] + 1) % Radix = IF p[i] = MaxByte THEN 0 ELSE p[i] + 1
  <2> TAKE i \in 1 .. Len(p)
  <2> DEFINE b == p[i]
  <2>1. b \in 0 .. Radix - 1
    BY <1>1, <1>2
  <2> HIDE DEF b
  <2>2. CASE b = MaxByte
    <3>1. b + 1 = Radix
      BY <1>2, <2>1, <2>2
    <3>2. Radix % Radix = 0
      BY <1>2
    <3> QED  BY <2>2, <3>1, <3>2 DEF b
  <2>3. CASE b # MaxByte
    <3>1. b + 1 \in 0 .. Radix - 1
      BY <1>2, <2>1, <2>3
    <3>2. (b + 1) % Radix = b + 1
      BY <1>2, <3>1
    <3> QED  BY <2>3, <3>2 DEF b
  <2> QED  BY <2>2, <2>3
<1> HIDE DEF upper
<1>5. upper \in Seq(Bytes) /\ Len(upper) = Len(p)
  <2>1. \A i \in 1 .. Len(p) : p[i] # MaxByte => p[i] + 1 \in Bytes
    BY <1>1, <1>2
  <2>2. 0 \in Bytes
    BY <1>2
  <2>3. \A i \in 1 .. Len(p) : (p[i] + 1) % Radix \in Bytes
    BY <1>4, <2>1, <2>2
  <2> HIDE DEF After
  <2>4. upper \in [1 .. Len(p) -> Bytes]
    BY <1>1, <1>3, <2>3
  <2> QED  BY <1>1, <2>4
<1>6. PICK last \in 1 .. Len(p) : p[last] # MaxByte /\ After(last)
  <2> SUFFICES ASSUME \A i \in 1 .. Len(p) : After(i) => p[i] = MaxByte  PROVE FALSE
    OBVIOUS
  <2> DEFINE G == {m \in 0 .. Len(p) : After(Len(p) - m)}
  <2>1. 0 \in G
    BY <1>1
  <2>2. \A m \in 0 .. Len(p) : m + 1 \in 0 .. Len(p) /\ m \in G => m + 1 \in G
    <3> TAKE m \in 0 .. Len(p)
    <3> HAVE m + 1 \in 0 .. Len(p) /\ m \in G
    <3> DEFINE i == Len(p) - m
    <3>1. i \in 1 .. Len(p) /\ Len(p) - (m + 1) = i - 1 /\ (i - 1) + 1 = i
      BY <1>1
    <3>2. After(i)
      OBVIOUS
    <3> HIDE DEF i
    <3>3. p[i] = MaxByte
      BY <3>1, <3>2
    <3>4. \A j \in (i - 1) + 1 .. Len(p) : j = i \/ j \in i + 1 .. Len(p)
      BY <1>1, <3>1
    <3>5. After(i - 1)
      BY <3>2, <3>3, <3>4
    <3>6. After(Len(p) - (m + 1))
      BY <3>1, <3>5
    <3> QED  BY <3>6
  <2>3. Len(p) \in G
    <3> HIDE DEF G
    <3>1. \A m \in 0 .. Len(p) : m \in G
      BY <1>1, <2>1, <2>2, UpTo
    <3> QED  BY <1>1, <3>1
  <2>4. \A j \in 1 .. Len(p) : p[j] = MaxByte
    BY <1>1, <2>3
  <2> QED  BY <1>1, <2>4 DEF AllMax
<1>7. upper[last] = p[last] + 1
  BY <1>3, <1>4, <1>6
<1>8. \A i \in 1 .. last - 1 : upper[i] = p[i]
  <2> TAKE i \in 1 .. last - 1
  <2>1. i \in 1 .. Len(p) /\ last \in i + 1 .. Len(p)
    BY <1>1
  <2>2. ~ After(i)
    BY <1>6, <2>1
  <2> HIDE DEF After
  <2> QED  BY <1>3, <2>1, <2>2
<1>9. \A i \in last + 1 .. Len(p) : p[i] = MaxByte /\ upper[i] = 0
  <2> TAKE i \in last + 1 .. Len(p)
  <2>1. p[i] = MaxByte
    BY <1>6
  <2>2. \A j \in i + 1 .. Len(p) : j \in last + 1 .. Len(p)
    BY <1>1
  <2>3. After(i) /\ i \in 1 .. Len(p)
    BY <1>1, <1>6, <2>2
  <2>4. upper[i] = (p[i] + 1) % Radix
    BY <1>3, <2>3
  <2> QED  BY <1>4, <2>1, <2>3, <2>4
<1>10. /\ p[last] # MaxByte /\ upper[last] = p[last] + 1
       /\ \A i \in 1 .. last - 1 : upper[i] = p[i]
       /\ \A i \in last + 1 .. Len(p) : p[i] = MaxByte /\ upper[i] = 0
  BY <1>6, <1>7, <1>8, <1>9
<1> QED  BY <1>5, <1>10 DEF upper

(* The keys behind a prefix are below its upper bound.                     *)
LEMMA LexBelowUpper ==
  ASSUME NEW p \in Seq(Bytes), NEW a \in Seq(Bytes), ~ AllMax(p)
  PROVE  LexLess(Concat(p, a), NamespaceUpperBound(p))
<1> DEFINE upper == NamespaceUpperBound(p)
           x     == Concat(p, a)
<1>1. PICK last \in 1 .. Len(p) : upper[last] = p[last] + 1 /\ \A i \in 1 .. last - 1 : upper[i] = p[i]
  BY UpperIs
<1>2. Len(upper) = Len(p)
  BY UpperIs
<1>3. /\ Len(p) \in Nat /\ Len(a) \in Nat
      /\ \A i \in 1 .. Len(p) : p[i] \in Nat
  BY ByteIs
<1>4. Len(x) = Len(p) + Len(a) /\ \A i \in 1 .. Len(p) : x[i] = p[i]
  BY ConcatIs
<1> HIDE DEF upper, x
<1> DEFINE n == last - 1
<1>5. n \in 0 .. Len(x) /\ n < Len(upper) /\ n < Len(x) /\ n + 1 = last
  BY <1>2, <1>3, <1>4
<1>6. \A i \in 1 .. n : x[i] = upper[i]
  BY <1>1, <1>3, <1>4
<1>7. x[n + 1] < upper[n + 1]
  BY <1>1, <1>3, <1>4, <1>5
<1> HIDE DEF n
<1>8. LexLess(x, upper)
  BY <1>5, <1>6, <1>7 DEF LexLess
<1> QED  BY <1>8 DEF x, upper

(* What is between a key behind a prefix and the prefix's upper bound is   *)
(* behind the prefix, or is the bound without some bytes at its end.       *)
LEMMA LexToUpper ==
  ASSUME NEW p \in Seq(Bytes), NEW s \in Seq(Bytes), NEW raw \in Seq(Bytes), ~ AllMax(p),
         ~ LexLess(raw, Concat(p, s)), LexLess(raw, NamespaceUpperBound(p))
  PROVE  LET upper == NamespaceUpperBound(p)
         IN  \/ Seqs!IsPrefix(p, raw)
             \/ Seqs!IsPrefix(raw, upper) /\ raw # upper /\ ~ LexLess(raw, p)
<1> DEFINE upper == NamespaceUpperBound(p)
<1>1. PICK last \in 1 .. Len(p) :
        /\ p[last] # MaxByte /\ upper[last] = p[last] + 1
        /\ \A i \in 1 .. last - 1 : upper[i] = p[i]
        /\ \A i \in last + 1 .. Len(p) : p[i] = MaxByte /\ upper[i] = 0
  BY UpperIs
<1>2. upper \in Seq(Bytes) /\ Len(upper) = Len(p)
  BY UpperIs
<1>3. /\ Len(p) \in Nat /\ Len(raw) \in Nat
      /\ \A i \in 1 .. Len(p) : p[i] \in Nat /\ p[i] <= MaxByte
      /\ \A i \in 1 .. Len(raw) : raw[i] \in Nat /\ raw[i] <= MaxByte
      /\ MaxByte \in Nat
  BY ByteIs DEF MaxByte
<1>4. PICK n \in 0 .. Len(raw) : /\ n < Len(upper)
                                 /\ \A i \in 1 .. n : raw[i] = upper[i]
                                 /\ n < Len(raw) => raw[n + 1] < upper[n + 1]
  BY DEF LexLess
<1> HIDE DEF upper
<1>5. CASE n >= last
  <2>1. n + 1 \in last + 1 .. Len(p)
    BY <1>2, <1>3, <1>4, <1>5
  <2>2. n = Len(raw)
    <3> SUFFICES ASSUME n < Len(raw)  PROVE FALSE
      BY <1>3
    <3>1. n + 1 \in 1 .. Len(raw)
      BY <1>3
    <3> QED  BY <1>1, <1>3, <1>4, <2>1, <3>1
  <2>3. Seqs!IsPrefix(raw, upper) /\ raw # upper
    <3>1. Len(raw) <= Len(upper) /\ \A i \in 1 .. Len(raw) : raw[i] = upper[i]
      BY <1>2, <1>3, <1>4, <2>2
    <3>2. raw # upper
      BY <1>2, <1>3, <1>4, <2>2
    <3> QED  BY <1>2, <3>1, <3>2, PrefixIs
  <2>4. ASSUME LexLess(raw, p)  PROVE FALSE
    <3>1. PICK m \in 0 .. Len(raw) : /\ m < Len(p)
                                     /\ \A i \in 1 .. m : raw[i] = p[i]
                                     /\ m < Len(raw) => raw[m + 1] < p[m + 1]
      BY <2>4 DEF LexLess
    <3>2. last \in 1 .. n /\ p[last] \in Nat
      BY <1>3, <1>5
    <3>3. raw[last] = p[last] + 1
      BY <1>1, <1>4, <3>2
    <3>4. m < last
      <4> SUFFICES ASSUME m >= last  PROVE FALSE
        OBVIOUS
      <4>1. last \in 1 .. m
        OBVIOUS
      <4> QED  BY <3>1, <3>2, <3>3, <4>1
    <3>5. m + 1 \in 1 .. n /\ m < Len(raw) /\ m + 1 \in 1 .. Len(p) /\ p[m + 1] \in Nat
      BY <1>3, <1>5, <2>2, <3>4
    <3>6. raw[m + 1] = upper[m + 1] /\ raw[m + 1] < p[m + 1]
      BY <1>4, <3>1, <3>5
    <3>7. CASE m + 1 = last
      BY <3>2, <3>3, <3>6, <3>7
    <3>8. CASE m + 1 # last
      <4>1. m + 1 \in 1 .. last - 1
        BY <3>4, <3>8
      <4> QED  BY <1>1, <3>5, <3>6, <4>1
    <3> QED  BY <3>7, <3>8
  <2> QED  BY <2>3, <2>4 DEF upper
<1>6. CASE n < last
  <2>1. ASSUME NEW d \in 0 .. Len(p) - 1, d < Len(raw),
               \A i \in 1 .. d : raw[i] = p[i], raw[d + 1] > p[d + 1]
        PROVE  FALSE
    <3>1. /\ d + 1 \in 1 .. Len(p) /\ d + 1 \in 1 .. Len(raw)
          /\ p[d + 1] \in Nat /\ raw[d + 1] \in Nat /\ raw[d + 1] <= MaxByte
      BY <1>3, <2>1
    <3>2. CASE d < n
      <4>1. d + 1 \in 1 .. n /\ d + 1 \in 1 .. last - 1
        BY <1>6, <3>2
      <4>2. raw[d + 1] = p[d + 1]
        BY <1>1, <1>4, <4>1
      <4> QED  BY <2>1, <3>1, <4>2
    <3>3. CASE d >= n
      <4>1. n < Len(raw) /\ n + 1 \in 1 .. Len(p) /\ n + 1 \in 1 .. Len(raw)
        BY <1>2, <1>3, <1>4, <2>1, <3>3
      <4>2. raw[n + 1] < upper[n + 1] /\ raw[n + 1] \in Nat /\ p[n + 1] \in Nat
        BY <1>3, <1>4, <4>1
      <4>3. CASE n + 1 < last
        <5>1. n + 1 \in 1 .. last - 1
          BY <4>3
        <5>2. raw[n + 1] < p[n + 1]
          BY <1>1, <4>2, <5>1
        <5>3. CASE d = n
          BY <2>1, <4>2, <5>2, <5>3
        <5>4. CASE d > n
          <6>1. n + 1 \in 1 .. d
            BY <5>4
          <6> QED  BY <2>1, <4>2, <5>2, <6>1
        <5> QED  BY <3>3, <5>3, <5>4
      <4>4. CASE n + 1 = last
        <5>1. raw[n + 1] < p[n + 1] + 1
          BY <1>1, <4>2, <4>4
        <5>2. CASE d = n
          BY <2>1, <4>2, <5>1, <5>2
        <5>3. CASE d > n
          <6>1. d + 1 \in last + 1 .. Len(p)
            BY <1>3, <2>1, <4>4, <5>3
          <6>2. p[d + 1] = MaxByte
            BY <1>1, <6>1
          <6> QED  BY <1>3, <2>1, <3>1, <6>2
        <5> QED  BY <3>3, <5>2, <5>3
      <4> QED  BY <1>6, <4>3, <4>4
    <3> QED  BY <3>2, <3>3
  <2>2. Seqs!IsPrefix(p, raw)
    BY <2>1, LexFirst
  <2> QED  BY <2>2
<1> QED  BY <1>5, <1>6

-----------------------------------------------------------------------------
(* Ranges.                                                                 *)

(* What has a range has keys and a prefix.                                 *)
LEMMA RangedIs ==
  ASSUME NEW v \in Ranged
  PROVE  v \in Views /\ v \in Readable /\ KeysOf(v) = Keys /\ Prefix(v) \in Seq(Bytes)
<1>1. v \in Views /\ v \in Readable /\ KeysOf(v) = Keys
  BY DEF Ranged, Readable, Buckets, Prefixed, Typed, Scripts, Singles, KeysOf
<1> QED  BY <1>1, PrefixBytes

(* The whole storage has no prefix.                                        *)
LEMMA TypedIs ==
  ASSUME NEW v \in Typed
  PROVE  Prefix(v) = <<>>
<1>1. v \in Views /\ v \notin Scripts /\ v.namespaces = <<>>
  BY ViewsAssumption DEF Typed, Scripts
<1>2. <<>> \in Names /\ Prefix(v) = ToLengthPrefixedNested(<<>>)
  BY <1>1, NamesOf
<1>3. PICK f : f[0] = <<>> /\ ToLengthPrefixedNested(<<>>) = f[Len(<<>>)]
  BY <1>2, NestedIs
<1>4. Len(<<>>) = 0
  BY EmptySeq
<1> QED  BY <1>2, <1>3, <1>4

(* A key of the space of a view, and its place among the bounds.           *)
Within(k, start, end) ==
  /\ start # NoBound => ~ LexLess(k, start)
  /\ end # NoBound => LexLess(k, end)

(* A range finds the raw keys behind the prefix that are within its bounds *)
(* behind it.                                                              *)
LEMMA FoundIs ==
  ASSUME TypeOK, NEW v \in Ranged, NEW start \in Keys \cup {NoBound}, NEW end \in Keys \cup {NoBound},
         \/ end # NoBound
         \/ v \in Typed
         \/ ~ AllMax(Prefix(v)) /\ Strays(Prefix(v)) = {},
         NEW raw \in DOMAIN data
  PROVE  raw \in Found(v, start, end) <=>
           Seqs!IsPrefix(Prefix(v), raw) /\ Within(Trim(Prefix(v), raw), start, end)
<1> DEFINE p    == Prefix(v)
           from == IF start = NoBound THEN p ELSE Raw(v, start)
           s    == IF start = NoBound THEN <<>> ELSE start
<1>1. raw \in Seq(Bytes) /\ p \in Seq(Bytes) /\ NoBound \notin Keys
  BY RangedIs, KeysAssumption DEF TypeOK
<1>2. \A k \in Keys : k \in Seq(Bytes) /\ Raw(v, k) = Concat(p, k)
  BY KeysAssumption DEF Raw
<1>3. s \in Seq(Bytes) /\ from = Concat(p, s)
  <2>1. <<>> \in Seq(Bytes) /\ Concat(p, <<>>) = p
    BY <1>1, BytesEmpty
  <2> QED  BY <1>2, <2>1
<1>4. raw \in Found(v, start, end) <=> ~ LexLess(raw, from) /\ Below(v, raw, end)
  BY DEF Found
<1>5. Below(v, raw, end) <=>
        IF end # NoBound THEN LexLess(raw, Concat(p, end))
        ELSE v \in Typed \/ LexLess(raw, NamespaceUpperBound(p))
  BY <1>2 DEF Below
<1>6. v \in Typed => p = <<>>
  BY TypedIs
<1>7. end = NoBound /\ v \notin Typed => ~ AllMax(p) /\ Strays(p) = {}
  OBVIOUS
<1> HIDE DEF from, p
<1>8. ASSUME Seqs!IsPrefix(p, raw)
      PROVE  raw \in Found(v, start, end) <=> Within(Trim(p, raw), start, end)
  <2> DEFINE k == Trim(p, raw)
  <2>1. k \in Seq(Bytes) /\ raw = Concat(p, k)
    BY <1>1, <1>8, ConcatTrim DEF Concat
  <2> HIDE DEF k
  <2>2. LexLess(raw, from) <=> (start # NoBound /\ LexLess(k, start))
    <3>1. LexLess(raw, from) <=> LexLess(k, s)
      BY <1>1, <1>3, <2>1, LexBehind
    <3>2. CASE start = NoBound
      <4>1. ~ LexLess(Concat(p, k), p)
        BY <1>1, <2>1, LexPrefix
      <4> QED  BY <2>1, <3>2, <4>1 DEF from
    <3>3. CASE start # NoBound
      BY <3>1, <3>3
    <3> QED  BY <3>2, <3>3
  <2>3. Below(v, raw, end) <=> (end # NoBound => LexLess(k, end))
    <3>1. CASE end # NoBound
      <4>1. end \in Seq(Bytes)
        BY <1>2, <3>1
      <4>2. LexLess(Concat(p, k), Concat(p, end)) <=> LexLess(k, end)
        BY <1>1, <2>1, <4>1, LexBehind
      <4> QED  BY <1>5, <2>1, <3>1, <4>2
    <3>2. CASE end = NoBound /\ v \in Typed
      BY <1>5, <3>2
    <3>3. CASE end = NoBound /\ v \notin Typed
      <4>1. LexLess(Concat(p, k), NamespaceUpperBound(p))
        BY <1>1, <1>7, <2>1, <3>3, LexBelowUpper
      <4> QED  BY <1>5, <2>1, <3>3, <4>1
    <3> QED  BY <3>1, <3>2, <3>3
  <2> QED  BY <1>4, <2>2, <2>3 DEF Within, k
<1>9. ASSUME raw \in Found(v, start, end)
      PROVE  Seqs!IsPrefix(p, raw)
  <2>1. ~ LexLess(raw, Concat(p, s)) /\ Below(v, raw, end)
    BY <1>3, <1>4, <1>9
  <2>2. CASE end # NoBound
    <3>1. end \in Seq(Bytes) /\ LexLess(raw, Concat(p, end))
      BY <1>2, <1>5, <2>1, <2>2
    <3> HIDE DEF s
    <3> QED  BY <1>1, <1>3, <2>1, <3>1, LexBetween
  <2>3. CASE v \in Typed
    <3>1. <<>> \in Seq(Bytes) /\ <<>> \o raw = raw
      BY <1>1, ConcatEmptySeq
    <3>2. Seqs!IsPrefix(<<>>, <<>> \o raw)
      BY <1>1, <3>1, PrefixOfConcat
    <3> QED  BY <1>6, <2>3, <3>1, <3>2
  <2>4. CASE end = NoBound /\ v \notin Typed
    <3>1. ~ AllMax(p) /\ Strays(p) = {} /\ LexLess(raw, NamespaceUpperBound(p))
      BY <1>5, <1>7, <2>1, <2>4
    <3> HIDE DEF s
    <3>2. \/ Seqs!IsPrefix(p, raw)
          \/ /\ Seqs!IsPrefix(raw, NamespaceUpperBound(p)) /\ raw # NamespaceUpperBound(p)
             /\ ~ LexLess(raw, p)
      BY <1>1, <1>3, <2>1, <3>1, LexToUpper
    <3> QED  BY <3>1, <3>2 DEF Strays
  <2> QED  BY <2>2, <2>3, <2>4
<1> QED  BY <1>8, <1>9 DEF p

(* What is found is in the space of the view, and is what a load returns.  *)
LEMMA RangeExact ==
  ASSUME TypeOK, NEW v \in Ranged, NEW start \in Keys \cup {NoBound}, NEW end \in Keys \cup {NoBound},
         \/ end # NoBound
         \/ v \in Typed
         \/ ~ AllMax(Prefix(v)) /\ Strays(Prefix(v)) = {}
  PROVE  RangeIsExact(v, start, end)
<1> DEFINE p == Prefix(v)
           Behind == {raw \in DOMAIN data : Seqs!IsPrefix(p, raw) /\ Within(Trim(p, raw), start, end)}
<1>1. Found(v, start, end) = Behind
  <2>1. Found(v, start, end) \subseteq DOMAIN data
    BY DEF Found
  <2>2. \A raw \in DOMAIN data :
          raw \in Found(v, start, end) <=> Seqs!IsPrefix(p, raw) /\ Within(Trim(p, raw), start, end)
    BY FoundIs
  <2> QED  BY <2>1, <2>2
<1>2. p \in Seq(Bytes) /\ DOMAIN data \subseteq Seq(Bytes)
  BY RangedIs DEF TypeOK
<1>3. Space(v) = {Trim(p, raw) : raw \in {raw \in DOMAIN data : Seqs!IsPrefix(p, raw)}}
  BY DEF Space
<1> HIDE DEF p
<1>4. \A raw \in DOMAIN data : Seqs!IsPrefix(p, raw) =>
        /\ Len(raw) >= Len(p)
        /\ Raw(v, Trim(p, raw)) = raw
        /\ MayLoad(v, Trim(p, raw)) = Parse(v.type, data[raw])
  <2> TAKE raw \in DOMAIN data
  <2> HAVE Seqs!IsPrefix(p, raw)
  <2>1. raw \in Seq(Bytes) /\ raw = Concat(p, Trim(p, raw))
    BY <1>2, ConcatTrim DEF Concat
  <2>2. Raw(v, Trim(p, raw)) = raw
    BY <2>1 DEF Raw, p
  <2>3. MayLoad(v, Trim(p, raw)) = Parse(v.type, data[raw])
    BY <2>2 DEF MayLoad, Has
  <2>4. Len(p) <= Len(raw)
    BY DEF Seqs!IsPrefix
  <2>5. Len(p) \in Nat /\ Len(raw) \in Nat
    BY <1>2, <2>1, LenProperties
  <2> QED  BY <2>2, <2>3, <2>4, <2>5
<1>5. ~ RangePanics(v, start, end)
  <2> SUFFICES ASSUME NEW raw \in Found(v, start, end), Len(raw) < Len(Prefix(v))  PROVE FALSE
    BY DEF RangePanics
  <2>1. raw \in DOMAIN data /\ Seqs!IsPrefix(p, raw)
    BY <1>1
  <2>2. raw \in Seq(Bytes)
    BY <1>2, <2>1
  <2>3. Len(p) \in Nat /\ Len(raw) \in Nat
    BY <1>2, <2>2, LenProperties
  <2>4. Len(raw) >= Len(p) /\ Len(raw) < Len(p)
    BY <1>4, <2>1 DEF p
  <2> HIDE DEF Behind
  <2> QED  BY <2>3, <2>4
<1> DEFINE Asked == {k \in Space(v) : /\ start # NoBound => ~ LexLess(k, start)
                                      /\ end # NoBound => LexLess(k, end)}
<1>6. Asked = {Trim(p, raw) : raw \in Behind}
  BY <1>3 DEF Within
<1>7. Listing(v, start, end) = {<<Trim(p, raw), Parse(v.type, data[raw])>> : raw \in Behind}
  BY <1>1 DEF Listing, p
<1>8. \A raw \in Behind : Parse(v.type, data[raw]) = MayLoad(v, Trim(p, raw))
  BY <1>4
<1> HIDE DEF Behind
<1>9. Listing(v, start, end) = {<<k, MayLoad(v, k)>> : k \in Asked}
  <2> HIDE DEF Asked
  <2> QED  BY <1>6, <1>7, <1>8
<1> QED  BY <1>5, <1>9 DEF RangeIsExact

(* Whatever is stored beside a view and wherever in it a range begins and  *)
(* ends, the range returns what is in the view and what is in the view     *)
(* only, but for the two exceptions the property names.                    *)
THEOREM RangesFindTheirViews == Spec => []RangesAreExact
<1>1. TypeOK => RangesAreExact
  <2> SUFFICES ASSUME TypeOK, NEW v \in Ranged,
                      NEW start \in Keys \cup {NoBound}, NEW end \in Keys \cup {NoBound},
                      \/ end # NoBound
                      \/ v \in Typed
                      \/ ~ AllMax(Prefix(v)) /\ Strays(Prefix(v)) = {}
               PROVE  RangeIsExact(v, start, end)
    BY DEF RangesAreExact
  <2> QED  BY RangeExact
<1> QED  BY <1>1, ViewsTypeCorrect, PTL

(* The exceptions need a prefix that ends in the greatest byte: all other  *)
(* ranges are exact.                                                       *)
PlainRangesAreExact ==
  \A v \in Ranged \ Typed : \A start, end \in Keys \cup {NoBound} :
    Prefix(v) # <<>> /\ Prefix(v)[Len(Prefix(v))] # MaxByte => RangeIsExact(v, start, end)

(* So in particular all ranges of a bucket with one name that does not end *)
(* in the greatest byte, whatever the keys stored.                         *)
THEOREM PlainRanges == Spec => []PlainRangesAreExact
<1>1. TypeOK => PlainRangesAreExact
  <2> SUFFICES ASSUME TypeOK, NEW v \in Ranged \ Typed,
                      NEW start \in Keys \cup {NoBound}, NEW end \in Keys \cup {NoBound},
                      Prefix(v) # <<>>, Prefix(v)[Len(Prefix(v))] # MaxByte
               PROVE  RangeIsExact(v, start, end)
    BY DEF PlainRangesAreExact
  <2> DEFINE p     == Prefix(v)
             n     == Len(p)
             upper == NamespaceUpperBound(p)
  <2>1. p \in Seq(Bytes)
    BY RangedIs
  <2>2. n \in Nat \ {0} /\ DOMAIN p = 1 .. n /\ p[n] # MaxByte
    BY <2>1, EmptySeq, LenProperties
  <2>3. ~ AllMax(p)
    BY <2>2 DEF AllMax
  <2>4. PICK last \in 1 .. n :
          /\ \A i \in 1 .. last - 1 : upper[i] = p[i]
          /\ \A i \in last + 1 .. n : p[i] = MaxByte
    BY <2>1, <2>3, UpperIs
  <2>5. upper \in Seq(Bytes) /\ Len(upper) = n
    BY <2>1, <2>3, UpperIs
  <2> HIDE DEF p, upper, n
  <2>6. last = n
    <3>1. n \notin last + 1 .. n
      BY <2>2, <2>4
    <3> QED  BY <2>2, <3>1
  <2>7. ASSUME NEW raw \in Seq(Bytes), Seqs!IsPrefix(raw, upper), raw # upper
        PROVE  LexLess(raw, p)
    <3>1. Len(raw) <= n /\ \A i \in 1 .. Len(raw) : raw[i] = upper[i]
      BY <2>5, <2>7, PrefixIs
    <3>2. Len(raw) \in Nat
      BY LenProperties
    <3>3. Len(raw) # n
      <4> SUFFICES ASSUME Len(raw) = n  PROVE FALSE
        OBVIOUS
      <4> QED  BY <2>5, <2>7, <3>1, SeqEqual
    <3>4. Len(raw) \in 0 .. Len(raw) /\ Len(raw) < Len(p)
      BY <2>2, <3>1, <3>2, <3>3 DEF n
    <3>5. \A i \in 1 .. Len(raw) : raw[i] = p[i]
      <4> TAKE i \in 1 .. Len(raw)
      <4>1. i \in 1 .. last - 1
        BY <2>2, <2>6, <3>1, <3>2, <3>3
      <4> QED  BY <2>4, <3>1, <4>1
    <3> QED  BY <3>4, <3>5 DEF LexLess
  <2>8. Strays(p) = {}
    BY <2>7 DEF Strays, TypeOK, upper
  <2> QED  BY <2>3, <2>8, RangeExact DEF p
<1> QED  BY <1>1, ViewsTypeCorrect, PTL
=============================================================================
