---------------------------- MODULE Shares_proofs ---------------------------
(***************************************************************************)
(* What Shares promises, for every base and width, every number of places  *)
(* and all amounts, weights and texts: that rounding is in favour of the   *)
(* rest and takes little (IInv), and that a number is read as it was       *)
(* written (Remembers).  Powers and numerals are recursive functions:      *)
(* PowerIs and NumeralIs say that they exist and what they are factor by   *)
(* factor and digit by digit.                                              *)
(***************************************************************************)
EXTENDS Shares, SequenceTheorems, WellFoundedInduction, TLAPS

(* Products of inequalities, which the solver does not find by itself.     *)
LEMMA Multiply ==
  ASSUME NEW a \in Nat, NEW b \in Nat, NEW c \in Nat, a <= b
  PROVE  a * c <= b * c /\ c * a <= c * b
OBVIOUS

(* Products are compared factor by factor.                                 *)
LEMMA Cancel ==
  ASSUME NEW a \in Int, NEW b \in Int, NEW c \in Nat \ {0}, a * c <= b * c
  PROVE  a <= b
OBVIOUS

(* Division rounds down, by less than one.                                 *)
LEMMA Floor ==
  ASSUME NEW a \in Nat, NEW b \in Nat \ {0}
  PROVE  /\ a \div b \in Nat
         /\ (a \div b) * b <= a
         /\ a < (a \div b) * b + b
OBVIOUS

(* What is between Max and a product is a panic or makes it smaller.       *)
LEMMA ArithBounds ==
  ASSUME NEW c \in BOOLEAN, NEW n \in Nat, IsOk(Arith(c, n))
  PROVE  /\ Arith(c, n).value \in U128
         /\ Arith(c, n).value <= n
         /\ c => Arith(c, n).value = n
<1>1. CASE n <= Max
  BY <1>1, MaxAssumption DEF Arith, Ok, U128
<1>2. CASE ~ (n <= Max)
  <2>1. ~ c
    BY <1>2 DEF Arith, IsOk, Panic
  <2>2. n % (Max + 1) \in 0 .. Max /\ n % (Max + 1) <= n
    BY <1>2, MaxAssumption
  <2> QED BY <1>2, <2>1, <2>2 DEF Arith, Ok, U128
<1> QED BY <1>1, <1>2

(* A quotient, when there is one.                                          *)
LEMMA DivideBounds ==
  ASSUME NEW c \in BOOLEAN, NEW n \in Nat, NEW d \in Nat,
         IsOk(Divide(Arith(c, n), d))
  PROVE  LET q == Divide(Arith(c, n), d).value
         IN  /\ d # 0
             /\ q \in U128
             /\ q * d <= n
             /\ c => n < q * d + d
<1>1. d # 0 /\ IsOk(Arith(c, n)) /\ Divide(Arith(c, n), d).value = Arith(c, n).value \div d
  BY DEF Divide, IsOk, Ok, Panic
<1> DEFINE v == Arith(c, n).value
           q == v \div d
<1>2. v \in U128 /\ v \in Nat /\ v <= n /\ (c => v = n)
  <2>1. v \in U128 /\ v <= n /\ (c => v = n)
    BY <1>1, ArithBounds
  <2> QED  BY <2>1, MaxAssumption DEF U128
<1> HIDE DEF v
<1>3. q \in Nat /\ q * d <= v /\ v < q * d + d
  BY <1>1, <1>2, Floor
<1>4. q \in U128
  <2>1. q * 1 <= q * d
    BY <1>1, <1>3, Multiply
  <2>2. q <= v
    <3> HIDE DEF q
    <3> QED  BY <1>1, <1>2, <1>3, <2>1
  <2>3. v <= Max
    BY <1>2, MaxAssumption DEF U128
  <2> HIDE DEF q
  <2> QED  BY <1>2, <1>3, <2>2, <2>3, MaxAssumption DEF U128
<1> HIDE DEF q
<1>5. q * d \in Nat
  BY <1>1, <1>3
<1>6. q * d <= n /\ (c => n < q * d + d)
  BY <1>2, <1>3, <1>5
<1>7. q = Divide(Arith(c, n), d).value
  BY <1>1 DEF q, v
<1> QED  BY <1>1, <1>4, <1>6, <1>7

(* The rate of a weight is what is due to it, rounded down.                *)
RateOf(c, r, w) ==
  /\ r \in U128
  /\ r * total <= w * Fractional
  /\ c => w * Fractional < r * total + total

(* from_ratio makes the rate of a weight.                                  *)
LEMMA RatioRate ==
  ASSUME NEW c \in BOOLEAN, NEW w \in Nat, total \in Nat, IsOk(FromRatio(c, w, total))
  PROVE  total # 0 /\ RateOf(c, FromRatio(c, w, total).value, w)
<1>1. w * Fractional \in Nat
  BY FractionalAssumption
<1> QED  BY <1>1, DivideBounds DEF FromRatio, RateOf

(* So does a multiple of a unit that total units make a one of.            *)
LEMMA UnitRate ==
  ASSUME NEW c \in BOOLEAN, NEW w \in Nat, NEW unit \in Nat, total \in Nat \ {0},
         unit * total = Fractional, IsOk(Arith(c, w * unit))
  PROVE  RateOf(c, Arith(c, w * unit).value, w)
<1> DEFINE r == Arith(c, w * unit).value
<1>1. w * unit \in Nat
  OBVIOUS
<1>2. r \in U128 /\ r <= w * unit /\ (c => r = w * unit)
  BY <1>1, ArithBounds
<1>3. r \in Nat
  BY <1>2, MaxAssumption DEF U128
<1> HIDE DEF r
<1>4. r * total <= (w * unit) * total
  BY <1>1, <1>2, <1>3, Multiply
<1>5. (w * unit) * total = w * Fractional
  OBVIOUS
<1>6. c => r * total = w * Fractional
  BY <1>2, <1>5
<1>7. r * total \in Nat /\ w * Fractional \in Nat
  BY <1>3, FractionalAssumption
<1>8. r * total <= w * Fractional /\ (c => w * Fractional < r * total + total)
  BY <1>4, <1>5, <1>6, <1>7
<1> QED  BY <1>2, <1>8 DEF RateOf, r

(* A multiple is divided without a rest.                                   *)
LEMMA Exact ==
  ASSUME NEW a \in Nat, NEW b \in Nat \ {0}, NEW k \in Int, a = k * b
  PROVE  (a \div b) * b = a /\ a \div b \in Nat
<1> DEFINE q == a \div b
<1>1. q \in Nat /\ q * b <= k * b /\ k * b < q * b + b
  BY Floor
<1> HIDE DEF q
<1>2. q <= k
  BY <1>1, Cancel
<1>3. ~ (q + 1 <= k)
  <2>1. SUFFICES ASSUME q + 1 <= k PROVE FALSE
    OBVIOUS
  <2>2. (k - (q + 1)) \in Nat
    BY <1>1, <2>1
  <2>3. (k - (q + 1)) * b >= 0
    BY <2>2
  <2> QED  BY <1>1, <2>3
<1>4. q = k
  BY <1>1, <1>2, <1>3
<1> QED  BY <1>1, <1>4 DEF q

(* One hundredth and one thousandth are whole numbers of atomics.          *)
LEMMA Units ==
  /\ Hundred \in Nat \ {0} /\ Thousand \in Nat \ {0}
  /\ Fractional \div Hundred \in Nat
  /\ (Fractional \div Hundred) * Hundred = Fractional
  /\ Fractional \div Thousand \in Nat
  /\ (Fractional \div Thousand) * Thousand = Fractional
<1>1. Base \in Nat \ {0}
  BY BaseAssumption
<1>2. Hundred \in Nat \ {0}
  BY <1>1 DEF Hundred
<1>3. Thousand \in Nat \ {0} /\ Thousand = Base * Hundred
  BY <1>1, <1>2 DEF Hundred, Thousand
<1> DEFINE k == Fractional \div Thousand
<1>4. k \in Nat /\ Fractional = k * Thousand
  <2>1. k \in Int /\ Fractional = Thousand * k + (Fractional % Thousand)
    BY <1>3, FractionalAssumption
  <2>2. k \in Nat
    BY <1>3, FractionalAssumption, Floor
  <2> HIDE DEF k
  <2> QED  BY <1>3, <2>1, <2>2, DecimalsAssumption
<1> HIDE DEF k
<1>5. k * Base \in Int /\ Fractional = (k * Base) * Hundred
  BY <1>1, <1>2, <1>3, <1>4
<1>6. /\ Fractional \div Hundred \in Nat
      /\ (Fractional \div Hundred) * Hundred = Fractional
  BY <1>2, <1>5, FractionalAssumption, Exact
<1>7. /\ Fractional \div Thousand \in Nat
      /\ (Fractional \div Thousand) * Thousand = Fractional
  BY <1>3, <1>4, FractionalAssumption, Exact
<1> QED  BY <1>2, <1>3, <1>6, <1>7

(* percent makes the rate of a weight out of a hundred.                    *)
LEMMA PercentRate ==
  ASSUME NEW c \in BOOLEAN, NEW w \in Nat, total = Hundred, IsOk(Percent(c, w))
  PROVE  total # 0 /\ RateOf(c, Percent(c, w).value, w)
<1> DEFINE unit == Fractional \div Hundred
<1>1. total \in Nat \ {0} /\ unit \in Nat /\ unit * total = Fractional
  BY Units
<1>2. Percent(c, w) = Arith(c, w * unit)
  BY DEF Percent
<1> HIDE DEF unit
<1> QED  BY <1>1, <1>2, UnitRate

(* permille makes the rate of a weight out of a thousand.                  *)
LEMMA PermilleRate ==
  ASSUME NEW c \in BOOLEAN, NEW w \in Nat, total = Thousand, IsOk(Permille(c, w))
  PROVE  total # 0 /\ RateOf(c, Permille(c, w).value, w)
<1> DEFINE unit == Fractional \div Thousand
<1>1. total \in Nat \ {0} /\ unit \in Nat /\ unit * total = Fractional
  BY Units
<1>2. Permille(c, w) = Arith(c, w * unit)
  BY DEF Permille
<1> HIDE DEF unit
<1> QED  BY <1>1, <1>2, UnitRate

(* The share of a weight: rounded down, by less than what LossBounded      *)
(* allows for one share.                                                   *)
ShareOf(c, s, w) ==
  /\ s \in U128
  /\ s * total <= amount * w
  /\ c => Fractional * (amount * w - s * total) <= total * (amount + Fractional)

(* multiply_ratio pays the share of a weight.                              *)
LEMMA ShareByRatio ==
  ASSUME NEW c \in BOOLEAN, NEW w \in Nat, total \in Nat, amount \in U128,
         IsOk(MultiplyRatio(c, amount, w, total))
  PROVE  total # 0 /\ ShareOf(c, MultiplyRatio(c, amount, w, total).value, w)
<1> DEFINE s == MultiplyRatio(c, amount, w, total).value
<1>1. amount \in Nat /\ amount * w \in Nat /\ Fractional \in Nat
  BY MaxAssumption, FractionalAssumption DEF U128
<1>2. total # 0 /\ s \in U128 /\ s * total <= amount * w /\ (c => amount * w < s * total + total)
  BY <1>1, DivideBounds DEF MultiplyRatio
<1>3. s \in Nat
  BY <1>2, MaxAssumption DEF U128
<1> HIDE DEF s
<1>4. ASSUME c
      PROVE  Fractional * (amount * w - s * total) <= total * (amount + Fractional)
  <2> DEFINE lost == amount * w - s * total
  <2>1. lost \in Nat /\ lost <= total
    BY <1>1, <1>2, <1>3, <1>4
  <2> HIDE DEF lost
  <2>2. Fractional * lost <= Fractional * total
    BY <1>1, <2>1, Multiply
  <2>3. total * amount >= 0
    BY <1>1
  <2>4. Fractional * total <= total * (amount + Fractional)
    BY <1>1, <2>3
  <2>5. Fractional * lost \in Int /\ Fractional * total \in Int /\ total * (amount + Fractional) \in Int
    BY <1>1, <2>1
  <2> QED  BY <2>2, <2>4, <2>5 DEF lost
<1> QED  BY <1>2, <1>4 DEF ShareOf, s

(* So does multiplying by the rate of the weight.                          *)
LEMMA ShareByRate ==
  ASSUME NEW c \in BOOLEAN, NEW w \in Nat, NEW r, total \in Nat \ {0}, amount \in U128,
         RateOf(c, r, w), IsOk(Mul(c, amount, r))
  PROVE  ShareOf(c, Mul(c, amount, r).value, w)
<1> DEFINE s == Mul(c, amount, r).value
<1>1. /\ amount \in Nat /\ r \in Nat /\ Fractional \in Nat \ {0}
      /\ r * total \in Nat /\ w * Fractional \in Nat /\ amount * r \in Nat
  BY MaxAssumption, FractionalAssumption DEF U128, RateOf
<1>2. /\ s \in U128 /\ s * Fractional <= amount * r
      /\ c => amount * r <= s * Fractional + Fractional
  <2>1. CASE amount = 0 \/ r = 0
    <3>1. s = 0
      BY <2>1 DEF Mul, Ok
    <3>2. amount * r = 0
      BY <1>1, <2>1
    <3> QED  BY <1>1, <3>1, <3>2, MaxAssumption DEF U128
  <2>2. CASE ~ (amount = 0 \/ r = 0)
    <3>1. Mul(c, amount, r) = Divide(Arith(c, amount * r), Fractional)
      BY <2>2 DEF Mul, MultiplyRatio
    <3>2. s \in U128 /\ s * Fractional <= amount * r /\ (c => amount * r < s * Fractional + Fractional)
      BY <1>1, <3>1, DivideBounds
    <3>3. s \in Nat
      BY <3>2, MaxAssumption DEF U128
    <3> HIDE DEF s
    <3>4. s * Fractional \in Nat
      BY <1>1, <3>3
    <3> QED  BY <1>1, <3>2, <3>4
  <2> QED  BY <2>1, <2>2
<1>3. s \in Nat
  BY <1>2, MaxAssumption DEF U128
<1> HIDE DEF s
<1>4. s * total <= amount * w
  <2>1. s * Fractional \in Nat /\ amount * w \in Nat
    BY <1>1, <1>3
  <2>2. (s * Fractional) * total <= (amount * r) * total
    BY <1>1, <1>2, <2>1, Multiply
  <2>3. amount * (r * total) <= amount * (w * Fractional)
    BY <1>1, Multiply DEF RateOf
  <2>4. (amount * r) * total = amount * (r * total)
    BY <1>1
  <2>5. (s * total) * Fractional = (s * Fractional) * total
    BY <1>1, <1>3
  <2>6. (amount * w) * Fractional = amount * (w * Fractional)
    BY <1>1
  <2> DEFINE x == s * total
             y == amount * w
             m == (amount * r) * total
  <2>7. x \in Int /\ y \in Int /\ m \in Int /\ x * Fractional \in Int /\ y * Fractional \in Int
    BY <1>1, <1>3
  <2>8. x * Fractional <= m /\ m <= y * Fractional
    BY <2>2, <2>3, <2>4, <2>5, <2>6
  <2> HIDE DEF x, y, m
  <2>9. x * Fractional <= y * Fractional
    BY <2>7, <2>8
  <2>10. x <= y
    BY <1>1, <2>7, <2>9, Cancel
  <2> QED  BY <2>10 DEF x, y
<1>5. ASSUME c
      PROVE  Fractional * (amount * w - s * total) <= total * (amount + Fractional)
  <2>1. w * Fractional <= r * total + total
    BY <1>1, <1>5 DEF RateOf
  <2>2. amount * (w * Fractional) <= amount * (r * total + total)
    BY <1>1, <2>1, Multiply
  <2>3. amount * r <= s * Fractional + Fractional
    BY <1>2, <1>5
  <2>4. s * Fractional + Fractional \in Nat
    BY <1>1, <1>3
  <2>5. total * (amount * r) <= total * (s * Fractional + Fractional)
    BY <1>1, <2>3, <2>4, Multiply
  <2>6. amount * (r * total + total) = total * (amount * r) + total * amount
    BY <1>1
  <2>7. total * (s * Fractional + Fractional) = (s * total) * Fractional + total * Fractional
    BY <1>1, <1>3
  <2>8. Fractional * (amount * w - s * total) = amount * (w * Fractional) - (s * total) * Fractional
    BY <1>1, <1>3
  <2>9. total * (amount + Fractional) = total * amount + total * Fractional
    BY <1>1
  <2> DEFINE p == amount * (w * Fractional)
             q == total * (amount * r)
             u == (s * total) * Fractional
             v == total * amount
             z == total * Fractional
  <2>10. p \in Int /\ q \in Int /\ u \in Int /\ v \in Int /\ z \in Int
    BY <1>1, <1>3
  <2>11. p <= q + v /\ q <= u + z
    BY <2>2, <2>5, <2>6, <2>7
  <2> HIDE DEF p, q, u, v, z
  <2>12. p - u <= v + z
    BY <2>10, <2>11
  <2> QED  BY <2>8, <2>9, <2>12 DEF p, u, v, z
<1> QED  BY <1>2, <1>4, <1>5 DEF ShareOf, s

-----------------------------------------------------------------------------
(* The inductive invariant: what was paid and the rates in use are what is *)
(* due to the weights that were handed out, up to the loss that rounding   *)
(* may cause.                                                              *)
Typed ==
  /\ checks \in BOOLEAN /\ amount \in U128 /\ total \in Nat
  /\ weight \in Nat /\ given \in Nat /\ parts \in Nat
  /\ rates \in U128 /\ rest \in U128 /\ paid \in U128

WeightsFit ==
  IF total = 0 THEN given = 0 /\ weight = 0 /\ paid = 0 /\ rates = 0
  ELSE given + weight <= total

RateDue == weight # 0 => RateOf(checks, rate, weight)

SumsDue ==
  /\ paid + rest = amount
  /\ paid * total <= amount * given
  /\ rates * total <= given * Fractional
  /\ checks => Fractional * (amount * given - paid * total) <= parts * (total * (amount + Fractional))

IInv == Typed /\ WeightsFit /\ RateDue /\ SumsDue /\ outcome # "err"

(* There is enough left for every share of an open weight.                 *)
LEMMA Enough ==
  ASSUME IInv, NEW w \in Nat, NEW s, total # 0, given + w <= total, ShareOf(checks, s, w)
  PROVE  /\ s \in Nat
         /\ s <= rest
         /\ (paid + s) * total <= amount * (given + w)
<1>1. /\ amount \in Nat /\ total \in Nat \ {0} /\ given \in Nat /\ paid \in Nat /\ s \in Nat
      /\ rest \in Nat
  BY MaxAssumption DEF IInv, Typed, ShareOf, U128
<1>2. (paid + s) * total <= amount * (given + w)
  <2>1. (paid + s) * total = paid * total + s * total
    BY <1>1
  <2>2. amount * (given + w) = amount * given + amount * w
    BY <1>1
  <2> DEFINE a == paid * total
             b == s * total
             x == amount * given
             y == amount * w
  <2>3. a \in Int /\ b \in Int /\ x \in Int /\ y \in Int
    BY <1>1
  <2>4. a <= x /\ b <= y
    BY DEF IInv, SumsDue, ShareOf
  <2> HIDE DEF a, b, x, y
  <2>5. a + b <= x + y
    BY <2>3, <2>4
  <2> QED  BY <2>1, <2>2, <2>5 DEF a, b, x, y
<1>3. amount * (given + w) <= amount * total
  BY <1>1, Multiply
<1>4. paid + s <= amount
  <2>1. (paid + s) * total \in Int /\ amount * (given + w) \in Int /\ amount * total \in Int
    BY <1>1
  <2>2. (paid + s) * total <= amount * total
    BY <1>2, <1>3, <2>1
  <2> QED  BY <1>1, <2>2, Cancel
<1>5. paid + rest = amount
  BY DEF IInv, SumsDue
<1> QED  BY <1>1, <1>2, <1>4, <1>5

(* A share that is paid leaves the sums due.                               *)
LEMMA PaysKeeps ==
  ASSUME IInv, NEW w \in Nat, NEW s, NEW used \in U128,
         total # 0, given + w <= total, ShareOf(checks, s, w), used * total <= w * Fractional,
         Pays(w, s, used)
  PROVE  IInv'
<1> DEFINE left == Sub(rest, s)
           into == Add(checks, paid, s)
           sum  == AddDecimal(checks, rates, used)
<1>1. /\ amount \in Nat /\ total \in Nat \ {0} /\ given \in Nat /\ paid \in Nat /\ parts \in Nat
      /\ rest \in Nat /\ rates \in Nat /\ used \in Nat /\ s \in Nat
      /\ Fractional \in Nat \ {0} /\ checks \in BOOLEAN
      /\ amount <= Max /\ rest <= Max
  BY MaxAssumption, FractionalAssumption DEF IInv, Typed, ShareOf, U128
<1>2. s <= rest /\ (paid + s) * total <= amount * (given + w) /\ paid + rest = amount
  BY Enough DEF IInv, SumsDue
<1>3. left = Ok(rest - s) /\ into = Ok(paid + s)
  <2>1. ~ (s > rest) /\ paid + s <= Max
    BY <1>1, <1>2, MaxAssumption
  <2>2. left = Ok(rest - s)
    BY <2>1 DEF Sub
  <2>3. into = Ok(paid + s)
    BY <2>1 DEF Add, Arith
  <2> QED  BY <2>2, <2>3
<1> HIDE DEF left, into, sum
<1>4. CASE ~ IsOk(sum)
  <2>1. sum = Panic
    BY <1>4 DEF sum, AddDecimal, Arith, IsOk, Ok
  <2>2. Ends(sum)
    BY <1>3, <1>4 DEF left, into, sum, Pays, IsOk, Ok
  <2>3. outcome' # "err"
    BY <2>1, <2>2 DEF Ends, Panic
  <2> QED  BY <2>2, <2>3 DEF Ends, inputs, IInv, Typed, WeightsFit, RateDue, RateOf, SumsDue
<1>5. CASE IsOk(sum)
  <2>1. /\ rest' = rest - s /\ paid' = paid + s /\ rates' = sum.value
        /\ given' = given + w /\ parts' = parts + 1 /\ weight' = 0
        /\ UNCHANGED <<inputs, outcome>>
    BY <1>3, <1>5 DEF left, into, sum, Pays, IsOk, Ok
  <2>2. sum.value \in U128 /\ sum.value <= rates + used
    <3>1. rates + used \in Nat
      BY <1>1
    <3> QED  BY <1>1, <1>5, <3>1, ArithBounds DEF sum, AddDecimal
  <2>3. Typed'
    <3>1. rest - s \in U128 /\ paid + s \in U128
      BY <1>1, <1>2, MaxAssumption DEF U128
    <3>2. given + w \in Nat /\ parts + 1 \in Nat /\ 0 \in Nat
      BY <1>1
    <3> QED  BY <2>1, <2>2, <3>1, <3>2 DEF Typed, inputs, IInv
  <2>4. WeightsFit' /\ RateDue'
    BY <1>1, <2>1 DEF WeightsFit, RateDue, inputs
  <2>5. (rates * total <= given * Fractional)'
    <3>1. sum.value * total <= (rates + used) * total
      <4>1. sum.value \in Nat
        BY <2>2, MaxAssumption DEF U128
      <4> QED  BY <1>1, <2>2, <4>1, Multiply
    <3>2. (rates + used) * total = rates * total + used * total
      BY <1>1
    <3>3. (given + w) * Fractional = given * Fractional + w * Fractional
      BY <1>1
    <3> DEFINE a == rates * total
               b == used * total
               x == given * Fractional
               y == w * Fractional
               m == sum.value * total
    <3>4. a \in Int /\ b \in Int /\ x \in Int /\ y \in Int /\ m \in Int
      BY <1>1, <2>2, MaxAssumption DEF U128
    <3>5. a <= x /\ b <= y /\ m <= a + b
      BY <3>1, <3>2 DEF IInv, SumsDue
    <3> HIDE DEF a, b, x, y, m
    <3>6. m <= x + y
      BY <3>4, <3>5
    <3> QED  BY <2>1, <3>3, <3>6 DEF a, b, x, y, m, inputs
  <2>6. ASSUME checks
        PROVE  (Fractional * (amount * given - paid * total) <= parts * (total * (amount + Fractional)))'
    <3> DEFINE lost  == amount * given - paid * total
               more  == amount * w - s * total
               bound == total * (amount + Fractional)
    <3>1. lost \in Int /\ more \in Int /\ bound \in Int
      BY <1>1
    <3>2. amount * (given + w) - (paid + s) * total = lost + more
      BY <1>1
    <3>3. Fractional * lost <= parts * bound /\ Fractional * more <= bound
      BY <2>6 DEF IInv, SumsDue, ShareOf
    <3> HIDE DEF lost, more, bound
    <3>4. Fractional * (lost + more) = Fractional * lost + Fractional * more
      BY <1>1, <3>1
    <3>5. (parts + 1) * bound = parts * bound + bound
      BY <1>1, <3>1
    <3>6. Fractional * lost \in Int /\ Fractional * more \in Int /\ parts * bound \in Int
      BY <1>1, <3>1
    <3>7. Fractional * (lost + more) <= (parts + 1) * bound
      BY <3>1, <3>3, <3>4, <3>5, <3>6
    <3> QED  BY <2>1, <3>2, <3>7 DEF bound, inputs
  <2>7. SumsDue'
    <3>1. (paid + rest = amount)'
      BY <1>1, <1>2, <2>1 DEF inputs
    <3>2. (paid * total <= amount * given)'
      BY <1>2, <2>1 DEF inputs
    <3>3. checks' = checks
      BY <2>1 DEF inputs
    <3> QED  BY <2>5, <2>6, <3>1, <3>2, <3>3 DEF SumsDue
  <2> QED  BY <2>1, <2>3, <2>4, <2>7 DEF IInv
<1> QED  BY <1>4, <1>5

(* A call that ends, for whatever reason but too little being left.        *)
LEMMA EndsKeeps ==
  ASSUME IInv, NEW result, Ends(result), result.outcome # "err"
  PROVE  IInv'
BY DEF Ends, inputs, IInv, Typed, WeightsFit, RateDue, RateOf, SumsDue

(* Neither product nor quotient is refused.                                *)
LEMMA NotAnErr ==
  ASSUME NEW c, NEW n, NEW d
  PROVE  Divide(Arith(c, n), d).outcome # "err" /\ Arith(c, n).outcome # "err"
BY DEF Divide, Arith, Ok, Panic, IsOk

(* A rate that is made is the one due.                                     *)
LEMMA MakesKeeps ==
  ASSUME IInv, NEW w \in Nat \ {0}, NEW result, Makes(w, result),
         result.outcome # "err",
         IsOk(result) => total # 0 /\ RateOf(checks, result.value, w)
  PROVE  IInv'
<1>1. CASE IsOk(result)
  <2>1. /\ rate' = result.value /\ weight' = w /\ given + w <= total
        /\ UNCHANGED <<inputs, rates, rest, paid, given, parts, outcome>>
    BY <1>1 DEF Makes, Open
  <2>2. Typed' /\ WeightsFit' /\ SumsDue'
    BY <1>1, <2>1 DEF IInv, Typed, WeightsFit, SumsDue, inputs
  <2>3. RateDue'
    BY <1>1, <2>1 DEF RateDue, RateOf, inputs
  <2> QED  BY <2>1, <2>2, <2>3 DEF IInv
<1>2. CASE ~ IsOk(result)
  BY <1>2, EndsKeeps DEF Makes
<1> QED  BY <1>1, <1>2

(* Nothing is paid yet.                                                    *)
LEMMA InitInv == Init => IInv
<1>1. SUFFICES ASSUME Init PROVE IInv
  OBVIOUS
<1>2. amount \in U128 /\ amount \in Nat /\ total \in Nat /\ 0 \in U128 /\ Fractional \in Nat
  BY <1>1, AmountsAssumption, TotalsAssumption, MaxAssumption, FractionalAssumption DEF Init, U128
<1>3. SumsDue
  <2>1. 0 * total = 0 /\ amount * 0 = 0 /\ 0 * Fractional = 0 /\ Fractional * (0 - 0) = 0
    BY <1>2
  <2>2. 0 * (total * (amount + Fractional)) = 0
    BY <1>2
  <2> QED  BY <1>1, <1>2, <2>1, <2>2 DEF Init, SumsDue
<1> QED  BY <1>1, <1>2, <1>3 DEF Init, IInv, Typed, WeightsFit, RateDue

(* Every call keeps the invariant.                                         *)
LEMMA StepInv == IInv /\ [Next]_vars => IInv'
<1> SUFFICES ASSUME IInv, [Next]_vars PROVE IInv'
  OBVIOUS
<1>1. checks \in BOOLEAN /\ total \in Nat /\ amount \in U128 /\ weight \in Nat /\ given \in Nat
  BY DEF IInv, Typed
<1>2. ASSUME NEW w \in Nat \ {0}, RateFromRatio(w)
      PROVE  IInv'
  <2>1. FromRatio(checks, w, total).outcome # "err"
    BY NotAnErr DEF FromRatio
  <2>2. IsOk(FromRatio(checks, w, total)) =>
          total # 0 /\ RateOf(checks, FromRatio(checks, w, total).value, w)
    BY <1>1, RatioRate
  <2> QED  BY <1>2, <2>1, <2>2, MakesKeeps DEF RateFromRatio
<1>3. ASSUME NEW w \in Nat \ {0}, RatePercent(w)
      PROVE  IInv'
  <2>1. Percent(checks, w).outcome # "err"
    BY NotAnErr DEF Percent
  <2>2. IsOk(Percent(checks, w)) => total # 0 /\ RateOf(checks, Percent(checks, w).value, w)
    BY <1>1, <1>3, PercentRate DEF RatePercent
  <2> QED  BY <1>3, <2>1, <2>2, MakesKeeps DEF RatePercent
<1>4. ASSUME NEW w \in Nat \ {0}, RatePermille(w)
      PROVE  IInv'
  <2>1. Permille(checks, w).outcome # "err"
    BY NotAnErr DEF Permille
  <2>2. IsOk(Permille(checks, w)) => total # 0 /\ RateOf(checks, Permille(checks, w).value, w)
    BY <1>1, <1>4, PermilleRate DEF RatePermille
  <2> QED  BY <1>4, <2>1, <2>2, MakesKeeps DEF RatePermille
<1>5. ASSUME NEW w \in Nat \ {0}, PayByRatio(w)
      PROVE  IInv'
  <2> DEFINE share == MultiplyRatio(checks, amount, w, total)
  <2>1. share.outcome # "err"
    BY NotAnErr DEF MultiplyRatio
  <2>2. CASE ~ IsOk(share)
    BY <1>5, <2>1, <2>2, EndsKeeps DEF PayByRatio
  <2>3. CASE IsOk(share)
    <3>1. total # 0 /\ ShareOf(checks, share.value, w)
      BY <1>1, <2>3, ShareByRatio
    <3>2. given + w <= total /\ Pays(w, share.value, 0)
      BY <1>5, <2>3, <3>1 DEF PayByRatio, Open
    <3>3. 0 \in U128 /\ 0 * total <= w * Fractional
      BY <1>1, MaxAssumption, FractionalAssumption DEF U128
    <3> HIDE DEF share
    <3> QED  BY <3>1, <3>2, <3>3, PaysKeeps
  <2> QED  BY <2>2, <2>3
<1>6. CASE PayByRate
  <2> DEFINE share == Mul(checks, amount, rate)
  <2>1. share.outcome # "err"
    BY NotAnErr DEF Mul, MultiplyRatio, Ok
  <2>2. CASE ~ IsOk(share)
    BY <1>6, <2>1, <2>2, EndsKeeps DEF PayByRate
  <2>3. CASE IsOk(share)
    <3>1. weight # 0 /\ total # 0 /\ given + weight <= total /\ RateOf(checks, rate, weight)
      BY <1>6 DEF PayByRate, IInv, WeightsFit, RateDue
    <3>2. ShareOf(checks, share.value, weight)
      BY <1>1, <2>3, <3>1, ShareByRate
    <3>3. Pays(weight, share.value, rate)
      BY <1>6, <2>3 DEF PayByRate
    <3>4. rate \in U128 /\ rate * total <= weight * Fractional
      BY <3>1 DEF RateOf
    <3> HIDE DEF share
    <3> QED  BY <1>1, <3>1, <3>2, <3>3, <3>4, PaysKeeps
  <2> QED  BY <2>2, <2>3
<1>7. ASSUME NEW input \in Texts, ReadRate(input)
      PROVE  IInv'
  BY <1>7 DEF ReadRate, inputs, IInv, Typed, WeightsFit, RateDue, SumsDue
<1>8. CASE UNCHANGED vars
  BY <1>8 DEF vars, inputs, IInv, Typed, WeightsFit, RateDue, RateOf, SumsDue
<1> QED
  <2>1. (1 .. (IF total = 0 THEN 1 ELSE total)) \subseteq Nat \ {0}
    BY <1>1
  <2> QED  BY <1>2, <1>3, <1>4, <1>5, <1>6, <1>7, <1>8, <2>1 DEF Next

(* The rates in use are those of weights handed out, which are no more     *)
(* than all.                                                               *)
LEMMA InvFits == IInv => SharesFit
<1> SUFFICES ASSUME IInv PROVE rates <= One
  BY DEF IInv, SumsDue, SharesFit
<1>1. rates \in Nat /\ total \in Nat /\ given \in Nat /\ weight \in Nat /\ Fractional \in Nat \ {0}
  BY MaxAssumption, FractionalAssumption DEF IInv, Typed, U128
<1>2. CASE total = 0
  BY <1>1, <1>2 DEF IInv, WeightsFit, One
<1>3. CASE total # 0
  <2>1. given <= total
    BY <1>1, <1>3 DEF IInv, WeightsFit
  <2>2. given * Fractional <= Fractional * total
    BY <1>1, <2>1, Multiply
  <2>3. rates * total <= given * Fractional
    BY DEF IInv, SumsDue
  <2>4. rates * total \in Int /\ given * Fractional \in Int /\ Fractional * total \in Int
    BY <1>1
  <2>5. rates * total <= Fractional * total
    BY <2>2, <2>3, <2>4
  <2> QED  BY <1>1, <1>3, <2>5, Cancel DEF One
<1> QED  BY <1>2, <1>3

(* Once everything is handed out, what is left is what rounding took.      *)
LEMMA InvLoss == IInv => LossBounded
<1> SUFFICES ASSUME IInv, checks, total > 0, given = total
             PROVE  Fractional * rest <= parts * (amount + Fractional)
  BY DEF LossBounded
<1>1. /\ rest \in Nat /\ paid \in Nat /\ amount \in Nat /\ total \in Nat \ {0} /\ parts \in Nat
      /\ Fractional \in Nat \ {0} /\ amount = paid + rest
  BY MaxAssumption, FractionalAssumption DEF IInv, Typed, U128, SumsDue
<1>2. Fractional * (amount * total - paid * total) <= parts * (total * (amount + Fractional))
  BY DEF IInv, SumsDue
<1> DEFINE a == Fractional * rest
           b == parts * (amount + Fractional)
<1>3. amount * total - paid * total = rest * total
  BY <1>1
<1>4. Fractional * (rest * total) = a * total
  BY <1>1
<1>5. parts * (total * (amount + Fractional)) = b * total
  BY <1>1
<1>6. a \in Int /\ b \in Int
  BY <1>1
<1> HIDE DEF a, b
<1>7. a * total <= b * total
  BY <1>2, <1>3, <1>4, <1>5
<1>8. a <= b
  BY <1>1, <1>6, <1>7, Cancel
<1> QED  BY <1>8 DEF a, b

(* The invariant of every behaviour.                                       *)
THEOREM SharesInvariant == Spec => []IInv
BY InitInv, StepInv, PTL DEF Spec

(* SharesFit: whatever the weights, the order and the way their shares are *)
(* worked out, in a build with overflow checks or without, no more is paid *)
(* than there is and the rates in use add up to one at most.               *)
THEOREM SharesNeverExceed == Spec => []SharesFit
BY SharesInvariant, InvFits, PTL

(* LossBounded: what rounding leaves undistributed is less than one unit   *)
(* and one Fractional-th of the amount for each share.                     *)
THEOREM SharesLoseLittle == Spec => []LossBounded
BY SharesInvariant, InvLoss, PTL

-----------------------------------------------------------------------------
(* Induction, on a set of numbers in place of a predicate.                 *)
LEMMA UpTo ==
  ASSUME NEW n \in Nat, NEW G, 0 \in G, \A m \in 0 .. n : m + 1 \in 0 .. n /\ m \in G => m + 1 \in G
  PROVE  \A m \in 0 .. n : m \in G
<1> DEFINE Less == OpToRel(<, Nat)
           Bad  == {m \in 0 .. n : m \notin G}
<1> SUFFICES ASSUME Bad # {}  PROVE FALSE  OBVIOUS
<1>1. PICK m \in Bad : \A j \in Bad : <<j, m>> \notin Less
  <2>1. IsWellFoundedOn(Less, Nat)  BY NatLessThanWellFounded, Zenon DEF Less
  <2>2. Bad \subseteq Nat OBVIOUS
  <2> HIDE DEF Less, Bad
  <2> QED  BY <2>1, <2>2, WFMin
<1>2. m \in 0 .. n /\ m \notin G
  OBVIOUS
<1>3. m # 0
  BY <1>2
<1>4. m - 1 \in 0 .. n /\ (m - 1) + 1 = m
  BY <1>2, <1>3
<1>5. m - 1 \notin Bad
  <2>1. <<m - 1, m>> \in Less  BY <1>2, <1>4 DEF OpToRel
  <2> HIDE DEF Less
  <2> QED  BY <2>1, <1>1
<1> QED  BY <1>2, <1>4, <1>5

(* A function defined by primitive recursion exists.                       *)
Steps(n, V) == [(1 .. n) \X V -> V]

Follows(f, n, V, first, step) ==
  /\ f \in [0 .. n -> V]
  /\ f[0] = first
  /\ \A i \in 1 .. n : f[i] = step[<<i, f[i - 1]>>]

(* It is built one value at a time.                                        *)
LEMMA Recursion ==
  ASSUME NEW n \in Nat, NEW V, NEW first \in V, NEW step \in Steps(n, V)
  PROVE  \E f : Follows(f, n, V, first, step)
<1> USE DEF Steps
<1> DEFINE Good(m, f) == /\ f \in [0 .. m -> V]
                         /\ \A i \in 0 .. m : f[i] = IF i = 0 THEN first ELSE step[<<i, f[i - 1]>>]
           G == {m \in 0 .. n : \E f : Good(m, f)}
<1>1. 0 \in G
  <2> DEFINE g == [i \in 0 .. 0 |-> first]
  <2>1. g \in [0 .. 0 -> V]
    OBVIOUS
  <2>2. \A i \in 0 .. 0 : i = 0 /\ g[i] = first
    OBVIOUS
  <2> HIDE DEF g
  <2>3. Good(0, g)
    BY <2>1, <2>2
  <2> QED  BY <2>3
<1>2. ASSUME NEW m \in 0 .. n, m + 1 \in 0 .. n, m \in G  PROVE m + 1 \in G
  <2>1. PICK f : Good(m, f)  BY <1>2
  <2> DEFINE last == step[<<m + 1, f[m]>>]
             g    == [i \in 0 .. m + 1 |-> IF i = m + 1 THEN last ELSE f[i]]
  <2>2. last \in V
    <3>1. f[m] \in V /\ m + 1 \in 1 .. n  BY <1>2, <2>1
    <3> QED  BY <3>1
  <2> HIDE DEF last
  <2>3. g \in [0 .. m + 1 -> V]
    BY <2>1, <2>2
  <2>4. ASSUME NEW i \in 0 .. m + 1
        PROVE  g[i] = IF i = 0 THEN first ELSE step[<<i, g[i - 1]>>]
    <3>1. CASE i = m + 1
      <4>1. g[i] = last /\ i # 0 /\ g[i - 1] = f[m]  BY <3>1
      <4> QED  BY <3>1, <4>1 DEF last
    <3>2. CASE i # m + 1
      <4>1. i \in 0 .. m /\ (i # 0 => i - 1 \in 0 .. m)  BY <2>4, <3>2
      <4>2. g[i] = f[i] /\ (i # 0 => g[i - 1] = f[i - 1])  BY <4>1
      <4> QED  BY <2>1, <4>1, <4>2
    <3> QED  BY <3>1, <3>2
  <2> QED  BY <1>2, <2>3, <2>4
<1>3. \A m \in 0 .. n : m \in G
  <2> HIDE DEF G
  <2> QED  BY <1>1, <1>2, UpTo
<1>4. PICK f : Good(n, f)  BY <1>3
<1>5. f[0] = first
  <2>1. 0 \in 0 .. n  OBVIOUS
  <2> QED  BY <1>4, <2>1
<1>6. \A i \in 1 .. n : f[i] = step[<<i, f[i - 1]>>]
  BY <1>4
<1> QED  BY <1>4, <1>5, <1>6 DEF Follows

-----------------------------------------------------------------------------
(* Powers and numerals.                                                    *)

(* A power, factor by factor.                                              *)
LEMMA PowerIs ==
  ASSUME NEW k \in Nat
  PROVE  \E p : /\ p \in [0 .. k -> Nat] /\ p[0] = 1
                /\ \A i \in 1 .. k : p[i] = Base * p[i - 1]
                /\ Power(k) = p[k]
<1> DEFINE step  == [q \in (1 .. k) \X Nat |-> Base * q[2]]
           P(g)  == g = [i \in 0 .. k |-> IF i = 0 THEN 1 ELSE Base * g[i - 1]]
           whole == CHOOSE g : P(g)
<1>1. Power(k) = whole[k]
  BY DEF Power
<1>2. step \in Steps(k, Nat) /\ \A i \in 1 .. k, q \in Nat : step[<<i, q>>] = Base * q
  <2>1. \A q \in Nat : Base * q \in Nat  BY BaseAssumption
  <2> QED  BY <2>1 DEF Steps
<1> HIDE DEF step
<1>3. PICK p : Follows(p, k, Nat, 1, step)
  <2>1. 1 \in Nat  OBVIOUS
  <2> QED  BY <1>2, <2>1, Recursion
<1>4. p \in [0 .. k -> Nat] /\ p[0] = 1 /\ \A i \in 1 .. k : p[i] = Base * p[i - 1]
  <2>1. p \in [0 .. k -> Nat] /\ p[0] = 1 /\ \A i \in 1 .. k : p[i] = step[<<i, p[i - 1]>>]
    BY <1>3 DEF Follows
  <2>2. \A i \in 1 .. k : p[i - 1] \in Nat
    <3> TAKE i \in 1 .. k
    <3>1. i - 1 \in 0 .. k  OBVIOUS
    <3> QED  BY <2>1, <3>1
  <2> QED  BY <1>2, <2>1, <2>2
<1>5. P(whole)
  <2>1. P(p)
    <3>1. \A i \in 0 .. k : p[i] = IF i = 0 THEN 1 ELSE Base * p[i - 1]
      <4> TAKE i \in 0 .. k
      <4>1. i # 0 => i \in 1 .. k  OBVIOUS
      <4> QED  BY <1>4, <4>1
    <3>2. p = [i \in 0 .. k |-> p[i]]
      BY <1>4
    <3> QED  BY <3>1, <3>2
  <2>2. P(CHOOSE h : P(h))
    BY <2>1
  <2> QED  BY <2>2
<1> HIDE DEF whole
<1>6. whole[0] = 1 /\ \A i \in 1 .. k : whole[i] = Base * whole[i - 1]
  <2>1. 0 \in 0 .. k /\ \A i \in 1 .. k : i \in 0 .. k /\ i # 0
    OBVIOUS
  <2> QED  BY <1>5, <2>1
<1> DEFINE G == {m \in 0 .. k : whole[m] = p[m]}
<1>7. \A m \in 0 .. k : m + 1 \in 0 .. k /\ m \in G => m + 1 \in G
  <2> TAKE m \in 0 .. k
  <2> HAVE m + 1 \in 0 .. k /\ m \in G
  <2>1. m + 1 \in 1 .. k /\ (m + 1) - 1 = m
    OBVIOUS
  <2> QED  BY <1>4, <1>6, <2>1
<1>8. 0 \in G
  BY <1>4, <1>6
<1>9. k \in G
  <2> HIDE DEF G
  <2>1. k \in 0 .. k  OBVIOUS
  <2> QED  BY <1>7, <1>8, <2>1, UpTo
<1> QED  BY <1>1, <1>4, <1>9

(* One more factor.                                                        *)
LEMMA PowerNext ==
  ASSUME NEW k \in Nat
  PROVE  Power(k + 1) = Base * Power(k)
<1>1. PICK p : /\ p \in [0 .. k -> Nat] /\ p[0] = 1
               /\ \A i \in 1 .. k : p[i] = Base * p[i - 1]
               /\ Power(k) = p[k]
  BY PowerIs
<1>2. PICK q : /\ q \in [0 .. k + 1 -> Nat] /\ q[0] = 1
               /\ \A i \in 1 .. k + 1 : q[i] = Base * q[i - 1]
               /\ Power(k + 1) = q[k + 1]
  <2>1. k + 1 \in Nat  OBVIOUS
  <2> QED  BY <2>1, PowerIs
<1> DEFINE G == {m \in 0 .. k : q[m] = p[m]}
<1>3. \A m \in 0 .. k : m + 1 \in 0 .. k /\ m \in G => m + 1 \in G
  <2> TAKE m \in 0 .. k
  <2> HAVE m + 1 \in 0 .. k /\ m \in G
  <2>1. m + 1 \in 1 .. k /\ m + 1 \in 1 .. k + 1 /\ (m + 1) - 1 = m
    OBVIOUS
  <2> QED  BY <1>1, <1>2, <2>1
<1>4. 0 \in G
  BY <1>1, <1>2
<1>5. k \in G
  <2> HIDE DEF G
  <2>1. k \in 0 .. k  OBVIOUS
  <2> QED  BY <1>3, <1>4, <2>1, UpTo
<1>6. k + 1 \in 1 .. k + 1 /\ (k + 1) - 1 = k
  OBVIOUS
<1> QED  BY <1>1, <1>2, <1>5, <1>6

(* A power is more than its exponent.                                      *)
LEMMA PowerGrows ==
  /\ Power(0) = 1
  /\ \A k \in Nat : Power(k) \in Nat \ {0} /\ k < Power(k)
<1>1. Power(0) = 1
  <2>1. 0 \in Nat  OBVIOUS
  <2> QED  BY <2>1, PowerIs
<1>2. ASSUME NEW k \in Nat
      PROVE  Power(k) \in Nat \ {0} /\ k < Power(k)
  <2> DEFINE G == {m \in 0 .. k : Power(m) \in Nat \ {0} /\ m < Power(m)}
  <2>1. 0 \in G
    BY <1>1
  <2>2. \A m \in 0 .. k : m + 1 \in 0 .. k /\ m \in G => m + 1 \in G
    <3> TAKE m \in 0 .. k
    <3> HAVE m + 1 \in 0 .. k /\ m \in G
    <3>1. Power(m + 1) = Base * Power(m)
      BY PowerNext
    <3> DEFINE x == Power(m)
    <3>2. x \in Nat \ {0} /\ m < x
      OBVIOUS
    <3>3. Base * x \in Nat \ {0} /\ m + 1 < Base * x
      <4> HIDE DEF x, G
      <4>1. 2 * x <= Base * x  BY <3>2, BaseAssumption
      <4> QED  BY <3>2, <4>1, BaseAssumption
    <3> QED  BY <3>1, <3>3
  <2>3. k \in G
    <3> HIDE DEF G
    <3>1. k \in 0 .. k  OBVIOUS
    <3> QED  BY <2>1, <2>2, <3>1, UpTo
  <2> QED  BY <2>3
<1> QED  BY <1>1, <1>2

(* Powers are multiplied by adding exponents.                              *)
LEMMA PowerSum ==
  ASSUME NEW j \in Nat, NEW k \in Nat
  PROVE  Power(j + k) = Power(j) * Power(k)
<1> DEFINE G == {m \in 0 .. k : Power(j + m) = Power(j) * Power(m)}
<1>1. 0 \in G
  <2>1. Power(j) \in Nat /\ Power(0) = 1 /\ j + 0 = j  BY PowerGrows
  <2> QED  BY <2>1
<1>2. \A m \in 0 .. k : m + 1 \in 0 .. k /\ m \in G => m + 1 \in G
  <2> TAKE m \in 0 .. k
  <2> HAVE m + 1 \in 0 .. k /\ m \in G
  <2>1. m \in Nat /\ j + m \in Nat /\ (j + m) + 1 = j + (m + 1)
    OBVIOUS
  <2>2. Power(j + (m + 1)) = Base * Power(j + m) /\ Power(m + 1) = Base * Power(m)
    BY <2>1, PowerNext
  <2> DEFINE x == Power(j)
             y == Power(m)
  <2>3. x \in Nat /\ y \in Nat
    BY <2>1, PowerGrows
  <2>4. Base * (x * y) = x * (Base * y)
    <3> HIDE DEF x, y, G
    <3> QED  BY <2>3, BaseAssumption
  <2> QED  BY <2>2, <2>4
<1>3. k \in G
  <2> HIDE DEF G
  <2>1. k \in 0 .. k  OBVIOUS
  <2> QED  BY <1>1, <1>2, <2>1, UpTo
<1> QED  BY <1>3

(* A numeral, digit by digit.                                              *)
LEMMA NumeralIs ==
  ASSUME NEW digits \in Seq(Nat)
  PROVE  \E f : /\ f \in [0 .. Len(digits) -> Nat] /\ f[0] = 0
                /\ \A i \in 1 .. Len(digits) : f[i] = f[i - 1] * Base + digits[i]
                /\ Numeral(digits) = f[Len(digits)]
<1> DEFINE k     == Len(digits)
           step  == [q \in (1 .. k) \X Nat |-> q[2] * Base + digits[q[1]]]
           P(g)  == g = [i \in 0 .. k |-> IF i = 0 THEN 0 ELSE g[i - 1] * Base + digits[i]]
           whole == CHOOSE g : P(g)
<1>0. k \in Nat
  BY LenProperties
<1>1. \A i \in 1 .. k : digits[i] \in Nat
  BY LenProperties
<1>2. Numeral(digits) = whole[k]
  BY DEF Numeral
<1> HIDE DEF k
<1>3. step \in Steps(k, Nat) /\ \A i \in 1 .. k, q \in Nat : step[<<i, q>>] = q * Base + digits[i]
  <2>1. \A i \in 1 .. k, q \in Nat : q * Base + digits[i] \in Nat  BY <1>0, <1>1, BaseAssumption
  <2> QED  BY <2>1 DEF Steps
<1> HIDE DEF step
<1>4. PICK f : Follows(f, k, Nat, 0, step)
  <2>1. 0 \in Nat  OBVIOUS
  <2> QED  BY <1>0, <1>3, <2>1, Recursion
<1>5. f \in [0 .. k -> Nat] /\ f[0] = 0 /\ \A i \in 1 .. k : f[i] = f[i - 1] * Base + digits[i]
  <2>1. f \in [0 .. k -> Nat] /\ f[0] = 0 /\ \A i \in 1 .. k : f[i] = step[<<i, f[i - 1]>>]
    BY <1>4 DEF Follows
  <2>2. \A i \in 1 .. k : f[i - 1] \in Nat
    <3> TAKE i \in 1 .. k
    <3>1. i - 1 \in 0 .. k  BY <1>0
    <3> QED  BY <2>1, <3>1
  <2> QED  BY <1>3, <2>1, <2>2
<1>6. P(whole)
  <2>1. P(f)
    <3>1. \A i \in 0 .. k : f[i] = IF i = 0 THEN 0 ELSE f[i - 1] * Base + digits[i]
      <4> TAKE i \in 0 .. k
      <4>1. i # 0 => i \in 1 .. k  BY <1>0
      <4> QED  BY <1>5, <4>1
    <3>2. f = [i \in 0 .. k |-> f[i]]
      BY <1>5
    <3> QED  BY <3>1, <3>2
  <2>2. P(CHOOSE h : P(h))
    BY <2>1
  <2> QED  BY <2>2
<1> HIDE DEF whole
<1>7. whole[0] = 0 /\ \A i \in 1 .. k : whole[i] = whole[i - 1] * Base + digits[i]
  <2>1. 0 \in 0 .. k /\ \A i \in 1 .. k : i \in 0 .. k /\ i # 0
    BY <1>0
  <2> QED  BY <1>6, <2>1
<1> DEFINE G == {m \in 0 .. k : whole[m] = f[m]}
<1>8. \A m \in 0 .. k : m + 1 \in 0 .. k /\ m \in G => m + 1 \in G
  <2> TAKE m \in 0 .. k
  <2> HAVE m + 1 \in 0 .. k /\ m \in G
  <2>1. m + 1 \in 1 .. k /\ (m + 1) - 1 = m
    BY <1>0
  <2> QED  BY <1>5, <1>7, <2>1
<1>9. 0 \in G
  BY <1>0, <1>5, <1>7
<1>10. k \in G
  <2> HIDE DEF G
  <2>1. k \in 0 .. k  BY <1>0
  <2> QED  BY <1>0, <1>8, <1>9, <2>1, UpTo
<1> QED  BY <1>2, <1>5, <1>10 DEF k

(* Whatever goes on digit by digit as a numeral does ends as it does.      *)
LEMMA NumeralUnique ==
  ASSUME NEW digits \in Seq(Nat), NEW g,
         g[0] = 0, \A i \in 1 .. Len(digits) : g[i] = g[i - 1] * Base + digits[i]
  PROVE  Numeral(digits) = g[Len(digits)]
<1> DEFINE k == Len(digits)
<1>1. PICK f : /\ f \in [0 .. k -> Nat] /\ f[0] = 0
               /\ \A i \in 1 .. k : f[i] = f[i - 1] * Base + digits[i]
               /\ Numeral(digits) = f[k]
  BY NumeralIs
<1>2. k \in Nat
  BY LenProperties
<1>3. \A i \in 1 .. k : g[i] = g[i - 1] * Base + digits[i]
  OBVIOUS
<1> HIDE DEF k
<1> DEFINE G == {m \in 0 .. k : g[m] = f[m]}
<1>4. \A m \in 0 .. k : m + 1 \in 0 .. k /\ m \in G => m + 1 \in G
  <2> TAKE m \in 0 .. k
  <2> HAVE m + 1 \in 0 .. k /\ m \in G
  <2>1. m + 1 \in 1 .. k /\ (m + 1) - 1 = m
    BY <1>2
  <2> QED  BY <1>1, <1>3, <2>1
<1>5. 0 \in G
  BY <1>1, <1>2
<1>6. k \in G
  <2> HIDE DEF G
  <2>1. k \in 0 .. k  BY <1>2
  <2> QED  BY <1>2, <1>4, <1>5, <2>1, UpTo
<1> QED  BY <1>1, <1>6 DEF k

(* A numeral is less than the power of its length.                         *)
LEMMA NumeralFits ==
  ASSUME NEW digits \in Seq(Nat), \A i \in 1 .. Len(digits) : digits[i] < Base
  PROVE  Numeral(digits) \in Nat /\ Numeral(digits) < Power(Len(digits))
<1> DEFINE k == Len(digits)
<1>1. PICK f : /\ f \in [0 .. k -> Nat] /\ f[0] = 0
               /\ \A i \in 1 .. k : f[i] = f[i - 1] * Base + digits[i]
               /\ Numeral(digits) = f[k]
  BY NumeralIs
<1>2. k \in Nat /\ \A i \in 1 .. k : digits[i] \in Nat /\ digits[i] < Base
  BY LenProperties
<1> HIDE DEF k
<1> DEFINE G == {m \in 0 .. k : f[m] < Power(m)}
<1>3. \A m \in 0 .. k : m + 1 \in 0 .. k /\ m \in G => m + 1 \in G
  <2> TAKE m \in 0 .. k
  <2> HAVE m + 1 \in 0 .. k /\ m \in G
  <2>1. m + 1 \in 1 .. k /\ (m + 1) - 1 = m /\ m \in Nat
    BY <1>2
  <2> DEFINE x == f[m]
             y == Power(m)
             d == digits[m + 1]
  <2>2. x \in Nat /\ y \in Nat /\ d \in Nat /\ d < Base /\ x < y
    BY <1>1, <1>2, <2>1, PowerGrows
  <2>3. f[m + 1] = x * Base + d /\ Power(m + 1) = Base * y
    BY <1>1, <2>1, PowerNext
  <2>4. x * Base + d < Base * y
    <3> HIDE DEF x, y, d, G
    <3>1. (x + 1) * Base <= y * Base
      <4>1. x + 1 <= y /\ x + 1 \in Nat  BY <2>2
      <4> QED  BY <2>2, <4>1, Multiply, BaseAssumption
    <3>2. (x + 1) * Base = x * Base + Base /\ y * Base = Base * y
      BY <2>2, BaseAssumption
    <3> DEFINE p == x * Base
               q == Base * y
    <3>3. p \in Nat /\ q \in Nat /\ p + Base <= q
      BY <2>2, <3>1, <3>2, BaseAssumption
    <3> HIDE DEF p, q
    <3>4. p + d < q
      BY <2>2, <3>3, BaseAssumption
    <3> QED  BY <3>4 DEF p, q
  <2> QED  BY <2>3, <2>4
<1>4. 0 \in G
  BY <1>1, <1>2, PowerGrows
<1>5. k \in G
  <2> HIDE DEF G
  <2>1. k \in 0 .. k  BY <1>2
  <2> QED  BY <1>2, <1>3, <1>4, <2>1, UpTo
<1>6. f[k] \in Nat
  <2>1. k \in 0 .. k  BY <1>2
  <2> QED  BY <1>1, <2>1
<1> QED  BY <1>1, <1>5, <1>6 DEF k

(* Two numerals in a row: the first one counts that many times more.       *)
LEMMA NumeralConcat ==
  ASSUME NEW a \in Seq(Nat), NEW b \in Seq(Nat)
  PROVE  Numeral(a \o b) = Numeral(a) * Power(Len(b)) + Numeral(b)
<1> DEFINE n == Len(a)
           k == Len(b)
<1>1. PICK f : /\ f \in [0 .. n -> Nat] /\ f[0] = 0
               /\ \A i \in 1 .. n : f[i] = f[i - 1] * Base + a[i]
               /\ Numeral(a) = f[n]
  BY NumeralIs
<1>2. PICK h : /\ h \in [0 .. k -> Nat] /\ h[0] = 0
               /\ \A i \in 1 .. k : h[i] = h[i - 1] * Base + b[i]
               /\ Numeral(b) = h[k]
  BY NumeralIs
<1>3. /\ n \in Nat /\ k \in Nat
      /\ a \o b \in Seq(Nat) /\ Len(a \o b) = n + k
      /\ \A i \in 1 .. n + k : (a \o b)[i] = IF i <= n THEN a[i] ELSE b[i - n]
      /\ \A i \in 1 .. k : b[i] \in Nat
  BY ConcatProperties, LenProperties
<1> HIDE DEF n, k
<1> DEFINE g == [i \in 0 .. n + k |-> IF i <= n THEN f[i] ELSE f[n] * Power(i - n) + h[i - n]]
<1>4. g[0] = 0 /\ f[n] \in Nat
  BY <1>1, <1>3
<1>5. ASSUME NEW i \in 1 .. n + k
      PROVE  g[i] = g[i - 1] * Base + (a \o b)[i]
  <2>1. i \in 0 .. n + k /\ i - 1 \in 0 .. n + k
    BY <1>3
  <2>2. CASE i <= n
    <3>1. i \in 1 .. n /\ i - 1 <= n  BY <1>3, <2>2
    <3>2. g[i] = f[i] /\ g[i - 1] = f[i - 1]  BY <2>1, <2>2, <3>1
    <3> QED  BY <1>1, <1>3, <2>2, <3>1, <3>2
  <2>3. CASE i = n + 1
    <3>1. i - n = 1 /\ ~ i <= n /\ i - 1 = n /\ 1 \in 1 .. k /\ 1 - 1 = 0
      BY <1>3, <2>3
    <3>2. g[i] = f[n] * Power(1) + h[1] /\ g[i - 1] = f[n]
      BY <2>1, <3>1, <1>3
    <3>3. h[1] = h[0] * Base + b[1] /\ b[1] \in Nat
      BY <1>2, <1>3, <3>1
    <3>4. Power(1) = Base
      <4>1. Power(0 + 1) = Base * Power(0)  BY PowerNext
      <4> QED  BY <4>1, PowerGrows, BaseAssumption
    <3>5. (a \o b)[i] = b[1]
      BY <1>3, <3>1
    <3> HIDE DEF g
    <3> QED  BY <1>2, <1>4, <3>2, <3>3, <3>4, <3>5, BaseAssumption
  <2>4. CASE i > n + 1
    <3> DEFINE j == i - n
    <3>1. /\ j \in 2 .. k /\ j \in 1 .. k /\ (i - 1) - n = j - 1 /\ ~ i <= n /\ ~ i - 1 <= n
          /\ j - 1 \in Nat /\ (j - 1) + 1 = j /\ j - 1 \in 0 .. k
      BY <1>3, <2>4
    <3>2. g[i] = f[n] * Power(j) + h[j] /\ g[i - 1] = f[n] * Power(j - 1) + h[j - 1]
      BY <2>1, <3>1
    <3>3. h[j] = h[j - 1] * Base + b[j] /\ b[j] \in Nat /\ h[j - 1] \in Nat
      BY <1>2, <1>3, <3>1
    <3>4. Power(j) = Base * Power(j - 1) /\ Power(j - 1) \in Nat
      BY <3>1, PowerNext, PowerGrows
    <3>5. (a \o b)[i] = b[j]
      BY <1>3, <3>1
    <3> DEFINE x == f[n]
               y == Power(j - 1)
               z == h[j - 1]
               d == b[j]
    <3>6. x \in Nat /\ y \in Nat /\ z \in Nat /\ d \in Nat
      BY <1>4, <3>3, <3>4
    <3>7. x * (Base * y) + (z * Base + d) = (x * y + z) * Base + d
      <4> HIDE DEF x, y, z, d, g
      <4> QED  BY <3>6, BaseAssumption
    <3> HIDE DEF g, j
    <3> QED  BY <3>2, <3>3, <3>4, <3>5, <3>7
  <2> QED  BY <1>3, <2>2, <2>3, <2>4
<1>6. Numeral(a \o b) = g[n + k]
  <2> HIDE DEF g
  <2> QED  BY <1>3, <1>4, <1>5, NumeralUnique
<1>7. g[n + k] = f[n] * Power(k) + h[k]
  <2>1. n + k \in 0 .. n + k /\ (n + k) - n = k
    BY <1>3
  <2>2. CASE k = 0
    <3>1. g[n + k] = f[n] /\ h[k] = 0 /\ Power(k) = 1
      BY <1>2, <1>3, <2>1, <2>2, PowerGrows
    <3> HIDE DEF g
    <3> QED  BY <1>4, <3>1
  <2>3. CASE k # 0
    <3>1. ~ n + k <= n  BY <1>3, <2>3
    <3> QED  BY <2>1, <3>1
  <2> QED  BY <2>2, <2>3
<1> QED  BY <1>1, <1>2, <1>6, <1>7 DEF k

-----------------------------------------------------------------------------
(* Digits.                                                                 *)

(* There is one quotient only.                                             *)
LEMMA QuotientIs ==
  ASSUME NEW a \in Nat, NEW b \in Nat \ {0}, NEW q \in Nat, q * b <= a, a < q * b + b
  PROVE  a \div b = q
<1> DEFINE r == a \div b
<1>1. r \in Nat /\ r * b <= a /\ a < r * b + b
  BY Floor
<1> HIDE DEF r
<1>2. ASSUME NEW x \in Nat, NEW y \in Nat, x * b <= a, a < y * b + b
      PROVE  x <= y
  <2>1. SUFFICES ASSUME y + 1 <= x  PROVE FALSE
    BY <1>2
  <2>2. (y + 1) * b <= x * b
    BY <1>2, <2>1, Multiply
  <2>3. (y + 1) * b = y * b + b
    BY <1>2
  <2> DEFINE u == x * b
             v == y * b
  <2>4. u \in Nat /\ v \in Nat /\ v + b <= u /\ u <= a /\ a < v + b
    BY <1>2, <2>2, <2>3
  <2> HIDE DEF u, v
  <2> QED  BY <2>4
<1>3. r <= q /\ q <= r
  BY <1>1, <1>2
<1> QED  BY <1>1, <1>3 DEF r

(* Dividing twice is dividing by the product.                              *)
LEMMA QuotientTwice ==
  ASSUME NEW n \in Nat, NEW a \in Nat \ {0}, NEW b \in Nat \ {0}
  PROVE  n \div (a * b) = (n \div b) \div a
<1> DEFINE p == n \div b
           q == p \div a
<1>1. p \in Nat /\ p * b <= n /\ n < p * b + b
  BY Floor
<1>2. q \in Nat /\ q * a <= p /\ p < q * a + a
  <2> HIDE DEF p
  <2> QED  BY <1>1, Floor
<1> HIDE DEF p, q
<1>3. q * (a * b) <= n
  <2>1. (q * a) * b <= p * b
    <3>1. q * a \in Nat  BY <1>2
    <3> QED  BY <1>1, <1>2, <3>1, Multiply
  <2>2. (q * a) * b = q * (a * b)
    BY <1>2
  <2> DEFINE x == (q * a) * b
             y == p * b
  <2>3. x \in Int /\ y \in Int /\ x <= y /\ y <= n
    BY <1>1, <1>2, <2>1
  <2> HIDE DEF x, y
  <2>4. x <= n  BY <2>3
  <2> QED  BY <2>2, <2>4 DEF x
<1>4. n < q * (a * b) + a * b
  <2>1. (p + 1) * b <= (q * a + a) * b
    <3>1. q * a + a \in Nat /\ p + 1 \in Nat /\ p + 1 <= q * a + a
      <4>1. q * a \in Nat  BY <1>2
      <4> QED  BY <1>1, <1>2, <4>1
    <3> QED  BY <3>1, Multiply
  <2>2. (p + 1) * b = p * b + b /\ (q * a + a) * b = q * (a * b) + a * b
    BY <1>1, <1>2
  <2> DEFINE y == p * b
             z == q * (a * b) + a * b
  <2>3. y \in Int /\ z \in Int /\ y + b <= z /\ n < y + b
    BY <1>1, <1>2, <2>1, <2>2
  <2> HIDE DEF y, z
  <2>4. n < z  BY <2>3
  <2> QED  BY <2>4 DEF z
<1>5. a * b \in Nat \ {0}
  OBVIOUS
<1>6. n \div (a * b) = q
  BY <1>2, <1>3, <1>4, <1>5, QuotientIs
<1> QED  BY <1>6 DEF p, q

(* What the digits of n stand for, from the first to the i-th.             *)
Shifted(n, width, i) == n \div Power(width - i)

(* The digits of a number: each step from one to the next of what they     *)
(* stand for adds one of them, up to the number itself.                    *)
LEMMA PaddedIs ==
  ASSUME NEW n \in Nat, NEW width \in Nat
  PROVE  LET D    == Padded(n, width)
             g(i) == Shifted(n, width, i)
         IN  /\ D \in Seq(Nat) /\ Len(D) = width
             /\ \A i \in 1 .. width : D[i] \in 0 .. Base - 1 /\ g(i) = g(i - 1) * Base + D[i]
             /\ \A i \in 0 .. width : g(i) \in Nat
             /\ g(width) = n
             /\ n < Power(width) => g(0) = 0
<1> DEFINE D    == Padded(n, width)
           g(i) == Shifted(n, width, i)
<1>1. \A i \in 0 .. width : g(i) \in Nat
  <2> TAKE i \in 0 .. width
  <2>1. width - i \in Nat  OBVIOUS
  <2>2. Power(width - i) \in Nat \ {0}  BY <2>1, PowerGrows
  <2> QED  BY <2>2, Floor DEF Shifted
<1>2. \A i \in 1 .. width : i \in 0 .. width /\ i - 1 \in 0 .. width /\ D[i] = g(i) % Base
  BY DEF Padded, Shifted
<1>3. \A i \in 1 .. width : D[i] \in 0 .. Base - 1
  BY <1>1, <1>2, BaseAssumption
<1>4. D \in Seq(Nat) /\ Len(D) = width
  <2>1. D = [i \in 1 .. width |-> D[i]]
    BY DEF Padded
  <2>2. \A i \in 1 .. width : D[i] \in Nat
    BY <1>3, BaseAssumption
  <2> HIDE DEF D
  <2>3. D \in [1 .. width -> Nat]
    BY <2>1, <2>2
  <2> QED  BY <2>3
<1>5. \A i \in 1 .. width : g(i) = g(i - 1) * Base + D[i]
  <2> TAKE i \in 1 .. width
  <2> DEFINE e == width - i
  <2>1. e \in Nat /\ width - (i - 1) = e + 1
    OBVIOUS
  <2>2. Power(width - (i - 1)) = Base * Power(e) /\ Power(e) \in Nat \ {0}
    BY <2>1, PowerNext, PowerGrows
  <2>3. g(i - 1) = n \div (Base * Power(e)) /\ g(i) = n \div Power(e)
    BY <2>2 DEF Shifted
  <2>4. n \div (Base * Power(e)) = (n \div Power(e)) \div Base
    <3> HIDE DEF e
    <3> QED  BY <2>2, QuotientTwice, BaseAssumption
  <2>5. g(i) \in Nat /\ D[i] = g(i) % Base /\ g(i - 1) = g(i) \div Base
    BY <1>1, <1>2, <2>3, <2>4
  <2> DEFINE x == g(i)
  <2>6. x \in Nat => x = (x \div Base) * Base + (x % Base)
    <3> HIDE DEF x
    <3> QED  BY BaseAssumption
  <2> QED  BY <2>5, <2>6
<1>6. g(width) = n
  <2>1. width - width = 0  OBVIOUS
  <2>2. n \div 1 = n  BY QuotientIs
  <2> QED  BY <2>1, <2>2, PowerGrows DEF Shifted
<1>7. n < Power(width) => g(0) = 0
  <2>1. width - 0 = width /\ Power(width) \in Nat \ {0}  BY PowerGrows
  <2> HAVE n < Power(width)
  <2>2. 0 * Power(width) = 0  BY <2>1
  <2>3. n \div Power(width) = 0
    BY <2>1, <2>2, QuotientIs
  <2> QED  BY <2>1, <2>3 DEF Shifted
<1> QED  BY <1>1, <1>3, <1>4, <1>5, <1>6, <1>7

(* The first digits of n are what n is without the last ones; if those are *)
(* zero, nothing is lost.                                                  *)
LEMMA FirstDigits ==
  ASSUME NEW n \in Nat, NEW width \in Nat, n < Power(width), NEW k \in 0 .. width
  PROVE  LET D    == Padded(n, width)
             some == SubSeq(D, 1, k)
         IN  /\ some \in Seq(Nat) /\ Len(some) = k /\ \A i \in 1 .. k : some[i] \in 0 .. Base - 1
             /\ Numeral(some) = Shifted(n, width, k)
             /\ (\A i \in k + 1 .. width : D[i] = 0) => n = Numeral(some) * Power(width - k)
             /\ Numeral(some) <= n
<1> DEFINE D    == Padded(n, width)
           some == SubSeq(D, 1, k)
           g    == [i \in 0 .. width |-> Shifted(n, width, i)]
<1>1. /\ D \in Seq(Nat) /\ Len(D) = width
      /\ \A i \in 1 .. width :
           D[i] \in 0 .. Base - 1 /\ Shifted(n, width, i) = Shifted(n, width, i - 1) * Base + D[i]
      /\ \A i \in 0 .. width : Shifted(n, width, i) \in Nat
      /\ Shifted(n, width, width) = n /\ Shifted(n, width, 0) = 0
  BY PaddedIs
<1>2. /\ g[0] = 0 /\ g[width] = n /\ g[k] = Shifted(n, width, k)
      /\ \A i \in 0 .. width : g[i] \in Nat
      /\ \A i \in 1 .. width : g[i] = g[i - 1] * Base + D[i]
  <2>1. 0 \in 0 .. width /\ width \in 0 .. width
        /\ \A i \in 1 .. width : i \in 0 .. width /\ i - 1 \in 0 .. width
    OBVIOUS
  <2> HIDE DEF D
  <2> QED  BY <1>1, <2>1
<1> HIDE DEF D, g
<1>3. some \in Seq(Nat) /\ Len(some) = k /\ \A i \in 1 .. k : some[i] = D[i]
  <2>1. 1 \in 1 .. Len(D) + 1 /\ k \in 1 - 1 .. Len(D) /\ k <= Len(D)  BY <1>1
  <2> QED  BY <1>1, <2>1, SubSeqProperties
<1> HIDE DEF some
<1>4. Numeral(some) = g[k]
  <2>1. \A i \in 1 .. k : i \in 1 .. width  OBVIOUS
  <2>2. \A i \in 1 .. Len(some) : g[i] = g[i - 1] * Base + some[i]
    BY <1>2, <1>3, <2>1
  <2> QED  BY <1>2, <1>3, <2>2, NumeralUnique
<1>5. ASSUME \A i \in k + 1 .. width : D[i] = 0
      PROVE  n = g[k] * Power(width - k)
  <2> DEFINE e == width - k
             G == {m \in 0 .. e : n = g[width - m] * Power(m)}
  <2>1. e \in Nat /\ width - e = k
    OBVIOUS
  <2>2. 0 \in G
    <3>1. width - 0 = width /\ n * 1 = n  OBVIOUS
    <3> QED  BY <1>2, <2>1, <3>1, PowerGrows
  <2>3. \A m \in 0 .. e : m + 1 \in 0 .. e /\ m \in G => m + 1 \in G
    <3> TAKE m \in 0 .. e
    <3> HAVE m + 1 \in 0 .. e /\ m \in G
    <3>1. /\ width - m \in 1 .. width /\ width - m \in k + 1 .. width /\ m \in Nat
          /\ (width - m) - 1 = width - (m + 1) /\ width - (m + 1) \in 0 .. width
      OBVIOUS
    <3>2. g[width - m] = g[width - (m + 1)] * Base /\ g[width - (m + 1)] \in Nat
      <4>1. /\ g[width - m] = g[(width - m) - 1] * Base + D[width - m] /\ D[width - m] = 0
            /\ g[width - (m + 1)] \in Nat
        BY <1>2, <1>5, <3>1
      <4> DEFINE x == g[width - (m + 1)]
      <4>2. x * Base + 0 = x * Base
        <5>1. x \in Nat  BY <4>1
        <5> HIDE DEF x
        <5> QED  BY <5>1, BaseAssumption
      <4> HIDE DEF G
      <4> QED  BY <3>1, <4>1, <4>2
    <3>3. Power(m + 1) = Base * Power(m) /\ Power(m) \in Nat
      BY <3>1, PowerNext, PowerGrows
    <3> DEFINE x == g[width - (m + 1)]
               y == Power(m)
    <3>4. (x * Base) * y = x * (Base * y)
      <4>1. x \in Nat /\ y \in Nat  BY <3>2, <3>3
      <4> HIDE DEF x, y
      <4> QED  BY <4>1, BaseAssumption
    <3>5. n = g[width - m] * Power(m)
      OBVIOUS
    <3>6. n = g[width - (m + 1)] * Power(m + 1)
      <4> HIDE DEF G
      <4> QED  BY <3>2, <3>3, <3>4, <3>5
    <3> QED  BY <3>6
  <2>4. e \in G
    <3> HIDE DEF G
    <3>1. e \in 0 .. e  BY <2>1
    <3> HIDE DEF e
    <3> QED  BY <2>1, <2>2, <2>3, <3>1, UpTo
  <2> QED  BY <2>1, <2>4
<1>6. g[k] <= n
  <2>1. width - k \in Nat /\ Power(width - k) \in Nat \ {0}
    <3>1. width - k \in Nat  OBVIOUS
    <3> QED  BY <3>1, PowerGrows
  <2> DEFINE y == Power(width - k)
             q == n \div y
  <2>2. q \in Nat /\ q * y <= n
    <3> HIDE DEF y
    <3> QED  BY <2>1, Floor DEF y
  <2>3. q <= q * y
    <3> HIDE DEF q
    <3>1. 1 <= y /\ y \in Nat  BY <2>1
    <3> HIDE DEF y
    <3>2. q * 1 <= q * y  BY <2>2, <3>1, Multiply
    <3> QED  BY <2>2, <3>2
  <2>4. g[k] = q
    BY <1>2 DEF Shifted
  <2> DEFINE z == q * y
  <2>5. z \in Int /\ q <= z /\ z <= n
    <3>1. q * y \in Int
      <4> HIDE DEF q, y
      <4> QED  BY <2>1, <2>2 DEF y
    <3> QED  BY <2>2, <2>3, <3>1
  <2> HIDE DEF q, z
  <2> QED  BY <2>2, <2>4, <2>5
<1>7. \A i \in 1 .. k : some[i] \in 0 .. Base - 1
  BY <1>1, <1>3 DEF D
<1> QED  BY <1>2, <1>3, <1>4, <1>5, <1>6, <1>7 DEF D, some

(* A nonempty set of positions of a sequence has a last one, which is what *)
(* SequencesExt's Max picks.                                               *)
LEMMA LastPosition ==
  ASSUME NEW n \in Nat, NEW I, I \subseteq 1 .. n, I # {}
  PROVE  Seqs!Max(I) \in I /\ \A i \in I : Seqs!Max(I) >= i
<1> DEFINE Less   == OpToRel(<, Nat)
           Mirror == {j \in Nat : n - j \in I}
<1>1. PICK m \in Mirror : \A j \in Mirror : <<j, m>> \notin Less
  <2>1. Mirror \subseteq Nat  OBVIOUS
  <2>2. Mirror # {}
    <3>1. PICK i \in I : TRUE  OBVIOUS
    <3>2. n - i \in Nat /\ n - (n - i) = i  BY <3>1
    <3>3. n - i \in Mirror  BY <3>1, <3>2
    <3> QED  BY <3>3
  <2> HIDE DEF Mirror, Less
  <2>3. IsWellFoundedOn(Less, Nat)  BY NatLessThanWellFounded DEF Less
  <2> QED  BY <2>1, <2>2, <2>3, WFMin
<1>2. \A j \in Mirror : m <= j
  <2> TAKE j \in Mirror
  <2>1. <<j, m>> \notin Less /\ j \in Nat /\ m \in Nat  BY <1>1
  <2> QED  BY <2>1 DEF OpToRel
<1>3. \A i \in I : n - m >= i
  <2> TAKE i \in I
  <2>1. n - i \in Nat /\ n - (n - i) = i  OBVIOUS
  <2>2. n - i \in Mirror  BY <2>1
  <2>3. m <= n - i /\ m \in Nat  BY <2>2, <1>2
  <2> HIDE DEF Mirror
  <2> QED  BY <2>3
<1>4. n - m \in I  OBVIOUS
<1> HIDE DEF Mirror
<1> QED  BY <1>3, <1>4 DEF Seqs!Max

(* Every number has a width.                                               *)
LEMMA WidthIs ==
  ASSUME NEW n \in Nat
  PROVE  Width(n) \in 1 .. n + 1 /\ n < Power(Width(n))
<1> DEFINE W == {k \in 1 .. n + 1 : n < Power(k)}
           R(k) == k \in 1 .. n + 1 /\ n < Power(k) /\ (k > 1 => n >= Power(k - 1))
<1>1. n + 1 \in W
  <2>1. n + 1 \in 1 .. n + 1 /\ n + 1 \in Nat  OBVIOUS
  <2>2. n + 1 < Power(n + 1) /\ Power(n + 1) \in Nat  BY <2>1, PowerGrows
  <2> QED  BY <2>1, <2>2
<1>2. PICK k \in W : \A j \in W : <<j, k>> \notin OpToRel(<, Nat)
  <2>1. IsWellFoundedOn(OpToRel(<, Nat), Nat)  BY NatLessThanWellFounded, Zenon
  <2>2. W \subseteq Nat /\ W # {}  BY <1>1
  <2> HIDE DEF W
  <2> QED  BY <2>1, <2>2, WFMin
<1>3. R(k)
  <2>1. k \in 1 .. n + 1 /\ n < Power(k)
    OBVIOUS
  <2>2. ASSUME k > 1  PROVE n >= Power(k - 1)
    <3>1. k - 1 \in 1 .. n + 1 /\ k - 1 \in Nat /\ k \in Nat /\ k - 1 < k  BY <2>1, <2>2
    <3>2. <<k - 1, k>> \in OpToRel(<, Nat)  BY <3>1 DEF OpToRel
    <3>3. k - 1 \notin W  BY <1>2, <3>2
    <3>4. ~ n < Power(k - 1)  BY <3>1, <3>3
    <3> HIDE DEF W
    <3> QED  BY <3>1, <3>4, PowerGrows
  <2> QED  BY <2>1, <2>2
<1>4. R(CHOOSE j : R(j))
  BY <1>3
<1>5. Width(n) = CHOOSE j : R(j)
  BY DEF Width
<1> QED  BY <1>4, <1>5

(* A numeral parses, and stands for the number it was made of.             *)
LEMMA U128Parses ==
  ASSUME NEW n \in U128
  PROVE  LET part == Unsigned(Padded(n, Width(n)))
         IN  /\ Parses(part) /\ ~ part.plus /\ part.digits \in Seq(Nat)
             /\ Numeral(part.digits) = n
<1> DEFINE w == Width(n)
           D == Padded(n, w)
<1>1. n \in Nat /\ n <= Max
  BY MaxAssumption DEF U128
<1>2. w \in Nat \ {0} /\ n < Power(w)
  BY <1>1, WidthIs
<1> HIDE DEF w
<1>3. /\ D \in Seq(Nat) /\ Len(D) = w /\ \A i \in 1 .. w : D[i] \in 0 .. Base - 1
  BY <1>1, <1>2, PaddedIs
<1>4. Numeral(D) = n
  <2>1. w \in 0 .. w  BY <1>2
  <2>2. /\ SubSeq(D, 1, w) \in Seq(Nat) /\ Len(SubSeq(D, 1, w)) = w
        /\ Numeral(SubSeq(D, 1, w)) = Shifted(n, w, w)
    BY <1>1, <1>2, <2>1, FirstDigits
  <2>3. Shifted(n, w, w) = n
    BY <1>1, <1>2, PaddedIs
  <2>4. SubSeq(D, 1, w) = D
    <3> HIDE DEF D
    <3>1. 1 \in 1 .. Len(D) + 1 /\ w \in 1 - 1 .. Len(D)  BY <1>2, <1>3
    <3>2. \A i \in 1 .. w : SubSeq(D, 1, w)[i] = D[i]
      BY <1>2, <1>3, <3>1, SubSeqProperties
    <3> QED  BY <1>3, <2>2, <3>2, SeqEqual
  <2> QED  BY <2>2, <2>3, <2>4
<1> HIDE DEF D
<1>5. D # <<>> /\ \A i \in DOMAIN D : D[i] < Base
  <2>1. D # <<>>
    BY <1>2, <1>3, EmptySeq
  <2>2. \A i \in DOMAIN D : i \in 1 .. w
    BY <1>3, LenProperties
  <2> QED  BY <1>3, <2>1, <2>2, BaseAssumption
<1> QED  BY <1>1, <1>3, <1>4, <1>5 DEF Parses, Unsigned, D, w

(* The last digit that is not zero.                                        *)
Kept(digits) == Seqs!SelectLastInSeq(digits, LAMBDA digit : digit # 0)

(* All digits after it are zero.                                           *)
LEMMA KeptIs ==
  ASSUME NEW D \in Seq(Nat)
  PROVE  /\ Kept(D) \in 0 .. Len(D)
         /\ \A i \in Kept(D) + 1 .. Len(D) : D[i] = 0
<1> DEFINE I == {i \in 1 .. Len(D) : D[i] # 0}
<1>1. Kept(D) = IF I # {} THEN Seqs!Max(I) ELSE 0
  BY DEF Kept, Seqs!SelectLastInSeq
<1>2. Len(D) \in Nat
  BY LenProperties
<1>3. CASE I = {}
  BY <1>1, <1>2, <1>3
<1>4. CASE I # {}
  <2>1. I \subseteq 1 .. Len(D)  OBVIOUS
  <2>2. Seqs!Max(I) \in I /\ \A i \in I : Seqs!Max(I) >= i
    <3> HIDE DEF I
    <3> QED  BY <1>2, <1>4, <2>1, LastPosition
  <2>3. Kept(D) = Seqs!Max(I)  BY <1>1, <1>4
  <2>4. Kept(D) \in 0 .. Len(D)  BY <1>2, <2>2, <2>3
  <2>5. ASSUME NEW i \in Kept(D) + 1 .. Len(D)  PROVE D[i] = 0
    <3>1. i \in 1 .. Len(D) /\ ~ Kept(D) >= i  BY <1>2, <2>4
    <3> QED  BY <2>2, <2>3, <3>1
  <2> QED  BY <2>4, <2>5
<1> QED  BY <1>3, <1>4

(* A list of one, appended to.                                             *)
LEMMA AppendIsPair ==
  ASSUME NEW x, NEW y
  PROVE  Append(<<x>>, y) = <<x, y>>
<1> DEFINE V == {x, y}
<1>1. <<x>> \in Seq(V) /\ y \in V /\ Len(<<x>>) = 1 /\ <<x>>[1] = x
  OBVIOUS
<1>2. <<x, y>> \in Seq(V) /\ Len(<<x, y>>) = 2 /\ <<x, y>>[1] = x /\ <<x, y>>[2] = y
  OBVIOUS
<1> HIDE DEF V
<1>3. /\ Append(<<x>>, y) \in Seq(V) /\ Len(Append(<<x>>, y)) = 2
      /\ Append(<<x>>, y)[1] = x /\ Append(<<x>>, y)[2] = y
  BY <1>1, AppendProperties
<1>4. \A i \in 1 .. 2 : Append(<<x>>, y)[i] = <<x, y>>[i]
  BY <1>2, <1>3
<1> QED  BY <1>2, <1>3, <1>4, SeqEqual

(* The fraction, without the zeros at its end.                             *)
LEMMA FractionParses ==
  ASSUME NEW n \in Nat \ {0}, n < Fractional
  PROVE  LET D    == Padded(n, Places)
             part == Unsigned(SubSeq(D, 1, Kept(D)))
         IN  /\ Parses(part) /\ Size(part) \in 0 .. Places
             /\ Numeral(part.digits) * Power(Places - Size(part)) = n
<1> DEFINE D    == Padded(n, Places)
           k    == Kept(D)
           some == SubSeq(D, 1, k)
<1>1. Places \in Nat /\ n < Power(Places)
  BY PlacesAssumption, DecimalsAssumption
<1>2. D \in Seq(Nat) /\ Len(D) = Places
  BY <1>1, PaddedIs
<1>3. k \in 0 .. Places /\ \A i \in k + 1 .. Places : D[i] = 0
  <2> HIDE DEF D
  <2> QED  BY <1>2, KeptIs
<1> HIDE DEF k
<1>4. /\ some \in Seq(Nat) /\ Len(some) = k /\ \A i \in 1 .. k : some[i] \in 0 .. Base - 1
      /\ n = Numeral(some) * Power(Places - k)
      /\ Numeral(some) <= n
  BY <1>1, <1>3, FirstDigits
<1> HIDE DEF some
<1>5. some # <<>>
  <2>1. SUFFICES ASSUME some = <<>>  PROVE FALSE
    OBVIOUS
  <2>2. Numeral(<<>>) = 0
    <3>1. <<>> \in Seq(Nat) /\ Len(<<>>) = 0  OBVIOUS
    <3>2. PICK f : f[0] = 0 /\ Numeral(<<>>) = f[Len(<<>>)]
      BY <3>1, NumeralIs
    <3> QED  BY <3>1, <3>2
  <2>3. Places - k \in Nat  BY <1>1, <1>3
  <2>4. n = 0 * Power(Places - k) /\ Power(Places - k) \in Nat
    BY <1>4, <2>1, <2>2, <2>3, PowerGrows
  <2> QED  BY <2>4
<1>6. \A i \in DOMAIN some : some[i] < Base
  <2>1. \A i \in DOMAIN some : i \in 1 .. k  BY <1>4, LenProperties
  <2> QED  BY <1>4, <2>1, BaseAssumption
<1>7. Numeral(some) <= Max
  <2>1. Numeral(some) \in Nat
    <3>1. PICK f : f \in [0 .. Len(some) -> Nat] /\ Numeral(some) = f[Len(some)]
      BY <1>4, NumeralIs
    <3>2. Len(some) \in 0 .. Len(some)  BY <1>4, LenProperties
    <3> QED  BY <3>1, <3>2
  <2> QED  BY <1>4, <2>1, MaxAssumption, FractionalAssumption
<1> DEFINE part == Unsigned(some)
<1>8. part.digits = some /\ part.plus = FALSE
  BY DEF Unsigned
<1>9. Size(part) = k
  BY <1>3, <1>4, <1>8 DEF Size
<1> HIDE DEF part
<1>10. Parses(part) /\ Size(part) \in 0 .. Places /\ Numeral(part.digits) * Power(Places - Size(part)) = n
  BY <1>3, <1>4, <1>5, <1>6, <1>7, <1>8, <1>9 DEF Parses
<1> QED  BY <1>10 DEF part, some, k

(* try_from reads what Display wrote of a Uint128.                         *)
LEMMA U128IsRead ==
  ASSUME NEW n \in U128
  PROVE  TryFrom(DisplayU128(n)) = Ok(n)
<1> DEFINE part == Unsigned(Padded(n, Width(n)))
<1>1. Parses(part) /\ Numeral(part.digits) = n
  BY U128Parses
<1>2. DisplayU128(n) = <<part>>
  BY DEF DisplayU128
<1> HIDE DEF part
<1>3. Len(<<part>>) = 1 /\ <<part>>[1] = part
  OBVIOUS
<1> QED  BY <1>1, <1>2, <1>3 DEF TryFrom

(* from_str reads what Display wrote of a Decimal, with its zeros or       *)
(* without.                                                                *)
LEMMA DecimalIsRead ==
  ASSUME NEW n \in U128
  PROVE  FromStr(Display(n)) = Ok(n)
<1> DEFINE q     == n \div Fractional
           f     == n % Fractional
           whole == Unsigned(Padded(q, Width(q)))
<1>1. n \in Nat /\ n <= Max /\ Fractional \in Nat \ {0}
  BY MaxAssumption, FractionalAssumption DEF U128
<1>2. q \in Nat /\ f \in Nat /\ f < Fractional /\ q * Fractional + f = n
  <2>1. q \in Nat /\ f \in 0 .. Fractional - 1  BY <1>1
  <2>2. n = q * Fractional + f  BY <1>1
  <2> QED  BY <1>1, <2>1, <2>2
<1>3. q \in U128
  <2>1. q * Fractional <= n  BY <1>1, Floor
  <2>2. q * 1 <= q * Fractional
    <3> HIDE DEF q
    <3>1. 1 <= Fractional  BY <1>1
    <3> QED  BY <1>1, <1>2, <3>1, Multiply
  <2> DEFINE z == q * Fractional
  <2>3. z \in Int /\ q <= z /\ z <= n
    <3> HIDE DEF q
    <3> QED  BY <1>1, <1>2, <2>1, <2>2
  <2>4. q \in Nat
    BY <1>2
  <2> HIDE DEF z, q
  <2>5. q <= Max
    BY <1>1, <2>3, <2>4, MaxAssumption
  <2> QED  BY <2>4, <2>5, MaxAssumption DEF U128
<1> HIDE DEF q, f
<1>4. Parses(whole) /\ Numeral(whole.digits) = q
  BY <1>3, U128Parses
<1>5. DisplayU128(q) = <<whole>>
  BY DEF DisplayU128
<1> HIDE DEF whole
<1>6. CASE f = 0
  <2>1. Display(n) = <<whole>>
    BY <1>5, <1>6 DEF Display, q, f
  <2>2. Len(<<whole>>) = 1 /\ <<whole>>[1] = whole /\ DOMAIN <<whole>> = {1}
    OBVIOUS
  <2>3. q * Fractional + 0 = n
    BY <1>2, <1>6
  <2> QED  BY <1>1, <1>4, <2>1, <2>2, <2>3 DEF FromStr
<1>7. CASE f # 0
  <2> DEFINE D    == Padded(f, Places)
             part == Unsigned(SubSeq(D, 1, Kept(D)))
             shown == <<whole, part>>
  <2>1. /\ Parses(part) /\ Size(part) \in 0 .. Places
        /\ Numeral(part.digits) * Power(Places - Size(part)) = f
    BY <1>2, <1>7, FractionParses
  <2>2. Display(n) = Append(<<whole>>, part)
    BY <1>5, <1>7 DEF Display, Kept, q, f
  <2> HIDE DEF part
  <2>3. Append(<<whole>>, part) = shown
    BY AppendIsPair
  <2>4. Len(shown) = 2 /\ shown[1] = whole /\ shown[2] = part /\ \A i \in DOMAIN shown : i \in {1, 2}
    OBVIOUS
  <2> HIDE DEF shown
  <2>5. ~ Size(part) > Places
    BY <2>1, PlacesAssumption
  <2>6. Len(shown) \in 1 .. 2 /\ ~ Len(shown) = 1 /\ \A i \in DOMAIN shown : Parses(shown[i])
    BY <1>4, <2>1, <2>4
  <2> QED  BY <1>1, <1>2, <1>4, <2>1, <2>2, <2>3, <2>4, <2>5, <2>6 DEF FromStr
<1> QED  BY <1>6, <1>7

-----------------------------------------------------------------------------
(* Reading.                                                                *)

(* A part of a text is a sign and digits.                                  *)
LEMMA PartIs ==
  ASSUME NEW part \in Part
  PROVE  /\ part.digits \in Seq(Nat) /\ Len(part.digits) \in Nat
         /\ DOMAIN part.digits = 1 .. Len(part.digits)
         /\ Numeral(part.digits) \in Nat
         /\ Size(part) \in Nat /\ (~ part.plus => Size(part) = Len(part.digits))
<1>1. part.digits \in Seq(0 .. Base) /\ part.plus \in BOOLEAN
  BY DEF Part
<1>2. part.digits \in Seq(Nat)
  <2>1. /\ Len(part.digits) \in Nat
        /\ part.digits \in [1 .. Len(part.digits) -> 0 .. Base]
    BY <1>1, LenProperties
  <2>2. part.digits \in [1 .. Len(part.digits) -> Nat]
    <3>1. \A i \in 1 .. Len(part.digits) : part.digits[i] \in 0 .. Base
      BY <2>1
    <3>2. \A i \in 1 .. Len(part.digits) : part.digits[i] \in Nat
      BY <3>1, BaseAssumption
    <3> QED  BY <2>1, <3>2
  <2> QED  BY <2>1, <2>2
<1>3. Len(part.digits) \in Nat /\ DOMAIN part.digits = 1 .. Len(part.digits)
  BY <1>2, LenProperties
<1>4. Numeral(part.digits) \in Nat
  <2>1. PICK f : /\ f \in [0 .. Len(part.digits) -> Nat]
                 /\ Numeral(part.digits) = f[Len(part.digits)]
    BY <1>2, NumeralIs
  <2>2. Len(part.digits) \in 0 .. Len(part.digits)
    BY <1>3
  <2> QED  BY <2>1, <2>2
<1>5. Size(part) \in Nat /\ (~ part.plus => Size(part) = Len(part.digits))
  <2> DEFINE len == Len(part.digits)
  <2>1. Size(part) = len + (IF part.plus THEN 1 ELSE 0)
    BY DEF Size
  <2>2. len \in Nat
    BY <1>3
  <2> HIDE DEF len
  <2>3. Size(part) \in Nat /\ (~ part.plus => Size(part) = len)
    BY <2>1, <2>2
  <2> QED  BY <2>3 DEF len
<1> QED  BY <1>2, <1>3, <1>4, <1>5

(* What is read fits.                                                      *)
LEMMA ReadFits ==
  ASSUME NEW input \in Seq(Part)
  PROVE  IsOk(FromStr(input)) => FromStr(input).value \in U128
<1> DEFINE whole      == Numeral(input[1].digits) * Fractional
           fractional == IF Len(input) = 1 THEN 0
                         ELSE Numeral(input[2].digits) * Power(Places - Size(input[2]))
<1> SUFFICES ASSUME IsOk(FromStr(input))  PROVE FromStr(input).value \in U128
  OBVIOUS
<1>1. /\ Len(input) \in 1 .. 2
      /\ ~ (Len(input) = 2 /\ Size(input[2]) > Places)
      /\ whole + fractional <= Max
      /\ FromStr(input) = Ok(whole + fractional)
  BY DEF FromStr, IsOk, Err
<1>2. whole \in Nat
  <2>1. input[1] \in Part  BY <1>1, LenProperties
  <2> QED  BY <2>1, PartIs, FractionalAssumption
<1>3. fractional \in Nat
  <2>1. CASE Len(input) = 1
    BY <2>1
  <2>2. CASE Len(input) = 2
    <3>1. input[2] \in Part  BY <2>2, LenProperties
    <3>2. Numeral(input[2].digits) \in Nat /\ Places - Size(input[2]) \in Nat
      BY <1>1, <2>2, <3>1, PartIs, PlacesAssumption
    <3>3. Power(Places - Size(input[2])) \in Nat
      BY <3>2, PowerGrows
    <3> QED  BY <2>2, <3>2, <3>3
  <2> QED  BY <1>1, <2>1, <2>2
<1> HIDE DEF whole, fractional
<1> QED  BY <1>1, <1>2, <1>3, MaxAssumption DEF Ok, U128

(* A text of one part without a sign.                                      *)
LEMMA ReadWhole ==
  ASSUME NEW input \in Seq(Part), Len(input) = 1
  PROVE  /\ IsOk(FromStr(input)) <=> IsNumeral(input)
         /\ IsOk(FromStr(input)) =>
              FromStr(input).value * Power(Unscaled(input)) = Numeral(Written(input)) * Fractional
<1> DEFINE part == input[1]
           W    == Numeral(part.digits)
           v    == W * Fractional
<1>1. part \in Part /\ DOMAIN input = {1}
  <2>1. DOMAIN input = 1 .. 1 /\ input[1] \in Part  BY LenProperties
  <2> QED  BY <2>1
<1>2. /\ part.digits \in Seq(Nat) /\ W \in Nat /\ Fractional \in Nat \ {0} /\ v \in Nat
      /\ Max \in Nat
  BY <1>1, PartIs, FractionalAssumption, MaxAssumption
<1>3. Written(input) = part.digits /\ Unscaled(input) = 0 /\ Power(0) = 1
  BY PowerGrows DEF Written, Unscaled
<1>4. /\ IsOk(FromStr(input)) <=> Parses(part) /\ v + 0 <= Max
      /\ IsOk(FromStr(input)) => FromStr(input) = Ok(v + 0)
  BY <1>1 DEF FromStr, Ok, Err, IsOk
<1>5. IsNumeral(input) <=> /\ part.digits # <<>>
                           /\ \A i \in DOMAIN part.digits : part.digits[i] < Base
                           /\ v <= Max * 1
  <2>1. 1 \in 1 .. 2 /\ 0 <= Places  BY PlacesAssumption
  <2> QED  BY <1>1, <1>3, <2>1 DEF IsNumeral
<1>6. v <= Max => W <= Max
  <2>1. W * 1 <= W * Fractional
    <3>1. 1 <= Fractional  BY <1>2
    <3> HIDE DEF W
    <3> QED  BY <1>2, <3>1, Multiply
  <2>2. W <= v  BY <1>2, <2>1
  <2> HIDE DEF v, W
  <2> QED  BY <1>2, <2>2
<1>7. v + 0 = v /\ Max * 1 = Max /\ v * 1 = v
  <2> HIDE DEF v
  <2> QED  BY <1>2
<1>8. IsOk(FromStr(input)) <=> IsNumeral(input)
  <2>1. Parses(part) <=> /\ part.digits # <<>>
                         /\ \A i \in DOMAIN part.digits : part.digits[i] < Base
                         /\ W <= Max
    BY DEF Parses
  <2> HIDE DEF v, W, part
  <2> QED  BY <1>4, <1>5, <1>6, <1>7, <2>1
<1>9. IsOk(FromStr(input)) => FromStr(input).value = v
  <2> HIDE DEF v
  <2> QED  BY <1>4, <1>7 DEF Ok
<1> QED  BY <1>3, <1>7, <1>8, <1>9

(* A text of two parts: what is after the dot counts as many places less   *)
(* as it has digits.                                                       *)
LEMMA ReadFraction ==
  ASSUME NEW input \in Seq(Part), Len(input) = 2, ~ input[2].plus
  PROVE  /\ IsOk(FromStr(input)) <=> IsNumeral(input)
         /\ IsOk(FromStr(input)) =>
              FromStr(input).value * Power(Unscaled(input)) = Numeral(Written(input)) * Fractional
<1> DEFINE a == input[1].digits
           b == input[2].digits
           W == Numeral(a)
           F == Numeral(b)
           u == Len(b)
           P == Power(u)
           R == Power(Places - u)
           v == W * Fractional + F * R
           N == Numeral(a \o b)
<1>1. input[1] \in Part /\ input[2] \in Part /\ DOMAIN input = {1, 2}
  <2>1. DOMAIN input = 1 .. Len(input) /\ \A i \in 1 .. Len(input) : input[i] \in Part
    BY LenProperties
  <2>2. 1 .. 2 = {1, 2}
    OBVIOUS
  <2> QED  BY <2>1, <2>2
<1>2. /\ a \in Seq(Nat) /\ W \in Nat /\ Len(a) \in Nat /\ DOMAIN a = 1 .. Len(a)
      /\ b \in Seq(Nat) /\ F \in Nat /\ u \in Nat /\ DOMAIN b = 1 .. u
      /\ Size(input[2]) = u
  BY <1>1, PartIs
<1>3. Fractional \in Nat \ {0} /\ Max \in Nat /\ Fractional <= Max /\ Places \in Nat
  BY FractionalAssumption, MaxAssumption, PlacesAssumption
<1>4. Written(input) = a \o b /\ Unscaled(input) = u
  BY DEF Written, Unscaled
<1>5. N = W * P + F
  BY <1>2, NumeralConcat
<1>6. P \in Nat \ {0}
  BY <1>2, PowerGrows
<1> DEFINE fits == /\ a # <<>> /\ \A i \in DOMAIN a : a[i] < Base
                   /\ b # <<>> /\ \A i \in DOMAIN b : b[i] < Base
                   /\ u <= Places
<1>7. IsNumeral(input) <=> fits /\ N * Fractional <= Max * P
  <2>1. a \o b \in Seq(Nat) /\ Len(a \o b) = Len(a) + u
        /\ \A i \in 1 .. Len(a) + u : (a \o b)[i] = IF i <= Len(a) THEN a[i] ELSE b[i - Len(a)]
    BY <1>2, ConcatProperties
  <2>2. DOMAIN (a \o b) = 1 .. Len(a) + u
    BY <2>1, LenProperties
  <2>3. (\A i \in DOMAIN (a \o b) : (a \o b)[i] < Base)
          <=> (\A i \in DOMAIN a : a[i] < Base) /\ (\A i \in DOMAIN b : b[i] < Base)
    <3> HIDE DEF a, b, u
    <3>1. ASSUME \A i \in DOMAIN (a \o b) : (a \o b)[i] < Base
          PROVE  (\A i \in DOMAIN a : a[i] < Base) /\ (\A i \in DOMAIN b : b[i] < Base)
      <4>1. ASSUME NEW i \in DOMAIN a  PROVE a[i] < Base
        <5>1. i \in 1 .. Len(a) + u /\ i <= Len(a)  BY <1>2, <4>1
        <5> QED  BY <2>1, <2>2, <3>1, <5>1
      <4>2. ASSUME NEW i \in DOMAIN b  PROVE b[i] < Base
        <5>1. i + Len(a) \in 1 .. Len(a) + u /\ ~ i + Len(a) <= Len(a) /\ (i + Len(a)) - Len(a) = i
          BY <1>2, <4>2
        <5> QED  BY <2>1, <2>2, <3>1, <5>1
      <4> QED  BY <4>1, <4>2
    <3>2. ASSUME \A i \in DOMAIN a : a[i] < Base, \A i \in DOMAIN b : b[i] < Base,
                 NEW i \in DOMAIN (a \o b)
          PROVE  (a \o b)[i] < Base
      <4>1. i \in 1 .. Len(a) + u  BY <2>2, <3>2
      <4>2. CASE i <= Len(a)
        <5>1. i \in DOMAIN a  BY <1>2, <4>1, <4>2
        <5> QED  BY <2>1, <3>2, <4>1, <4>2, <5>1
      <4>3. CASE ~ i <= Len(a)
        <5>1. i - Len(a) \in DOMAIN b  BY <1>2, <4>1, <4>3
        <5> QED  BY <2>1, <3>2, <4>1, <4>3, <5>1
      <4> QED  BY <4>2, <4>3
    <3> QED  BY <3>1, <3>2
  <2>4. (\A i \in DOMAIN input : input[i].digits # <<>>) <=> a # <<>> /\ b # <<>>
    BY <1>1
  <2>5. 2 \in 1 .. 2  OBVIOUS
  <2> HIDE DEF a, b, u, P, N
  <2> QED  BY <1>4, <2>3, <2>4, <2>5 DEF IsNumeral, P, N
<1>8. /\ IsOk(FromStr(input)) <=> Parses(input[1]) /\ Parses(input[2]) /\ ~ u > Places /\ v <= Max
      /\ IsOk(FromStr(input)) => FromStr(input) = Ok(v)
  BY <1>1, <1>2 DEF FromStr, Ok, Err, IsOk
<1>9. IsOk(FromStr(input)) <=> fits /\ W <= Max /\ F <= Max /\ v <= Max
  <2>1. /\ Parses(input[1]) <=> a # <<>> /\ (\A i \in DOMAIN a : a[i] < Base) /\ W <= Max
        /\ Parses(input[2]) <=> b # <<>> /\ (\A i \in DOMAIN b : b[i] < Base) /\ F <= Max
    BY DEF Parses
  <2>2. ~ u > Places <=> u <= Places
    <3> HIDE DEF u
    <3> QED  BY <1>2, <1>3
  <2> HIDE DEF a, b, u, W, F, v
  <2> QED  BY <1>8, <2>1, <2>2
<1>10. ASSUME fits
       PROVE  /\ v \in Nat /\ W <= v /\ F <= Max
              /\ v * P = N * Fractional
  <2>1. Places - u \in Nat /\ R \in Nat \ {0} /\ u + (Places - u) = Places
    <3>1. Places - u \in Nat /\ u + (Places - u) = Places
      <4> HIDE DEF u
      <4> QED  BY <1>2, <1>3, <1>10
    <3>2. R \in Nat \ {0}
      BY <3>1, PowerGrows
    <3> QED  BY <3>1, <3>2
  <2>2. Fractional = P * R
    <3>1. Power(u + (Places - u)) = P * R
      <4> HIDE DEF u
      <4> QED  BY <1>2, <2>1, PowerSum
    <3>2. Power(Places) = Power(u + (Places - u))
      BY <2>1
    <3> QED  BY <3>1, <3>2, DecimalsAssumption
  <2>3. F < P
    <3>1. \A i \in 1 .. Len(b) : b[i] < Base  BY <1>2, <1>10
    <3> QED  BY <1>2, <3>1, NumeralFits
  <2> HIDE DEF W, F, P, R, N
  <2>4. v \in Nat /\ W * Fractional \in Nat /\ F * R \in Nat
    <3>1. W \in Nat /\ F \in Nat /\ R \in Nat /\ Fractional \in Nat
      BY <1>2, <1>3, <2>1
    <3> QED  BY <3>1
  <2>5. W <= W * Fractional
    <3>1. 1 <= Fractional  BY <1>3
    <3>2. W * 1 <= W * Fractional  BY <1>2, <1>3, <3>1, Multiply
    <3> QED  BY <1>2, <3>2
  <2>6. W <= v
    <3> DEFINE x == W * Fractional
               y == F * R
    <3>1. x \in Nat /\ y \in Nat /\ W <= x /\ v = x + y  BY <2>4, <2>5
    <3> HIDE DEF x, y, v
    <3> QED  BY <1>2, <3>1
  <2>7. F <= Max
    <3>1. P * 1 <= P * R
      <4>1. 1 <= R  BY <2>1
      <4> QED  BY <1>6, <2>1, <4>1, Multiply
    <3>2. P <= Fractional  BY <1>6, <2>2, <3>1
    <3> QED  BY <1>2, <1>3, <1>6, <2>3, <3>2
  <2>8. v * P = N * Fractional
    <3>1. (W * Fractional + F * R) * P = (W * P + F) * Fractional
      <4>1. (W * Fractional + F * R) * P = (W * P) * Fractional + F * (P * R)
        BY <1>2, <1>3, <1>6, <2>1
      <4>2. (W * P + F) * Fractional = (W * P) * Fractional + F * Fractional
        BY <1>2, <1>3, <1>6
      <4> QED  BY <2>2, <4>1, <4>2
    <3> QED  BY <1>5, <3>1
  <2> QED  BY <2>4, <2>6, <2>7, <2>8
<1>11. fits => (v <= Max <=> N * Fractional <= Max * P)
  <2> SUFFICES ASSUME fits  PROVE v <= Max <=> N * Fractional <= Max * P
    OBVIOUS
  <2>1. v \in Nat /\ v * P = N * Fractional
    BY <1>10
  <2> HIDE DEF v, P, N, fits
  <2>2. v <= Max => v * P <= Max * P
    BY <1>3, <1>6, <2>1, Multiply
  <2>3. v * P <= Max * P => v <= Max
    BY <1>3, <1>6, <2>1, Cancel
  <2> QED  BY <2>1, <2>2, <2>3
<1>12. IsOk(FromStr(input)) <=> IsNumeral(input)
  <2>1. fits => (v <= Max => W <= Max) /\ F <= Max
    <3> HAVE fits
    <3>1. v \in Nat /\ W <= v /\ F <= Max  BY <1>10
    <3> HIDE DEF v, W, F, fits
    <3> QED  BY <1>2, <1>3, <3>1
  <2> HIDE DEF v, W, F, fits, N, P
  <2> QED  BY <1>7, <1>9, <1>11, <2>1
<1>13. IsOk(FromStr(input)) => FromStr(input).value * P = N * Fractional
  <2>1. IsOk(FromStr(input)) => FromStr(input).value = v  BY <1>8 DEF Ok
  <2>2. IsOk(FromStr(input)) => fits  BY <1>9
  <2> HIDE DEF v, fits, N, P
  <2> QED  BY <1>10, <2>1, <2>2
<1> QED  BY <1>4, <1>12, <1>13

-----------------------------------------------------------------------------
(* The types, and what a text was read as.                                 *)

Remembers ==
  /\ rate \in U128
  /\ parts <= given
  /\ text \in Texts \cup {<<>>}
  /\ outcome \in {"ok", "panic", "refused"}
  /\ text # <<>> =>
       /\ weight = 0
       /\ IF IsOk(FromStr(text)) THEN outcome = "ok" /\ rate = FromStr(text).value
          ELSE outcome = "refused"

(* Arithmetic ends in a number or in a panic.                              *)
LEMMA OkOrPanic ==
  ASSUME NEW c, NEW n, NEW d
  PROVE  /\ Arith(c, n).outcome \in {"ok", "panic"}
         /\ Divide(Arith(c, n), d).outcome \in {"ok", "panic"}
BY DEF Divide, Arith, Ok, Panic, IsOk

(* A call that ends keeps the text and the rate.                           *)
LEMMA EndsRemembers ==
  ASSUME Remembers, text = <<>>, NEW result, Ends(result), result.outcome \in {"ok", "panic"}
  PROVE  Remembers'
<1>1. /\ UNCHANGED <<rate, weight, given, parts, text>>
      /\ outcome' \in {"ok", "panic", "refused"}
  BY DEF Ends
<1> QED  BY <1>1 DEF Remembers

(* A rate that is made fits.                                               *)
LEMMA MakesRemembers ==
  ASSUME Remembers, NEW w, NEW result, Makes(w, result), result.outcome \in {"ok", "panic"},
         IsOk(result) => result.value \in U128
  PROVE  Remembers'
<1>1. text = <<>>
  BY DEF Makes, Open
<1>2. CASE IsOk(result)
  <2>1. rate' = result.value /\ UNCHANGED <<given, parts, text, outcome>>
    BY <1>2 DEF Makes
  <2> QED  BY <1>1, <1>2, <2>1 DEF Remembers
<1>3. CASE ~ IsOk(result)
  BY <1>1, <1>3, EndsRemembers DEF Makes
<1> QED  BY <1>2, <1>3

(* A share uses the rate up.                                               *)
LEMMA PaysRemembers ==
  ASSUME Remembers, text = <<>>, IInv, IInv', NEW w \in Nat \ {0}, NEW s, NEW used, Pays(w, s, used)
  PROVE  Remembers'
<1> DEFINE left == Sub(rest, s)
           into == Add(checks, paid, s)
           sum  == AddDecimal(checks, rates, used)
<1>1. left.outcome \in {"ok", "err"} /\ into.outcome \in {"ok", "panic"} /\ sum.outcome \in {"ok", "panic"}
  BY OkOrPanic DEF Sub, Ok, Err, Add, AddDecimal
<1>2. \/ Ends(left) \/ Ends(into) \/ Ends(sum)
      \/ /\ rate' = 0 /\ given' = given + w /\ parts' = parts + 1
         /\ UNCHANGED <<text, outcome>>
  BY DEF Pays
<1> HIDE DEF left, into, sum
<1>3. CASE Ends(left)
  <2>1. left.outcome = "ok"
    BY <1>1, <1>3 DEF Ends, IInv
  <2> QED  BY <1>3, <2>1, EndsRemembers
<1>4. CASE Ends(into) \/ Ends(sum)
  BY <1>1, <1>4, EndsRemembers
<1>5. CASE /\ rate' = 0 /\ given' = given + w /\ parts' = parts + 1
           /\ UNCHANGED <<text, outcome>>
  <2>1. 0 \in U128
    BY MaxAssumption DEF U128
  <2>2. given \in Nat /\ parts \in Nat
    BY DEF IInv, Typed
  <2>3. parts + 1 <= given + w
    BY <2>2 DEF Remembers
  <2> QED  BY <1>5, <2>1, <2>3 DEF Remembers
<1> QED  BY <1>2, <1>3, <1>4, <1>5

(* Reading a text makes the rate it was read as, or none.                  *)
LEMMA ReadRemembers ==
  ASSUME Remembers, NEW input \in Texts, ReadRate(input)
  PROVE  Remembers'
<1>1. /\ outcome = "ok" /\ text = <<>> /\ weight = 0
      /\ text' = input /\ UNCHANGED <<weight, given, parts>>
  BY DEF ReadRate
<1>2. CASE IsOk(FromStr(input))
  <2>1. rate' = FromStr(input).value /\ outcome' = outcome
    BY <1>2 DEF ReadRate
  <2>2. FromStr(input).value \in U128
    BY <1>2, ReadFits, TextsAssumption
  <2>3. IsOk(FromStr(text)') /\ rate' = FromStr(text)'.value
    BY <1>1, <1>2, <2>1 DEF FromStr
  <2>4. FromStr(text)' = FromStr(input)
    BY <1>1
  <2> QED  BY <1>1, <1>2, <2>1, <2>2, <2>4 DEF Remembers
<1>3. CASE ~ IsOk(FromStr(input))
  <2>1. rate' = rate /\ outcome' = "refused"
    BY <1>3 DEF ReadRate
  <2>2. FromStr(text)' = FromStr(input)
    BY <1>1
  <2> QED  BY <1>1, <1>3, <2>1, <2>2 DEF Remembers
<1> QED  BY <1>2, <1>3

(* Every call keeps the types and what was read.                           *)
LEMMA StepRemembers == IInv /\ Remembers /\ [Next]_vars => Remembers'
<1> SUFFICES ASSUME IInv, Remembers, [Next]_vars  PROVE Remembers'
  OBVIOUS
<1>0. IInv'
  BY StepInv
<1>1. checks \in BOOLEAN /\ total \in Nat /\ amount \in U128 /\ weight \in Nat
  BY DEF IInv, Typed
<1>2. ASSUME NEW w \in Nat \ {0}, RateFromRatio(w)  PROVE Remembers'
  <2>1. IsOk(FromRatio(checks, w, total)) => FromRatio(checks, w, total).value \in U128
    BY <1>1, RatioRate DEF RateOf
  <2>2. FromRatio(checks, w, total).outcome \in {"ok", "panic"}
    BY OkOrPanic DEF FromRatio
  <2> QED  BY <1>2, <2>1, <2>2, MakesRemembers DEF RateFromRatio
<1>3. ASSUME NEW w \in Nat \ {0}, RatePercent(w)  PROVE Remembers'
  <2>1. IsOk(Percent(checks, w)) => Percent(checks, w).value \in U128
    BY <1>1, <1>3, PercentRate DEF RatePercent, RateOf
  <2>2. Percent(checks, w).outcome \in {"ok", "panic"}
    BY OkOrPanic DEF Percent
  <2> QED  BY <1>3, <2>1, <2>2, MakesRemembers DEF RatePercent
<1>4. ASSUME NEW w \in Nat \ {0}, RatePermille(w)  PROVE Remembers'
  <2>1. IsOk(Permille(checks, w)) => Permille(checks, w).value \in U128
    BY <1>1, <1>4, PermilleRate DEF RatePermille, RateOf
  <2>2. Permille(checks, w).outcome \in {"ok", "panic"}
    BY OkOrPanic DEF Permille
  <2> QED  BY <1>4, <2>1, <2>2, MakesRemembers DEF RatePermille
<1>5. ASSUME NEW w \in Nat \ {0}, PayByRatio(w)  PROVE Remembers'
  <2>1. text = <<>>
    BY <1>5 DEF PayByRatio, Open
  <2>2. MultiplyRatio(checks, amount, w, total).outcome \in {"ok", "panic"}
    BY OkOrPanic DEF MultiplyRatio
  <2>3. \/ Ends(MultiplyRatio(checks, amount, w, total))
        \/ Pays(w, MultiplyRatio(checks, amount, w, total).value, 0)
    BY <1>5 DEF PayByRatio
  <2> QED  BY <1>0, <2>1, <2>2, <2>3, EndsRemembers, PaysRemembers
<1>6. ASSUME PayByRate  PROVE Remembers'
  <2>1. weight # 0 /\ text = <<>>
    BY <1>6 DEF PayByRate, Remembers
  <2>2. Mul(checks, amount, rate).outcome \in {"ok", "panic"}
    BY OkOrPanic DEF Mul, MultiplyRatio, Ok
  <2>3. \/ Ends(Mul(checks, amount, rate))
        \/ Pays(weight, Mul(checks, amount, rate).value, rate)
    BY <1>6 DEF PayByRate
  <2> QED  BY <1>0, <1>1, <2>1, <2>2, <2>3, EndsRemembers, PaysRemembers
<1>7. CASE UNCHANGED vars
  BY <1>7 DEF vars, Remembers
<1>8. (1 .. (IF total = 0 THEN 1 ELSE total)) \subseteq Nat \ {0}
  BY <1>1
<1> QED  BY <1>2, <1>3, <1>4, <1>5, <1>6, <1>7, <1>8, ReadRemembers DEF Next

(* No text is read yet.                                                    *)
LEMMA InitRemembers == Init => Remembers
<1>1. 0 \in U128
  BY MaxAssumption DEF U128
<1> QED  BY <1>1 DEF Init, Remembers

(* In every behaviour the weights add up, the numbers fit, and a text that *)
(* was read left the rate from_str makes of it, or a refusal.              *)
THEOREM SharesRemember == Spec => [](IInv /\ Remembers)
BY InitInv, StepInv, InitRemembers, StepRemembers, PTL DEF Spec

(* The numbers keep their width in both builds, no weight is handed out    *)
(* that is not there, and a call ends in an outcome of the code's.         *)
THEOREM SharesTypeCorrect == Spec => []TypeOK
<1>1. IInv /\ Remembers => TypeOK
  <2> SUFFICES ASSUME IInv, Remembers  PROVE TypeOK  OBVIOUS
  <2>1. /\ checks \in BOOLEAN /\ amount \in U128 /\ total \in Nat
        /\ weight \in Nat /\ given \in Nat /\ parts \in Nat
        /\ rates \in U128 /\ rest \in U128 /\ paid \in U128
    BY DEF IInv, Typed
  <2>2. weight <= total /\ given <= total /\ parts <= total
    BY <2>1 DEF IInv, WeightsFit, Remembers
  <2> QED  BY <2>1, <2>2 DEF TypeOK, Remembers
<1> QED  BY <1>1, SharesRemember, PTL

(* A Decimal and a Uint128 are read back as they were written.             *)
THEOREM NumbersAreRead == Spec => []RoundTrip
<1>1. IInv /\ Remembers => RoundTrip
  BY DecimalIsRead, U128IsRead DEF IInv, Typed, Remembers, RoundTrip
<1> QED  BY <1>1, SharesRemember, PTL

(* from_str finds the number that a text is written for, or refuses it.    *)
THEOREM TextsAreReadExactly == Spec => []ReadsExactly
<1>1. Remembers => ReadsExactly
  <2> SUFFICES ASSUME Remembers, text # <<>>, Len(text) = 2 => ~ text[2].plus
               PROVE  /\ outcome = "ok" <=> IsNumeral(text)
                      /\ outcome = "ok" =>
                           rate * Power(Unscaled(text)) = Numeral(Written(text)) * Fractional
    BY DEF ReadsExactly
  <2>1. text \in Seq(Part) /\ Len(text) \in Nat /\ DOMAIN text = 1 .. Len(text)
    <3>1. text \in Seq(Part)  BY TextsAssumption DEF Remembers
    <3> QED  BY <3>1, LenProperties
  <2>2. outcome = "ok" <=> IsOk(FromStr(text))
    BY DEF Remembers
  <2>3. outcome = "ok" => rate = FromStr(text).value
    BY DEF Remembers
  <2>4. CASE Len(text) = 1
    BY <2>1, <2>2, <2>3, <2>4, ReadWhole
  <2>5. CASE Len(text) = 2
    <3>1. ~ text[2].plus
      BY <2>1, <2>5
    <3> QED  BY <2>1, <2>2, <2>3, <2>5, <3>1, ReadFraction
  <2>6. CASE Len(text) \notin 1 .. 2
    <3>1. ~ IsOk(FromStr(text)) /\ ~ IsNumeral(text)
      BY <2>6 DEF FromStr, IsOk, Err, IsNumeral
    <3> QED  BY <2>2, <3>1
  <2> QED  BY <2>1, <2>4, <2>5, <2>6
<1> QED  BY <1>1, SharesRemember, PTL
=============================================================================
