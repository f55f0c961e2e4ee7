----------------------------- MODULE Arithmetic -----------------------------
(***************************************************************************)
(* Decimal and Uint128 (packages/cosmwasm/std/src/math.rs).  Both are a    *)
(* u128; that of a Decimal counts atomics, of which Fractional make a      *)
(* whole.  In the code Base is 10, Places 18 and Max is 2^128 - 1.         *)
(*                                                                         *)
(* A result is a value, an error, or a panic that ends the call.  What     *)
(* happens to a number beyond Max is up to the build: with overflow checks *)
(* it is a panic, without them the number wraps.                           *)
(***************************************************************************)
EXTENDS Integers, Sequences

Seqs == INSTANCE SequencesExt

CONSTANTS Base, Places, Fractional, Max

(* 10u128.pow(k), for which TLAPS has no `^`.                              *)
Power(k) ==
  LET p[i \in 0 .. k] == IF i = 0 THEN 1 ELSE Base * p[i - 1]
  IN  p[k]

Hundred  == Base * Base
Thousand == Base * Base * Base

ASSUME BaseAssumption       == Base \in Nat /\ Base >= 2
ASSUME PlacesAssumption     == Places \in Nat /\ Places >= 3
ASSUME FractionalAssumption == Fractional \in Nat \ {0}
ASSUME DecimalsAssumption   == Fractional = Power(Places) /\ Fractional % Thousand = 0
ASSUME MaxAssumption        == Max \in Nat /\ Fractional <= Max

U128 == 0 .. Max

Ok(n) == [outcome |-> "ok", value |-> n]
Err   == [outcome |-> "err"]
Panic == [outcome |-> "panic"]
IsOk(result) == result.outcome = "ok"

(* `+` and `*` of u128.                                                    *)
Arith(checks, n) ==
  IF n <= Max THEN Ok(n) ELSE IF checks THEN Panic ELSE Ok(n % (Max + 1))

(* Faulty: the rest of the division is rounded up.                         *)
DivideUp(product, denominator) ==
  IF denominator = 0 THEN Panic
  ELSE IF IsOk(product) THEN Ok((product.value + denominator - 1) \div denominator)
  ELSE product

(* A product, if there is one, divided by the denominator.                 *)
Divide(product, denominator) ==
  IF denominator = 0 THEN Panic
  ELSE IF IsOk(product) THEN Ok(product.value \div denominator)
  ELSE product

-----------------------------------------------------------------------------
(* Decimal.                                                                *)

One == Fractional

Percent(checks, x)  == Arith(checks, x * (Fractional \div Hundred))
Permille(checks, x) == Arith(checks, x * (Fractional \div Thousand))

FromRatio(checks, nominator, denominator) ==
  Divide(Arith(checks, nominator * Fractional), denominator)

AddDecimal(checks, self, other) == Arith(checks, self + other)

-----------------------------------------------------------------------------
(* Uint128.                                                                *)

Add(checks, self, other) == Arith(checks, self + other)

Sub(self, other) == IF other > self THEN Err ELSE Ok(self - other)

MultiplyRatio(checks, self, nominator, denominator) ==
  Divide(Arith(checks, self * nominator), denominator)

(* Faulty: divides before it multiplies, so as not to overflow.            *)
MulDividedFirst(checks, self, decimal) == Arith(checks, (self \div Fractional) * decimal)

Mul(checks, self, decimal) ==
  IF self = 0 \/ decimal = 0 THEN Ok(0)
  ELSE MultiplyRatio(checks, self, decimal, Fractional)

-----------------------------------------------------------------------------
(* Texts.  A text is what is between its dots; each part may have a plus   *)
(* sign, which parse::<u128>() accepts, and has digits, among which Base   *)
(* stands for any other character.                                         *)

Numeral(digits) ==
  LET n[i \in 0 .. Len(digits)] == IF i = 0 THEN 0 ELSE n[i - 1] * Base + digits[i]
  IN  n[Len(digits)]

Part       == [plus : BOOLEAN, digits : Seq(0 .. Base)]
Size(part) == Len(part.digits) + (IF part.plus THEN 1 ELSE 0)

(* parse::<u128>() succeeds.                                               *)
Parses(part) ==
  /\ part.digits # <<>>
  /\ \A i \in DOMAIN part.digits : part.digits[i] < Base
  /\ Numeral(part.digits) <= Max

(* TryFrom<&str> and visit_str of Uint128.                                 *)
TryFrom(text) ==
  IF Len(text) = 1 /\ Parses(text[1]) THEN Ok(Numeral(text[1].digits)) ELSE Err

(* Faulty: checked_mul and checked_add are written `*` and `+`, and wrap.  *)
FromStrWrapping(text) ==
  IF \/ Len(text) \notin 1 .. 2
     \/ \E i \in DOMAIN text : ~ Parses(text[i])
     \/ Len(text) = 2 /\ Size(text[2]) > Places
  THEN Err
  ELSE Arith(FALSE, Numeral(text[1].digits) * Fractional
                    + (IF Len(text) = 1 THEN 0
                       ELSE Numeral(text[2].digits) * Power(Places - Size(text[2]))))

(* FromStr and visit_str of Decimal.                                       *)
FromStr(text) ==
  IF \/ Len(text) \notin 1 .. 2
     \/ \E i \in DOMAIN text : ~ Parses(text[i])
     \/ Len(text) = 2 /\ Size(text[2]) > Places
  THEN Err
  ELSE LET whole      == Numeral(text[1].digits) * Fractional
           fractional == IF Len(text) = 1 THEN 0
                         ELSE Numeral(text[2].digits) * Power(Places - Size(text[2]))
       IN  IF whole + fractional <= Max THEN Ok(whole + fractional) ELSE Err

(* The digits of n, padded to width.                                       *)
Padded(n, width) == [i \in 1 .. width |-> (n \div Power(width - i)) % Base]

Width(n) == CHOOSE k \in 1 .. (n + 1) : n < Power(k) /\ (k > 1 => n >= Power(k - 1))

Unsigned(digits) == [plus |-> FALSE, digits |-> digits]
DisplayU128(n)   == <<Unsigned(Padded(n, Width(n)))>>

(* Faulty: the fraction is not padded with zeros.                          *)
DisplayUnpadded(atomics) ==
  LET fractional == atomics % Fractional
      digits     == Padded(fractional, Width(fractional))
      kept       == Seqs!SelectLastInSeq(digits, LAMBDA digit : digit # 0)
  IN  IF fractional = 0 THEN DisplayU128(atomics \div Fractional)
      ELSE Append(DisplayU128(atomics \div Fractional), Unsigned(SubSeq(digits, 1, kept)))

(* Display and Serialize of Decimal: zeros at the end are cut off.         *)
Display(atomics) ==
  LET fractional == atomics % Fractional
      digits     == Padded(fractional, Places)
      kept       == Seqs!SelectLastInSeq(digits, LAMBDA digit : digit # 0)
  IN  IF fractional = 0 THEN DisplayU128(atomics \div Fractional)
      ELSE Append(DisplayU128(atomics \div Fractional), Unsigned(SubSeq(digits, 1, kept)))
=============================================================================
