------------------------------- MODULE Shares -------------------------------
(***************************************************************************)
(* The arithmetic of Decimal and Uint128 in the hands of a contract that   *)
(* hands out an amount by weights: a weight is made a rate of the total    *)
(* (from_ratio, percent, permille), the rate a share of the amount         *)
(* (Uint128 * Decimal), and the share is taken from the rest (-) and added *)
(* to what was paid (+=).  Rates also come in as texts.  The contract is   *)
(* the caller of the code, not part of it; every step is one or a few      *)
(* operations of math.rs, the first of which that fails ends the call.     *)
(***************************************************************************)
EXTENDS Arithmetic

CONSTANTS Amounts, Totals, Texts

ASSUME AmountsAssumption == Amounts \subseteq U128
ASSUME TotalsAssumption  == Totals \subseteq Nat
ASSUME TextsAssumption   == Texts \subseteq Seq(Part) \ {<<>>}

VARIABLES checks,   \* the build has overflow checks
          amount,   \* what is handed out
          total,    \* the sum of all weights
          rate,     \* the Decimal in hand
          weight,   \* the weight it was made for, 0 if none
          rates,    \* the sum of the rates that were used
          rest,     \* a Uint128: what is left
          paid,     \* a Uint128: what was handed out
          given,    \* the weights that got their share, and
          parts,    \* how many shares there were
          text,     \* the text last read, <<>> if none
          outcome

inputs == <<checks, amount, total>>
vars   == <<inputs, rate, weight, rates, rest, paid, given, parts, text, outcome>>

Ends(result) ==
  /\ outcome' = result.outcome
  /\ UNCHANGED <<inputs, rate, weight, rates, rest, paid, given, parts, text>>

(* Weights that are not handed out yet; a total of zero is for from_ratio  *)
(* to find.                                                                *)
Open(w) == outcome = "ok" /\ text = <<>> /\ weight = 0 /\ (total = 0 \/ given + w <= total)

Makes(w, result) ==
  /\ Open(w)
  /\ IF IsOk(result)
     THEN /\ rate' = result.value
          /\ weight' = w
          /\ UNCHANGED <<inputs, rates, rest, paid, given, parts, text, outcome>>
     ELSE Ends(result)

RateFromRatio(w) == Makes(w, FromRatio(checks, w, total))
RatePercent(w)   == total = Hundred /\ Makes(w, Percent(checks, w))
RatePermille(w)  == total = Thousand /\ Makes(w, Permille(checks, w))

(* rest = (rest - share)?; paid += share; rates = rates + used             *)
Pays(w, share, used) ==
  LET left == Sub(rest, share)
      into == Add(checks, paid, share)
      sum  == AddDecimal(checks, rates, used)
  IN  CASE ~ IsOk(left) -> Ends(left)
        [] IsOk(left) /\ ~ IsOk(into) -> Ends(into)
        [] IsOk(left) /\ IsOk(into) /\ ~ IsOk(sum) -> Ends(sum)
        [] OTHER -> /\ rest' = left.value
                    /\ paid' = into.value
                    /\ rates' = sum.value
                    /\ given' = given + w
                    /\ parts' = parts + 1
                    /\ rate' = 0
                    /\ weight' = 0
                    /\ UNCHANGED <<inputs, text, outcome>>

(* amount * rate, by the rate in hand.                                     *)
PayByRate ==
  LET share == Mul(checks, amount, rate)
  IN  /\ outcome = "ok" /\ weight # 0
      /\ IF IsOk(share) THEN Pays(weight, share.value, rate) ELSE Ends(share)

(* amount.multiply_ratio(w, total), without a rate.                        *)
PayByRatio(w) ==
  LET share == MultiplyRatio(checks, amount, w, total)
  IN  /\ Open(w)
      /\ IF IsOk(share) THEN Pays(w, share.value, 0) ELSE Ends(share)

(* Decimal::from_str on a text that comes with a message.                  *)
ReadRate(input) ==
  /\ outcome = "ok" /\ text = <<>> /\ weight = 0 /\ parts = 0
  /\ text' = input
  /\ IF IsOk(FromStr(input))
     THEN rate' = FromStr(input).value /\ UNCHANGED outcome
     ELSE outcome' = "refused" /\ UNCHANGED rate
  /\ UNCHANGED <<inputs, weight, rates, rest, paid, given, parts>>

Init ==
  /\ checks \in BOOLEAN
  /\ amount \in Amounts
  /\ total \in Totals
  /\ rest = amount
  /\ rate = 0 /\ weight = 0 /\ rates = 0
  /\ paid = 0 /\ given = 0 /\ parts = 0
  /\ text = <<>> /\ outcome = "ok"

Next ==
  \/ \E w \in 1 .. (IF total = 0 THEN 1 ELSE total) :
       RateFromRatio(w) \/ RatePercent(w) \/ RatePermille(w) \/ PayByRatio(w)
  \/ PayByRate
  \/ \E input \in Texts : ReadRate(input)

Spec == Init /\ [][Next]_vars

-----------------------------------------------------------------------------
(* Properties.                                                             *)

TypeOK ==
  /\ checks \in BOOLEAN /\ amount \in U128 /\ total \in Nat
  /\ {rate, rates, rest, paid} \subseteq U128
  /\ {weight, given, parts} \subseteq 0 .. total
  /\ text \in Texts \cup {<<>>}
  /\ outcome \in {"ok", "err", "panic", "refused"}

(* Rounding is always in favour of the rest, twice in PayByRate: shares of *)
(* weights that add up to the total at most are never more than there is,  *)
(* so that the checked subtraction finds no underflow, and the rates in    *)
(* use are never more than one.  This holds in both builds, since a number *)
(* that wraps gets smaller.                                                *)
SharesFit ==
  /\ outcome # "err"
  /\ paid + rest = amount
  /\ rates <= One

(* What rounding takes from those who are paid: at most one unit and one   *)
(* Fractional-th of the amount for each share.  It needs the checks: a     *)
(* product that wraps takes any part of a share away.                      *)
LossBounded ==
  checks /\ total > 0 /\ given = total
    => Fractional * rest <= parts * (amount + Fractional)

(* A Decimal or a Uint128 that is written to storage or to a message as    *)
(* text is read back as the same number.                                   *)
RoundTrip ==
  /\ FromStr(Display(rate)) = Ok(rate)
  /\ TryFrom(DisplayU128(rest)) = Ok(rest)

(* from_str "never performs any kind of rounding": it finds the number     *)
(* that a text is written for, or refuses it, because it is no numeral,    *)
(* has too many places, or is more than Max.  A sign before the dot makes  *)
(* no difference.  (After the dot it does: "1.+5" is read as 1.05.)        *)
Written(input)   == IF Len(input) = 1 THEN input[1].digits
                    ELSE input[1].digits \o input[2].digits
Unscaled(input)  == IF Len(input) = 1 THEN 0 ELSE Len(input[2].digits)
IsNumeral(input) ==
  /\ Len(input) \in 1 .. 2
  /\ \A i \in DOMAIN input : input[i].digits # <<>>
  /\ \A i \in DOMAIN Written(input) : Written(input)[i] < Base
  /\ Unscaled(input) <= Places
  /\ Numeral(Written(input)) * Fractional <= Max * Power(Unscaled(input))

ReadsExactly ==
  text # <<>> /\ (Len(text) = 2 => ~ text[2].plus) =>
    /\ outcome = "ok" <=> IsNumeral(text)
    /\ outcome = "ok" => rate * Power(Unscaled(text)) = Numeral(Written(text)) * Fractional
=============================================================================
