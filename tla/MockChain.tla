------------------------------ MODULE MockChain ------------------------------
(***************************************************************************)
(* The chain as a contract under test sees it: MockQuerier and MockApi of  *)
(* packages/cosmwasm/std/src/mock.rs behind the Querier and Api traits of  *)
(* traits.rs.  A test changes balances, delegations and the handler of     *)
(* custom queries; a contract asks.                                        *)
(*                                                                         *)
(* A name is the string of a HumanAddr, as a sequence of its bytes, of      *)
(* which any may be zero.                                                  *)
(***************************************************************************)
EXTENDS Integers, Sequences

Seqs == INSTANCE SequencesExt

CONSTANTS
  Names,             \* of accounts, contracts and validators
  Denoms,
  Amounts,           \* of coins
  canonical_length,  \* of MockApi
  None,
  NoBytes            \* Binary::default()

ASSUME NamesAssumption   == Names \subseteq Seq(Nat)
ASSUME AmountsAssumption == Amounts \subseteq Nat /\ 0 \in Amounts
ASSUME LengthAssumption  == canonical_length \in Nat

Coin == [denom : Denoms, amount : Amounts]
FullDelegation ==
  [delegator : Names, validator : Names, amount : Coin, can_redelegate : Coin,
   accumulated_rewards : Coin]
BasicDelegation == [delegator : Names, validator : Names, amount : Coin]
Handlers        == {"unsupported", "answers", "refuses"}

(* No answer is serialized to nothing.                                     *)
ASSUME NoneAssumption ==
  /\ None \notin Names \cup FullDelegation
  /\ NoBytes \notin Coin \cup FullDelegation \cup {None}
  /\ NoBytes \notin Seq(Coin) /\ NoBytes \notin Seq(BasicDelegation)

VARIABLES balances,  \* bank: names to lists of coins
          staking,   \* denom, validators and delegations
          custom     \* the handler of custom queries

chain == <<balances, staking, custom>>

-----------------------------------------------------------------------------
(* Iterator::filter, with the set of what is kept: SelectSeq, for which    *)
(* TLAPS has no definition.                                                *)
Filtered(seq, S) ==
  LET kept[i \in 0 .. Len(seq)] ==
        IF i = 0 THEN <<>>
        ELSE IF seq[i] \in S THEN Append(kept[i - 1], seq[i])
        ELSE kept[i - 1]
  IN  kept[Len(seq)]

-----------------------------------------------------------------------------
(* coins.rs                                                                *)

(* Faulty: the denomination is not looked at.                              *)
HasAnyCoins(coins, required) ==
  \E i \in DOMAIN coins : coins[i].amount >= required.amount

(* Only the first coin of the denomination counts; there must be one, even *)
(* if nothing is required.                                                 *)
HasCoins(coins, required) ==
  LET n == Seqs!SelectInSeq(coins, LAMBDA coin : coin.denom = required.denom)
  IN  n # 0 /\ coins[n].amount >= required.amount

-----------------------------------------------------------------------------
(* Answers.  A query goes wrong on one of two levels: the system does not  *)
(* get it to anybody, or who gets it answers with an error.                *)

SystemErr(kind)   == [level |-> "system", err |-> kind]
ContractErr(kind) == [level |-> "contract", err |-> kind]
Answer(value)     == [level |-> "ok", value |-> value]

Ok(value) == [ok |-> TRUE, value |-> value]
Err(kind) == [ok |-> FALSE, err |-> kind]

Coins(name) == IF name \in DOMAIN balances THEN balances[name] ELSE <<>>

(* Faulty: the last coin of the denomination.                              *)
BankBalanceLast(name, denom) ==
  LET n == Seqs!SelectLastInSeq(Coins(name), LAMBDA coin : coin.denom = denom)
  IN  [denom |-> denom, amount |-> IF n = 0 THEN 0 ELSE Coins(name)[n].amount]

BankBalance(name, denom) ==
  LET n == Seqs!SelectInSeq(Coins(name), LAMBDA coin : coin.denom = denom)
  IN  [denom |-> denom, amount |-> IF n = 0 THEN 0 ELSE Coins(name)[n].amount]

(* FullDelegation into Delegation.                                         *)
Basic(full) ==
  [delegator |-> full.delegator, validator |-> full.validator, amount |-> full.amount]

(* Unbonding delegations are not told from the others.                     *)
DelegationsOf(name) ==
  LET own == Filtered(staking.delegations, {d \in FullDelegation : d.delegator = name})
  IN  [i \in DOMAIN own |-> Basic(own[i])]

Delegation(delegator, validator) ==
  LET n == Seqs!SelectInSeq(staking.delegations,
             LAMBDA d : d.delegator = delegator /\ d.validator = validator)
  IN  IF n = 0 THEN None ELSE staking.delegations[n]

StakingQuery(request) ==
  CASE request.kind = "bonded_denom" -> staking.denom
    [] request.kind = "validators" -> staking.validators
    [] request.kind \in {"all_delegations", "unbonding_delegations"} -> DelegationsOf(request.name)
    [] request.kind = "delegation" -> Delegation(request.name, request.validator)

CustomQuery ==
  CASE custom = "unsupported" -> SystemErr("UnsupportedRequest")
    [] custom = "answers" -> Answer("custom")
    [] custom = "refuses" -> ContractErr("Unauthorized")

OfAccount  == {"all_balances", "all_delegations", "unbonding_delegations", "rewards"}
OfSystem   == {"bonded_denom", "validators", "proposals", "inflation", "bonded_ratio",
               "wasm", "custom", "malformed"}
Requests ==
  [kind : {"balance"}, name : Names, denom : Denoms]
    \cup [kind : {"delegation"}, name : Names, validator : Names]
    \cup [kind : OfAccount, name : Names]
    \cup [kind : OfSystem]

(* MockQuerier::raw_query and handle_query.  Gov and Mint answer with an   *)
(* empty Binary, no contract can be called, there are never any rewards.   *)
HandleQuery(request) ==
  CASE request.kind = "malformed" -> SystemErr("InvalidRequest")
    [] request.kind = "balance" -> Answer(BankBalance(request.name, request.denom))
    [] request.kind = "all_balances" -> Answer(Coins(request.name))
    [] request.kind = "custom" -> CustomQuery
    [] request.kind = "wasm" -> SystemErr("NoSuchContract")
    [] request.kind = "rewards" -> Answer([rewards |-> <<>>, total |-> <<>>])
    [] request.kind \in {"proposals", "inflation", "bonded_ratio"} -> Answer(NoBytes)
    [] OTHER -> Answer(StakingQuery(request))

(* Faulty: an answer without a byte is handed on.                          *)
FlattenEmpty(response) ==
  CASE response.level = "system" -> Err("GenericErr")
    [] response.level = "contract" -> Err(response.err)
    [] OTHER -> Ok(response.value)

(* Querier::custom_query: all errors become one level.                     *)
Flatten(response) ==
  CASE response.level = "system" -> Err("GenericErr")
    [] response.level = "contract" -> Err(response.err)
    [] response.level = "ok" /\ response.value = NoBytes -> Err("ParseErr")
    [] OTHER -> Ok(response.value)

Query(request) == Flatten(HandleQuery(request))

-----------------------------------------------------------------------------
(* MockApi.                                                                *)

(* Faulty: what is too long is cut.                                        *)
CanonicalAddressCut(name) ==
  IF Len(name) < 3 THEN Err("GenericErr")
  ELSE Ok([i \in 1 .. canonical_length |-> IF i <= Len(name) THEN name[i] ELSE 0])

CanonicalAddress(name) ==
  IF Len(name) < 3 \/ Len(name) > canonical_length THEN Err("GenericErr")
  ELSE Ok([i \in 1 .. canonical_length |-> IF i <= Len(name) THEN name[i] ELSE 0])

(* Every zero is dropped, not only those at the end.                       *)
HumanAddress(canonical) ==
  IF Len(canonical) # canonical_length THEN Err("GenericErr")
  ELSE Ok(Filtered(canonical, Nat \ {0}))

-----------------------------------------------------------------------------
(* What a test does.                                                       *)

(* update_balance: the coins take the place of the ones there are.         *)
UpdateBalance(name, coins) ==
  /\ balances' = [n \in DOMAIN balances \cup {name} |-> IF n = name THEN coins ELSE balances[n]]
  /\ UNCHANGED <<staking, custom>>

UpdateStaking(denom, validators, delegations) ==
  /\ staking' = [denom |-> denom, validators |-> validators, delegations |-> delegations]
  /\ UNCHANGED <<balances, custom>>

WithCustomHandler(handler) ==
  /\ custom' = handler
  /\ UNCHANGED <<balances, staking>>

(* mock_dependencies: the contract's balance and nothing else.             *)
ChainInit(contract, coins) ==
  /\ balances = [n \in {contract} |-> coins]
  /\ staking = [denom |-> None, validators |-> <<>>, delegations |-> <<>>]
  /\ custom = "unsupported"

ChainTypeOK ==
  /\ DOMAIN balances \subseteq Names
  /\ \A n \in DOMAIN balances : balances[n] \in Seq(Coin)
  /\ staking.denom \in Denoms \cup {None}
  /\ staking.validators \in Seq(Names)
  /\ staking.delegations \in Seq(FullDelegation)
  /\ custom \in Handlers
=============================================================================
