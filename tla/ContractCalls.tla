---------------------------- MODULE ContractCalls ----------------------------
(***************************************************************************)
(* A contract from the moment an entry point is called (exports.rs) to the *)
(* response it returns (init_handle.rs), with what the standard library    *)
(* gives it on the way: a Context to collect logs, messages and data in,   *)
(* queries of the chain (traits.rs, imports.rs), has_coins for the funds   *)
(* that came with the message, and conversions of addresses.               *)
(*                                                                         *)
(* The contract is not in the repository: it does any of that in any       *)
(* order, ends at the first error as `?` does, and keeps accounts of its   *)
(* own in storage under canonical addresses.                               *)
(***************************************************************************)
EXTENDS MockChain

(* A message is told from others by the module it is for.                  *)
CosmosMsgs == {"bank", "custom", "gov", "staking", "wasm"}

CONSTANTS
  Purses,      \* lists of coins an account may hold or send
  Stakings,    \* [denom, validators, delegations] a test may set
  contract,    \* the name of the contract
  LogKeys,     \* keys of logs
  Texts,       \* data
  Messages,    \* the messages a contract sends
  MaxAdded,    \* bound on what is added to a Context
  MaxUpdates,  \* bound on what a test changes on the chain
  MaxCredits   \* bound on the accounts' credit

ASSUME PursesAssumption   == Purses \subseteq Seq(Coin) /\ contract \in Names
ASSUME StakingsAssumption ==
  \A s \in Stakings : /\ s.denom \in Denoms
                      /\ s.validators \in Seq(Names)
                      /\ s.delegations \in Seq(FullDelegation)
ASSUME MessagesAssumption == Messages \subseteq CosmosMsgs /\ None \notin Texts
ASSUME BoundsAssumption   == {MaxAdded, MaxUpdates, MaxCredits} \subseteq Nat

VARIABLES
  entry,      \* the entry point that was called last
  running,    \* it has not returned yet
  funds,      \* sent_funds of the message
  ctx,        \* the Context
  heard,      \* in a query: the last question to the chain, and its answer
  response,   \* what the last call returned
  accounts,   \* the contract's storage: canonical addresses to credit
  updates,
  added,      \* history: all that the call put into its Context, in order
  charge,     \* history: the last price of the call, and what came of it
  credited    \* history: names to the credit they were given

context  == <<ctx, added>>
ledger   == <<accounts, credited>>
vars == <<chain, entry, running, funds, context, heard, response, ledger, updates, charge>>

Entries    == {"init", "handle", "migrate", "query"}
NewContext == [messages |-> <<>>, log |-> <<>>, data |-> None]
NoCharge   == [price |-> None, accepted |-> FALSE]
NotHeard   == [request |-> None, value |-> None]
NoResponse == Err("none")

-----------------------------------------------------------------------------
(* exports.rs: env and msg are parsed, in this order, then the contract    *)
(* runs; whatever comes of it is serialized for the VM.  A query has no    *)
(* env, and so no funds.                                                   *)

Returns(result) ==
  /\ running' = FALSE /\ response' = result
  /\ UNCHANGED <<chain, entry, funds, context, heard, ledger, updates, charge>>

Enter(point, sent) ==
  /\ ~ running
  /\ running' = TRUE /\ entry' = point /\ funds' = IF point = "query" THEN <<>> ELSE sent
  /\ ctx' = NewContext /\ added' = <<>>
  /\ heard' = NotHeard /\ charge' = NoCharge /\ response' = NoResponse
  /\ UNCHANGED <<chain, ledger, updates>>

(* env or msg does not parse: the contract is not called.                  *)
EnterFails ==
  /\ ~ running /\ response # Err("ParseErr")
  /\ response' = Err("ParseErr")
  /\ ctx' = NewContext /\ added' = <<>>
  /\ UNCHANGED <<chain, entry, running, funds, heard, ledger, updates, charge>>

-----------------------------------------------------------------------------
(* Context, in everything but a query.                                     *)

Adds(what) ==
  /\ running /\ entry # "query" /\ Len(added) < MaxAdded
  /\ added' = Append(added, what)
  /\ UNCHANGED <<chain, entry, running, funds, heard, response, ledger, updates, charge>>

Log(key, encrypted) == [key |-> key, encrypted |-> encrypted]
Logs == [key : LogKeys, encrypted : BOOLEAN]

(* add_log with log(), add_plaintext_log with plaintext_log().             *)
AddLog(key, encrypted) ==
  /\ Adds([kind |-> "log", content |-> Log(key, encrypted)])
  /\ ctx' = [ctx EXCEPT !.log = Append(@, Log(key, encrypted))]

AddMessage(msg) ==
  /\ Adds([kind |-> "message", content |-> msg])
  /\ ctx' = [ctx EXCEPT !.messages = Append(@, msg)]

SetData(data) ==
  /\ Adds([kind |-> "data", content |-> data])
  /\ ctx' = [ctx EXCEPT !.data = data]

(* Faulty: the data is dropped.                                            *)
InitResponseDropping == Ok([messages |-> ctx.messages, log |-> ctx.log])

(* InitResponse::try_from: there is no place for data.                     *)
InitResponse ==
  IF ctx.data # None THEN Err("GenericErr")
  ELSE Ok([messages |-> ctx.messages, log |-> ctx.log])

(* HandleResponse::from, MigrateResponse::from                             *)
HandleResponse == Ok(ctx)

Return ==
  /\ running
  /\ Returns(CASE entry = "init" -> InitResponse
               [] entry \in {"handle", "migrate"} -> HandleResponse
               [] entry = "query" -> Ok(heard.value))

(* An error of the contract's own.                                         *)
Refuse == running /\ Returns(Err("Unauthorized"))

-----------------------------------------------------------------------------
(* What the contract asks.                                                 *)

Ask(request) ==
  /\ running
  /\ LET answer == Query(request)
     IN  IF answer.ok
         THEN /\ heard' = IF entry = "query" THEN [request |-> request, value |-> answer.value] ELSE heard
              /\ UNCHANGED <<chain, entry, running, funds, context, response, ledger, updates, charge>>
         ELSE Returns(answer)

(* Through an ExternalQuerier, a response of the VM that does not parse.   *)
AskGarbled ==
  /\ running
  /\ Returns(Flatten(ContractErr("ParseErr")))

(* has_coins(sent_funds, price), and an error if not.                      *)
Charge(price) ==
  /\ running /\ entry # "query" /\ charge = NoCharge
  /\ charge' = [price |-> price, accepted |-> HasCoins(funds, price)]
  /\ IF HasCoins(funds, price)
     THEN UNCHANGED <<running, response>>
     ELSE running' = FALSE /\ response' = Err("GenericErr")
  /\ UNCHANGED <<chain, entry, funds, context, heard, ledger, updates>>

(* A credit to a name, kept under its canonical address.                   *)
Credit(name) ==
  /\ running /\ entry # "query"
  /\ LET address == CanonicalAddress(name)
         credit(a)  == IF a \in DOMAIN accounts THEN accounts[a] ELSE 0
     IN  IF address.ok
         THEN /\ credited[name] < MaxCredits
              /\ accounts' = [a \in DOMAIN accounts \cup {address.value} |->
                                IF a = address.value THEN credit(a) + 1 ELSE accounts[a]]
              /\ credited' = [credited EXCEPT ![name] = @ + 1]
              /\ UNCHANGED <<chain, entry, running, funds, context, heard, response, updates, charge>>
         ELSE Returns(address)

-----------------------------------------------------------------------------
(* The test, which has the chain to itself between calls.                  *)

Updates ==
  /\ ~ running /\ updates < MaxUpdates
  /\ updates' = updates + 1
  /\ UNCHANGED <<entry, running, funds, context, heard, response, ledger, charge>>

Init ==
  /\ ChainInit(contract, <<>>)
  /\ entry = "none" /\ running = FALSE /\ funds = <<>> /\ ctx = NewContext
  /\ heard = NotHeard /\ response = NoResponse
  /\ accounts = [a \in {} |-> 0] /\ updates = 0
  /\ added = <<>> /\ charge = NoCharge
  /\ credited = [n \in Names |-> 0]

Next ==
  \/ \E name \in Names, coins \in Purses : Updates /\ UpdateBalance(name, coins)
  \/ \E s \in Stakings : Updates /\ UpdateStaking(s.denom, s.validators, s.delegations)
  \/ \E handler \in Handlers \ {"unsupported"} : Updates /\ WithCustomHandler(handler)
  \/ \E point \in Entries, sent \in Purses : Enter(point, sent)
  \/ EnterFails
  \/ \E key \in LogKeys, encrypted \in BOOLEAN : AddLog(key, encrypted)
  \/ \E msg \in Messages : AddMessage(msg)
  \/ \E data \in Texts : SetData(data)
  \/ \E request \in Requests : Ask(request)
  \/ AskGarbled
  \/ \E price \in Coin : Charge(price)
  \/ \E name \in Names : Credit(name)
  \/ Refuse
  \/ Return

Spec == Init /\ [][Next]_vars

-----------------------------------------------------------------------------
(* Properties.                                                             *)

Errors == {"none", "GenericErr", "ParseErr", "Unauthorized"}

(* The type each kind of query has its answer in; a Coin is one of the     *)
(* denomination that was asked for.                                        *)
AnswerType(request) ==
  CASE request.kind = "balance" -> {coin \in Coin : coin.denom = request.denom}
    [] request.kind = "all_balances" -> Seq(Coin)
    [] request.kind \in {"all_delegations", "unbonding_delegations"} ->
         Seq([delegator : {request.name}, validator : Names, amount : Coin])
    [] request.kind = "delegation" ->
         {None} \cup {d \in FullDelegation :
                       d.delegator = request.name /\ d.validator = request.validator}
    [] request.kind = "bonded_denom" -> Denoms \cup {None}
    [] request.kind = "validators" -> Seq(Names)
    [] request.kind = "rewards" -> [rewards : {<<>>}, total : {<<>>}]
    [] request.kind = "custom" -> {"custom"}
    [] OTHER -> {}

Additions ==
  [kind : {"log"}, content : Logs] \cup [kind : {"message"}, content : Messages]
    \cup [kind : {"data"}, content : Texts]

(* The variables have their types, and what a contract hears from the      *)
(* chain is of the type that answers its question: what is not, it never   *)
(* sees.                                                                   *)
TypeOK ==
  /\ ChainTypeOK
  /\ running \in BOOLEAN
  /\ entry \in Entries \cup {"none"} /\ (running => entry \in Entries)
  /\ funds \in Purses \cup {<<>>}
  /\ ctx \in [messages : Seq(Messages), log : Seq(Logs), data : Texts \cup {None}]
  /\ added \in Seq(Additions)
  /\ heard = NotHeard \/ heard.value \in AnswerType(heard.request)
  /\ response.ok \in BOOLEAN /\ (~ response.ok => response.err \in Errors)
  /\ \A a \in DOMAIN accounts : accounts[a] \in Nat
  /\ credited \in [Names -> Nat]

(* The ways to learn the same thing agree, whatever a test made of the     *)
(* chain: query_balance with has_coins on query_all_balances, and          *)
(* query_delegation with the list of query_all_delegations.                *)
BalancesAgree ==
  \A n \in Names, d \in Denoms, x \in Amounts \ {0} :
    LET one == Query([kind |-> "balance", name |-> n, denom |-> d])
        all == Query([kind |-> "all_balances", name |-> n])
    IN  x <= one.value.amount <=> HasCoins(all.value, [denom |-> d, amount |-> x])

DelegationsAgree ==
  \A n, v \in Names :
    LET one == Query([kind |-> "delegation", name |-> n, validator |-> v]).value
        all == Query([kind |-> "all_delegations", name |-> n]).value
        to  == Filtered(all, {d \in BasicDelegation : d.validator = v})
    IN  IF to = <<>> THEN one = None ELSE one # None /\ Basic(one) = Head(to)

QueriesAgree == BalancesAgree /\ DelegationsAgree

(* A response has all logs, messages and the last data that the call put   *)
(* into its Context, in order and each log as encrypted or plain as it was *)
(* made; a contract that has set data cannot initialize without an error.  *)
Contents(kind) ==
  LET these == Filtered(added, {what \in Additions : what.kind = kind})
  IN  [i \in DOMAIN these |-> these[i].content]

ResponseIsWhatWasAdded ==
  ~ running /\ response.ok /\ entry # "query" =>
    /\ response.value.messages = Contents("message")
    /\ response.value.log = Contents("log")
    /\ IF Contents("data") = <<>> THEN entry = "init" \/ response.value.data = None
       ELSE entry # "init" /\ response.value.data = Seqs!Last(Contents("data"))

(* A price is accepted only if the funds that were sent cover it; it is    *)
(* also refused only if they do not, provided that they name each          *)
(* denomination once and the price is not zero.                            *)
Total(coins, denom) ==
  LET sum[i \in 0 .. Len(coins)] ==
        IF i = 0 THEN 0
        ELSE sum[i - 1] + (IF coins[i].denom = denom THEN coins[i].amount ELSE 0)
  IN  sum[Len(coins)]

Distinct(coins) == \A i, j \in DOMAIN coins : coins[i].denom = coins[j].denom => i = j

FundsCover ==
  charge # NoCharge =>
    LET covered == Total(funds, charge.price.denom) >= charge.price.amount
    IN  /\ charge.accepted => covered
        /\ Distinct(funds) /\ charge.price.amount > 0 /\ covered => charge.accepted

(* Two names have one account only if zero bytes at their ends are all     *)
(* that tells them apart: otherwise each has its own, of exactly its       *)
(* credit, however they differ in length.  A name is found again from the  *)
(* address that its account is kept under if and only if it has no zero    *)
(* byte, at its end or elsewhere.                                          *)
ZerosApart(a, b) ==
  /\ \A i \in DOMAIN a \cap DOMAIN b : a[i] = b[i]
  /\ \A i \in DOMAIN a \ DOMAIN b : a[i] = 0
  /\ \A i \in DOMAIN b \ DOMAIN a : b[i] = 0

Alone(n) == \A m \in Names \ {n} : credited[m] > 0 => ~ ZerosApart(m, n)

AccountsApart ==
  /\ \A n \in Names : credited[n] > 0 =>
       LET address == CanonicalAddress(n)
       IN  /\ address.ok
           /\ accounts[address.value] >= credited[n]
           /\ Alone(n) => accounts[address.value] = credited[n]
           /\ HumanAddress(address.value) = Ok(n) <=> \A i \in DOMAIN n : n[i] # 0
  /\ \A a \in DOMAIN accounts : \E n \in Names : credited[n] > 0 /\ CanonicalAddress(n) = Ok(a)
=============================================================================
