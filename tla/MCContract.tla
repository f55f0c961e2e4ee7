----------------------------- MODULE MCContract -----------------------------
(* Names of two to five bytes, where MockApi takes three or four; they      *)
(* begin alike, and one ends in a zero.  An account may hold two coins of   *)
(* a denomination.                                                          *)
EXTENDS ContractCalls

C(denom, amount) == [denom |-> denom, amount |-> amount]

MCContractName == <<1, 2, 3>>
MCNames  == {<<1, 2>>, <<1, 2, 3>>, <<1, 2, 3, 0>>, <<1, 2, 3, 4>>, <<1, 2, 3, 4, 5>>}
MCPurses == {<<C("a", 0), C("a", 1)>>, <<C("b", 0), C("a", 1)>>}

Full(delegator, validator, amount) ==
  [delegator |-> delegator, validator |-> validator, amount |-> C("a", amount),
   can_redelegate |-> C("a", 0), accumulated_rewards |-> C("b", amount)]

MCStakings ==
  { [denom |-> "a", validators |-> <<<<1, 2>>>>,
     delegations |-> <<Full(<<1, 2, 3>>, <<1, 2>>, 1), Full(<<1, 2>>, <<1, 2>>, 0),
                       Full(<<1, 2, 3>>, <<1, 2>>, 0)>>] }
=============================================================================
