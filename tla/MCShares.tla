------------------------------ MODULE MCShares ------------------------------
EXTENDS Shares

(* Texts of one to three parts: digits of base 2, the character 2 that is  *)
(* none, and signs.                                                        *)
Digits(n)  == UNION {[1 .. k -> 0 .. 1] : k \in 0 .. n}
MCWholes   == [plus : BOOLEAN, digits : Digits(2) \cup {<<1, 0, 0>>}] \cup [plus : {FALSE}, digits : {<<2>>, <<1, 2>>}]
MCParts    == [plus : BOOLEAN, digits : Digits(4)] \cup [plus : {FALSE}, digits : {<<2>>, <<0, 2>>}]
MCDotted   == {<<Unsigned(<<1>>), Unsigned(<<1>>), part>> : part \in [plus : {FALSE}, digits : Digits(1)]}

MCTexts   == {<<whole>> : whole \in MCWholes} \cup MCWholes \X MCParts \cup MCDotted
MCAmounts == {0, 1, 2, 3, 4, 7, 13, 25, 30, 31}
MCTotals  == {0, 3, 4, 8}
=============================================================================
