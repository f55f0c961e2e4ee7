----------------------------- MODULE MCPromises -----------------------------
(* Promises on small sets: the contents of keys and values never matter,   *)
(* and neither does which transaction is which.                            *)
EXTENDS Promises, TLC

Symmetric == Permutations(Keys) \cup Permutations(Values) \cup Permutations(Txns)
=============================================================================
