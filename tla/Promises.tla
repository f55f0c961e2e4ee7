------------------------------ MODULE Promises ------------------------------
(***************************************************************************)
(* Transactions with a history variable: what the storage that a commit of *)
(* t writes to owes to its readers when the commit is over.  It is set     *)
(* from what t showed when it was consumed and, for a log that is          *)
(* committed by itself, from what its target showed at that moment; no     *)
(* step of Transactions looks at it.                                       *)
(***************************************************************************)
EXTENDS Transactions

VARIABLE promised  \* promised[t]: the value under each key, or the delta

historyVars == <<vars, promised>>

(* prepare() gives away what t changed; transactional() promises all that  *)
(* the callback saw; commit() on a storage adds what the log leaves alone. *)
Promise(t) ==
  CASE status[t] = "open" /\ status'[t] = "prepared" -> local_state[t]
    [] status[t] = "open" /\ status'[t] = "committing" -> [k \in Keys |-> Get(t, k)]
    [] status[t] = "prepared" /\ status'[t] = "committing" ->
         [k \in Keys |-> IF promised[t][k] = Untouched THEN Get(target'[t], k)
                         ELSE promised[t][k]]
    [] status'[t] = "done" -> NoDeltas
    [] OTHER -> promised[t]

HistoryInit == Init /\ promised = [t \in Txns |-> NoDeltas]
HistoryNext == Next /\ promised' = [t \in Txns |-> Promise(t)]

HistorySpec == HistoryInit /\ [][HistoryNext]_historyVars

-----------------------------------------------------------------------------
(* When the loop of commit() is through the log, the storage shows under   *)
(* every key what was promised: after transactional() what the callback    *)
(* last saw, after a commit of its own what the transaction had changed    *)
(* and, under the other keys, what was there when the commit began.  The   *)
(* ops have been replayed one by one, in whatever order Apply takes them,  *)
(* while other transactions went on.                                       *)
CommitsWhatItShowed ==
  \A t \in Txns : status[t] = "committing" /\ next[t] > Len(ops_log[t]) =>
    \A k \in Keys : Get(target[t], k) = promised[t][k]
=============================================================================
