--------------------------- MODULE SnapshotStore ---------------------------
(***************************************************************************)
(* What the transactional storage of cosmwasm/storage promises, with       *)
(* neither an overlay, nor a log, nor borrows: a transaction works on a    *)
(* private copy of the store it was opened on, remembers the last change   *)
(* it made to each key, and is merged in one indivisible step or not at    *)
(* all.  Module Transactions is shown to implement this module.            *)
(***************************************************************************)
CONSTANTS Keys, Values, Txns,
          BASE,       \* the storage at the bottom, which is no transaction
          None,       \* what get returns for a key that is not there
          Untouched   \* "this transaction made no change to the key"

VARIABLES view,       \* view[s]: the contents a reader of store s sees
          changes,    \* changes[t]: the last change t made to each key
          phase       \* phase[t]: where transaction t is in its life

snapshotVars == <<view, changes, phase>>

Stores     == Txns \cup {BASE}
Contents   == [Keys -> Values \cup {None}]
ChangeSets == [Keys -> Values \cup {None, Untouched}]
NoContents == [k \in Keys |-> None]
NoChanges  == [k \in Keys |-> Untouched]

Overlay(contents, set) ==
  [k \in Keys |-> IF set[k] = Untouched THEN contents[k] ELSE set[k]]

IsLive(s) == s # BASE => phase[s] = "open"

Init ==
  /\ view \in {v \in [Stores -> Contents] : \A t \in Txns : v[t] = NoContents}
  /\ changes = [t \in Txns |-> NoChanges]
  /\ phase = [t \in Txns |-> "none"]

Begin(t, s) ==
  /\ phase[t] = "none" /\ IsLive(s)
  /\ phase' = [phase EXCEPT ![t] = "open"]
  /\ view' = [view EXCEPT ![t] = view[s]]
  /\ UNCHANGED changes

(* v is None when the key is removed.                                      *)
Write(s, k, v) ==
  /\ IsLive(s)
  /\ view' = [view EXCEPT ![s][k] = v]
  /\ changes' = [t \in Txns |->
                   IF t = s THEN [changes[t] EXCEPT ![k] = v] ELSE changes[t]]
  /\ UNCHANGED phase

(* The transaction is over for its reader; its changes are kept for later. *)
Prepare(t) ==
  /\ phase[t] = "open"
  /\ phase' = [phase EXCEPT ![t] = "prepared"]
  /\ view' = [view EXCEPT ![t] = NoContents]
  /\ UNCHANGED changes

(* All changes of t reach s at once.                                       *)
Merge(t, s) ==
  /\ phase[t] \in {"open", "prepared"} /\ IsLive(s) /\ s # t
  /\ phase' = [phase EXCEPT ![t] = "done"]
  /\ view' = [view EXCEPT ![t] = NoContents, ![s] = Overlay(view[s], changes[t])]
  /\ changes' = [u \in Txns |->
                   CASE u = t -> NoChanges
                     [] u = s -> [k \in Keys |-> IF changes[t][k] = Untouched
                                                 THEN changes[s][k]
                                                 ELSE changes[t][k]]
                     [] OTHER -> changes[u]]

(* None of the changes of t reaches any store.                             *)
Drop(t) ==
  /\ phase[t] \in {"open", "prepared"}
  /\ phase' = [phase EXCEPT ![t] = "done"]
  /\ view' = [view EXCEPT ![t] = NoContents]
  /\ changes' = [changes EXCEPT ![t] = NoChanges]

Next ==
  \/ \E t \in Txns, s \in Stores : Begin(t, s) \/ Merge(t, s)
  \/ \E s \in Stores, k \in Keys, v \in Values \cup {None} : Write(s, k, v)
  \/ \E t \in Txns : Prepare(t) \/ Drop(t)

Spec == Init /\ [][Next]_snapshotVars
=============================================================================
