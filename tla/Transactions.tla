---------------------------- MODULE Transactions ----------------------------
(***************************************************************************)
(* StorageTransaction, RepLog and transactional() of                       *)
(* packages/cosmwasm/storage/src/transactions.rs: any number of            *)
(* transactions, on a base storage or nested in one another, each with an  *)
(* overlay that answers reads (local_state) and a log that is replayed on  *)
(* commit (rep_log).                                                       *)
(*                                                                         *)
(* The Rust type of a nested transaction names the stores below it and its *)
(* lifetime keeps them borrowed.  Both are explicit here: storage[t] is    *)
(* the path of stores t reads through, and CanShare/CanMutate are what the *)
(* borrow checker lets a caller do.                                        *)
(***************************************************************************)
EXTENDS Integers, Sequences, FiniteSets

Seqs == INSTANCE SequencesExt

CONSTANTS Keys, Values, Txns,
          BASE,       \* the storage at the bottom, which is no transaction
          None,       \* Option::None of get, and the Delta::Delete of an Op
          Untouched,  \* a key that is not in local_state
          MaxOps      \* bound: a caller writes to t only while its log is shorter

ASSUME BaseAssumption   == BASE \notin Txns
ASSUME ValuesAssumption ==
  None \notin Values /\ Untouched \notin Values /\ None # Untouched
ASSUME BoundAssumption  == MaxOps \in Nat

VARIABLES
  base,         \* the contents of the base storage
  status,       \* where the transaction or its RepLog is in its life
  storage,      \* storage[t]: the transactions t reads through, nearest first
  exclusive,    \* the transactions opened by transactional(&mut store, ..)
  local_state,  \* local_state[t]: the delta of each key
  ops_log,      \* ops_log[t]: the RepLog, oldest first
  target,       \* target[t]: the storage commit() is writing to
  next          \* next[t]: the op the loop of commit() applies next

vars == <<base, status, storage, exclusive, local_state, ops_log, target, next>>

Stores     == Txns \cup {BASE}
MaybeValue == Values \cup {None}
Op         == [key : Keys, value : MaybeValue]
NoDeltas   == [k \in Keys |-> Untouched]
Statuses   == {"none", "open", "prepared", "committing", "done"}

-----------------------------------------------------------------------------
(* Reads.                                                                  *)

IsLive(s) == s # BASE => status[s] = "open"

(* The store a transaction was opened on.                                  *)
Lender(t) == IF storage[t] = <<>> THEN BASE ELSE Head(storage[t])

Path(s) == IF s = BASE THEN <<>> ELSE <<s>> \o storage[s]

(* Faulty get: the outermost transaction that has the key decides.         *)
GetOutermost(s, k) ==
  LET path == Path(s)
      hit  == Seqs!SelectLastInSeq(path, LAMBDA t : local_state[t][k] # Untouched)
  IN  IF hit = 0 THEN base[k] ELSE local_state[path[hit]][k]

(* StorageTransaction::get: the nearest transaction on the path whose      *)
(* local_state has the key decides, the base storage otherwise.            *)
Get(s, k) ==
  LET path == Path(s)
      hit  == Seqs!SelectInSeq(path, LAMBDA t : local_state[t][k] # Untouched)
  IN  IF hit = 0 THEN base[k] ELSE local_state[path[hit]][k]

-----------------------------------------------------------------------------
(* What the borrow checker allows: the references in the types of          *)
(* StorageTransaction and RepLog::commit, by rustc's rules.                *)

Readers(s)  == {t \in Txns : status[t] = "open" /\ Lender(t) = s}
Writers(s)  == {t \in Txns : \/ status[t] = "open" /\ t \in exclusive /\ Lender(t) = s
                             \/ status[t] = "committing" /\ target[t] = s}

CanShare(s) == IsLive(s) /\ Writers(s) = {}

CanMutate(s) == CanShare(s) /\ Readers(s) = {}

-----------------------------------------------------------------------------
(* Opening a transaction.                                                  *)

Open(t, s) ==
  /\ status[t] = "none"
  /\ status' = [status EXCEPT ![t] = "open"]
  /\ storage' = [storage EXCEPT ![t] = Path(s)]
  /\ UNCHANGED <<base, local_state, ops_log, target, next>>

(* StorageTransaction::new(&s).                                            *)
New(t, s) ==
  /\ CanShare(s)
  /\ Open(t, s)
  /\ UNCHANGED exclusive

(* The entry of transactional(&mut s, callback).                           *)
Transactional(t, s) ==
  /\ CanMutate(s)
  /\ Open(t, s)
  /\ exclusive' = exclusive \cup {t}

-----------------------------------------------------------------------------
(* Writes: Storage::set and Storage::remove, and Op::apply, which calls    *)
(* them.  A transaction records the op twice, the base storage obeys it.   *)

(* Faulty: a removal is not logged.                                        *)
WriteUnlogged(s, op) ==
  IF s = BASE
  THEN /\ base' = [base EXCEPT ![op.key] = op.value]
       /\ UNCHANGED <<local_state, ops_log>>
  ELSE /\ local_state' = [local_state EXCEPT ![s][op.key] = op.value]
       /\ ops_log' = IF op.value = None THEN ops_log
                     ELSE [ops_log EXCEPT ![s] = Append(@, op)]
       /\ UNCHANGED base

Write(s, op) ==
  IF s = BASE
  THEN /\ base' = [base EXCEPT ![op.key] = op.value]
       /\ UNCHANGED <<local_state, ops_log>>
  ELSE /\ local_state' = [local_state EXCEPT ![s][op.key] = op.value]
       /\ ops_log' = [ops_log EXCEPT ![s] = Append(@, op)]
       /\ UNCHANGED base

CallerWrites(s, op) ==
  /\ CanMutate(s)
  /\ s \in Txns => Len(ops_log[s]) < MaxOps
  /\ Write(s, op)
  /\ UNCHANGED <<status, storage, exclusive, target, next>>

Set(s, k, v) == CallerWrites(s, [key |-> k, value |-> v])
Remove(s, k) == CallerWrites(s, [key |-> k, value |-> None])

-----------------------------------------------------------------------------
(* The end of a transaction.  All of these take it by value, so nothing    *)
(* may still borrow it.                                                    *)

Consumable(t) == status[t] = "open" /\ Readers(t) = {} /\ Writers(t) = {}

(* prepare(): the log is moved out, the overlay and the borrow are gone.   *)
Prepare(t) ==
  /\ Consumable(t) /\ t \notin exclusive
  /\ status' = [status EXCEPT ![t] = "prepared"]
  /\ local_state' = [local_state EXCEPT ![t] = NoDeltas]
  /\ storage' = [storage EXCEPT ![t] = <<>>]
  /\ UNCHANGED <<base, exclusive, ops_log, target, next>>

StartCommit(t, s) ==
  /\ status' = [status EXCEPT ![t] = "committing"]
  /\ target' = [target EXCEPT ![t] = s]
  /\ next' = [next EXCEPT ![t] = 1]

(* RepLog::commit(self, &mut s), which takes any storage: nothing ties a   *)
(* log to the storage its transaction was opened on.                       *)
Commit(t, s) ==
  /\ status[t] = "prepared" /\ CanMutate(s)
  /\ StartCommit(t, s)
  /\ UNCHANGED <<base, storage, exclusive, local_state, ops_log>>

(* transactional(), the callback returned Ok: prepare().commit(storage).   *)
CallbackOk(t) ==
  /\ Consumable(t) /\ t \in exclusive
  /\ StartCommit(t, Lender(t))
  /\ local_state' = [local_state EXCEPT ![t] = NoDeltas]
  /\ storage' = [storage EXCEPT ![t] = <<>>]
  /\ exclusive' = exclusive \ {t}
  /\ UNCHANGED <<base, ops_log>>

Closed(t) ==
  /\ status' = [status EXCEPT ![t] = "done"]
  /\ ops_log' = [ops_log EXCEPT ![t] = <<>>]

Discard(t) ==
  /\ Closed(t)
  /\ local_state' = [local_state EXCEPT ![t] = NoDeltas]
  /\ storage' = [storage EXCEPT ![t] = <<>>]
  /\ exclusive' = exclusive \ {t}
  /\ UNCHANGED <<base, target, next>>

(* rollback(), or the transaction goes out of scope.                       *)
Rollback(t) == Consumable(t) /\ t \notin exclusive /\ Discard(t)

(* transactional(), the callback returned Err: `?` drops stx.              *)
CallbackErr(t) == Consumable(t) /\ t \in exclusive /\ Discard(t)

(* A prepared log that nobody commits.                                     *)
DropLog(t) == status[t] = "prepared" /\ Discard(t)

-----------------------------------------------------------------------------
(* The loop of RepLog::commit.                                             *)

(* Faulty: the log is replayed from its end.                               *)
ApplyNewestFirst(t) ==
  /\ status[t] = "committing" /\ next[t] <= Len(ops_log[t])
  /\ Write(target[t], ops_log[t][Len(ops_log[t]) + 1 - next[t]])
  /\ next' = [next EXCEPT ![t] = @ + 1]
  /\ UNCHANGED <<status, storage, exclusive, target>>

Apply(t) ==
  /\ status[t] = "committing" /\ next[t] <= Len(ops_log[t])
  /\ Write(target[t], ops_log[t][next[t]])
  /\ next' = [next EXCEPT ![t] = @ + 1]
  /\ UNCHANGED <<status, storage, exclusive, target>>

CommitReturns(t) ==
  /\ status[t] = "committing" /\ next[t] > Len(ops_log[t])
  /\ Closed(t)
  /\ target' = [target EXCEPT ![t] = BASE]
  /\ next' = [next EXCEPT ![t] = 1]
  /\ UNCHANGED <<base, storage, exclusive, local_state>>

-----------------------------------------------------------------------------
Init ==
  /\ base \in [Keys -> MaybeValue]
  /\ status = [t \in Txns |-> "none"]
  /\ storage = [t \in Txns |-> <<>>]
  /\ exclusive = {}
  /\ local_state = [t \in Txns |-> NoDeltas]
  /\ ops_log = [t \in Txns |-> <<>>]
  /\ target = [t \in Txns |-> BASE]
  /\ next = [t \in Txns |-> 1]

Next ==
  \/ \E t \in Txns, s \in Stores : New(t, s)
  \/ \E t \in Txns, s \in Stores : Transactional(t, s)
  \/ \E s \in Stores, k \in Keys, v \in Values : Set(s, k, v)
  \/ \E s \in Stores, k \in Keys : Remove(s, k)
  \/ \E t \in Txns : Prepare(t)
  \/ \E t \in Txns, s \in Stores : Commit(t, s)
  \/ \E t \in Txns : CallbackOk(t)
  \/ \E t \in Txns : CallbackErr(t)
  \/ \E t \in Txns : Rollback(t)
  \/ \E t \in Txns : DropLog(t)
  \/ \E t \in Txns : Apply(t)
  \/ \E t \in Txns : CommitReturns(t)

Spec == Init /\ [][Next]_vars

-----------------------------------------------------------------------------
(* Properties.                                                             *)

(* Every variable of the storage layer keeps its shape.                    *)
TypeOK ==
  /\ base \in [Keys -> MaybeValue]
  /\ status \in [Txns -> Statuses]
  /\ storage \in [Txns -> Seq(Txns)]
  /\ exclusive \in SUBSET Txns
  /\ local_state \in [Txns -> [Keys -> MaybeValue \cup {Untouched}]]
  /\ ops_log \in [Txns -> Seq(Op)]
  /\ target \in [Txns -> Stores]
  /\ next \in [Txns -> Nat \ {0}]

(* The last op on key k among the ops of the log from index i on: what the *)
(* rest of a replay leaves in k.  Untouched if there is none.              *)
LastDelta(log, i, k) ==
  LET last == Seqs!SelectLastInSubSeq(log, i, Len(log), LAMBDA op : op.key = k)
  IN  IF last = 0 THEN Untouched ELSE log[last].value

(* The two records a transaction keeps never disagree: what a read of the  *)
(* overlay finds under a key is what replaying the log will leave there.   *)
LocalMatchesLog ==
  \A t \in Txns : status[t] = "open" =>
    \A k \in Keys : local_state[t][k] = LastDelta(ops_log[t], 1, k)

(* What the commit that is writing to s, if there is one, will still leave *)
(* in k, and what a reader of s will see once it is over.                  *)
PendingDelta(s, k) ==
  LET writing == {t \in Txns : status[t] = "committing" /\ target[t] = s}
  IN  IF writing = {} THEN Untouched
      ELSE LET t == CHOOSE u \in writing : TRUE
           IN  LastDelta(ops_log[t], next[t], k)

Settled(s, k) ==
  IF PendingDelta(s, k) = Untouched THEN Get(s, k) ELSE PendingDelta(s, k)

(* An open transaction was opened on a store that is still there, and      *)
(* reads through exactly what that store reads through: no dangling and no *)
(* circular borrow.                                                        *)
PathsAreChains ==
  \A t \in Txns : status[t] = "open" =>
    IsLive(Lender(t)) /\ storage[t] = Path(Lender(t))

(* A store that is written through a borrow has no other borrower, and it  *)
(* outlives the borrow: sharing or mutation, never both.                   *)
SharingXorMutation ==
  /\ \A t \in exclusive : /\ status[t] = "open"
                          /\ Readers(Lender(t)) = {t} /\ Writers(Lender(t)) = {t}
  /\ \A t \in Txns : status[t] = "committing" =>
       /\ IsLive(target[t])
       /\ Readers(target[t]) = {} /\ Writers(target[t]) = {t}

BorrowRules == PathsAreChains /\ SharingXorMutation

(* What is over, or has not begun, holds nothing.                          *)
ClosedIsReset ==
  \A t \in Txns :
    /\ status[t] # "open" => local_state[t] = NoDeltas /\ storage[t] = <<>>
    /\ status[t] \in {"none", "done"} => ops_log[t] = <<>>

(* The conjunction that every step preserves.                              *)
IInv == TypeOK /\ ClosedIsReset /\ BorrowRules /\ LocalMatchesLog

-----------------------------------------------------------------------------
(* Refinement: reading through overlays under the borrow rules looks like  *)
(* working on private copies, and the replay of a log looks like one step, *)
(* taken when the commit starts.                                           *)

AbsView == [s \in Stores |-> [k \in Keys |-> IF IsLive(s) THEN Settled(s, k) ELSE None]]

AbsChanges ==
  [t \in Txns |->
     [k \in Keys |->
        CASE status[t] = "open" -> IF PendingDelta(t, k) = Untouched
                                   THEN local_state[t][k]
                                   ELSE PendingDelta(t, k)
          [] status[t] = "prepared" -> LastDelta(ops_log[t], 1, k)
          [] OTHER -> Untouched]]

AbsPhase == [t \in Txns |-> IF status[t] = "committing" THEN "done" ELSE status[t]]

Snapshot == INSTANCE SnapshotStore
              WITH view <- AbsView, changes <- AbsChanges, phase <- AbsPhase

(* The overlay, the log and the borrow rules implement the snapshot store. *)
ImplementsSnapshots == Snapshot!Spec
=============================================================================
