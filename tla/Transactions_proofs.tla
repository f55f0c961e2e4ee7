------------------------- MODULE Transactions_proofs -------------------------
(***************************************************************************)
(* What holds of Transactions for any sets of keys, values and             *)
(* transactions and any bound: that records and logs agree and borrows are *)
(* respected (IInv); what the stores show, which stores a read depends on  *)
(* and which of them a step can change; that all of it implements          *)
(* SnapshotStore, where each call is a step on private copies or a         *)
(* stutter, and the start of a commit is the one step in which all of its  *)
(* writes show; and that the replay of a log ends with what was promised   *)
(* when it began.                                                          *)
(***************************************************************************)
EXTENDS Promises, WellFoundedInduction, SequenceTheorems, TLAPS

(* A nonempty set of positions of a sequence has a last one, which is what *)
(* SequencesExt's Max picks.                                               *)
LEMMA LastPosition ==
  ASSUME NEW n \in Nat, NEW I, I \subseteq 1 .. n, I # {}
  PROVE  Seqs!Max(I) \in I /\ \A i \in I : Seqs!Max(I) >= i
<1> DEFINE Less   == OpToRel(<, Nat)
           Mirror == {j \in Nat : n - j \in I}
<1>1. PICK m \in Mirror : \A j \in Mirror : <<j, m>> \notin Less
  <2>1. Mirror \subseteq Nat  OBVIOUS
  <2>2. Mirror # {}
    <3>1. PICK i \in I : TRUE  OBVIOUS
    <3>2. n - i \in Nat /\ n - (n - i) = i  BY <3>1
    <3>3. n - i \in Mirror  BY <3>1, <3>2
    <3> QED  BY <3>3
  <2> HIDE DEF Mirror, Less
  <2>3. IsWellFoundedOn(Less, Nat)  BY NatLessThanWellFounded DEF Less
  <2> QED  BY <2>1, <2>2, <2>3, WFMin
<1>2. \A j \in Mirror : m <= j
  <2> TAKE j \in Mirror
  <2>1. <<j, m>> \notin Less /\ j \in Nat /\ m \in Nat  BY <1>1
  <2> QED  BY <2>1 DEF OpToRel
<1>3. \A i \in I : n - m >= i
  <2> TAKE i \in I
  <2>1. n - i \in Nat /\ n - (n - i) = i  OBVIOUS
  <2>2. n - i \in Mirror  BY <2>1
  <2>3. m <= n - i /\ m \in Nat  BY <2>2, <1>2
  <2> HIDE DEF Mirror
  <2> QED  BY <2>3
<1>4. n - m \in I  OBVIOUS
<1> HIDE DEF Mirror
<1> QED  BY <1>3, <1>4 DEF Seqs!Max

(* What Max picks from positions is the last of them.                      *)
LEMMA MaxIs ==
  ASSUME NEW I \in SUBSET Int, NEW j \in I, \A m \in I : j >= m
  PROVE  Seqs!Max(I) = j
<1>1. \A x \in I : (\A m \in I : x >= m) => x = j
  <2> SUFFICES ASSUME NEW x \in I, \A m \in I : x >= m  PROVE x = j  OBVIOUS
  <2>1. x >= j /\ j >= x /\ x \in Int /\ j \in Int  OBVIOUS
  <2> QED  BY <2>1
<1>2. /\ Seqs!Max(I) \in I
      /\ \A m \in I : Seqs!Max(I) >= m
  BY DEF Seqs!Max
<1> QED  BY <1>1, <1>2

-----------------------------------------------------------------------------
(* What the last delta of a log is.  The log is a parameter: the lemmas     *)
(* speak of a rep_log before or after it grows, and of what a commit has    *)
(* left to replay.                                                          *)

IsLastOn(log, i, k, j) ==
  /\ j \in i .. Len(log) /\ log[j].key = k
  /\ \A m \in (j + 1) .. Len(log) : log[m].key # k

HasNone(log, i, k) == \A j \in i .. Len(log) : log[j].key # k

(* No op on the key from position i on: no delta.                           *)
LEMMA NoDelta ==
  ASSUME NEW log \in Seq(Op), NEW i \in Nat \ {0}, NEW k \in Keys, HasNone(log, i, k)
  PROVE  LastDelta(log, i, k) = Untouched
<1>1. {j \in i .. Len(log) : log[j].key = k} = {}  BY DEF HasNone
<1> QED  BY <1>1 DEF LastDelta, Seqs!SelectLastInSubSeq

(* An op on the key that no later op on it follows: its value.              *)
LEMMA DeltaAt ==
  ASSUME NEW log \in Seq(Op), NEW i \in Nat \ {0}, NEW k \in Keys,
         NEW j, IsLastOn(log, i, k, j)
  PROVE  LastDelta(log, i, k) = log[j].value
<1> DEFINE Hits == {m \in i .. Len(log) : log[m].key = k}
<1>1. j \in Hits /\ \A m \in Hits : j >= m  BY DEF IsLastOn
<1>2. Seqs!Max(Hits) = j
  <2>1. Hits \in SUBSET Int  OBVIOUS
  <2> HIDE DEF Hits
  <2> QED  BY <1>1, <2>1, MaxIs
<1>3. LastDelta(log, i, k) = IF Seqs!Max(Hits) = 0 THEN Untouched
                             ELSE log[Seqs!Max(Hits)].value
  BY <1>1 DEF LastDelta, Seqs!SelectLastInSubSeq
<1> QED  BY <1>1, <1>2, <1>3

(* There is no third case.                                                  *)
LEMMA DeltaCases ==
  ASSUME NEW log \in Seq(Op), NEW i \in Nat \ {0}, NEW k \in Keys
  PROVE  HasNone(log, i, k) \/ \E j : IsLastOn(log, i, k, j)
<1> DEFINE Hits == {j \in i .. Len(log) : log[j].key = k}
<1> SUFFICES ASSUME Hits # {}
             PROVE  \E j \in Hits : \A m \in (j + 1) .. Len(log) : log[m].key # k
  BY DEF HasNone, IsLastOn
<1>1. Seqs!Max(Hits) \in Hits /\ \A m \in Hits : Seqs!Max(Hits) >= m
  <2>1. Len(log) \in Nat /\ Hits \subseteq 1 .. Len(log)  OBVIOUS
  <2> HIDE DEF Hits
  <2> QED  BY <2>1, LastPosition
<1> QED  BY <1>1

(* One more op in the log.                                                  *)
LEMMA AppendLastDelta ==
  ASSUME NEW log \in Seq(Op), NEW op \in Op, NEW k \in Keys
  PROVE  LastDelta(Append(log, op), 1, k) =
           IF op.key = k THEN op.value ELSE LastDelta(log, 1, k)
<1> DEFINE longer == Append(log, op)
           n      == Len(log)
<1>1. /\ n \in Nat /\ longer \in Seq(Op) /\ Len(longer) = n + 1
      /\ \A i \in 1 .. n : longer[i] = log[i]
      /\ longer[n + 1] = op
  OBVIOUS
<1> HIDE DEF longer
<1>2. CASE op.key = k
  <2>1. IsLastOn(longer, 1, k, n + 1)  BY <1>1, <1>2 DEF IsLastOn
  <2>2. LastDelta(longer, 1, k) = longer[n + 1].value  BY <1>1, <2>1, DeltaAt
  <2> QED  BY <1>1, <1>2, <2>2 DEF longer
<1>3. CASE op.key # k /\ HasNone(log, 1, k)
  <2>1. HasNone(longer, 1, k)  BY <1>1, <1>3 DEF HasNone
  <2>2. LastDelta(longer, 1, k) = Untouched  BY <1>1, <2>1, NoDelta
  <2>3. LastDelta(log, 1, k) = Untouched  BY <1>3, NoDelta
  <2> QED  BY <1>3, <2>2, <2>3 DEF longer
<1>4. CASE op.key # k /\ \E j : IsLastOn(log, 1, k, j)
  <2>1. PICK j : IsLastOn(log, 1, k, j)  BY <1>4
  <2>2. IsLastOn(longer, 1, k, j)  BY <1>1, <1>4, <2>1 DEF IsLastOn
  <2>3. LastDelta(longer, 1, k) = longer[j].value  BY <1>1, <2>2, DeltaAt
  <2>4. LastDelta(log, 1, k) = log[j].value  BY <2>1, DeltaAt
  <2>5. longer[j] = log[j]  BY <1>1, <2>1 DEF IsLastOn
  <2> QED  BY <1>4, <2>3, <2>4, <2>5 DEF longer
<1> QED  BY <1>2, <1>3, <1>4, DeltaCases

-----------------------------------------------------------------------------
(* Type correctness.                                                       *)

(* A base storage and no transactions: the variables have their types.      *)
LEMMA InitType == Init => TypeOK
BY BaseAssumption DEF Init, TypeOK, Statuses, Stores, NoDeltas

(* Storage::set and remove, called by a user or by a commit.               *)
LEMMA WriteType ==
  ASSUME TypeOK, NEW s \in Stores, NEW op \in Op, Write(s, op)
  PROVE  /\ base' \in [Keys -> MaybeValue]
         /\ local_state' \in [Txns -> [Keys -> MaybeValue \cup {Untouched}]]
         /\ ops_log' \in [Txns -> Seq(Op)]
<1>1. op.key \in Keys /\ op.value \in MaybeValue  BY DEF Op
<1>2. CASE s = BASE
  BY <1>1, <1>2 DEF TypeOK, Write
<1>3. CASE s \in Txns
  <2>1. base' = base  BY <1>3, BaseAssumption DEF Write
  <2>2. ops_log' = [ops_log EXCEPT ![s] = Append(@, op)]
    BY <1>3, BaseAssumption DEF Write
  <2>3. local_state' = [local_state EXCEPT ![s][op.key] = op.value]
    BY <1>3, BaseAssumption DEF Write
  <2>4. ops_log' \in [Txns -> Seq(Op)]  BY <2>2, <1>3 DEF TypeOK
  <2>5. local_state' \in [Txns -> [Keys -> MaybeValue \cup {Untouched}]]
    BY <2>3, <1>1, <1>3 DEF TypeOK
  <2> QED  BY <2>1, <2>4, <2>5 DEF TypeOK
<1> QED  BY <1>2, <1>3 DEF Stores

(* The path through a store consists of transactions.                       *)
LEMMA PathType ==
  ASSUME TypeOK, NEW s \in Stores
  PROVE  Path(s) \in Seq(Txns)
<1>1. CASE s = BASE  BY <1>1 DEF Path
<1>2. CASE s \in Txns
  <2>1. <<s>> \in Seq(Txns) /\ storage[s] \in Seq(Txns)  BY <1>2 DEF TypeOK
  <2> QED  BY <1>2, <2>1, BaseAssumption, ConcatProperties DEF Path
<1> QED  BY <1>1, <1>2 DEF Stores

(* A transaction was opened on a transaction or on the base storage.        *)
LEMMA LenderType ==
  ASSUME TypeOK, NEW t \in Txns
  PROVE  Lender(t) \in Stores
BY DEF TypeOK, Lender, Stores

(* What a transaction that is over is reset to has the types asked for.     *)
LEMMA ResetTypes ==
  /\ NoDeltas \in [Keys -> MaybeValue \cup {Untouched}]
  /\ <<>> \in Seq(Txns) /\ <<>> \in Seq(Op)
BY DEF NoDeltas

(* Every action of the storage layer preserves the types.                   *)
LEMMA StepType == TypeOK /\ [Next]_vars => TypeOK'
<1> SUFFICES ASSUME TypeOK, [Next]_vars  PROVE TypeOK'
  OBVIOUS
<1>1. ASSUME NEW t \in Txns, NEW s \in Stores, New(t, s)  PROVE TypeOK'
  BY <1>1, PathType DEF TypeOK, New, Open, Statuses
<1>2. ASSUME NEW t \in Txns, NEW s \in Stores, Transactional(t, s)  PROVE TypeOK'
  BY <1>2, PathType DEF TypeOK, Transactional, Open, Statuses
<1>3. ASSUME NEW s \in Stores, NEW k \in Keys, NEW v \in MaybeValue,
             CallerWrites(s, [key |-> k, value |-> v])
      PROVE  TypeOK'
  <2>1. [key |-> k, value |-> v] \in Op  BY DEF Op
  <2> QED  BY <1>3, <2>1, WriteType DEF TypeOK, CallerWrites
<1>4. ASSUME NEW t \in Txns, Prepare(t)  PROVE TypeOK'
  BY <1>4, ResetTypes DEF TypeOK, Prepare, Statuses
<1>5. ASSUME NEW t \in Txns, NEW s \in Stores, Commit(t, s)  PROVE TypeOK'
  BY <1>5 DEF TypeOK, Commit, StartCommit, Statuses
<1>6. ASSUME NEW t \in Txns, CallbackOk(t)  PROVE TypeOK'
  <2>1. status' \in [Txns -> Statuses]
    BY <1>6 DEF TypeOK, CallbackOk, StartCommit, Statuses
  <2> QED  BY <1>6, <2>1, LenderType, ResetTypes DEF TypeOK, CallbackOk, StartCommit
<1>7. ASSUME NEW t \in Txns, Discard(t)  PROVE TypeOK'
  BY <1>7, ResetTypes DEF TypeOK, Discard, Closed, Statuses
<1>8. ASSUME NEW t \in Txns, Apply(t)  PROVE TypeOK'
  <2>1. ops_log[t][next[t]] \in Op /\ target[t] \in Stores
    BY <1>8 DEF TypeOK, Apply
  <2> QED  BY <1>8, <2>1, WriteType DEF TypeOK, Apply
<1>9. ASSUME NEW t \in Txns, CommitReturns(t)  PROVE TypeOK'
  BY <1>9, ResetTypes DEF TypeOK, CommitReturns, Closed, Statuses, Stores
<1>10. CASE UNCHANGED vars
  BY <1>10 DEF TypeOK, vars
<1> QED
  BY <1>1, <1>2, <1>3, <1>4, <1>5, <1>6, <1>7, <1>8, <1>9, <1>10
     DEF Next, Set, Remove, Rollback, CallbackErr, DropLog, MaybeValue

(* The storage layer keeps its shape in every reachable state.             *)
THEOREM TypeCorrect == Spec => []TypeOK
BY InitType, StepType, PTL DEF Spec

-----------------------------------------------------------------------------
(* The overlay and the log of a transaction agree.                         *)

Agree(t) == \A k \in Keys : local_state[t][k] = LastDelta(ops_log[t], 1, k)

(* An overlay without deltas agrees with a log without ops.                 *)
LEMMA EmptyAgrees ==
  ASSUME NEW t \in Txns, local_state[t] = NoDeltas, ops_log[t] = <<>>
  PROVE  Agree(t)
<1>1. ASSUME NEW k \in Keys  PROVE local_state[t][k] = LastDelta(ops_log[t], 1, k)
  <2>1. ops_log[t] \in Seq(Op) /\ 1 \in Nat \ {0}  OBVIOUS
  <2>2. HasNone(ops_log[t], 1, k)  BY DEF HasNone
  <2>3. LastDelta(ops_log[t], 1, k) = Untouched  BY <2>1, <2>2, NoDelta
  <2> QED  BY <2>3 DEF NoDeltas
<1> QED  BY <1>1 DEF Agree

(* One write to a live store keeps the two records of every transaction.   *)
LEMMA WriteKeepsRecords ==
  ASSUME TypeOK, ClosedIsReset, LocalMatchesLog,
         NEW s \in Stores, IsLive(s), NEW op \in Op, Write(s, op),
         UNCHANGED <<status, storage>>
  PROVE  ClosedIsReset' /\ LocalMatchesLog'
<1>1. CASE s = BASE
  <2>1. UNCHANGED <<local_state, ops_log>>  BY <1>1 DEF Write
  <2> QED  BY <2>1 DEF ClosedIsReset, LocalMatchesLog
<1>2. CASE s \in Txns
  <2>1. /\ local_state' = [local_state EXCEPT ![s][op.key] = op.value]
        /\ ops_log' = [ops_log EXCEPT ![s] = Append(@, op)]
        /\ status[s] = "open"
    BY <1>2, BaseAssumption DEF Write, IsLive
  <2>2. \A t \in Txns \ {s} : local_state'[t] = local_state[t] /\ ops_log'[t] = ops_log[t]
    BY <1>2, <2>1 DEF TypeOK
  <2>3. ClosedIsReset'  BY <2>1, <2>2 DEF ClosedIsReset
  <2>4. ASSUME NEW t \in Txns, status[t] = "open", NEW k \in Keys
        PROVE  local_state'[t][k] = LastDelta(ops_log'[t], 1, k)
    <3>1. CASE t # s  BY <2>2, <2>4, <3>1 DEF LocalMatchesLog
    <3>2. CASE t = s
      <4>1. /\ local_state'[t][k] = IF op.key = k THEN op.value ELSE local_state[t][k]
            /\ ops_log'[t] = Append(ops_log[t], op) /\ ops_log[t] \in Seq(Op)
        BY <2>1, <3>2 DEF TypeOK, Op
      <4>2. LastDelta(ops_log'[t], 1, k) =
              IF op.key = k THEN op.value ELSE LastDelta(ops_log[t], 1, k)
        BY <4>1, AppendLastDelta
      <4> QED  BY <4>1, <4>2, <2>4 DEF LocalMatchesLog
    <3> QED  BY <3>1, <3>2
  <2>5. LocalMatchesLog'
    <3>1. LocalMatchesLog' = (\A t \in Txns : status'[t] = "open" =>
            \A k \in Keys : local_state'[t][k] = LastDelta(ops_log'[t], 1, k))
      BY DEF LocalMatchesLog
    <3> QED  BY <2>4, <3>1
  <2> QED  BY <2>3, <2>5
<1> QED  BY <1>1, <1>2 DEF Stores

(* Each action that closes or moves transactions on leaves the records of  *)
(* the others alone and empties those it is done with.                     *)
LEMMA StepKeepsRecords ==
  ASSUME TypeOK, ClosedIsReset, SharingXorMutation, LocalMatchesLog, [Next]_vars
  PROVE  ClosedIsReset' /\ LocalMatchesLog'
<1> DEFINE Records == ClosedIsReset' /\ LocalMatchesLog'
<1>0. LocalMatchesLog' = (\A t \in Txns : status'[t] = "open" =>
        \A k \in Keys : local_state'[t][k] = LastDelta(ops_log'[t], 1, k))
  BY DEF LocalMatchesLog
<1>1. ASSUME NEW t \in Txns, NEW s \in Stores, Open(t, s)  PROVE Records
  <2>1. /\ local_state[t] = NoDeltas /\ ops_log[t] = <<>>
        /\ \A u \in Txns \ {t} : status'[u] = status[u] /\ storage'[u] = storage[u]
        /\ status'[t] = "open"
        /\ UNCHANGED <<local_state, ops_log>>
    BY <1>1 DEF Open, ClosedIsReset, TypeOK
  <2>2. ClosedIsReset'  BY <2>1 DEF ClosedIsReset
  <2>3. Agree(t)  BY <2>1, EmptyAgrees
  <2>4. LocalMatchesLog'  BY <1>0, <2>1, <2>3 DEF LocalMatchesLog, Agree
  <2> QED  BY <2>2, <2>4
<1>2. ASSUME NEW s \in Stores, NEW k \in Keys, NEW v \in MaybeValue,
             CallerWrites(s, [key |-> k, value |-> v])
      PROVE  Records
  <2>1. [key |-> k, value |-> v] \in Op  BY DEF Op
  <2> QED  BY <1>2, <2>1, WriteKeepsRecords DEF CallerWrites, CanMutate, CanShare
<1>3. ASSUME NEW t \in Txns, Prepare(t)  PROVE Records
  BY <1>0, <1>3 DEF Prepare, Consumable, ClosedIsReset, LocalMatchesLog, TypeOK
<1>4. ASSUME NEW t \in Txns, NEW s \in Stores, Commit(t, s)  PROVE Records
  BY <1>0, <1>4 DEF Commit, StartCommit, ClosedIsReset, LocalMatchesLog, TypeOK
<1>5. ASSUME NEW t \in Txns, CallbackOk(t)  PROVE Records
  BY <1>0, <1>5
     DEF CallbackOk, StartCommit, Consumable, ClosedIsReset, LocalMatchesLog, TypeOK
<1>6. ASSUME NEW t \in Txns, Discard(t)  PROVE Records
  BY <1>0, <1>6 DEF Discard, Closed, ClosedIsReset, LocalMatchesLog, TypeOK
<1>7. ASSUME NEW t \in Txns, Apply(t)  PROVE Records
  <2>1. ops_log[t][next[t]] \in Op /\ target[t] \in Stores  BY <1>7 DEF TypeOK, Apply
  <2>2. IsLive(target[t])  BY <1>7 DEF SharingXorMutation, Apply
  <2> QED  BY <1>7, <2>1, <2>2, WriteKeepsRecords DEF Apply
<1>8. ASSUME NEW t \in Txns, CommitReturns(t)  PROVE Records
  BY <1>0, <1>8 DEF CommitReturns, Closed, ClosedIsReset, LocalMatchesLog, TypeOK
<1>9. CASE UNCHANGED vars
  BY <1>0, <1>9 DEF vars, ClosedIsReset, LocalMatchesLog
<1> HIDE DEF Records
<1> QED
  BY <1>1, <1>2, <1>3, <1>4, <1>5, <1>6, <1>7, <1>8, <1>9
     DEF Records, Next, New, Transactional, Set, Remove, Rollback, CallbackErr, DropLog,
         MaybeValue

-----------------------------------------------------------------------------
(* The borrow rules.                                                       *)

(* new() and transactional(): the borrow that begins is a legal one, and    *)
(* the new transaction continues the chain of the store it is opened on.    *)
LEMMA OpenKeepsBorrows ==
  ASSUME TypeOK, BorrowRules,
         NEW t \in Txns, NEW s \in Stores, CanShare(s), Open(t, s),
         \/ exclusive' = exclusive
         \/ CanMutate(s) /\ exclusive' = exclusive \cup {t}
  PROVE  BorrowRules'
<1>1. /\ status[t] = "none"
      /\ status'[t] = "open" /\ storage'[t] = Path(s)
      /\ \A u \in Txns \ {t} : status'[u] = status[u] /\ storage'[u] = storage[u]
      /\ t \notin exclusive
      /\ target' = target
  BY DEF Open, TypeOK, BorrowRules, SharingXorMutation
<1>2. Lender(t)' = s
  <2>1. CASE s = BASE  BY <1>1, <2>1 DEF Lender, Path
  <2>2. CASE s \in Txns
    <3>1. storage[s] \in Seq(Txns) /\ Path(s) = <<s>> \o storage[s]
      BY <2>2, BaseAssumption DEF TypeOK, Path
    <3>2. Path(s) # <<>> /\ Head(Path(s)) = s  BY <2>2, <3>1
    <3> QED  BY <1>1, <3>2 DEF Lender
  <2> QED  BY <2>1, <2>2 DEF Stores
<1>3. \A u \in Txns \ {t} : Lender(u)' = Lender(u)  BY <1>1 DEF Lender
<1>4. \A x \in Stores : IsLive(x) => x # t /\ IsLive(x)' /\ Path(x)' = Path(x)
  BY <1>1, BaseAssumption DEF IsLive, Path, Stores
<1>5. PathsAreChains'
  <2>1. IsLive(s)  BY DEF CanShare
  <2>2. Lender(t)' = s /\ IsLive(s)' /\ storage'[t] = Path(s)'  BY <1>1, <1>2, <1>4, <2>1
  <2>3. ASSUME NEW u \in Txns \ {t}, status'[u] = "open"
        PROVE  IsLive(Lender(u))' /\ storage'[u] = Path(Lender(u))'
    <3>1. IsLive(Lender(u)) /\ storage[u] = Path(Lender(u)) /\ Lender(u) \in Stores
      BY <1>1, <2>3, LenderType DEF BorrowRules, PathsAreChains
    <3> QED  BY <1>1, <1>3, <1>4, <3>1
  <2> QED  BY <2>2, <2>3 DEF PathsAreChains
<1>6. \A x : Readers(x)' = IF x = s THEN Readers(x) \cup {t} ELSE Readers(x)
  BY <1>1, <1>2, <1>3 DEF Readers
<1>7. \A x : Writers(x)' = IF x = s /\ t \in exclusive' THEN Writers(x) \cup {t}
                                                          ELSE Writers(x)
  <2>1. \A u \in Txns \ {t} : u \in exclusive' <=> u \in exclusive  OBVIOUS
  <2> QED  BY <1>1, <1>2, <1>3, <2>1 DEF Writers
<1>8. Writers(s) = {} /\ IsLive(s)  BY DEF CanShare
<1>9. ASSUME NEW u \in exclusive'
      PROVE  /\ status'[u] = "open"
             /\ Readers(Lender(u))' = {u} /\ Writers(Lender(u))' = {u}
  <2>1. CASE u = t
    <3>1. Readers(s) = {}  BY <1>1, <1>9, <2>1 DEF CanMutate
    <3>2. Readers(s)' = {t} /\ Writers(s)' = {t}  BY <1>6, <1>7, <1>8, <1>9, <2>1, <3>1
    <3> QED  BY <1>1, <1>2, <2>1, <3>2 DEF Readers, Writers, Lender
  <2>2. CASE u # t
    <3>1. u \in exclusive /\ u \in Txns  BY <1>9, <2>2 DEF TypeOK
    <3>2. PICK x \in Stores : x = Lender(u)  BY <3>1, LenderType
    <3>3. status[u] = "open" /\ Readers(x) = {u} /\ Writers(x) = {u}
      BY <3>1, <3>2 DEF BorrowRules, SharingXorMutation
    <3>4. x # s  BY <1>8, <3>3
    <3>5. Lender(u)' = x  BY <1>3, <2>2, <3>1, <3>2
    <3>6. Readers(x)' = {u} /\ Writers(x)' = {u}  BY <1>6, <1>7, <3>3, <3>4
    <3> QED  BY <1>1, <2>2, <3>1, <3>3, <3>5, <3>6 DEF Readers, Writers
  <2> QED  BY <2>1, <2>2
<1>10. ASSUME NEW u \in Txns, status'[u] = "committing"
       PROVE  /\ IsLive(target[u])'
              /\ Readers(target[u])' = {} /\ Writers(target[u])' = {u}
  <2>1. status[u] = "committing" /\ target[u] \in Stores  BY <1>1, <1>10 DEF TypeOK
  <2>2. IsLive(target[u]) /\ Readers(target[u]) = {} /\ Writers(target[u]) = {u}
    BY <2>1 DEF BorrowRules, SharingXorMutation
  <2>3. target[u] # s  BY <1>8, <2>2
  <2> QED  BY <1>1, <1>4, <1>6, <1>7, <2>1, <2>2, <2>3 DEF Readers, Writers
<1> QED  BY <1>5, <1>9, <1>10 DEF BorrowRules, SharingXorMutation

(* A transaction that nobody borrows ends; in the case of transactional()  *)
(* its log starts being written to the store it had to itself.             *)
LEMMA CloseKeepsBorrows ==
  ASSUME TypeOK, BorrowRules, NEW t \in Txns, Consumable(t),
         storage' = [storage EXCEPT ![t] = <<>>],
         exclusive' = exclusive \ {t},
         \/ /\ \/ status' = [status EXCEPT ![t] = "prepared"]
               \/ status' = [status EXCEPT ![t] = "done"]
            /\ target' = target
         \/ /\ status' = [status EXCEPT ![t] = "committing"]
            /\ t \in exclusive
            /\ target' = [target EXCEPT ![t] = Lender(t)]
  PROVE  BorrowRules'
<1>1. /\ status[t] = "open" /\ status'[t] # "open"
      /\ \A u \in Txns \ {t} : /\ status'[u] = status[u] /\ storage'[u] = storage[u]
                               /\ target'[u] = target[u]
      /\ Readers(t) = {} /\ Writers(t) = {}
  BY DEF Consumable, TypeOK
<1>2. \A u \in Txns \ {t} : Lender(u)' = Lender(u)  BY <1>1 DEF Lender
<1>3. \A x \in Stores \ {t} : /\ IsLive(x) => IsLive(x)'
                              /\ Path(x)' = Path(x)
  BY <1>1, BaseAssumption DEF IsLive, Path, Stores
<1>4. \A x : Readers(x)' = Readers(x) \ {t}
  BY <1>1, <1>2 DEF Readers
<1>5. \A x : Writers(x)' = IF status'[t] = "committing" /\ target'[t] = x
                           THEN Writers(x) \cup {t} ELSE Writers(x) \ {t}
  BY <1>1, <1>2 DEF Writers
<1>6. PathsAreChains'
  <2>1. ASSUME NEW u \in Txns \ {t}, status'[u] = "open"
        PROVE  IsLive(Lender(u))' /\ storage'[u] = Path(Lender(u))'
    <3>1. PICK x \in Stores : x = Lender(u)  BY LenderType
    <3>2. status[u] = "open" /\ IsLive(x) /\ storage[u] = Path(x)
      BY <1>1, <2>1, <3>1 DEF BorrowRules, PathsAreChains
    <3>3. x # t  BY <1>1, <3>1, <3>2 DEF Readers
    <3>4. Lender(u)' = x /\ IsLive(x)' /\ Path(x)' = Path(x)  BY <1>2, <1>3, <3>1, <3>2, <3>3
    <3> QED  BY <1>1, <3>2, <3>4
  <2> QED  BY <1>1, <2>1 DEF PathsAreChains
<1>7. ASSUME NEW u \in exclusive'
      PROVE  /\ status'[u] = "open"
             /\ Readers(Lender(u))' = {u} /\ Writers(Lender(u))' = {u}
  <2>1. u \in exclusive /\ u \in Txns /\ u # t  BY <1>7 DEF TypeOK
  <2>2. PICK x \in Stores : x = Lender(u)  BY <2>1, LenderType
  <2>3. status[u] = "open" /\ Readers(x) = {u} /\ Writers(x) = {u}
    BY <2>1, <2>2 DEF BorrowRules, SharingXorMutation
  <2>4. Lender(t) # x  BY <1>1, <2>1, <2>3 DEF Readers
  <2>5. Lender(u)' = x  BY <1>2, <2>1, <2>2
  <2>6. ~ (status'[t] = "committing" /\ target'[t] = x)
    BY <1>1, <2>4 DEF TypeOK
  <2>7. Readers(x)' = {u} /\ Writers(x)' = {u}  BY <1>4, <1>5, <2>1, <2>3, <2>6
  <2> QED  BY <1>1, <2>1, <2>3, <2>5, <2>7 DEF Readers, Writers
<1>8. ASSUME NEW u \in Txns, status'[u] = "committing"
      PROVE  /\ IsLive(target[u])'
             /\ Readers(target[u])' = {} /\ Writers(target[u])' = {u}
  <2>1. PICK x \in Stores : x = target'[u]  BY <1>1, LenderType DEF TypeOK
  <2>2. CASE u = t
    <3>1. t \in exclusive /\ x = Lender(t)  BY <1>1, <1>8, <2>1, <2>2 DEF TypeOK
    <3>2. Readers(x) = {t} /\ Writers(x) = {t} /\ IsLive(x)
      BY <1>1, <3>1 DEF BorrowRules, SharingXorMutation, PathsAreChains
    <3>3. x # t  BY <1>1, <3>2
    <3>4. IsLive(x)' /\ Readers(x)' = {} /\ Writers(x)' = {t}
      BY <1>3, <1>4, <1>5, <1>8, <2>1, <2>2, <3>2, <3>3
    <3> QED  BY <2>1, <2>2, <3>4 DEF Readers, Writers, IsLive
  <2>3. CASE u # t
    <3>1. status[u] = "committing" /\ x = target[u]  BY <1>1, <1>8, <2>1, <2>3
    <3>2. IsLive(x) /\ Readers(x) = {} /\ Writers(x) = {u}
      BY <3>1 DEF BorrowRules, SharingXorMutation
    <3>3. x # t  BY <1>1, <3>2
    <3>4. ~ (status'[t] = "committing" /\ target'[t] = x)
      <4>1. Lender(t) # x  BY <1>1, <3>2 DEF Readers
      <4> QED  BY <1>1, <4>1 DEF TypeOK
    <3>5. IsLive(x)' /\ Readers(x)' = {} /\ Writers(x)' = {u}
      BY <1>3, <1>4, <1>5, <2>3, <3>2, <3>3, <3>4
    <3> QED  BY <2>1, <3>5 DEF Readers, Writers, IsLive
  <2> QED  BY <2>2, <2>3
<1> QED  BY <1>6, <1>7, <1>8 DEF BorrowRules, SharingXorMutation

(* A log that is on its own starts to be committed, or is done with.       *)
LEMMA LogKeepsBorrows ==
  ASSUME TypeOK, BorrowRules, NEW t \in Txns, NEW s \in Stores,
         status[t] \in {"prepared", "committing"},
         storage' = [storage EXCEPT ![t] = storage'[t]],
         exclusive' = exclusive \ {t},
         target' = [target EXCEPT ![t] = s],
         \/ status' = [status EXCEPT ![t] = "done"]
         \/ status' = [status EXCEPT ![t] = "committing"] /\ CanMutate(s)
            /\ status[t] = "prepared"
  PROVE  BorrowRules'
<1>1. /\ t \notin exclusive /\ exclusive' = exclusive
      /\ status[t] # "open" /\ status'[t] # "open"
      /\ \A u \in Txns \ {t} : /\ status'[u] = status[u] /\ storage'[u] = storage[u]
                               /\ target'[u] = target[u]
      /\ target'[t] = s
  BY DEF TypeOK, BorrowRules, SharingXorMutation
<1>2. \A u \in Txns \ {t} : Lender(u)' = Lender(u)  BY <1>1 DEF Lender
<1>3. \A x \in Stores : IsLive(x) => IsLive(x)' /\ Path(x)' = Path(x)
  BY <1>1, BaseAssumption DEF IsLive, Path, Stores
<1>4. \A x : Readers(x)' = Readers(x)  BY <1>1, <1>2 DEF Readers
<1>5. \A x : Writers(x)' = IF status'[t] = "committing" /\ s = x
                           THEN Writers(x) \cup {t} ELSE Writers(x) \ {t}
  BY <1>1, <1>2 DEF Writers
<1>6. PathsAreChains'
  <2>1. ASSUME NEW u \in Txns \ {t}, status'[u] = "open"
        PROVE  IsLive(Lender(u))' /\ storage'[u] = Path(Lender(u))'
    <3>1. PICK x \in Stores : x = Lender(u)  BY LenderType
    <3>2. status[u] = "open" /\ IsLive(x) /\ storage[u] = Path(x)
      BY <1>1, <2>1, <3>1 DEF BorrowRules, PathsAreChains
    <3>3. Lender(u)' = x /\ IsLive(x)' /\ Path(x)' = Path(x)  BY <1>2, <1>3, <3>1, <3>2
    <3> QED  BY <1>1, <3>2, <3>3
  <2> QED  BY <1>1, <2>1 DEF PathsAreChains
<1>7. ASSUME NEW u \in exclusive'
      PROVE  /\ status'[u] = "open"
             /\ Readers(Lender(u))' = {u} /\ Writers(Lender(u))' = {u}
  <2>1. u \in exclusive /\ u \in Txns /\ u # t  BY <1>1, <1>7 DEF TypeOK
  <2>2. PICK x \in Stores : x = Lender(u)  BY <2>1, LenderType
  <2>3. status[u] = "open" /\ Readers(x) = {u} /\ Writers(x) = {u}
    BY <2>1, <2>2 DEF BorrowRules, SharingXorMutation
  <2>4. ~ (status'[t] = "committing" /\ s = x)
    BY <1>1, <2>3 DEF CanMutate, TypeOK
  <2>5. Lender(u)' = x  BY <1>2, <2>1, <2>2
  <2>6. Readers(x)' = {u} /\ Writers(x)' = {u}  BY <1>4, <1>5, <2>1, <2>3, <2>4
  <2> QED  BY <1>1, <2>1, <2>3, <2>5, <2>6 DEF Readers, Writers
<1>8. ASSUME NEW u \in Txns, status'[u] = "committing"
      PROVE  /\ IsLive(target[u])'
             /\ Readers(target[u])' = {} /\ Writers(target[u])' = {u}
  <2>1. CASE u = t
    <3>1. IsLive(s) /\ Readers(s) = {} /\ Writers(s) = {}
      BY <1>8, <2>1 DEF CanMutate, CanShare, TypeOK
    <3>2. IsLive(s)' /\ Readers(s)' = {} /\ Writers(s)' = {t}
      BY <1>3, <1>4, <1>5, <1>8, <2>1, <3>1
    <3> QED  BY <1>1, <2>1, <3>2 DEF Readers, Writers, IsLive
  <2>2. CASE u # t
    <3>1. PICK x \in Stores : x = target[u]  BY DEF TypeOK
    <3>2. status[u] = "committing" /\ x = target'[u]  BY <1>1, <1>8, <2>2, <3>1
    <3>3. IsLive(x) /\ Readers(x) = {} /\ Writers(x) = {u}
      BY <3>1, <3>2 DEF BorrowRules, SharingXorMutation
    <3>4. ~ (status'[t] = "committing" /\ s = x)
      BY <1>1, <3>3 DEF CanMutate, CanShare, TypeOK
    <3>5. IsLive(x)' /\ Readers(x)' = {} /\ Writers(x)' = {u}
      BY <1>3, <1>4, <1>5, <2>2, <3>3, <3>4
    <3> QED  BY <3>2, <3>5 DEF Readers, Writers, IsLive
  <2> QED  BY <2>1, <2>2
<1> QED  BY <1>6, <1>7, <1>8 DEF BorrowRules, SharingXorMutation

(* Every action of the storage layer keeps to the borrow rules.             *)
LEMMA StepKeepsBorrows ==
  ASSUME TypeOK, ClosedIsReset, BorrowRules, [Next]_vars
  PROVE  BorrowRules'
<1>1. ASSUME UNCHANGED <<status, storage, exclusive, target>>  PROVE BorrowRules'
  BY <1>1 DEF BorrowRules, PathsAreChains, SharingXorMutation, IsLive, Lender, Path,
              Readers, Writers
<1>2. ASSUME NEW t \in Txns, NEW s \in Stores, New(t, s) \/ Transactional(t, s)
      PROVE  BorrowRules'
  BY <1>2, OpenKeepsBorrows DEF New, Transactional, CanMutate
<1>3. ASSUME NEW t \in Txns, Prepare(t) \/ CallbackOk(t) \/ Rollback(t) \/ CallbackErr(t)
      PROVE  BorrowRules'
  <2>1. CASE Prepare(t)
    <3>1. exclusive' = exclusive \ {t}  BY <2>1 DEF Prepare
    <3> QED  BY <2>1, <3>1, CloseKeepsBorrows DEF Prepare
  <2>2. CASE CallbackOk(t)
    BY <2>2, CloseKeepsBorrows DEF CallbackOk, StartCommit
  <2>3. CASE Rollback(t) \/ CallbackErr(t)
    BY <2>3, CloseKeepsBorrows DEF Rollback, CallbackErr, Discard, Closed
  <2> QED  BY <1>3, <2>1, <2>2, <2>3
<1>4. ASSUME NEW t \in Txns, NEW s \in Stores, Commit(t, s)  PROVE BorrowRules'
  <2>1. t \notin exclusive  BY <1>4 DEF Commit, BorrowRules, SharingXorMutation
  <2>2. exclusive' = exclusive \ {t} /\ storage' = [storage EXCEPT ![t] = storage'[t]]
    BY <1>4, <2>1 DEF Commit, TypeOK
  <2> QED  BY <1>4, <2>2, LogKeepsBorrows DEF Commit, StartCommit
<1>5. ASSUME NEW t \in Txns, DropLog(t)  PROVE BorrowRules'
  <2>1. storage' = [storage EXCEPT ![t] = storage'[t]]
    BY <1>5 DEF DropLog, Discard, TypeOK
  <2>2. target' = [target EXCEPT ![t] = target[t]] /\ target[t] \in Stores
    BY <1>5 DEF DropLog, Discard, TypeOK
  <2> QED  BY <1>5, <2>1, <2>2, LogKeepsBorrows DEF DropLog, Discard, Closed
<1>6. ASSUME NEW t \in Txns, CommitReturns(t)  PROVE BorrowRules'
  <2>1. t \notin exclusive  BY <1>6 DEF CommitReturns, BorrowRules, SharingXorMutation
  <2>2. exclusive' = exclusive \ {t} /\ storage' = [storage EXCEPT ![t] = storage'[t]]
    BY <1>6, <2>1 DEF CommitReturns, TypeOK
  <2> QED  BY <1>6, <2>2, LogKeepsBorrows DEF CommitReturns, Closed, Stores
<1> QED
  BY <1>1, <1>2, <1>3, <1>4, <1>5, <1>6
     DEF Next, vars, Set, Remove, CallerWrites, Apply

-----------------------------------------------------------------------------
(* The theorems.                                                           *)

(* The inductive invariant holds before anything is opened.                 *)
LEMMA InitIInv == Init => IInv
<1> SUFFICES ASSUME Init  PROVE IInv
  OBVIOUS
<1>1. TypeOK  BY InitType
<1>2. ClosedIsReset  BY DEF Init, ClosedIsReset
<1>3. BorrowRules
  BY DEF Init, BorrowRules, PathsAreChains, SharingXorMutation
<1>4. LocalMatchesLog  BY DEF Init, LocalMatchesLog
<1> QED  BY <1>1, <1>2, <1>3, <1>4 DEF IInv

(* Every action of the storage layer preserves the inductive invariant.     *)
LEMMA StepIInv == IInv /\ [Next]_vars => IInv'
<1> SUFFICES ASSUME IInv, [Next]_vars  PROVE IInv'
  OBVIOUS
<1>1. TypeOK'  BY StepType DEF IInv
<1>2. BorrowRules'  BY StepKeepsBorrows DEF IInv
<1>3. ClosedIsReset' /\ LocalMatchesLog'  BY StepKeepsRecords DEF IInv, BorrowRules
<1> QED  BY <1>1, <1>2, <1>3 DEF IInv

(* The inductive invariant of the storage layer.                           *)
THEOREM Invariant == Spec => []IInv
BY InitIInv, StepIInv, PTL DEF Spec

(* In every reachable state, however transactions are nested and           *)
(* interleaved, what an open transaction answers for a key it has touched  *)
(* is what replaying its log will leave under that key.                    *)
THEOREM RecordsAgree == Spec => []LocalMatchesLog
<1>1. IInv => LocalMatchesLog  BY DEF IInv
<1> QED  BY <1>1, Invariant, PTL

-----------------------------------------------------------------------------
(* What the stores show.                                                   *)

(* A nonempty set of positions has a first one, which is what SequencesExt *)
(* picks with Min.                                                         *)
LEMMA FirstPosition ==
  ASSUME NEW I, I \subseteq Nat, I # {}
  PROVE  Seqs!Min(I) \in I /\ \A i \in I : Seqs!Min(I) <= i
<1> DEFINE Less == OpToRel(<, Nat)
<1>1. PICK m \in I : \A j \in I : <<j, m>> \notin Less
  <2>1. IsWellFoundedOn(Less, Nat)  BY NatLessThanWellFounded DEF Less
  <2> HIDE DEF Less
  <2> QED  BY <2>1, WFMin
<1>2. \A j \in I : m <= j
  <2> TAKE j \in I
  <2>1. <<j, m>> \notin Less /\ j \in Nat /\ m \in Nat  BY <1>1
  <2> QED  BY <2>1 DEF OpToRel
<1> QED  BY <1>2 DEF Seqs!Min

-----------------------------------------------------------------------------
(* Reads.                                                                  *)

(* The positions on a path at which a transaction has a delta of the key.   *)
Hits(path, k) == {i \in 1 .. Len(path) : local_state[path[i]][k] # Untouched}

(* A read takes the delta at the first of them.                             *)
LEMMA GetIs ==
  ASSUME TypeOK, NEW s \in Stores, NEW k \in Keys
  PROVE  /\ Hits(Path(s), k) = {} => Get(s, k) = base[k]
         /\ \A i \in Hits(Path(s), k) :
              (\A j \in Hits(Path(s), k) : i <= j) => Get(s, k) = local_state[Path(s)[i]][k]
<1>1. Path(s) \in Seq(Txns)  BY PathType
<1>2. Hits(Path(s), k) \subseteq Nat /\ 0 \notin Hits(Path(s), k)  BY DEF Hits
<1>3. Get(s, k) = IF Hits(Path(s), k) = {} THEN base[k]
                  ELSE local_state[Path(s)[Seqs!Min(Hits(Path(s), k))]][k]
  <2>1. Hits(Path(s), k) # {} => Seqs!Min(Hits(Path(s), k)) # 0
    BY <1>2, FirstPosition
  <2> QED  BY <2>1 DEF Get, Seqs!SelectInSeq, Hits
<1>4. \A i \in Hits(Path(s), k) :
        (\A j \in Hits(Path(s), k) : i <= j) => Seqs!Min(Hits(Path(s), k)) = i
  <2> DEFINE H == Hits(Path(s), k)
  <2> SUFFICES ASSUME NEW i \in H, \A j \in H : i <= j  PROVE Seqs!Min(H) = i
    OBVIOUS
  <2>1. Seqs!Min(H) \in H /\ Seqs!Min(H) <= i /\ i <= Seqs!Min(H)
    BY <1>2, FirstPosition
  <2>2. Seqs!Min(H) \in Nat /\ i \in Nat  BY <1>2, <2>1
  <2> QED  BY <2>1, <2>2
<1> QED  BY <1>3, <1>4

(* The storage at the bottom answers for itself.                            *)
LEMMA GetOfBase ==
  ASSUME NEW k \in Keys
  PROVE  Get(BASE, k) = base[k]
BY DEF Get, Path, Seqs!SelectInSeq

(* An open transaction answers from its overlay, or as the store does that  *)
(* it was opened on.                                                        *)
LEMMA GetUnfolds ==
  ASSUME TypeOK, PathsAreChains, NEW t \in Txns, status[t] = "open", NEW k \in Keys
  PROVE  Get(t, k) = IF local_state[t][k] # Untouched THEN local_state[t][k]
                     ELSE Get(Lender(t), k)
<1> DEFINE path  == Path(t)
           below == Path(Lender(t))
<1>1. Lender(t) \in Stores /\ below \in Seq(Txns)  BY LenderType, PathType
<1>2. path = <<t>> \o below
  BY BaseAssumption DEF Path, PathsAreChains
<1>3. /\ Len(path) = Len(below) + 1 /\ Len(below) \in Nat /\ path[1] = t
      /\ \A i \in 1 .. Len(below) : path[i + 1] = below[i]
  BY <1>1, <1>2
<1> HIDE DEF path, below
<1>4. CASE local_state[t][k] # Untouched
  <2>1. 1 \in Hits(path, k) /\ \A j \in Hits(path, k) : 1 <= j  BY <1>3, <1>4 DEF Hits
  <2> QED  BY <1>3, <1>4, <2>1, GetIs DEF Stores, path
<1>5. CASE local_state[t][k] = Untouched
  <2>1. \A i \in Hits(path, k) : i \in Nat /\ i - 1 \in Hits(below, k) /\ path[i] = below[i - 1]
    <3> TAKE i \in Hits(path, k)
    <3>1. i \in 1 .. Len(below) + 1 /\ i # 1  BY <1>3, <1>5 DEF Hits
    <3>2. i - 1 \in 1 .. Len(below) /\ (i - 1) + 1 = i  BY <1>3, <3>1
    <3>3. path[i] = below[i - 1]  BY <1>3, <3>2
    <3> QED  BY <3>1, <3>2, <3>3 DEF Hits
  <2>2. \A i \in Hits(below, k) : i \in Nat /\ i + 1 \in Hits(path, k) /\ path[i + 1] = below[i]
    BY <1>3 DEF Hits
  <2>3. CASE Hits(below, k) = {}
    <3>1. Hits(path, k) = {}  BY <2>1, <2>3
    <3>2. Get(t, k) = base[k]  BY <3>1, GetIs DEF Stores, path
    <3>3. Get(Lender(t), k) = base[k]  BY <1>1, <2>3, GetIs DEF below
    <3> QED  BY <1>5, <3>2, <3>3
  <2>4. CASE Hits(below, k) # {}
    <3>1. PICK i \in Hits(below, k) : \A j \in Hits(below, k) : i <= j
      <4>1. Hits(below, k) \subseteq Nat  BY DEF Hits
      <4> QED  BY <2>4, <4>1, FirstPosition
    <3>2. Get(Lender(t), k) = local_state[below[i]][k]  BY <1>1, <3>1, GetIs DEF below
    <3>3. i + 1 \in Hits(path, k) /\ \A j \in Hits(path, k) : i + 1 <= j
      BY <2>1, <2>2, <3>1
    <3>4. Get(t, k) = local_state[path[i + 1]][k]  BY <3>3, GetIs DEF Stores, path
    <3> QED  BY <1>5, <2>2, <3>1, <3>2, <3>4
  <2> QED  BY <2>3, <2>4
<1> QED  BY <1>4, <1>5

(* A read depends on the deltas on the path, and on the base storage.       *)
LEMMA GetDependsOn ==
  ASSUME NEW s \in Stores, NEW k \in Keys, Path(s)' = Path(s), base' = base,
         \A i \in 1 .. Len(Path(s)) : local_state'[Path(s)[i]] = local_state[Path(s)[i]]
  PROVE  Get(s, k)' = Get(s, k)
<1>1. Hits(Path(s), k)' = Hits(Path(s), k)  BY DEF Hits
<1>2. \A i \in Hits(Path(s), k) : local_state'[Path(s)[i]] = local_state[Path(s)[i]]
  BY DEF Hits
<1>3. Hits(Path(s), k) # {} /\ Seqs!Min(Hits(Path(s), k)) # 0 =>
         Seqs!Min(Hits(Path(s), k)) \in Hits(Path(s), k)
  <2>1. Hits(Path(s), k) \subseteq Nat  BY DEF Hits
  <2> QED  BY <2>1, FirstPosition
<1>4. Get(s, k) = IF Hits(Path(s), k) = {} \/ Seqs!Min(Hits(Path(s), k)) = 0 THEN base[k]
                  ELSE local_state[Path(s)[Seqs!Min(Hits(Path(s), k))]][k]
  BY DEF Get, Seqs!SelectInSeq, Hits
<1>5. Get(s, k)' = IF Hits(Path(s), k)' = {} \/ Seqs!Min(Hits(Path(s), k)') = 0 THEN base'[k]
                   ELSE local_state'[Path(s)'[Seqs!Min(Hits(Path(s), k)')]][k]
  BY DEF Get, Seqs!SelectInSeq, Hits
<1> QED  BY <1>1, <1>2, <1>3, <1>4, <1>5

-----------------------------------------------------------------------------
(* Chains.                                                                 *)

(* Each transaction on the path of an open one is open, and was opened on  *)
(* the next; the last one on the base storage.                             *)
ChainLinks ==
  \A t \in Txns : status[t] = "open" =>
    \A i \in DOMAIN storage[t] :
      /\ status[storage[t][i]] = "open"
      /\ Lender(storage[t][i]) = IF i < Len(storage[t]) THEN storage[t][i + 1] ELSE BASE

(* So all of them have readers.                                             *)
LEMMA PathsAreRead ==
  ASSUME TypeOK, ChainLinks, NEW t \in Txns, status[t] = "open"
  PROVE  /\ \A i \in DOMAIN storage[t] : storage[t][i] \in Txns /\ Readers(storage[t][i]) # {}
         /\ Readers(BASE) # {}
<1> DEFINE path == storage[t]
<1>1. /\ path \in Seq(Txns) /\ Len(path) \in Nat /\ DOMAIN path = 1 .. Len(path)
      /\ \A i \in DOMAIN path : path[i] \in Txns
  BY DEF TypeOK
<1>2. \A i \in DOMAIN path :
        /\ status[path[i]] = "open"
        /\ Lender(path[i]) = IF i < Len(path) THEN path[i + 1] ELSE BASE
  BY DEF ChainLinks
<1>3. /\ path # <<>> => Lender(t) = path[1]
      /\ path = <<>> => Lender(t) = BASE
  BY <1>1 DEF Lender
<1> HIDE DEF path
<1>4. ASSUME NEW i \in DOMAIN path  PROVE Readers(path[i]) # {}
  <2>1. CASE i = 1
    <3>1. Lender(t) = path[i]  BY <1>1, <1>3, <2>1
    <3> QED  BY <3>1 DEF Readers
  <2>2. CASE i # 1
    <3>1. i - 1 \in DOMAIN path /\ i - 1 < Len(path) /\ (i - 1) + 1 = i  BY <1>1, <2>2
    <3>2. Lender(path[i - 1]) = path[i]  BY <1>2, <3>1
    <3> QED  BY <1>1, <1>2, <3>1, <3>2 DEF Readers
  <2> QED  BY <2>1, <2>2
<1>5. Readers(BASE) # {}
  <2>1. CASE path = <<>>
    BY <1>3, <2>1 DEF Readers
  <2>2. CASE path # <<>>
    <3>1. Len(path) \in DOMAIN path  BY <1>1, <2>2
    <3>2. Lender(path[Len(path)]) = BASE  BY <1>1, <1>2, <3>1
    <3> QED  BY <1>1, <1>2, <3>1, <3>2 DEF Readers
  <2> QED  BY <2>1, <2>2
<1> QED  BY <1>1, <1>4, <1>5 DEF path

(* new() and transactional() put one more transaction before a chain.       *)
LEMMA OpenKeepsLinks ==
  ASSUME TypeOK, ChainLinks, NEW t \in Txns, NEW s \in Stores, IsLive(s), Open(t, s)
  PROVE  ChainLinks'
<1>1. /\ status[t] = "none" /\ status'[t] = "open" /\ storage'[t] = Path(s)
      /\ \A u \in Txns \ {t} : status'[u] = status[u] /\ storage'[u] = storage[u]
  BY DEF Open, TypeOK
<1>2. \A u \in Txns \ {t} : Lender(u)' = Lender(u)  BY <1>1 DEF Lender
<1>3. ASSUME NEW u \in Txns \ {t}, status[u] = "open", NEW i \in DOMAIN storage[u]
      PROVE  /\ status'[storage[u][i]] = "open" /\ storage[u][i] \in Txns \ {t}
             /\ Lender(storage[u][i])' = IF i < Len(storage[u]) THEN storage[u][i + 1] ELSE BASE
  <2>1. storage[u][i] \in Txns  BY <1>3 DEF TypeOK
  <2>2. /\ status[storage[u][i]] = "open"
        /\ Lender(storage[u][i]) = IF i < Len(storage[u]) THEN storage[u][i + 1] ELSE BASE
    BY <1>3 DEF ChainLinks
  <2>3. storage[u][i] # t  BY <1>1, <2>2
  <2> QED  BY <1>1, <1>2, <2>1, <2>2, <2>3
<1>4. CASE s = BASE
  <2>1. storage'[t] = <<>>  BY <1>1, <1>4 DEF Path
  <2> QED  BY <1>1, <1>3, <2>1 DEF ChainLinks
<1>5. CASE s \in Txns
  <2>1. status[s] = "open" /\ s # t  BY <1>1, <1>5, BaseAssumption DEF IsLive
  <2>0. PICK below \in Seq(Txns) : below = storage[s]  BY <1>5 DEF TypeOK
  <2>2. PICK path \in Seq(Txns) : path = storage'[t] /\ path = <<s>> \o below
    <3>1. <<s>> \o below \in Seq(Txns)  BY <1>5
    <3> QED  BY <1>1, <1>5, <2>0, <3>1, BaseAssumption DEF Path
  <2>3. /\ Len(below) \in Nat /\ Len(path) = Len(below) + 1 /\ path[1] = s
        /\ \A i \in 1 .. Len(below) : path[i + 1] = below[i]
        /\ DOMAIN path = 1 .. Len(below) + 1 /\ DOMAIN below = 1 .. Len(below)
    BY <2>2
  <2>4. Lender(s)' = IF below = <<>> THEN BASE ELSE below[1]
    <3>1. storage'[s] = below  BY <1>1, <1>5, <2>0, <2>1
    <3> QED  BY <3>1 DEF Lender
  <2>5. ASSUME NEW i \in DOMAIN path
        PROVE  /\ status'[path[i]] = "open"
               /\ Lender(path[i])' = IF i < Len(path) THEN path[i + 1] ELSE BASE
    <3>1. CASE i = 1
      <4>1. below = <<>> <=> Len(below) = 0  BY <2>2
      <4>2. Len(below) # 0 => path[2] = below[1]  BY <2>3
      <4> QED  BY <1>1, <1>5, <2>1, <2>3, <2>4, <3>1, <4>1, <4>2
    <3>2. CASE i # 1
      <4>1. i - 1 \in DOMAIN below /\ (i - 1) + 1 = i  BY <2>3, <3>2
      <4>2. path[i] = below[i - 1]  BY <2>3, <4>1
      <4>0. PICK v \in Txns : v = below[i - 1] /\ v \in Txns \ {t}
        BY <1>3, <1>5, <2>0, <2>1, <4>1
      <4>3. /\ status'[v] = "open"
            /\ Lender(v)' = IF i - 1 < Len(below) THEN below[(i - 1) + 1] ELSE BASE
        <5>1. /\ status[v] = "open"
              /\ Lender(v) = IF i - 1 < Len(below) THEN below[(i - 1) + 1] ELSE BASE
          BY <1>5, <2>0, <2>1, <4>0, <4>1 DEF ChainLinks
        <5> QED  BY <1>1, <1>2, <4>0, <5>1
      <4>4. i - 1 < Len(below) <=> i < Len(path)  BY <2>3, <4>1
      <4>5. i < Len(path) => path[i + 1] = below[(i - 1) + 1]  BY <2>3, <4>1
      <4> QED  BY <4>0, <4>2, <4>3, <4>4, <4>5
    <3> QED  BY <3>1, <3>2
  <2>6. ASSUME NEW u \in Txns, status'[u] = "open", NEW i \in DOMAIN storage'[u]
        PROVE  /\ status'[storage'[u][i]] = "open"
               /\ Lender(storage[u][i])' = IF i < Len(storage'[u]) THEN storage'[u][i + 1] ELSE BASE
    <3>1. CASE u = t
      <4>0. path = storage'[u] /\ i \in DOMAIN path  BY <2>2, <2>6, <3>1
      <4>1. PICK v \in Txns : v = path[i]  BY <2>2, <4>0
      <4>2. Lender(v)' = IF i < Len(path) THEN path[i + 1] ELSE BASE  BY <2>5, <4>0, <4>1
      <4>3. storage'[u][i] = v  BY <4>0, <4>1
      <4> QED  BY <2>5, <4>0, <4>1, <4>2, <4>3 DEF Lender
    <3>2. CASE u # t
      BY <1>1, <1>3, <2>6, <3>2
    <3> QED  BY <3>1, <3>2
  <2> QED  BY <2>6 DEF ChainLinks
<1> QED  BY <1>4, <1>5 DEF Stores

(* A transaction that ends is on no path.                                   *)
LEMMA CloseKeepsLinks ==
  ASSUME TypeOK, ChainLinks, NEW t \in Txns, Readers(t) = {}, status'[t] # "open",
         \A u \in Txns \ {t} : status'[u] = status[u] /\ storage'[u] = storage[u]
  PROVE  ChainLinks'
<1>1. \A u \in Txns \ {t} : Lender(u)' = Lender(u)  BY DEF Lender
<1>2. ASSUME NEW u \in Txns \ {t}, status[u] = "open", NEW i \in DOMAIN storage[u]
      PROVE  /\ status'[storage[u][i]] = "open"
             /\ Lender(storage[u][i])' = IF i < Len(storage[u]) THEN storage[u][i + 1] ELSE BASE
  <2>1. storage[u][i] \in Txns \ {t}  BY <1>2, PathsAreRead
  <2>2. /\ status[storage[u][i]] = "open"
        /\ Lender(storage[u][i]) = IF i < Len(storage[u]) THEN storage[u][i + 1] ELSE BASE
    BY <1>2 DEF ChainLinks
  <2> QED  BY <1>1, <2>1, <2>2
<1> QED  BY <1>2 DEF ChainLinks

(* Nobody reads through what is not open.                                   *)
LEMMA ClosedHasNoReaders ==
  ASSUME BorrowRules, NEW t \in Txns, status[t] # "open"
  PROVE  Readers(t) = {} /\ Writers(t) = {}
BY BaseAssumption DEF BorrowRules, PathsAreChains, SharingXorMutation, IsLive, Readers, Writers

(* Each action keeps the chains of the open transactions linked.            *)
LEMMA StepKeepsLinks ==
  ASSUME IInv, ChainLinks, [Next]_vars
  PROVE  ChainLinks'
<1>0. TypeOK /\ BorrowRules  BY DEF IInv
<1>1. ASSUME NEW t \in Txns, NEW s \in Stores, New(t, s) \/ Transactional(t, s)
      PROVE  ChainLinks'
  BY <1>0, <1>1, OpenKeepsLinks DEF New, Transactional, CanMutate, CanShare
<1>2. ASSUME UNCHANGED <<status, storage>>  PROVE ChainLinks'
  BY <1>2 DEF ChainLinks, Lender
<1>3. ASSUME NEW t \in Txns, Readers(t) = {}, NEW st, st # "open",
             status' = [status EXCEPT ![t] = st],
             storage' = storage \/ storage' = [storage EXCEPT ![t] = <<>>]
      PROVE  ChainLinks'
  <2>1. status'[t] # "open"  BY <1>0, <1>3 DEF TypeOK
  <2>2. \A u \in Txns \ {t} : status'[u] = status[u] /\ storage'[u] = storage[u]
    BY <1>0, <1>3 DEF TypeOK
  <2> QED  BY <1>0, <1>3, <2>1, <2>2, CloseKeepsLinks
<1>4. ASSUME NEW t \in Txns, Prepare(t) \/ CallbackOk(t) \/ Rollback(t) \/ CallbackErr(t)
      PROVE  ChainLinks'
  BY <1>3, <1>4
     DEF Prepare, CallbackOk, Rollback, CallbackErr, Discard, Closed, StartCommit, Consumable
<1>5. ASSUME NEW t \in Txns, status[t] = "prepared" \/ status[t] = "committing",
             DropLog(t) \/ CommitReturns(t) \/ \E s \in Stores : Commit(t, s)
      PROVE  ChainLinks'
  <2>1. Readers(t) = {}  BY <1>0, <1>5, ClosedHasNoReaders
  <2> QED  BY <1>3, <1>5, <2>1 DEF DropLog, CommitReturns, Commit, Discard, Closed, StartCommit
<1> QED
  BY <1>1, <1>2, <1>4, <1>5
     DEF Next, vars, Set, Remove, CallerWrites, Apply, DropLog, CommitReturns, Commit

-----------------------------------------------------------------------------
(* Steps.                                                                  *)

(* A step that changes the contents, the overlay or the path of store d and *)
(* of no other.                                                             *)
OnlyTouches(d) ==
  /\ \A u \in Txns \ {d} : local_state'[u] = local_state[u] /\ storage'[u] = storage[u]
  /\ d # BASE => base' = base

(* A store answers as before, when the one that changes has no reader.      *)
LEMMA Undisturbed ==
  ASSUME TypeOK, ChainLinks, NEW d \in Stores, Readers(d) = {}, OnlyTouches(d),
         NEW s \in Stores \ {d}, IsLive(s), NEW k \in Keys
  PROVE  Get(s, k)' = Get(s, k)
<1>1. CASE s = BASE
  <2>1. base' = base  BY <1>1 DEF OnlyTouches
  <2>2. Path(s) = <<>> /\ Path(s)' = <<>>  BY <1>1 DEF Path
  <2>3. \A i \in 1 .. Len(Path(s)) : local_state'[Path(s)[i]] = local_state[Path(s)[i]]
    BY <2>2
  <2> QED  BY <2>1, <2>2, <2>3, GetDependsOn
<1>2. CASE s # BASE
  <2>1. s \in Txns \ {d} /\ status[s] = "open"  BY <1>2 DEF Stores, IsLive
  <2>2. d # BASE /\ base' = base  BY <2>1, PathsAreRead DEF OnlyTouches
  <2>3. storage'[s] = storage[s] /\ Path(s)' = Path(s)  BY <2>1 DEF OnlyTouches, Path
  <2>4. PICK below \in Seq(Txns) : below = storage[s]  BY <2>1 DEF TypeOK
  <2>5. \A i \in DOMAIN below : below[i] \in Txns \ {d}  BY <2>1, <2>4, PathsAreRead
  <2>6. PICK path \in Seq(Txns) : path = Path(s) /\ path = <<s>> \o below
    <3>1. <<s>> \o below \in Seq(Txns)  BY <2>1
    <3>2. Path(s) = <<s>> \o below  BY <1>2, <2>4 DEF Path
    <3> QED  BY <3>1, <3>2
  <2>7. \A i \in 1 .. Len(path) : path[i] \in Txns \ {d}
    <3> SUFFICES ASSUME NEW i \in 1 .. Len(path)  PROVE path[i] \in Txns \ {d}
      OBVIOUS
    <3>1. CASE i = 1
      BY <2>1, <2>6, <3>1
    <3>2. CASE i # 1
      <4>1. i - 1 \in DOMAIN below /\ path[i] = below[i - 1]  BY <2>6, <3>2
      <4> QED  BY <2>5, <4>1
    <3> QED  BY <3>1, <3>2
  <2>8. \A i \in 1 .. Len(Path(s)) : local_state'[Path(s)[i]] = local_state[Path(s)[i]]
    BY <2>6, <2>7 DEF OnlyTouches
  <2> QED  BY <2>1, <2>2, <2>3, <2>8, GetDependsOn DEF Stores
<1> QED  BY <1>1, <1>2

(* Every step of the storage layer touches at most one store, and one that  *)
(* nobody reads through.  If that is a transaction that stays open, the     *)
(* step was a write: its path is as it was, and its log is longer.          *)
LEMMA StepTouches ==
  ASSUME IInv, [Next]_vars
  PROVE  \/ UNCHANGED <<base, local_state, storage>>
         \/ \E d \in Stores :
              /\ Readers(d) = {} /\ OnlyTouches(d)
              /\ d \in Txns /\ status[d] = "open" /\ status'[d] = "open" =>
                   storage'[d] = storage[d] /\ ops_log'[d] # ops_log[d]
<1>0. TypeOK /\ BorrowRules  BY DEF IInv
<1>1. ASSUME NEW t \in Txns, NEW s \in Stores, Open(t, s)
      PROVE  Readers(t) = {} /\ OnlyTouches(t) /\ status[t] # "open"
  BY <1>0, <1>1, ClosedHasNoReaders, BaseAssumption DEF Open, OnlyTouches, TypeOK
<1>2. ASSUME NEW s \in Stores, NEW op \in Op, Readers(s) = {}, Write(s, op), storage' = storage
      PROVE  /\ OnlyTouches(s)
             /\ s \in Txns => storage'[s] = storage[s] /\ ops_log'[s] # ops_log[s]
  <2>1. CASE s = BASE
    BY <1>2, <2>1, BaseAssumption DEF Write, OnlyTouches
  <2>2. CASE s # BASE
    <3>1. /\ s \in Txns /\ base' = base /\ ops_log'[s] = Append(ops_log[s], op)
          /\ \A u \in Txns \ {s} : local_state'[u] = local_state[u]
      BY <1>0, <1>2, <2>2 DEF Write, TypeOK, Stores
    <3>2. ops_log[s] \in Seq(Op)  BY <1>0, <3>1 DEF TypeOK
    <3>3. ops_log'[s] # ops_log[s]
      <4>1. PICK log \in Seq(Op) : log = ops_log[s]  BY <3>2
      <4>2. Len(Append(log, op)) = Len(log) + 1 /\ Len(log) \in Nat  BY <4>1
      <4>3. Append(log, op) # log  BY <4>2
      <4> QED  BY <3>1, <4>1, <4>3
    <3> QED  BY <1>2, <3>1, <3>3 DEF OnlyTouches
  <2> QED  BY <2>1, <2>2
<1>3. ASSUME NEW t \in Txns, base' = base, status'[t] # "open",
             \/ local_state' = local_state
             \/ local_state' = [local_state EXCEPT ![t] = NoDeltas],
             storage' = storage \/ storage' = [storage EXCEPT ![t] = <<>>]
      PROVE  OnlyTouches(t)
  BY <1>0, <1>3 DEF OnlyTouches, TypeOK
<1>4. ASSUME NEW t \in Txns, NEW s \in Stores, New(t, s) \/ Transactional(t, s)
      PROVE  \E d \in Stores :
               /\ Readers(d) = {} /\ OnlyTouches(d)
               /\ d \in Txns /\ status[d] = "open" => FALSE
  BY <1>1, <1>4 DEF New, Transactional, Stores
<1>5. ASSUME NEW s \in Stores, NEW op \in Op, CallerWrites(s, op)
      PROVE  /\ Readers(s) = {} /\ OnlyTouches(s)
             /\ s \in Txns => storage'[s] = storage[s] /\ ops_log'[s] # ops_log[s]
  BY <1>2, <1>5 DEF CallerWrites, CanMutate
<1>6. ASSUME NEW t \in Txns, Apply(t)
      PROVE  \E s \in Stores :
               /\ Readers(s) = {} /\ OnlyTouches(s)
               /\ s \in Txns => storage'[s] = storage[s] /\ ops_log'[s] # ops_log[s]
  <2>1. /\ target[t] \in Stores /\ Readers(target[t]) = {}
        /\ Write(target[t], ops_log[t][next[t]]) /\ storage' = storage
    BY <1>0, <1>6 DEF Apply, BorrowRules, SharingXorMutation, TypeOK
  <2>2. ops_log[t][next[t]] \in Op
    <3>1. ops_log[t] \in Seq(Op) /\ next[t] \in 1 .. Len(ops_log[t])
      BY <1>0, <1>6 DEF Apply, TypeOK
    <3> QED  BY <3>1
  <2> QED  BY <1>2, <2>1, <2>2
<1>7. ASSUME NEW t \in Txns, Prepare(t) \/ CallbackOk(t) \/ Rollback(t) \/ CallbackErr(t)
      PROVE  Readers(t) = {} /\ OnlyTouches(t) /\ status'[t] # "open"
  BY <1>0, <1>3, <1>7
     DEF Prepare, CallbackOk, Rollback, CallbackErr, Discard, Closed, StartCommit, Consumable, TypeOK
<1>8. ASSUME NEW t \in Txns, DropLog(t)
      PROVE  Readers(t) = {} /\ OnlyTouches(t) /\ status'[t] # "open"
  BY <1>0, <1>3, <1>8, ClosedHasNoReaders DEF DropLog, Discard, Closed, TypeOK
<1>9. ASSUME NEW t \in Txns, CommitReturns(t) \/ \E s \in Stores : Commit(t, s)
      PROVE  UNCHANGED <<base, local_state, storage>>
  BY <1>9 DEF CommitReturns, Commit
<1>10. \A k \in Keys, v \in MaybeValue : [key |-> k, value |-> v] \in Op  BY DEF Op
<1> QED
  BY <1>4, <1>5, <1>6, <1>7, <1>8, <1>9, <1>10
     DEF Next, vars, Set, Remove, Stores, MaybeValue

(* The chains stay linked.                                                  *)
LEMMA ChainsLinked == Spec => [](IInv /\ ChainLinks)
<1>1. Init => IInv /\ ChainLinks  BY InitIInv DEF Init, ChainLinks
<1>2. IInv /\ ChainLinks /\ [Next]_vars => (IInv /\ ChainLinks)'
  BY StepIInv, StepKeepsLinks
<1> QED  BY <1>1, <1>2, PTL DEF Spec

-----------------------------------------------------------------------------
(* The refinement of SnapshotStore.                                        *)

(* Past its end a log leaves nothing.                                       *)
LEMMA DeltaPastEnd ==
  ASSUME NEW log \in Seq(Op), NEW i \in Nat \ {0}, i > Len(log), NEW k \in Keys
  PROVE  LastDelta(log, i, k) = Untouched
<1>1. HasNone(log, i, k)  BY DEF HasNone
<1> QED  BY <1>1, NoDelta

(* The ops from i on leave what those after i do, or else what op i does.   *)
LEMMA DeltaUnfolds ==
  ASSUME NEW log \in Seq(Op), NEW i \in 1 .. Len(log), NEW k \in Keys
  PROVE  /\ LastDelta(log, i, k) = IF LastDelta(log, i + 1, k) # Untouched
                                   THEN LastDelta(log, i + 1, k)
                                   ELSE IF log[i].key = k THEN log[i].value ELSE Untouched
         /\ log[i].value # Untouched
<1>1. /\ Len(log) \in Nat /\ i \in Nat \ {0} /\ i + 1 \in Nat \ {0}
      /\ \A j \in 1 .. Len(log) : log[j].value # Untouched
  <2>1. \A op \in Op : op.value # Untouched  BY ValuesAssumption DEF Op, MaybeValue
  <2> QED  BY <2>1
<1>2. CASE HasNone(log, i + 1, k) /\ log[i].key # k
  <2>1. HasNone(log, i, k)  BY <1>1, <1>2 DEF HasNone
  <2> QED  BY <1>1, <1>2, <2>1, NoDelta
<1>3. CASE HasNone(log, i + 1, k) /\ log[i].key = k
  <2>1. IsLastOn(log, i, k, i)  BY <1>1, <1>3 DEF HasNone, IsLastOn
  <2> QED  BY <1>1, <1>3, <2>1, NoDelta, DeltaAt
<1>4. CASE \E j : IsLastOn(log, i + 1, k, j)
  <2>1. PICK j : IsLastOn(log, i + 1, k, j)  BY <1>4
  <2>2. IsLastOn(log, i, k, j) /\ j \in 1 .. Len(log)  BY <1>1, <2>1 DEF IsLastOn
  <2> QED  BY <1>1, <2>1, <2>2, DeltaAt
<1> QED  BY <1>1, <1>2, <1>3, <1>4, DeltaCases

-----------------------------------------------------------------------------
(* Commits that are under way.                                             *)

Committers(s) == {t \in Txns : status[t] = "committing" /\ target[t] = s}

(* Without one nothing is pending.                                          *)
LEMMA NothingPending ==
  ASSUME NEW s, NEW k
  PROVE  /\ Committers(s) = {} => PendingDelta(s, k) = Untouched
         /\ (Committers(s) = {})' => PendingDelta(s, k)' = Untouched
BY DEF Committers, PendingDelta

(* With one, the rest of its log is.                                        *)
LEMMA PendingIs ==
  ASSUME NEW s, NEW k, NEW t \in Txns
  PROVE  /\ Committers(s) = {t} => PendingDelta(s, k) = LastDelta(ops_log[t], next[t], k)
         /\ (Committers(s) = {t})' =>
              PendingDelta(s, k)' = LastDelta(ops_log'[t], next'[t], k)
<1>1. (CHOOSE u \in {t} : TRUE) = t  OBVIOUS
<1> QED  BY <1>1 DEF Committers, PendingDelta

(* What is pending changes only with the commits to s.                      *)
LEMMA PendingStays ==
  ASSUME NEW s, NEW k, Committers(s)' = Committers(s),
         \A t \in Committers(s) : ops_log'[t] = ops_log[t] /\ next'[t] = next[t]
  PROVE  PendingDelta(s, k)' = PendingDelta(s, k)
<1> DEFINE t == CHOOSE u \in Committers(s) : TRUE
<1>1. CASE Committers(s) = {}
  BY <1>1 DEF PendingDelta, Committers
<1>2. CASE Committers(s) # {}
  <2>1. ops_log'[t] = ops_log[t] /\ next'[t] = next[t]  BY <1>2
  <2>2. PendingDelta(s, k) = LastDelta(ops_log[t], next[t], k)
    BY <1>2 DEF PendingDelta, Committers
  <2>3. PendingDelta(s, k)' = LastDelta(ops_log'[t], next'[t], k)
    BY <1>2 DEF PendingDelta, Committers
  <2> QED  BY <2>1, <2>2, <2>3 DEF LastDelta
<1> QED  BY <1>1, <1>2

(* Who may mutate or consume s, or opened it, is the only one to commit to  *)
(* it; and nobody commits to what is not open.                              *)
LEMMA CommittersAre ==
  ASSUME BorrowRules, NEW s \in Stores
  PROVE  /\ Writers(s) = {} => Committers(s) = {}
         /\ ~ IsLive(s) => Committers(s) = {}
         /\ \A t \in exclusive : Lender(t) = s => Committers(s) = {}
         /\ \A t \in Txns : status[t] = "committing" /\ target[t] = s => Committers(s) = {t}
<1>1. Committers(s) \subseteq Writers(s)  BY DEF Committers, Writers
<1>2. \A t \in Txns : status[t] = "committing" =>
        IsLive(target[t]) /\ Writers(target[t]) = {t}
  BY DEF BorrowRules, SharingXorMutation
<1>3. \A t \in exclusive : status[t] = "open" /\ Writers(Lender(t)) = {t}
  BY DEF BorrowRules, SharingXorMutation
<1>4. \A t \in exclusive : Lender(t) = s => Committers(s) = {}
  BY <1>1, <1>3 DEF Committers
<1>5. ~ IsLive(s) => Committers(s) = {}  BY <1>2 DEF Committers
<1>6. \A t \in Txns : status[t] = "committing" /\ target[t] = s => Committers(s) = {t}
  BY <1>1, <1>2 DEF Committers
<1> QED  BY <1>1, <1>4, <1>5, <1>6

-----------------------------------------------------------------------------
(* What a write shows.                                                     *)

(* GetUnfolds in the state a step leads to.                                 *)
ReadsUnfold ==
  \A t \in Txns, k \in Keys : status[t] = "open" =>
    Get(t, k) = IF local_state[t][k] # Untouched THEN local_state[t][k]
                ELSE Get(Lender(t), k)

LEMMA GetUnfoldsNext == IInv' => ReadsUnfold'
<1>1. IInv => ReadsUnfold  BY GetUnfolds DEF IInv, BorrowRules, ReadsUnfold
<1> QED  BY <1>1, PTL

(* The store that is written answers with the write, under its key, and as  *)
(* before under the others.                                                 *)
LEMMA WriteShows ==
  ASSUME IInv, IInv', ChainLinks, NEW s \in Stores, IsLive(s), Readers(s) = {},
         NEW op \in Op, Write(s, op), UNCHANGED <<status, storage>>, NEW k \in Keys
  PROVE  Get(s, k)' = IF k = op.key THEN op.value ELSE Get(s, k)
<1>1. CASE s = BASE
  <2>1. base' = [base EXCEPT ![op.key] = op.value]  BY <1>1 DEF Write
  <2>2. Path(s) = <<>> /\ Path(s)' = <<>>  BY <1>1 DEF Path
  <2>3. Get(s, k) = base[k] /\ Get(s, k)' = base'[k]
    BY <2>2 DEF Get, Seqs!SelectInSeq
  <2> QED  BY <2>1, <2>3 DEF IInv, TypeOK
<1>2. CASE s # BASE
  <2>1. s \in Txns /\ status[s] = "open" /\ status'[s] = "open"
    BY <1>2 DEF Stores, IsLive
  <2>2. /\ local_state' = [local_state EXCEPT ![s][op.key] = op.value] /\ base' = base
        /\ local_state \in [Txns -> [Keys -> MaybeValue \cup {Untouched}]]
    BY <1>2 DEF Write, IInv, TypeOK
  <2>3. local_state'[s][k] = IF k = op.key THEN op.value ELSE local_state[s][k]
    BY <2>1, <2>2
  <2>4. OnlyTouches(s)  BY <1>2, <2>2 DEF OnlyTouches
  <2>5. PICK r \in Stores \ {s} : r = Lender(s) /\ IsLive(r)
    BY <2>1, LenderType DEF IInv, BorrowRules, PathsAreChains, Readers
  <2>6. Get(r, k)' = Get(r, k)  BY <2>4, <2>5, Undisturbed DEF IInv
  <2>7. Get(Lender(s), k)' = Get(r, k)'  BY <2>5 DEF Lender
  <2>8. Get(s, k) = IF local_state[s][k] # Untouched THEN local_state[s][k] ELSE Get(r, k)
    BY <2>1, <2>5, GetUnfolds DEF IInv, BorrowRules
  <2>9. Get(s, k)' = IF local_state'[s][k] # Untouched THEN local_state'[s][k]
                     ELSE Get(Lender(s), k)'
    BY <2>1, GetUnfoldsNext DEF ReadsUnfold
  <2>10. op.value # Untouched  BY ValuesAssumption DEF Op, MaybeValue
  <2> QED  BY <2>3, <2>6, <2>7, <2>8, <2>9, <2>10
<1> QED  BY <1>1, <1>2
-----------------------------------------------------------------------------
(* The mapping, store by store.                                            *)

(* What is not touched and has the same commits pending looks as before.    *)
LEMMA ElsewhereSame ==
  ASSUME IInv, ChainLinks, NEW d \in Stores, Readers(d) = {}, OnlyTouches(d),
         NEW s \in Stores \ {d},
         s \in Txns => status'[s] = status[s] /\ ops_log'[s] = ops_log[s],
         \A k \in Keys : PendingDelta(s, k)' = PendingDelta(s, k)
  PROVE  /\ AbsView'[s] = AbsView[s]
         /\ s \in Txns => AbsChanges'[s] = AbsChanges[s]
<1>1. IsLive(s)' <=> IsLive(s)  BY DEF IsLive, Stores
<1>2. ASSUME NEW k \in Keys, IsLive(s)  PROVE Get(s, k)' = Get(s, k)
  BY <1>2, Undisturbed DEF IInv
<1>3. ASSUME NEW k \in Keys, IsLive(s)  PROVE Settled(s, k)' = Settled(s, k)
  BY <1>2, <1>3 DEF Settled
<1>4. AbsView'[s] = AbsView[s]  BY <1>1, <1>3 DEF AbsView
<1>5. ASSUME s \in Txns  PROVE AbsChanges'[s] = AbsChanges[s]
  <2>1. status'[s] = status[s] /\ ops_log'[s] = ops_log[s] /\ local_state'[s] = local_state[s]
    BY <1>5 DEF OnlyTouches
  <2>2. \A k \in Keys : LastDelta(ops_log'[s], 1, k) = LastDelta(ops_log[s], 1, k)
    BY <2>1
  <2>3. AbsChanges[s] = [k \in Keys |->
          CASE status[s] = "open" -> IF PendingDelta(s, k) = Untouched
                                     THEN local_state[s][k] ELSE PendingDelta(s, k)
            [] status[s] = "prepared" -> LastDelta(ops_log[s], 1, k)
            [] OTHER -> Untouched]
    BY <1>5 DEF AbsChanges
  <2>4. AbsChanges'[s] = [k \in Keys |->
          CASE status'[s] = "open" -> IF PendingDelta(s, k)' = Untouched
                                      THEN local_state'[s][k] ELSE PendingDelta(s, k)'
            [] status'[s] = "prepared" -> LastDelta(ops_log'[s], 1, k)
            [] OTHER -> Untouched]
    BY <1>5 DEF AbsChanges
  <2> QED  BY <2>1, <2>2, <2>3, <2>4
<1> QED  BY <1>4, <1>5

(* What an open transaction, a prepared log and the others look like, and   *)
(* who is live.                                                             *)
Looks ==
  /\ \A s \in Stores : /\ ~ IsLive(s) => AbsView[s] = Snapshot!NoContents
                       /\ Snapshot!IsLive(s) <=> IsLive(s)
                       /\ IsLive(s) => AbsView[s] = [k \in Keys |-> Settled(s, k)]
  /\ \A t \in Txns :
       /\ status[t] \notin {"open", "prepared"} => AbsChanges[t] = Snapshot!NoChanges
       /\ status[t] = "prepared" =>
            AbsChanges[t] = [k \in Keys |-> LastDelta(ops_log[t], 1, k)]
       /\ status[t] = "open" /\ Committers(t) = {} => AbsChanges[t] = [k \in Keys |-> local_state[t][k]]
       /\ status[t] = "open" =>
            AbsChanges[t] = [k \in Keys |-> IF PendingDelta(t, k) = Untouched
                                            THEN local_state[t][k] ELSE PendingDelta(t, k)]
       /\ AbsPhase[t] = IF status[t] = "committing" THEN "done" ELSE status[t]
  /\ AbsView = [s \in Stores |-> AbsView[s]]
  /\ AbsChanges = [t \in Txns |-> AbsChanges[t]]
  /\ AbsPhase = [t \in Txns |-> AbsPhase[t]]

LEMMA ItLooks == Looks
<1>1. ASSUME NEW s \in Stores
      PROVE  /\ ~ IsLive(s) => AbsView[s] = Snapshot!NoContents
             /\ Snapshot!IsLive(s) <=> IsLive(s)
             /\ IsLive(s) => AbsView[s] = [k \in Keys |-> Settled(s, k)]
  BY DEF AbsView, AbsPhase, Snapshot!NoContents, Snapshot!IsLive, IsLive, Stores
<1>2. ASSUME NEW t \in Txns
      PROVE  /\ status[t] \notin {"open", "prepared"} => AbsChanges[t] = Snapshot!NoChanges
             /\ status[t] = "prepared" =>
                  AbsChanges[t] = [k \in Keys |-> LastDelta(ops_log[t], 1, k)]
             /\ status[t] = "open" =>
                  AbsChanges[t] = [k \in Keys |-> IF PendingDelta(t, k) = Untouched
                                                  THEN local_state[t][k]
                                                  ELSE PendingDelta(t, k)]
             /\ AbsPhase[t] = IF status[t] = "committing" THEN "done" ELSE status[t]
  BY DEF AbsChanges, AbsPhase, Snapshot!NoChanges
<1>3. ASSUME NEW t \in Txns, status[t] = "open", Committers(t) = {}
      PROVE  AbsChanges[t] = [k \in Keys |-> local_state[t][k]]
  <2>1. \A k \in Keys : PendingDelta(t, k) = Untouched  BY <1>3, NothingPending
  <2> QED  BY <1>2, <1>3, <2>1
<1>4. /\ AbsView = [s \in Stores |-> AbsView[s]]
      /\ AbsChanges = [t \in Txns |-> AbsChanges[t]]
      /\ AbsPhase = [t \in Txns |-> AbsPhase[t]]
  BY DEF AbsView, AbsChanges, AbsPhase
<1> QED  BY <1>1, <1>2, <1>3, <1>4 DEF Looks

LEMMA ItWillLook == Looks'
BY ItLooks, PTL

-----------------------------------------------------------------------------
(* The steps.                                                              *)

(* Two functions that differ at one point at most.                          *)
LEMMA IsExcept ==
  ASSUME NEW S, NEW f, NEW g, f = [x \in S |-> f[x]], g = [x \in S |-> g[x]],
         NEW d \in S, \A x \in S \ {d} : g[x] = f[x]
  PROVE  g = [f EXCEPT ![d] = g[d]] /\ (g[d] = f[d] => g = f)
<1>1. [f EXCEPT ![d] = g[d]] = [x \in S |-> IF x = d THEN g[d] ELSE f[x]]  OBVIOUS
<1>2. g = [x \in S |-> IF x = d THEN g[d] ELSE f[x]]  OBVIOUS
<1>3. g[d] = f[d] => g = f  OBVIOUS
<1> QED  BY <1>1, <1>2, <1>3

(* A step that neither starts, ends nor advances a commit.                  *)
LEMMA QuietlyPending ==
  ASSUME NEW t, status[t] # "committing", status'[t] # "committing",
         \A u \in Txns \ {t} : /\ status'[u] = status[u] /\ target'[u] = target[u]
                               /\ ops_log'[u] = ops_log[u] /\ next'[u] = next[u]
  PROVE  \A s \in Stores : /\ Committers(s)' = Committers(s)
                           /\ \A k \in Keys : PendingDelta(s, k)' = PendingDelta(s, k)
<1> TAKE s \in Stores
<1>1. Committers(s)' = Committers(s)  BY DEF Committers
<1>2. \A u \in Committers(s) : ops_log'[u] = ops_log[u] /\ next'[u] = next[u]
  BY DEF Committers
<1> QED  BY <1>1, <1>2, PendingStays

(* new() and transactional() take a copy.                                   *)
LEMMA OpenRefines ==
  ASSUME IInv, IInv', ChainLinks, NEW t \in Txns, NEW s \in Stores, CanShare(s), Open(t, s)
  PROVE  Snapshot!Begin(t, s)
<1>0. TypeOK /\ BorrowRules /\ ClosedIsReset  BY DEF IInv
<1>1. /\ status[t] = "none" /\ status'[t] = "open" /\ storage'[t] = Path(s)
      /\ UNCHANGED <<base, local_state, ops_log, target, next>>
      /\ \A u \in Txns \ {t} : status'[u] = status[u] /\ storage'[u] = storage[u]
      /\ s \in Stores \ {t} /\ IsLive(s)
  BY <1>0, BaseAssumption DEF Open, TypeOK, CanShare, IsLive
<1>2. t \in Stores /\ t # BASE /\ Readers(t) = {} /\ OnlyTouches(t)
  BY <1>0, <1>1, ClosedHasNoReaders, BaseAssumption DEF OnlyTouches, Stores
<1>3. Committers(t) = {} /\ Committers(s) = {}
  BY <1>0, <1>1, <1>2, CommittersAre DEF IsLive, CanShare
<1>4. \A u \in Stores : /\ Committers(u)' = Committers(u)
                        /\ \A k \in Keys : PendingDelta(u, k)' = PendingDelta(u, k)
  BY <1>1, QuietlyPending
<1>5. \A u \in Stores \ {t} : /\ AbsView'[u] = AbsView[u]
                              /\ u \in Txns => AbsChanges'[u] = AbsChanges[u]
  BY <1>1, <1>2, <1>4, ElsewhereSame
<1>6. AbsChanges'[t] = AbsChanges[t]
  <2>1. AbsChanges[t] = Snapshot!NoChanges  BY <1>1, ItLooks DEF Looks
  <2>2. AbsChanges'[t] = [k \in Keys |-> local_state'[t][k]]
    BY <1>1, <1>2, <1>3, <1>4, ItWillLook DEF Looks
  <2>3. local_state'[t] = NoDeltas  BY <1>0, <1>1 DEF ClosedIsReset
  <2> QED  BY <2>1, <2>2, <2>3 DEF Snapshot!NoChanges, NoDeltas
<1>7. AbsView'[t] = AbsView[s]
  <2>1. ASSUME NEW k \in Keys  PROVE Settled(t, k)' = Settled(s, k)
    <3>1. Settled(s, k) = Get(s, k)  BY <1>3, NothingPending DEF Settled
    <3>2. Settled(t, k)' = Get(t, k)'  BY <1>2, <1>3, <1>4, NothingPending DEF Settled
    <3>3. local_state'[t][k] = Untouched  BY <1>0, <1>1 DEF ClosedIsReset, NoDeltas
    <3>4. Get(t, k)' = Get(Lender(t), k)'  BY <1>1, <3>3, GetUnfoldsNext DEF ReadsUnfold
    <3>5. Lender(t)' = s
      <4>1. CASE s = BASE
        BY <1>1, <4>1 DEF Lender, Path
      <4>2. CASE s # BASE
        <5>1. PICK below \in Seq(Txns) : below = storage[s]
          BY <1>0, <4>2 DEF TypeOK, Stores
        <5>2. s \in Txns  BY <4>2 DEF Stores
        <5>3. <<s>> \o below # <<>> /\ Head(<<s>> \o below) = s  BY <5>2
        <5>4. storage'[t] = <<s>> \o below  BY <1>1, <4>2, <5>1 DEF Path
        <5> QED  BY <5>3, <5>4 DEF Lender
      <4> QED  BY <4>1, <4>2
    <3>6. Get(Lender(t), k)' = Get(s, k)'  BY <3>5
    <3>7. Get(s, k)' = Get(s, k)  BY <1>0, <1>1, <1>2, Undisturbed
    <3> QED  BY <3>1, <3>2, <3>4, <3>6, <3>7
  <2>2. AbsView[s] = [k \in Keys |-> Settled(s, k)]  BY <1>1, ItLooks DEF Looks
  <2>3. AbsView'[t] = [k \in Keys |-> Settled(t, k)']
    BY <1>1, <1>2, ItWillLook DEF Looks, IsLive
  <2> QED  BY <2>1, <2>2, <2>3
<1>8. AbsView' = [AbsView EXCEPT ![t] = AbsView[s]]
  <2>1. AbsView = [u \in Stores |-> AbsView[u]] /\ AbsView' = [u \in Stores |-> AbsView'[u]]
    BY ItLooks, ItWillLook DEF Looks
  <2> QED  BY <1>2, <1>5, <1>7, <2>1, IsExcept
<1>9. AbsChanges' = AbsChanges
  <2>1. AbsChanges = [u \in Txns |-> AbsChanges[u]] /\ AbsChanges' = [u \in Txns |-> AbsChanges'[u]]
    BY ItLooks, ItWillLook DEF Looks
  <2>2. \A u \in Txns \ {t} : AbsChanges'[u] = AbsChanges[u]  BY <1>5 DEF Stores
  <2> QED  BY <1>6, <2>1, <2>2, IsExcept
<1>10. AbsPhase' = [AbsPhase EXCEPT ![t] = "open"] /\ AbsPhase[t] = "none"
  <2>1. AbsPhase = [u \in Txns |-> AbsPhase[u]] /\ AbsPhase' = [u \in Txns |-> AbsPhase'[u]]
    BY ItLooks, ItWillLook DEF Looks
  <2>2. /\ \A u \in Txns \ {t} : AbsPhase'[u] = AbsPhase[u]
        /\ AbsPhase'[t] = "open" /\ AbsPhase[t] = "none"
    BY <1>1, ItLooks, ItWillLook DEF Looks
  <2> QED  BY <2>1, <2>2, IsExcept
<1>11. Snapshot!IsLive(s)  BY <1>1, ItLooks DEF Looks
<1> QED  BY <1>8, <1>9, <1>10, <1>11 DEF Snapshot!Begin

(* set() and remove() write to the copy.                                    *)
LEMMA WriteRefines ==
  ASSUME IInv, IInv', ChainLinks, NEW s \in Stores, NEW op \in Op, CallerWrites(s, op)
  PROVE  Snapshot!Write(s, op.key, op.value)
<1>0. TypeOK /\ BorrowRules  BY DEF IInv
<1>1. /\ IsLive(s) /\ IsLive(s)' /\ Readers(s) = {} /\ Write(s, op)
      /\ UNCHANGED <<status, storage, exclusive, target, next>>
  BY DEF CallerWrites, CanMutate, CanShare, IsLive
<1>2. OnlyTouches(s) /\ \A u \in Txns \ {s} : ops_log'[u] = ops_log[u]
  BY <1>0, <1>1, BaseAssumption DEF Write, OnlyTouches, TypeOK, Stores
<1>3. \A u \in Stores : /\ Committers(u)' = Committers(u)
                        /\ \A k \in Keys : PendingDelta(u, k)' = PendingDelta(u, k)
  <2>1. CASE s = BASE
    <3>1. ops_log' = ops_log  BY <1>1, <2>1 DEF Write
    <3> QED  BY <1>1, <3>1, PendingStays DEF Committers
  <2>2. CASE s # BASE
    <3>1. status[s] # "committing" /\ status'[s] # "committing"  BY <1>1, <2>2 DEF IsLive
    <3> QED  BY <1>1, <1>2, <3>1, QuietlyPending
  <2> QED  BY <2>1, <2>2
<1>4. Committers(s) = {} /\ (Committers(s) = {})'
  BY <1>0, <1>3, CommittersAre DEF CallerWrites, CanMutate, CanShare
<1>5. \A u \in Stores \ {s} : /\ AbsView'[u] = AbsView[u]
                              /\ u \in Txns => AbsChanges'[u] = AbsChanges[u]
  BY <1>1, <1>2, <1>3, ElsewhereSame
<1>6. AbsView' = [AbsView EXCEPT ![s][op.key] = op.value]
  <2>1. \A k \in Keys : /\ Settled(s, k) = Get(s, k)
                        /\ Settled(s, k)' = IF k = op.key THEN op.value ELSE Get(s, k)
    <3> TAKE k \in Keys
    <3>1. PendingDelta(s, k) = Untouched /\ PendingDelta(s, k)' = Untouched
      BY <1>3, <1>4, NothingPending
    <3>2. Get(s, k)' = IF k = op.key THEN op.value ELSE Get(s, k)
      BY <1>1, WriteShows
    <3> QED  BY <3>1, <3>2 DEF Settled
  <2>2. AbsView[s] = [k \in Keys |-> Get(s, k)]
    BY <1>1, <2>1, ItLooks DEF Looks
  <2>3. AbsView'[s] = [k \in Keys |-> IF k = op.key THEN op.value ELSE Get(s, k)]
    BY <1>1, <2>1, ItWillLook DEF Looks
  <2>4. AbsView'[s] = [AbsView[s] EXCEPT ![op.key] = op.value]  BY <2>2, <2>3
  <2>5. AbsView = [u \in Stores |-> AbsView[u]] /\ AbsView' = [u \in Stores |-> AbsView'[u]]
    BY ItLooks, ItWillLook DEF Looks
  <2>6. AbsView' = [AbsView EXCEPT ![s] = AbsView'[s]]  BY <1>5, <2>5, IsExcept
  <2> QED  BY <2>4, <2>5, <2>6
<1>7. AbsChanges' = [t \in Txns |-> IF t = s THEN [AbsChanges[t] EXCEPT ![op.key] = op.value]
                                   ELSE AbsChanges[t]]
  <2>1. ASSUME s \in Txns  PROVE AbsChanges'[s] = [AbsChanges[s] EXCEPT ![op.key] = op.value]
    <3>1. status[s] = "open" /\ status'[s] = "open"  BY <1>1, <2>1, BaseAssumption DEF IsLive
    <3>2. AbsChanges[s] = [k \in Keys |-> local_state[s][k]]
      BY <1>4, <2>1, <3>1, ItLooks DEF Looks
    <3>3. AbsChanges'[s] = [k \in Keys |-> local_state'[s][k]]
      BY <1>4, <2>1, <3>1, ItWillLook DEF Looks
    <3>4. \A k \in Keys : local_state'[s][k] = IF k = op.key THEN op.value ELSE local_state[s][k]
      BY <1>0, <1>1, <2>1, BaseAssumption DEF Write, TypeOK
    <3> QED  BY <3>2, <3>3, <3>4
  <2>2. AbsChanges' = [u \in Txns |-> AbsChanges'[u]]  BY ItWillLook DEF Looks
  <2>3. \A u \in Txns \ {s} : AbsChanges'[u] = AbsChanges[u]  BY <1>5 DEF Stores
  <2> QED  BY <2>1, <2>2, <2>3
<1>8. AbsPhase' = AbsPhase  BY <1>1 DEF AbsPhase
<1>9. Snapshot!IsLive(s)  BY <1>1, ItLooks DEF Looks
<1> QED  BY <1>6, <1>7, <1>8, <1>9 DEF Snapshot!Write

(* A transaction leaves: it shows nothing, and its changes are kept or not. *)
LEMMA LeaveRefines ==
  ASSUME IInv, ChainLinks, NEW t \in Txns, status[t] \in {"open", "prepared"},
         Readers(t) = {}, OnlyTouches(t),
         NEW st \in {"prepared", "done"}, status' = [status EXCEPT ![t] = st],
         UNCHANGED <<target, next>>, \A u \in Txns \ {t} : ops_log'[u] = ops_log[u]
  PROVE  /\ AbsView' = [AbsView EXCEPT ![t] = Snapshot!NoContents]
         /\ AbsChanges' = [AbsChanges EXCEPT ![t] = AbsChanges'[t]]
         /\ AbsChanges'[t] = AbsChanges[t] => AbsChanges' = AbsChanges
         /\ AbsPhase' = [AbsPhase EXCEPT ![t] = st] /\ AbsPhase[t] = status[t]
<1>1. /\ status'[t] = st /\ t \in Stores /\ t # BASE
      /\ \A u \in Txns \ {t} : status'[u] = status[u]
  BY BaseAssumption DEF IInv, TypeOK, Stores
<1>2. \A u \in Stores : \A k \in Keys : PendingDelta(u, k)' = PendingDelta(u, k)
  BY <1>1, QuietlyPending
<1>3. \A u \in Stores \ {t} : /\ AbsView'[u] = AbsView[u]
                              /\ u \in Txns => AbsChanges'[u] = AbsChanges[u]
  BY <1>1, <1>2, ElsewhereSame
<1>4. AbsView'[t] = Snapshot!NoContents
  BY <1>1, ItWillLook DEF Looks, IsLive
<1>5. /\ AbsView = [u \in Stores |-> AbsView[u]] /\ AbsView' = [u \in Stores |-> AbsView'[u]]
      /\ AbsChanges = [u \in Txns |-> AbsChanges[u]]
      /\ AbsChanges' = [u \in Txns |-> AbsChanges'[u]]
      /\ AbsPhase = [u \in Txns |-> AbsPhase[u]] /\ AbsPhase' = [u \in Txns |-> AbsPhase'[u]]
  BY ItLooks, ItWillLook DEF Looks
<1>6. AbsView' = [AbsView EXCEPT ![t] = Snapshot!NoContents]
  BY <1>1, <1>3, <1>4, <1>5, IsExcept
<1>7. \A u \in Txns \ {t} : AbsChanges'[u] = AbsChanges[u]  BY <1>3 DEF Stores
<1>8. /\ \A u \in Txns \ {t} : AbsPhase'[u] = AbsPhase[u]
      /\ AbsPhase'[t] = st /\ AbsPhase[t] = status[t]
  BY <1>1, ItLooks, ItWillLook DEF Looks
<1>9. AbsPhase' = [AbsPhase EXCEPT ![t] = st]  BY <1>5, <1>8, IsExcept
<1>10. /\ AbsChanges' = [AbsChanges EXCEPT ![t] = AbsChanges'[t]]
       /\ AbsChanges'[t] = AbsChanges[t] => AbsChanges' = AbsChanges
  BY <1>5, <1>7, IsExcept
<1> QED  BY <1>6, <1>8, <1>9, <1>10

(* prepare() keeps them.                                                    *)
LEMMA PrepareRefines ==
  ASSUME IInv, ChainLinks, NEW t \in Txns, Prepare(t)
  PROVE  Snapshot!Prepare(t)
<1>0. TypeOK /\ BorrowRules  BY DEF IInv
<1>1. /\ status[t] = "open" /\ status' = [status EXCEPT ![t] = "prepared"]
      /\ Readers(t) = {} /\ OnlyTouches(t) /\ UNCHANGED <<target, next, ops_log>>
      /\ status'[t] = "prepared" /\ Committers(t) = {} /\ t \in Stores
  <2>1. Committers(t) = {}  BY <1>0, CommittersAre DEF Prepare, Consumable, Stores
  <2> QED  BY <1>0, <2>1 DEF Prepare, Consumable, OnlyTouches, TypeOK, Stores
<1>2. AbsChanges'[t] = AbsChanges[t]
  <2>1. AbsChanges[t] = [k \in Keys |-> local_state[t][k]]  BY <1>1, ItLooks DEF Looks
  <2>2. AbsChanges'[t] = [k \in Keys |-> LastDelta(ops_log'[t], 1, k)]
    BY <1>1, ItWillLook DEF Looks
  <2>3. \A k \in Keys : local_state[t][k] = LastDelta(ops_log[t], 1, k)
    BY <1>1 DEF IInv, LocalMatchesLog
  <2>4. \A k \in Keys : LastDelta(ops_log'[t], 1, k) = LastDelta(ops_log[t], 1, k)
    BY <1>1
  <2> QED  BY <2>1, <2>2, <2>3, <2>4
<1> QED  BY <1>1, <1>2, LeaveRefines DEF Snapshot!Prepare

(* rollback(), an Err of the callback and an unused log drop them.          *)
LEMMA DropRefines ==
  ASSUME IInv, ChainLinks, NEW t \in Txns, Rollback(t) \/ CallbackErr(t) \/ DropLog(t)
  PROVE  Snapshot!Drop(t)
<1>0. TypeOK /\ BorrowRules  BY DEF IInv
<1>1. /\ status[t] \in {"open", "prepared"} /\ Discard(t) /\ Readers(t) = {}
  BY <1>0, ClosedHasNoReaders DEF Rollback, CallbackErr, DropLog, Consumable
<1>2. /\ status' = [status EXCEPT ![t] = "done"] /\ OnlyTouches(t)
      /\ UNCHANGED <<target, next>> /\ \A u \in Txns \ {t} : ops_log'[u] = ops_log[u]
      /\ status'[t] = "done"
  BY <1>0, <1>1 DEF Discard, Closed, OnlyTouches, TypeOK
<1>3. AbsChanges'[t] = Snapshot!NoChanges  BY <1>2, ItWillLook DEF Looks
<1> QED  BY <1>1, <1>2, <1>3, LeaveRefines DEF Snapshot!Drop

(* The step that starts a commit of t to s, whether t is a prepared log or  *)
(* the transaction of transactional(): all the changes show at once.        *)
LEMMA StartRefines ==
  ASSUME IInv, ChainLinks, NEW t \in Txns, NEW s \in Stores \ {t},
         status[t] \in {"open", "prepared"}, IsLive(s), Readers(t) = {},
         Committers(s) = {}, Committers(t) = {}, StartCommit(t, s), OnlyTouches(t),
         UNCHANGED ops_log
  PROVE  /\ Snapshot!Merge(t, s)
         /\ \A k \in Keys : Settled(s, k)' = IF LastDelta(ops_log[t], 1, k) = Untouched
                                             THEN Get(s, k) ELSE LastDelta(ops_log[t], 1, k)
<1>0. TypeOK /\ BorrowRules  BY DEF IInv
<1>1. /\ status'[t] = "committing" /\ target'[t] = s /\ next'[t] = 1 /\ t \in Stores /\ t # BASE
      /\ \A u \in Txns \ {t} :
           status'[u] = status[u] /\ target'[u] = target[u] /\ next'[u] = next[u]
  BY <1>0, BaseAssumption DEF StartCommit, TypeOK, Stores
<1>2. Committers(s)' = {t} /\ \A u \in Stores \ {s} : Committers(u)' = Committers(u)
  BY <1>1 DEF Committers
<1>3. \A u \in Stores \ {s} : \A k \in Keys : PendingDelta(u, k)' = PendingDelta(u, k)
  <2> TAKE u \in Stores \ {s}
  <2>1. \A v \in Committers(u) : ops_log'[v] = ops_log[v] /\ next'[v] = next[v]
    BY <1>1 DEF Committers
  <2> QED  BY <1>2, <2>1, PendingStays
<1>4. \A k \in Keys : /\ PendingDelta(s, k) = Untouched
                      /\ PendingDelta(s, k)' = LastDelta(ops_log[t], 1, k)
  <2> TAKE k \in Keys
  <2>1. PendingDelta(s, k)' = LastDelta(ops_log'[t], next'[t], k)  BY <1>2, PendingIs
  <2>2. LastDelta(ops_log'[t], next'[t], k) = LastDelta(ops_log[t], 1, k)  BY <1>1
  <2> QED  BY <2>1, <2>2, NothingPending
<1>5. \A k \in Keys : Settled(s, k)' = IF LastDelta(ops_log[t], 1, k) = Untouched
                                       THEN Get(s, k) ELSE LastDelta(ops_log[t], 1, k)
  <2> TAKE k \in Keys
  <2>1. Get(s, k)' = Get(s, k)  BY <1>0, <1>1, Undisturbed
  <2> QED  BY <1>4, <2>1 DEF Settled
<1>6. AbsChanges[t] = [k \in Keys |-> LastDelta(ops_log[t], 1, k)]
  <2>1. CASE status[t] = "prepared"
    BY <2>1, ItLooks DEF Looks
  <2>2. CASE status[t] = "open"
    <3>1. AbsChanges[t] = [k \in Keys |-> local_state[t][k]]  BY <2>2, ItLooks DEF Looks
    <3>2. \A k \in Keys : local_state[t][k] = LastDelta(ops_log[t], 1, k)
      BY <2>2 DEF IInv, LocalMatchesLog
    <3> QED  BY <3>1, <3>2
  <2> QED  BY <2>1, <2>2
<1>7. \A u \in Stores \ {s, t} : /\ AbsView'[u] = AbsView[u]
                                 /\ u \in Txns => AbsChanges'[u] = AbsChanges[u]
  <2> TAKE u \in Stores \ {s, t}
  <2> QED  BY <1>1, <1>3, ElsewhereSame
<1>8. AbsView'[t] = Snapshot!NoContents /\ AbsChanges'[t] = Snapshot!NoChanges
  BY <1>1, ItWillLook DEF Looks, IsLive
<1>9. IsLive(s)'  BY <1>1 DEF IsLive, Stores
<1>10. AbsView'[s] = Snapshot!Overlay(AbsView[s], AbsChanges[t])
  <2>1. AbsView[s] = [k \in Keys |-> Settled(s, k)] /\ AbsView'[s] = [k \in Keys |-> Settled(s, k)']
    BY <1>9, ItLooks, ItWillLook DEF Looks
  <2>2. \A k \in Keys : Settled(s, k) = Get(s, k)  BY <1>4 DEF Settled
  <2> QED  BY <1>5, <1>6, <2>1, <2>2 DEF Snapshot!Overlay
<1>11. s \in Txns =>
         AbsChanges'[s] = [k \in Keys |-> IF AbsChanges[t][k] = Untouched
                                          THEN AbsChanges[s][k] ELSE AbsChanges[t][k]]
  <2> SUFFICES ASSUME s \in Txns
               PROVE  AbsChanges'[s] = [k \in Keys |-> IF AbsChanges[t][k] = Untouched
                                                       THEN AbsChanges[s][k] ELSE AbsChanges[t][k]]
    OBVIOUS
  <2>1. status[s] = "open" /\ status'[s] = "open" /\ local_state'[s] = local_state[s]
    BY <1>1, BaseAssumption DEF IsLive, OnlyTouches
  <2>2. AbsChanges[s] = [k \in Keys |-> local_state[s][k]]  BY <2>1, ItLooks DEF Looks
  <2>3. AbsChanges'[s] = [k \in Keys |-> IF PendingDelta(s, k)' = Untouched
                                         THEN local_state'[s][k] ELSE PendingDelta(s, k)']
    BY <2>1, ItWillLook DEF Looks
  <2> QED  BY <1>4, <1>6, <2>1, <2>2, <2>3
<1>12. AbsView' = [AbsView EXCEPT ![t] = Snapshot!NoContents,
                                  ![s] = Snapshot!Overlay(AbsView[s], AbsChanges[t])]
  <2>1. AbsView = [u \in Stores |-> AbsView[u]] /\ AbsView' = [u \in Stores |-> AbsView'[u]]
    BY ItLooks, ItWillLook DEF Looks
  <2>2. AbsView' = [u \in Stores |->
                      IF u = s THEN Snapshot!Overlay(AbsView[s], AbsChanges[t])
                      ELSE IF u = t THEN Snapshot!NoContents ELSE AbsView[u]]
    BY <1>7, <1>8, <1>10, <2>1
  <2> QED  BY <2>1, <2>2
<1>13. AbsChanges' = [u \in Txns |->
                        CASE u = t -> Snapshot!NoChanges
                          [] u = s -> [k \in Keys |-> IF AbsChanges[t][k] = Untouched
                                                      THEN AbsChanges[s][k]
                                                      ELSE AbsChanges[t][k]]
                          [] OTHER -> AbsChanges[u]]
  <2>1. AbsChanges' = [u \in Txns |-> AbsChanges'[u]]  BY ItWillLook DEF Looks
  <2>2. \A u \in Txns \ {s, t} : AbsChanges'[u] = AbsChanges[u]  BY <1>7 DEF Stores
  <2> QED  BY <1>8, <1>11, <2>1, <2>2
<1>14. AbsPhase' = [AbsPhase EXCEPT ![t] = "done"] /\ AbsPhase[t] \in {"open", "prepared"}
  <2>1. AbsPhase = [u \in Txns |-> AbsPhase[u]] /\ AbsPhase' = [u \in Txns |-> AbsPhase'[u]]
    BY ItLooks, ItWillLook DEF Looks
  <2>2. /\ \A u \in Txns \ {t} : AbsPhase'[u] = AbsPhase[u]
        /\ AbsPhase'[t] = "done" /\ AbsPhase[t] \in {"open", "prepared"}
    BY <1>1, ItLooks, ItWillLook DEF Looks
  <2> QED  BY <2>1, <2>2, IsExcept
<1>15. Snapshot!IsLive(s)  BY ItLooks DEF Looks
<1> QED  BY <1>5, <1>12, <1>13, <1>14, <1>15 DEF Snapshot!Merge

(* RepLog::commit.                                                          *)
LEMMA CommitRefines ==
  ASSUME IInv, ChainLinks, NEW t \in Txns, NEW s \in Stores, Commit(t, s)
  PROVE  /\ Snapshot!Merge(t, s)
         /\ \A k \in Keys : Settled(s, k)' = IF LastDelta(ops_log[t], 1, k) = Untouched
                                             THEN Get(s, k) ELSE LastDelta(ops_log[t], 1, k)
<1>0. TypeOK /\ BorrowRules  BY DEF IInv
<1>1. /\ status[t] = "prepared" /\ IsLive(s) /\ Writers(s) = {} /\ StartCommit(t, s)
      /\ UNCHANGED <<base, storage, local_state, ops_log>>
  BY DEF Commit, CanMutate, CanShare
<1>2. s # t /\ t \in Stores /\ ~ IsLive(t) /\ OnlyTouches(t)
  BY <1>1, BaseAssumption DEF IsLive, Stores, OnlyTouches
<1>3. Readers(t) = {} /\ Committers(t) = {} /\ Committers(s) = {}
  BY <1>0, <1>1, <1>2, ClosedHasNoReaders, CommittersAre
<1> QED  BY <1>1, <1>2, <1>3, StartRefines

(* transactional(), after an Ok: and what its callback last saw is what the *)
(* storage will show.                                                       *)
LEMMA CallbackOkRefines ==
  ASSUME IInv, ChainLinks, NEW t \in Txns, CallbackOk(t)
  PROVE  \E s \in Stores : /\ s = Lender(t) /\ Snapshot!Merge(t, s)
                           /\ \A k \in Keys : Settled(s, k)' = Get(t, k)
<1>0. TypeOK /\ BorrowRules  BY DEF IInv
<1>1. /\ status[t] = "open" /\ Readers(t) = {} /\ Writers(t) = {} /\ t \in exclusive
      /\ local_state' = [local_state EXCEPT ![t] = NoDeltas]
      /\ storage' = [storage EXCEPT ![t] = <<>>] /\ UNCHANGED <<base, ops_log>>
  BY DEF CallbackOk, Consumable
<1>2. PICK s \in Stores \ {t} : s = Lender(t) /\ IsLive(s)
  BY <1>0, <1>1, LenderType DEF BorrowRules, PathsAreChains, Readers
<1>3. Committers(t) = {} /\ Committers(s) = {}
  BY <1>0, <1>1, <1>2, CommittersAre DEF Stores
<1>4. OnlyTouches(t) /\ StartCommit(t, s)
  BY <1>0, <1>1, <1>2 DEF OnlyTouches, TypeOK, CallbackOk
<1>5. /\ Snapshot!Merge(t, s)
      /\ \A k \in Keys : Settled(s, k)' = IF LastDelta(ops_log[t], 1, k) = Untouched
                                          THEN Get(s, k) ELSE LastDelta(ops_log[t], 1, k)
  BY <1>1, <1>2, <1>3, <1>4, StartRefines
<1>6. ASSUME NEW k \in Keys  PROVE Settled(s, k)' = Get(t, k)
  <2>1. Get(t, k) = IF local_state[t][k] # Untouched THEN local_state[t][k] ELSE Get(s, k)
    BY <1>0, <1>1, <1>2, GetUnfolds DEF BorrowRules
  <2>2. local_state[t][k] = LastDelta(ops_log[t], 1, k)
    BY <1>1 DEF IInv, LocalMatchesLog
  <2> QED  BY <1>5, <2>1, <2>2
<1> QED  BY <1>2, <1>5, <1>6

(* A step that only moves the commit of t to s along: its target settles on *)
(* what it was going to.                                                    *)
LEMMA ReplayRefines ==
  ASSUME IInv, IInv', ChainLinks, NEW t \in Txns, NEW s \in Stores,
         status[t] = "committing", target[t] = s, OnlyTouches(s),
         \A u \in Stores : status'[u] = status[u] \/ u \notin Txns \/ u = t,
         status'[t] \in {"committing", "done"},
         \A u \in Txns \ {s, t} : ops_log'[u] = ops_log[u],
         \A u \in Stores \ {s} : \A k \in Keys : PendingDelta(u, k)' = PendingDelta(u, k),
         \A k \in Keys : Settled(s, k)' = Settled(s, k),
         s \in Txns => \A k \in Keys :
           (IF PendingDelta(s, k)' = Untouched THEN local_state'[s][k] ELSE PendingDelta(s, k)')
             = IF PendingDelta(s, k) = Untouched THEN local_state[s][k] ELSE PendingDelta(s, k)
  PROVE  UNCHANGED <<AbsView, AbsChanges, AbsPhase>>
<1>0. TypeOK /\ BorrowRules  BY DEF IInv
<1>1. /\ IsLive(s) /\ s # t /\ Readers(s) = {} /\ t \in Stores /\ ~ IsLive(t)
      /\ \A u \in Txns \ {t} : status'[u] = status[u]
  BY <1>0, BaseAssumption DEF BorrowRules, SharingXorMutation, IsLive, Stores
<1>2. IsLive(s)' /\ ~ IsLive(t)'  BY <1>1, BaseAssumption DEF IsLive, Stores
<1>3. \A u \in Stores \ {s, t} : /\ AbsView'[u] = AbsView[u]
                                 /\ u \in Txns => AbsChanges'[u] = AbsChanges[u]
  <2> TAKE u \in Stores \ {s, t}
  <2> QED  BY <1>1, ElsewhereSame
<1>4. AbsView'[t] = AbsView[t] /\ AbsChanges'[t] = AbsChanges[t]
  BY <1>1, <1>2, ItLooks, ItWillLook DEF Looks
<1>5. AbsView'[s] = AbsView[s]  BY <1>1, <1>2, ItLooks, ItWillLook DEF Looks
<1>6. s \in Txns => AbsChanges'[s] = AbsChanges[s]
  <2> SUFFICES ASSUME s \in Txns  PROVE AbsChanges'[s] = AbsChanges[s]
    OBVIOUS
  <2>1. status[s] = "open" /\ status'[s] = "open"  BY <1>1, BaseAssumption DEF IsLive
  <2> QED  BY <2>1, ItLooks, ItWillLook DEF Looks
<1>7. AbsView' = AbsView
  <2>1. AbsView = [u \in Stores |-> AbsView[u]] /\ AbsView' = [u \in Stores |-> AbsView'[u]]
    BY ItLooks, ItWillLook DEF Looks
  <2> QED  BY <1>3, <1>4, <1>5, <2>1, IsExcept
<1>8. AbsChanges' = AbsChanges
  <2>1. AbsChanges = [u \in Txns |-> AbsChanges[u]] /\ AbsChanges' = [u \in Txns |-> AbsChanges'[u]]
    BY ItLooks, ItWillLook DEF Looks
  <2>2. \A u \in Txns \ {t} : AbsChanges'[u] = AbsChanges[u]  BY <1>3, <1>6 DEF Stores
  <2> QED  BY <1>4, <2>1, <2>2, IsExcept
<1>9. AbsPhase' = AbsPhase
  <2>1. AbsPhase = [u \in Txns |-> AbsPhase[u]] /\ AbsPhase' = [u \in Txns |-> AbsPhase'[u]]
    BY ItLooks, ItWillLook DEF Looks
  <2>2. \A u \in Txns : AbsPhase'[u] = AbsPhase[u]
    BY <1>1, ItLooks, ItWillLook DEF Looks
  <2> QED  BY <2>1, <2>2
<1> QED  BY <1>7, <1>8, <1>9

(* Commits to other stores are not concerned by the one of t to s.          *)
LEMMA OtherCommits ==
  ASSUME BorrowRules, NEW t \in Txns, NEW s \in Stores, status[t] = "committing", target[t] = s,
         \A u \in Txns \ {t} : /\ status'[u] = status[u] /\ target'[u] = target[u]
                               /\ next'[u] = next[u]
                               /\ u # s => ops_log'[u] = ops_log[u],
         status'[t] = "committing" => target'[t] = s
  PROVE  \A u \in Stores \ {s} : \A k \in Keys : PendingDelta(u, k)' = PendingDelta(u, k)
<1> TAKE u \in Stores \ {s}
<1>1. Committers(u)' = Committers(u) /\ t \notin Committers(u)  BY DEF Committers
<1>2. s \notin Committers(u)
  BY BaseAssumption DEF BorrowRules, SharingXorMutation, IsLive, Committers
<1>3. \A v \in Committers(u) : ops_log'[v] = ops_log[v] /\ next'[v] = next[v]
  BY <1>1, <1>2 DEF Committers
<1> QED  BY <1>1, <1>3, PendingStays

(* One turn of the loop: what it writes is no longer pending.               *)
LEMMA ApplyRefines ==
  ASSUME IInv, IInv', ChainLinks, NEW t \in Txns, Apply(t)
  PROVE  UNCHANGED <<AbsView, AbsChanges, AbsPhase>>
<1>0. TypeOK /\ BorrowRules  BY DEF IInv
<1>1. PICK s \in Stores : s = target[t]  BY <1>0 DEF TypeOK
<1>2. /\ status[t] = "committing" /\ IsLive(s) /\ Readers(s) = {} /\ s # t
      /\ UNCHANGED <<status, storage, exclusive, target>> /\ next'[t] = next[t] + 1
      /\ \A u \in Txns \ {t} : next'[u] = next[u]
  BY <1>0, <1>1, BaseAssumption DEF Apply, BorrowRules, SharingXorMutation, IsLive, TypeOK
<1>3. PICK log \in Seq(Op) : log = ops_log[t]  BY <1>0 DEF TypeOK
<1>4. PICK n \in 1 .. Len(log) : n = next[t]  BY <1>0, <1>3 DEF TypeOK, Apply
<1>5. PICK op \in Op : op = log[n] /\ Write(s, op)
  BY <1>1, <1>3, <1>4 DEF Apply
<1>6. /\ OnlyTouches(s) /\ \A u \in Txns \ {s} : ops_log'[u] = ops_log[u]
      /\ s \in Txns => \A k \in Keys :
           local_state'[s][k] = IF k = op.key THEN op.value ELSE local_state[s][k]
  BY <1>0, <1>2, <1>5, BaseAssumption DEF Write, OnlyTouches, TypeOK, Stores
<1>7. Committers(s) = {t} /\ (Committers(s) = {t})'
  BY <1>0, <1>1, <1>2, CommittersAre DEF Committers
<1>8. \A k \in Keys :
        /\ PendingDelta(s, k) = LastDelta(log, n, k)
        /\ PendingDelta(s, k)' = LastDelta(log, n + 1, k)
        /\ LastDelta(log, n, k) = IF LastDelta(log, n + 1, k) # Untouched
                                  THEN LastDelta(log, n + 1, k)
                                  ELSE IF op.key = k THEN op.value ELSE Untouched
        /\ op.value # Untouched
  <2> TAKE k \in Keys
  <2>1. PendingDelta(s, k) = LastDelta(ops_log[t], next[t], k)  BY <1>7, PendingIs
  <2>2. PendingDelta(s, k)' = LastDelta(ops_log'[t], next'[t], k)  BY <1>7, PendingIs
  <2>3. ops_log'[t] = log /\ next'[t] = n + 1  BY <1>2, <1>3, <1>4, <1>6
  <2>4. /\ LastDelta(log, n, k) = IF LastDelta(log, n + 1, k) # Untouched
                                  THEN LastDelta(log, n + 1, k)
                                  ELSE IF log[n].key = k THEN log[n].value ELSE Untouched
        /\ log[n].value # Untouched
    BY DeltaUnfolds
  <2> QED  BY <1>3, <1>4, <1>5, <2>1, <2>2, <2>3, <2>4
<1>9. \A k \in Keys : Settled(s, k)' = Settled(s, k)
  <2> TAKE k \in Keys
  <2>1. Get(s, k)' = IF k = op.key THEN op.value ELSE Get(s, k)
    BY <1>2, <1>5, WriteShows
  <2> QED  BY <1>8, <2>1 DEF Settled
<1>10. \A u \in Stores \ {s} : \A k \in Keys : PendingDelta(u, k)' = PendingDelta(u, k)
  BY <1>0, <1>1, <1>2, <1>6, OtherCommits
<1>11. s \in Txns => \A k \in Keys :
         (IF PendingDelta(s, k)' = Untouched THEN local_state'[s][k] ELSE PendingDelta(s, k)')
           = IF PendingDelta(s, k) = Untouched THEN local_state[s][k] ELSE PendingDelta(s, k)
  BY <1>6, <1>8
<1> QED  BY <1>1, <1>2, <1>6, <1>9, <1>10, <1>11, ReplayRefines

(* The end of the loop: nothing is pending any more.                        *)
LEMMA CommitReturnsRefines ==
  ASSUME IInv, IInv', ChainLinks, NEW t \in Txns, CommitReturns(t)
  PROVE  UNCHANGED <<AbsView, AbsChanges, AbsPhase>>
<1>0. TypeOK /\ BorrowRules  BY DEF IInv
<1>1. PICK s \in Stores : s = target[t]  BY <1>0 DEF TypeOK
<1>2. /\ status[t] = "committing" /\ status'[t] = "done" /\ IsLive(s) /\ s # t
      /\ UNCHANGED <<base, storage, exclusive, local_state>>
      /\ \A u \in Txns \ {t} : /\ status'[u] = status[u] /\ target'[u] = target[u]
                               /\ next'[u] = next[u] /\ ops_log'[u] = ops_log[u]
  BY <1>0, <1>1, BaseAssumption
     DEF CommitReturns, Closed, BorrowRules, SharingXorMutation, IsLive, TypeOK
<1>3. OnlyTouches(s)  BY <1>2 DEF OnlyTouches
<1>4. Committers(s) = {t} /\ (Committers(s) = {})'
  <2>1. Committers(s) = {t}  BY <1>0, <1>1, <1>2, CommittersAre
  <2> QED  BY <1>2, <2>1 DEF Committers
<1>5. \A k \in Keys : PendingDelta(s, k) = Untouched /\ PendingDelta(s, k)' = Untouched
  <2> TAKE k \in Keys
  <2>1. PendingDelta(s, k) = LastDelta(ops_log[t], next[t], k)  BY <1>4, PendingIs
  <2>2. LastDelta(ops_log[t], next[t], k) = Untouched
    BY <1>0, DeltaPastEnd DEF CommitReturns, TypeOK
  <2> QED  BY <1>4, <2>1, <2>2, NothingPending
<1>6. \A k \in Keys : Settled(s, k)' = Settled(s, k)
  <2> TAKE k \in Keys
  <2>1. Path(s)' = Path(s)  BY <1>2 DEF Path
  <2>2. Get(s, k)' = Get(s, k)  BY <1>2, <2>1, GetDependsOn
  <2> QED  BY <1>5, <2>2 DEF Settled
<1>7. \A u \in Stores \ {s} : \A k \in Keys : PendingDelta(u, k)' = PendingDelta(u, k)
  BY <1>0, <1>1, <1>2, OtherCommits
<1> QED  BY <1>1, <1>2, <1>3, <1>5, <1>6, <1>7, ReplayRefines

-----------------------------------------------------------------------------
(* The theorems.                                                           *)

(* A base storage that nobody has opened yet looks like itself.             *)
LEMMA InitRefines == Init => Snapshot!Init
<1> SUFFICES ASSUME Init  PROVE Snapshot!Init
  OBVIOUS
<1>1. \A s \in Stores : Committers(s) = {}  BY DEF Init, Committers
<1>2. /\ \A t \in Txns : ~ IsLive(t)
      /\ IsLive(BASE) /\ BASE \in Stores
  BY BaseAssumption DEF Init, IsLive, Stores
<1>3. AbsView[BASE] \in Snapshot!Contents
  <2>1. \A k \in Keys : Settled(BASE, k) = base[k]
    BY <1>1, <1>2, NothingPending, GetOfBase DEF Settled
  <2>2. AbsView[BASE] = [k \in Keys |-> base[k]]  BY <1>2, <2>1, ItLooks DEF Looks
  <2> QED  BY <2>2 DEF Init, MaybeValue, Snapshot!Contents
<1>4. \A t \in Txns : AbsView[t] = Snapshot!NoContents
  BY <1>2, ItLooks DEF Looks, Stores
<1>5. AbsView = [s \in Stores |-> AbsView[s]]  BY ItLooks DEF Looks
<1>6. Snapshot!NoContents \in Snapshot!Contents
  BY DEF Snapshot!NoContents, Snapshot!Contents
<1>7. AbsView \in [Stores -> Snapshot!Contents]  BY <1>3, <1>4, <1>5, <1>6 DEF Stores
<1>8. AbsChanges = [t \in Txns |-> Snapshot!NoChanges]
  BY ItLooks DEF Looks, Init
<1>9. AbsPhase = [t \in Txns |-> "none"]
  BY ItLooks DEF Looks, Init
<1> QED  BY <1>4, <1>7, <1>8, <1>9 DEF Snapshot!Init, Snapshot!Stores, Stores

(* Each step is a step of SnapshotStore or leaves it as it is.              *)
LEMMA StepRefines ==
  ASSUME IInv, IInv', ChainLinks, [Next]_vars
  PROVE  [Snapshot!Next]_<<AbsView, AbsChanges, AbsPhase>>
<1>1. ASSUME NEW t \in Txns, NEW s \in Stores, New(t, s) \/ Transactional(t, s)
      PROVE  Snapshot!Begin(t, s)
  BY <1>1, OpenRefines DEF New, Transactional, CanMutate
<1>2. ASSUME NEW s \in Stores, NEW k \in Keys, NEW v \in MaybeValue,
             CallerWrites(s, [key |-> k, value |-> v])
      PROVE  Snapshot!Write(s, k, v)
  <2>1. [key |-> k, value |-> v] \in Op  BY DEF Op
  <2>2. Snapshot!Write(s, [key |-> k, value |-> v].key, [key |-> k, value |-> v].value)
    BY <1>2, <2>1, WriteRefines
  <2> QED  BY <2>2
<1>3. ASSUME UNCHANGED vars  PROVE UNCHANGED <<AbsView, AbsChanges, AbsPhase>>
  <2>1. /\ UNCHANGED <<base, status, storage, local_state, ops_log, target, next>>
        /\ \A s \in Stores : Committers(s)' = Committers(s) /\ Path(s)' = Path(s)
    BY <1>3 DEF vars, Committers, Path
  <2>2. \A s \in Stores, k \in Keys : /\ PendingDelta(s, k)' = PendingDelta(s, k)
                                      /\ Get(s, k)' = Get(s, k)
    BY <2>1, PendingStays, GetDependsOn
  <2>3. \A s \in Stores, k \in Keys : Settled(s, k)' = Settled(s, k)
    BY <2>2 DEF Settled
  <2>4. AbsView' = AbsView  BY <2>1, <2>3 DEF AbsView, IsLive
  <2>5. \A t \in Txns, k \in Keys : PendingDelta(t, k)' = PendingDelta(t, k)
    BY <2>2 DEF Stores
  <2>6. AbsChanges' = AbsChanges  BY <2>1, <2>5 DEF AbsChanges
  <2>7. AbsPhase' = AbsPhase  BY <2>1 DEF AbsPhase
  <2> QED  BY <2>4, <2>6, <2>7
<1>4. Snapshot!Stores = Stores  BY DEF Snapshot!Stores, Stores
<1>5. CASE Next
  <2>1. CASE \E t \in Txns, s \in Stores : New(t, s) \/ Transactional(t, s)
    BY <1>1, <1>4, <2>1 DEF Snapshot!Next
  <2>2. CASE \/ \E s \in Stores, k \in Keys, v \in Values : Set(s, k, v)
             \/ \E s \in Stores, k \in Keys : Remove(s, k)
    BY <1>2, <1>4, <2>2 DEF Set, Remove, MaybeValue, Snapshot!Next
  <2>3. CASE \E t \in Txns : Prepare(t)
    BY <2>3, PrepareRefines DEF Snapshot!Next
  <2>4. CASE \E t \in Txns, s \in Stores : Commit(t, s)
    BY <1>4, <2>4, CommitRefines DEF Snapshot!Next
  <2>5. CASE \E t \in Txns : CallbackOk(t)
    BY <1>4, <2>5, CallbackOkRefines DEF Snapshot!Next
  <2>6. CASE \E t \in Txns : CallbackErr(t) \/ Rollback(t) \/ DropLog(t)
    BY <2>6, DropRefines DEF Snapshot!Next
  <2>7. CASE \E t \in Txns : Apply(t) \/ CommitReturns(t)
    BY <2>7, ApplyRefines, CommitReturnsRefines
  <2> QED  BY <1>5, <2>1, <2>2, <2>3, <2>4, <2>5, <2>6, <2>7 DEF Next
<1> QED  BY <1>3, <1>5

(* The overlays, logs and borrows of transactions.rs implement private      *)
(* copies that are merged in one step or not at all.                        *)
THEOREM OverlaysImplementSnapshots == Spec => ImplementsSnapshots
<1>1. IInv /\ IInv' /\ ChainLinks /\ [Next]_vars =>
        [Snapshot!Next]_<<AbsView, AbsChanges, AbsPhase>>
  BY StepRefines
<1> QED
  BY <1>1, InitRefines, ChainsLinked, PTL
     DEF Spec, ImplementsSnapshots, Snapshot!Spec, Snapshot!snapshotVars

-----------------------------------------------------------------------------
(* What a commit promises.                                                 *)

(* What a commit is going to leave in its target is what was promised, at   *)
(* every step of the replay; and a prepared log promises its own deltas.    *)
OnItsWay ==
  \A t \in Txns, k \in Keys :
    /\ status[t] = "prepared" => promised[t][k] = LastDelta(ops_log[t], 1, k)
    /\ status[t] = "committing" => Settled(target[t], k) = promised[t][k]

(* No other transaction that opens, writes or is consumed concerns the      *)
(* target of a commit, which the commit has borrowed.                       *)
LEMMA TargetIsKept ==
  ASSUME IInv, IInv', ChainLinks, [Next]_vars, NEW t \in Txns,
         status[t] = "committing", status'[t] = "committing"
  PROVE  /\ target'[t] = target[t]
         /\ \A k \in Keys : Settled(target[t], k)' = Settled(target[t], k)
<1>0. TypeOK /\ BorrowRules /\ BorrowRules'  BY DEF IInv
<1>1. target'[t] = target[t]
  BY <1>0 DEF Next, vars, New, Transactional, Open, Set, Remove, CallerWrites, Prepare, Commit,
     StartCommit, CallbackOk, Consumable, CallbackErr, Rollback, DropLog, Discard, Closed, Apply,
     CommitReturns, TypeOK
<1>2. PICK s \in Stores : s = target[t]  BY <1>0 DEF TypeOK
<1>3. /\ IsLive(s) /\ s # t /\ Readers(s) = {} /\ Writers(s) = {t}
      /\ s \in Txns => status[s] = "open"
  BY <1>0, <1>2, BaseAssumption DEF BorrowRules, SharingXorMutation, IsLive
<1>4. IsLive(target[t])'  BY <1>0 DEF BorrowRules, SharingXorMutation
<1>5. IsLive(s)'  BY <1>1, <1>2, <1>4 DEF IsLive
<1>6. /\ AbsView = [u \in Stores |-> AbsView[u]]
      /\ AbsView[s] = [k \in Keys |-> Settled(s, k)]
      /\ AbsView'[s] = [k \in Keys |-> Settled(s, k)']
  BY <1>3, <1>5, ItLooks, ItWillLook DEF Looks
<1>7. AbsView'[s] = AbsView[s]
  <2>1. ASSUME NEW u \in Txns, NEW r \in Stores, New(u, r) \/ Transactional(u, r)
        PROVE  AbsView'[s] = AbsView[s]
    <3>1. Snapshot!Begin(u, r)  BY <2>1, OpenRefines DEF New, Transactional, CanMutate
    <3>2. status[u] = "none"  BY <2>1 DEF New, Transactional, Open
    <3>3. u # s  BY <1>3, <3>2
    <3> QED  BY <1>6, <3>1, <3>3 DEF Snapshot!Begin
  <2>2. ASSUME NEW r \in Stores, NEW op \in Op, CallerWrites(r, op)
        PROVE  AbsView'[s] = AbsView[s]
    <3>1. Snapshot!Write(r, op.key, op.value)  BY <2>2, WriteRefines
    <3>2. r # s  BY <1>3, <2>2 DEF CallerWrites, CanMutate, CanShare
    <3> QED  BY <1>6, <3>1, <3>2 DEF Snapshot!Write
  <2>3. ASSUME NEW u \in Txns, Prepare(u)  PROVE AbsView'[s] = AbsView[s]
    <3>1. Snapshot!Prepare(u)  BY <2>3, PrepareRefines
    <3>2. u # s  BY <1>3, <2>3 DEF Prepare, Consumable
    <3> QED  BY <1>6, <3>1, <3>2 DEF Snapshot!Prepare
  <2>4. ASSUME NEW u \in Txns, Rollback(u) \/ CallbackErr(u) \/ DropLog(u)
        PROVE  AbsView'[s] = AbsView[s]
    <3>1. Snapshot!Drop(u)  BY <2>4, DropRefines
    <3>2. u # s  BY <1>3, <2>4 DEF Rollback, CallbackErr, DropLog, Consumable
    <3> QED  BY <1>6, <3>1, <3>2 DEF Snapshot!Drop
  <2>5. ASSUME NEW u \in Txns, NEW r \in Stores, Commit(u, r)  PROVE AbsView'[s] = AbsView[s]
    <3>1. Snapshot!Merge(u, r)  BY <2>5, CommitRefines
    <3>2. u # s /\ r # s  BY <1>3, <2>5 DEF Commit, CanMutate, CanShare
    <3> QED  BY <1>6, <3>1, <3>2 DEF Snapshot!Merge
  <2>6. ASSUME NEW u \in Txns, CallbackOk(u)  PROVE AbsView'[s] = AbsView[s]
    <3>1. PICK r \in Stores : r = Lender(u) /\ Snapshot!Merge(u, r)
      BY <2>6, CallbackOkRefines
    <3>2. u # s /\ u \in Readers(r)
      BY <1>3, <2>6, <3>1 DEF CallbackOk, Consumable, Readers
    <3>3. r # s  BY <1>3, <3>2
    <3> QED  BY <1>6, <3>1, <3>2, <3>3 DEF Snapshot!Merge
  <2>7. ASSUME NEW u \in Txns, Apply(u) \/ CommitReturns(u)  PROVE AbsView'[s] = AbsView[s]
    BY <2>7, ApplyRefines, CommitReturnsRefines
  <2>8. CASE UNCHANGED vars
    <3>1. /\ UNCHANGED <<base, status, local_state, storage, ops_log, target, next>>
          /\ \A k \in Keys : PendingDelta(s, k)' = PendingDelta(s, k)
          /\ Path(s)' = Path(s)
      BY <2>8 DEF vars, PendingDelta, Path
    <3>2. \A k \in Keys : Get(s, k)' = Get(s, k)  BY <3>1, GetDependsOn
    <3> QED  BY <1>6, <3>1, <3>2 DEF Settled
  <2>9. \A k \in Keys, v \in MaybeValue : [key |-> k, value |-> v] \in Op  BY DEF Op
  <2> QED
    BY <2>1, <2>2, <2>3, <2>4, <2>5, <2>6, <2>7, <2>8, <2>9
       DEF Next, Set, Remove, MaybeValue
<1>8. \A k \in Keys : Settled(s, k)' = Settled(s, k)  BY <1>6, <1>7
<1> QED  BY <1>1, <1>2, <1>8

(* How a transaction gets prepared, and how its commit starts.              *)
Starts(t) ==
  /\ status'[t] = "prepared" => \/ Prepare(t)
                                \/ status[t] = "prepared" /\ ops_log'[t] = ops_log[t]
  /\ status'[t] = "committing" => \/ status[t] = "committing"
                                  \/ CallbackOk(t)
                                  \/ \E s \in Stores : Commit(t, s)

LEMMA ItStarts ==
  ASSUME TypeOK, BorrowRules, [Next]_vars, NEW t \in Txns
  PROVE  Starts(t)
<1>1. ASSUME NEW r \in Stores, IsLive(r), NEW op, Write(r, op)
      PROVE  status[t] = "prepared" => ops_log'[t] = ops_log[t]
  BY <1>1 DEF Write, IsLive, TypeOK
<1>2. ASSUME UNCHANGED vars  PROVE Starts(t)
  BY <1>2 DEF vars, Starts
<1>3. ASSUME NEW u \in Txns, NEW s \in Stores, New(u, s) \/ Transactional(u, s)
      PROVE  Starts(t)
  BY <1>3 DEF New, Transactional, Open, TypeOK, Starts
<1>4. ASSUME NEW s \in Stores, NEW op, CallerWrites(s, op)  PROVE Starts(t)
  BY <1>1, <1>4 DEF CallerWrites, CanMutate, CanShare, Starts
<1>5. ASSUME NEW u \in Txns, Prepare(u)  PROVE Starts(t)
  BY <1>5 DEF Prepare, TypeOK, Starts
<1>6. ASSUME NEW u \in Txns, CallbackErr(u) \/ Rollback(u) \/ DropLog(u) \/ CommitReturns(u)
      PROVE  Starts(t)
  BY <1>6 DEF CallbackErr, Rollback, DropLog, Discard, CommitReturns, Closed, TypeOK, Starts
<1>7. ASSUME NEW u \in Txns, CallbackOk(u) \/ \E s \in Stores : Commit(u, s)
      PROVE  Starts(t)
  <2>1. /\ status' = [status EXCEPT ![u] = "committing"] /\ UNCHANGED ops_log
    BY <1>7 DEF CallbackOk, Commit, StartCommit
  <2>2. t # u => status'[t] = status[t] /\ ops_log'[t] = ops_log[t]
    BY <2>1 DEF TypeOK
  <2>3. t = u => status'[t] = "committing"  BY <2>1 DEF TypeOK
  <2> QED  BY <1>7, <2>2, <2>3 DEF Starts
<1>8. ASSUME NEW u \in Txns, Apply(u)  PROVE Starts(t)
  <2>1. target[u] \in Stores /\ IsLive(target[u])
    BY <1>8 DEF Apply, BorrowRules, SharingXorMutation, TypeOK
  <2> QED  BY <1>1, <1>8, <2>1 DEF Apply, Starts
<1> QED
  BY <1>2, <1>3, <1>4, <1>5, <1>6, <1>7, <1>8 DEF Next, Set, Remove

(* So what is promised is kept at every step.                               *)
LEMMA StaysOnItsWay ==
  ASSUME IInv, IInv', ChainLinks, OnItsWay, [HistoryNext]_historyVars
  PROVE  OnItsWay'
<1>1. [Next]_vars  BY DEF HistoryNext, historyVars
<1>2. CASE UNCHANGED historyVars
  <2>1. /\ UNCHANGED <<status, ops_log, target, promised, vars>>
    BY <1>2 DEF historyVars, vars
  <2>2. ASSUME NEW t \in Txns, NEW k \in Keys, status[t] = "committing"
        PROVE  Settled(target[t], k)' = Settled(target[t], k)
    <3>1. status'[t] = "committing"  BY <2>1, <2>2
    <3>2. /\ target'[t] = target[t]
          /\ \A j \in Keys : Settled(target[t], j)' = Settled(target[t], j)
      BY <1>1, <2>2, <3>1, TargetIsKept
    <3> QED  BY <3>2
  <2>3. ASSUME NEW t \in Txns, NEW k \in Keys, status[t] = "prepared"
        PROVE  LastDelta(ops_log[t], 1, k)' = LastDelta(ops_log[t], 1, k)
    BY <2>1
  <2> QED  BY <2>1, <2>2, <2>3 DEF OnItsWay
<1>3. CASE HistoryNext
  <2>0. TypeOK /\ BorrowRules  BY DEF IInv
  <2>1. \A t \in Txns : promised'[t] = Promise(t) /\ Starts(t)
    BY <1>1, <1>3, <2>0, ItStarts DEF HistoryNext
  <2>2. ASSUME NEW t \in Txns, NEW k \in Keys, status'[t] = "prepared"
        PROVE  promised'[t][k] = LastDelta(ops_log'[t], 1, k)
    <3>1. CASE Prepare(t)
      <4>1. status[t] = "open" /\ ops_log' = ops_log  BY <3>1 DEF Prepare, Consumable
      <4>2. promised'[t] = local_state[t]  BY <2>1, <2>2, <4>1 DEF Promise
      <4>3. local_state[t][k] = LastDelta(ops_log[t], 1, k)
        BY <4>1 DEF IInv, LocalMatchesLog
      <4> QED  BY <4>1, <4>2, <4>3
    <3>2. CASE status[t] = "prepared" /\ ops_log'[t] = ops_log[t]
      <4>1. promised'[t] = promised[t]  BY <2>1, <2>2, <3>2 DEF Promise
      <4> QED  BY <3>2, <4>1 DEF OnItsWay
    <3> QED  BY <2>1, <2>2, <3>1, <3>2 DEF Starts
  <2>3. ASSUME NEW t \in Txns, NEW k \in Keys, status'[t] = "committing"
        PROVE  Settled(target[t], k)' = promised'[t][k]
    <3>1. CASE status[t] = "committing"
      <4>1. promised'[t] = promised[t]  BY <2>1, <2>3, <3>1 DEF Promise
      <4>2. target'[t] = target[t] /\ Settled(target[t], k)' = Settled(target[t], k)
        BY <1>1, <2>3, <3>1, TargetIsKept
      <4> QED  BY <3>1, <4>1, <4>2 DEF OnItsWay
    <3>2. CASE CallbackOk(t)
      <4>1. PICK s \in Stores : /\ s = Lender(t)
                                /\ \A j \in Keys : Settled(s, j)' = Get(t, j)
        BY <3>2, CallbackOkRefines
      <4>2. status[t] = "open"  BY <3>2 DEF CallbackOk, Consumable
      <4>3. promised'[t] = [j \in Keys |-> Get(t, j)]
        BY <2>1, <2>3, <4>2 DEF Promise
      <4>4. target'[t] = s  BY <2>0, <3>2, <4>1 DEF CallbackOk, StartCommit, TypeOK
      <4>5. Settled(target[t], k)' = Settled(s, k)'  BY <4>4
      <4> QED  BY <4>1, <4>3, <4>5
    <3>3. CASE \E s \in Stores : Commit(t, s)
      <4>1. PICK s \in Stores : Commit(t, s)  BY <3>3
      <4>2. Settled(s, k)' = IF LastDelta(ops_log[t], 1, k) = Untouched
                             THEN Get(s, k) ELSE LastDelta(ops_log[t], 1, k)
        BY <4>1, CommitRefines
      <4>3. status[t] = "prepared" /\ target'[t] = s
        BY <2>0, <4>1 DEF Commit, StartCommit, TypeOK
      <4>4. promised'[t] = [j \in Keys |-> IF promised[t][j] = Untouched
                                           THEN Get(target'[t], j) ELSE promised[t][j]]
        BY <2>1, <2>3, <4>3 DEF Promise
      <4>5. promised[t][k] = LastDelta(ops_log[t], 1, k)  BY <4>3 DEF OnItsWay
      <4>6. Settled(target[t], k)' = Settled(s, k)' /\ Get(target'[t], k) = Get(s, k)
        BY <4>3
      <4> QED  BY <4>2, <4>4, <4>5, <4>6
    <3> QED  BY <2>1, <2>3, <3>1, <3>2, <3>3 DEF Starts
  <2> QED  BY <2>2, <2>3 DEF OnItsWay
<1> QED  BY <1>2, <1>3

(* At the end of its replay, however other transactions went on meanwhile,  *)
(* a commit has left in its target what was promised when the transaction   *)
(* was consumed: what the callback of transactional() saw, under every key. *)
THEOREM CallbacksAreKept == HistorySpec => []CommitsWhatItShowed
<1>1. HistorySpec => Spec
  <2>1. HistoryInit => Init  BY DEF HistoryInit
  <2>2. [HistoryNext]_historyVars => [Next]_vars  BY DEF HistoryNext, historyVars
  <2> QED  BY <2>1, <2>2, PTL DEF HistorySpec, Spec
<1>2. HistoryInit => OnItsWay  BY DEF HistoryInit, Init, OnItsWay
<1>3. HistorySpec => []OnItsWay
  BY <1>1, <1>2, StaysOnItsWay, ChainsLinked, PTL DEF HistorySpec
<1>4. IInv /\ OnItsWay => CommitsWhatItShowed
  <2> SUFFICES ASSUME IInv, OnItsWay, NEW t \in Txns, status[t] = "committing",
                      next[t] > Len(ops_log[t]), NEW k \in Keys
               PROVE  Get(target[t], k) = promised[t][k]
    BY DEF CommitsWhatItShowed
  <2>1. Committers(target[t]) = {t}
    BY CommittersAre DEF IInv, TypeOK
  <2>2. PendingDelta(target[t], k) = LastDelta(ops_log[t], next[t], k)
    BY <2>1, PendingIs
  <2>3. PendingDelta(target[t], k) = Untouched
    BY <2>2, DeltaPastEnd DEF IInv, TypeOK
  <2>4. Settled(target[t], k) = promised[t][k]  BY DEF OnItsWay
  <2> QED  BY <2>3, <2>4 DEF Settled
<1> QED  BY <1>1, <1>3, <1>4, Invariant, PTL
=============================================================================
