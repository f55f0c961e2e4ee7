----------------------------- MODULE TypedStores -----------------------------
(***************************************************************************)
(* One storage shared by the views a contract opens on it, each for the    *)
(* time of a call: Bucket, Singleton, Sequence, PrefixedStorage and        *)
(* TypedStorage (packages/cosmwasm/storage/src), and what scripts of the   *)
(* engine set (storage_set in packages/core/src/engine.rs).  A view is a   *)
(* record: its kind, the namespaces it was built from (one, or several     *)
(* with multilevel(); for a script, the key path) and the type it stores.  *)
(* A stored value is the type that was serialized and its content; reading *)
(* it as another type is a parse error.                                    *)
(***************************************************************************)
EXTENDS KeyEncoding, FiniteSets

CONSTANTS Views,       \* records [kind, namespaces, type]
          Keys,        \* the keys callers use within a bucket
          RawValues,   \* what is written where no type is prescribed
          Dot,         \* the byte between the parts of a key path
          NotString,   \* a part of a key path that is no string
          MaxCounter,  \* u64::MAX
          MaxEntries,  \* bound on the entries of the storage
          NoBound      \* Option::None as a bound of range()

Kinds == {"bucket", "prefixed", "script", "sequence", "singleton", "typed"}

ASSUME DotAssumption        == Dot \in Bytes \ {0}
ASSUME MaxCounterAssumption == MaxCounter \in Nat \ {0}
ASSUME KeysAssumption       == Keys \subseteq Seq(Bytes) /\ NoBound \notin Keys
ASSUME RawValuesAssumption  ==
  \A value \in RawValues : value.type = "u64" => value.content \in 0 .. MaxCounter
ASSUME ViewsAssumption ==
  \A v \in Views :
    /\ v \in [kind : Kinds, namespaces : Seq({NotString} \cup Seq(Bytes)), type : STRING]
    /\ v.kind = "typed" => v.namespaces = <<>>
    /\ v.kind = "sequence" => v.type = "u64"
    /\ v.kind = "script" => v.type = "bytes"
    /\ v.kind # "script" =>
         \A i \in DOMAIN v.namespaces :
           v.namespaces[i] # NotString /\ CanEncode(v.namespaces[i])

VARIABLES data,     \* the storage: raw keys to stored values
          reply,    \* how the last call ended
          issued    \* for each sequence: the numbers it gave out since it last
                    \* began anew, or was removed or overwritten

vars == <<data, reply, issued>>

Buckets   == {v \in Views : v.kind = "bucket"}
Counters  == {v \in Views : v.kind = "sequence"}
Singles   == {v \in Views : v.kind \in {"singleton", "sequence"}}
Typed     == {v \in Views : v.kind = "typed"}
Prefixed  == {v \in Views : v.kind = "prefixed"}
Scripts   == {v \in Views : v.kind = "script"}

(* expand_key_path: nothing comes before the first part that is not empty. *)
CanExpand(path) == path # <<>> /\ \A i \in DOMAIN path : path[i] # NotString

ExpandKeyPath(path) ==
  LET buf[i \in 0 .. Len(path)] ==
        IF i = 0 THEN <<>>
        ELSE (IF buf[i - 1] = <<>> THEN <<>> ELSE Append(buf[i - 1], Dot)) \o path[i]
  IN  buf[Len(path)]

(* Nothing but their bytes keeps keys of scripts apart, from each other and *)
(* from raw keys of views.  A part that is empty or has a dot lets one path *)
(* read like another; a key without zeros cannot begin with a length of     *)
(* which one byte is zero, as lengths up to 255 do.                         *)
Plain(path)   == \A i \in DOMAIN path : /\ path[i] # <<>>
                                        /\ \A j \in DOMAIN path[i] : path[i][j] # Dot
HasZero(path) == \E i \in DOMAIN path : \E j \in DOMAIN path[i] : path[i][j] = 0

LengthHasZero(namespaces) ==
  namespaces # <<>> /\ \E i \in 1 .. 2 : EncodeLength(namespaces[1])[i] = 0

(* What has a remove(), an update(), a range().                            *)
Removable == Buckets \cup Singles \cup Prefixed
Updatable == Buckets \cup Singles \cup Typed
Ranged    == Buckets \cup Prefixed \cup Typed

Contents(type) == IF type = "u64" THEN 0 .. MaxCounter ELSE {0, 1}
Values(type)   == IF type = "bytes" THEN RawValues ELSE [type : {type}, content : Contents(type)]
KeysOf(v)      == IF v \in Singles \cup Scripts THEN {<<>>} ELSE Keys

(* The constructors: new and multilevel.                                   *)
Prefixes ==
  [v \in Views |-> IF v \in Scripts
                   THEN IF CanExpand(v.namespaces) THEN ExpandKeyPath(v.namespaces) ELSE NotString
                   ELSE ToLengthPrefixedNested(v.namespaces)]
Prefix(v)  == Prefixes[v]
Raw(v, k)  == Concat(Prefix(v), k)

-----------------------------------------------------------------------------
(* Reads.                                                                  *)

Has(v, k) == Raw(v, k) \in DOMAIN data

(* What reads bytes takes any value.                                       *)
Parse(type, value) ==
  IF type = "bytes" THEN [result |-> "ok", value |-> value]
  ELSE IF value.type # type THEN [result |-> "parse_err"]
  ELSE [result |-> "ok", value |-> value]

(* may_load: the value, absent, or a parse error.                          *)
MayLoad(v, k) ==
  IF Has(v, k) THEN Parse(v.type, data[Raw(v, k)]) ELSE [result |-> "absent"]

(* range: the raw keys between raw bounds.  range_with_prefix makes these  *)
(* from the prefix, TypedStorage hands on the caller's.                    *)
Below(v, raw, end) ==
  IF end # NoBound THEN LexLess(raw, Raw(v, end))
  ELSE v \in Typed \/ LexLess(raw, NamespaceUpperBound(Prefix(v)))

Found(v, start, end) ==
  LET from == IF start = NoBound THEN Prefix(v) ELSE Raw(v, start)
  IN  {raw \in DOMAIN data : ~ LexLess(raw, from) /\ Below(v, raw, end)}

(* The prefix is cut off, which panics if there is less than that, and the *)
(* values are parsed one by one (deserialize_kv).                          *)
RangePanics(v, start, end) == \E raw \in Found(v, start, end) : Len(raw) < Len(Prefix(v))

Listing(v, start, end) ==
  {<<Trim(Prefix(v), raw), Parse(v.type, data[raw])>> : raw \in Found(v, start, end)}

-----------------------------------------------------------------------------
(* Calls.                                                                  *)

Put(raw, value) ==
  data' = [r \in DOMAIN data \cup {raw} |-> IF r = raw THEN value ELSE data[r]]

HasRoom(v, k) == Has(v, k) \/ Cardinality(DOMAIN data) < MaxEntries

(* Views that may meet in a raw key.  The namespaces of one are the first   *)
(* of the other's, so that it has the other in its space; a TypedStorage    *)
(* has all; and paths of scripts are kept apart by no more than their bytes *)
(* do.                                                                      *)
Related(v, w) ==
  \/ v = w
  \/ {v, w} \cap Typed # {}
  \/ /\ {v, w} \cap Scripts = {}
     /\ \/ Seqs!IsPrefix(v.namespaces, w.namespaces)
        \/ Seqs!IsPrefix(w.namespaces, v.namespaces)
  \/ /\ {v, w} \subseteq Scripts
     /\ ~ (Plain(v.namespaces) /\ Plain(w.namespaces))
  \/ \E s \in {v, w} \cap Scripts, x \in {v, w} \ Scripts :
       HasZero(s.namespaces) \/ ~ LengthHasZero(x.namespaces)

(* What is written to a sequence, other than by nextval, by who may.       *)
Forget(v, k) ==
  issued' = [w \in Counters |-> IF Related(v, w) /\ Raw(v, k) = Raw(w, <<>>) THEN {} ELSE issued[w]]

(* Bucket::save, Singleton::save, TypedStorage::save, PrefixedStorage::set, *)
(* and storage_set in a script, of which the one that takes a key is that  *)
(* with a path of one part.                                                *)
Save(v, k, value) ==
  /\ v \in Scripts => CanExpand(v.namespaces)
  /\ HasRoom(v, k)
  /\ Put(Raw(v, k), value)
  /\ reply' = "ok"
  /\ Forget(v, k)

(* storage_set with a path that is empty or has parts that are no strings. *)
ScriptFails(v) ==
  /\ ~ CanExpand(v.namespaces)
  /\ reply' = "path_err"
  /\ UNCHANGED <<data, issued>>

(* remove                                                                  *)
Remove(v, k) ==
  /\ data' = [r \in DOMAIN data \ {Raw(v, k)} |-> data[r]]
  /\ reply' = "ok"
  /\ Forget(v, k)

(* update: an error of the load, or of the action, is returned as it is;   *)
(* all but Singleton hand the action an Option.                            *)
UpdateLoadFails(v, k) ==
  /\ \/ MayLoad(v, k).result = "parse_err"
     \/ MayLoad(v, k).result = "absent" /\ v \in Singles
  /\ reply' = MayLoad(v, k).result
  /\ UNCHANGED <<data, issued>>

UpdateLoads(v, k) ==
  \/ MayLoad(v, k).result = "ok"
  \/ MayLoad(v, k).result = "absent" /\ v \notin Singles

UpdateFails(v, k) ==
  /\ UpdateLoads(v, k)
  /\ reply' = "action_err"
  /\ UNCHANGED <<data, issued>>

Update(v, k, value) ==
  /\ UpdateLoads(v, k) /\ HasRoom(v, k)
  /\ Put(Raw(v, k), value)
  /\ reply' = "ok"
  /\ Forget(v, k)

(* currval: 0 if there is nothing.                                         *)
Currval(v) == IF Has(v, <<>>) THEN data[Raw(v, <<>>)].content ELSE 0

(* Faulty: the number is returned and not saved.                           *)
NextvalUnsaved(v) ==
  /\ MayLoad(v, <<>>).result # "parse_err" /\ HasRoom(v, <<>>)
  /\ reply' = "ok"
  /\ issued' = [issued EXCEPT ![v] = IF Currval(v) = MaxCounter THEN {0} ELSE @ \cup {Currval(v) + 1}]
  /\ UNCHANGED data

(* nextval.  At u64::MAX a build without overflow checks, as the default    *)
(* release build is one, goes on with 0 ...                                 *)
Nextval(v) ==
  /\ MayLoad(v, <<>>).result # "parse_err" /\ HasRoom(v, <<>>)
  /\ Put(Raw(v, <<>>), [type |-> "u64", content |-> (Currval(v) + 1) % (MaxCounter + 1)])
  /\ reply' = "ok"
  /\ issued' = [issued EXCEPT ![v] = IF Currval(v) = MaxCounter THEN {0} ELSE @ \cup {Currval(v) + 1}]

(* ... and one with them panics, which undoes the call.                     *)
NextvalPanics(v) ==
  /\ MayLoad(v, <<>>).result # "parse_err" /\ Currval(v) = MaxCounter
  /\ reply' = "panic"
  /\ UNCHANGED <<data, issued>>

(* The error of currval is returned.                                        *)
NextvalFails(v) ==
  /\ MayLoad(v, <<>>).result = "parse_err"
  /\ reply' = "parse_err"
  /\ UNCHANGED <<data, issued>>

-----------------------------------------------------------------------------
Init ==
  /\ data = [r \in {} |-> 0]
  /\ reply = "none"
  /\ issued = [v \in Counters |-> {}]

Next ==
  \/ \E v \in Views : \E k \in KeysOf(v), value \in Values(v.type) : Save(v, k, value)
  \/ \E v \in Scripts : ScriptFails(v)
  \/ \E v \in Removable : \E k \in KeysOf(v) : Remove(v, k)
  \/ \E v \in Updatable : \E k \in KeysOf(v) : UpdateLoadFails(v, k)
  \/ \E v \in Updatable : \E k \in KeysOf(v) : UpdateFails(v, k)
  \/ \E v \in Updatable : \E k \in KeysOf(v), value \in Values(v.type) : Update(v, k, value)
  \/ \E v \in Counters : Nextval(v)
  \/ \E v \in Counters : NextvalPanics(v)
  \/ \E v \in Counters : NextvalFails(v)

Spec == Init /\ [][Next]_vars

-----------------------------------------------------------------------------
(* Properties.                                                             *)

(* Raw keys are byte strings, stored values are of the types of the views. *)
TypeOK ==
  /\ DOMAIN data \subseteq Seq(Bytes)
  /\ \A r \in DOMAIN data : \E v \in Views : data[r] \in Values(v.type)
  /\ reply \in {"none", "ok", "absent", "parse_err", "action_err", "path_err", "panic"}
  /\ issued \in [Counters -> SUBSET (0 .. MaxCounter)]

Readable == {v \in Views : v \in Scripts => CanExpand(v.namespaces)}

(* No call on a view changes what an unrelated view answers: whatever the  *)
(* names, the keys and the key paths, views that change in the same step   *)
(* are of those that may meet in a raw key.                                *)
Isolation ==
  [][LET changed == {v \in Readable : \E k \in KeysOf(v) : MayLoad(v, k)' # MayLoad(v, k)}
     IN  \A v, w \in changed : Related(v, w)]_vars

(* The storage remembers the last number of a sequence, so that the next   *)
(* one is new: nextval repeats a number only after it has begun anew at    *)
(* u64::MAX, or after a view that has the sequence in its space, or a      *)
(* script's path that may read like its key, has removed or overwritten    *)
(* it.  What other views do is no reason.                                  *)
CounterRemembers ==
  \A v \in Counters : issued[v] # {} =>
    /\ Has(v, <<>>) /\ data[Raw(v, <<>>)].type = "u64"
    /\ \A n \in issued[v] : n <= data[Raw(v, <<>>)].content

(* A range over a view finds the keys that are in its space and between    *)
(* the bounds, and no others, each with what a load of it returns.         *)
Space(v) == {Trim(Prefix(v), raw) : raw \in {raw \in DOMAIN data : Seqs!IsPrefix(Prefix(v), raw)}}

RangeIsExact(v, start, end) ==
  /\ ~ RangePanics(v, start, end)
  /\ Listing(v, start, end) =
       {<<k, MayLoad(v, k)>> : k \in {k \in Space(v) : /\ start # NoBound => ~ LexLess(k, start)
                                                       /\ end # NoBound => LexLess(k, end)}}

AllMax(bytes) == \A i \in DOMAIN bytes : bytes[i] = MaxByte

(* The upper bound of a prefix that ends in bytes 255 ends in zeros.  Keys *)
(* that are the bound without some of these lie below it, and beside the   *)
(* space of the prefix.                                                    *)
Strays(prefix) ==
  LET bound == NamespaceUpperBound(prefix)
  IN  {raw \in DOMAIN data : Seqs!IsPrefix(raw, bound) /\ raw # bound /\ ~ LexLess(raw, prefix)}

(* Whatever is stored beside a view, its ranges are exact if the caller    *)
(* gives the end, and else unless there are strays, or every byte of the   *)
(* prefix is 255.                                                          *)
RangesAreExact ==
  \A v \in Ranged : \A start, end \in Keys \cup {NoBound} :
    \/ end # NoBound
    \/ v \in Typed
    \/ ~ AllMax(Prefix(v)) /\ Strays(Prefix(v)) = {}
    => RangeIsExact(v, start, end)

(* The doc comment of namespace_upper_bound: "If last bytes are 255, we    *)
(* handle overflow up the chain.  If all bytes are 255, this returns wrong *)
(* data".  So a range would be exact in all other cases.                   *)
OverflowIsHandled ==
  \A v \in Ranged \ Typed : ~ AllMax(Prefix(v)) => RangeIsExact(v, NoBound, NoBound)
=============================================================================
