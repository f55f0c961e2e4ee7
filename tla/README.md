# Verification of teggle-omnibus

TLA+ models of the state-changing code of this repository, TLC runs that check
them on small instances, and proofs, checked by TLAPS, of the results that should
hold for every size. `PROJECT.json` lists components, runs, mutants, the line map,
findings, hazards and theorems in machine-readable form; this file explains them.

## 1. The system

Omnibus is a smart contract (CosmWasm 0.10 style) that carries a script engine. A
*cortex core* is a zip archive of scripts with a `config.json`; the contract loads
it, compiles the entrypoints it names, and runs their functions with access to the
contract's storage. One call of the contract is one thread; concurrency in the
usual sense there is none. What makes the code hard is elsewhere: overlays and logs
that must agree, borrowed stores nested in each other, scripts that import each
other while they run, loads that fail half way, memory whose ownership crosses
the border to the VM, numbers that are rounded or overflow, and answers of the chain
that can go wrong on several levels.

| component | source (under `src/packages`) | state it keeps | operations | module |
|---|---|---|---|---|
| storage transactions | `cosmwasm/storage/src/transactions.rs` | per transaction an overlay (`local_state`), a log (`rep_log`), the store below | `new`, `get`, `set`, `remove`, `range`, `prepare`, `commit`, `rollback`, `transactional` | `Transactions`, `Promises`, `RangeMerge`, abstractly `SnapshotStore` |
| typed storage | `cosmwasm/storage/src/{bucket,singleton,sequence,typed,prefixed_storage,length_prefixed,namespace_helpers,type_helpers}.rs` | none of its own: raw keys in a shared storage | `save`, `remove`, `load`, `may_load`, `update`, `range`, `currval`, `nextval` | `KeyEncoding`, `TypedStores` |
| cortex engine | `core/src/{engine,operations}.rs`, `core/src/cortex/config.rs` | resolver, merged AST, config, registered script functions, caches | `load_core` and its stages `init_core`, `load_config`, `register_components`, `warm_ast`; `validate`, `run_deploy`, `run_handle`; `deploy`, `handle` on top | `OmnibusEngine` |
| zip module resolver | `rhai/module-resolver/zip/src/*.rs` | the archive, the cache of evaluated modules, config and scope | `load`, `init_with_scope`, `compile_entrypoints`, `resolve`, `enable_cache`, `clear_cache`, `clear_cache_for_path` | `ModuleResolver`; loading in `OmnibusEngine` |
| wasm boundary | `cosmwasm/std/src/{memory,imports,exports}.rs` | Regions on the heap of the contract | exports `allocate`, `deallocate`, `init`, `handle`, `query`, `migrate`; imports of storage, iterator, address conversion, querier | `WasmRegions` |
| memory storage | `cosmwasm/std/src/storage.rs` | a sorted map | `get`, `set`, `remove`, `range` | the base store of `Transactions`; the lower side of `RangeMerge`; what views read in `TypedStores` |
| arithmetic | `cosmwasm/std/src/math.rs` | none | `Decimal`, `Uint128`: `from_ratio`, `percent`, `permille`, `+`, `-`, `*`, `multiply_ratio`, texts | `Arithmetic`, used by `Shares` |
| coins, queries, messages, logs | `cosmwasm/std/src/{coins,query,init_handle,types,addresses,traits}.rs` | `Context` | `add_log`, `add_message`, `set_data`, conversions to responses; `query_*`; `has_coins` | `ContractCalls`, `MockChain` |
| mock chain | `cosmwasm/std/src/mock.rs` | balances, staking, the handler of custom queries | `update_balance`, `update_staking`, `with_custom_handler`, `raw_query`, `canonical_address`, `human_address` | `MockChain`, driven by `ContractCalls` |
| encoding and errors | `cosmwasm/std/src/{encoding,serde,iterator,debug_print,entry_points,lib}.rs`, `errors/` | none | error kinds, serializers, macros | errors in `MockChain`; the rest not modelled |
| script packages | `core/src/rhai/packages` | none | a list of packages | not modelled |

How they interact. The VM calls an export (`exports.rs`), which consumes the Regions
it was passed and runs the contract; the contract's `Storage` is `ExternalStorage`,
every call of which is an import with Regions lent to the VM. Typed views are made on
a `Storage` for the time of a call, and a `StorageTransaction` is itself a `Storage`,
so that views and transactions stack in any order. `deploy`/`handle` make an
`OmnibusEngine` on `deps` and call its methods with `?`. The engine owns a resolver
(and gives a clone of it to the script engine), has it compile the entrypoints, and
evaluates the merged AST once (`warm_ast`); script functions registered by
`register_components` write to `deps.storage` in the middle of an evaluation, and
import statements call the resolver back from inside an evaluation. Between the call
of an export and its response, a contract queries the chain (`Querier`, behind which is
the VM, or in tests `MockQuerier`), converts addresses (`Api`), computes with
`Uint128` and `Decimal`, and collects what it returns in a `Context`.

What makes each component correct:

* transactions: an overlay and its log never disagree; nobody changes a store below
  an open transaction; a commit leaves exactly what its transaction showed; an error
  leaves nothing; a chain of nested transactions behaves like copies of the contents
  that are merged in one step;
* the merged iterator: exactly the pairs `get` shows, in order, once, and it ends;
* typed views: unrelated views do not disturb each other; a range finds its bucket and
  nothing else; a sequence does not repeat a number before it begins anew; what scripts
  write is outside of every bucket, as far as its bytes can tell;
* the engine: what `load_core` reports tells which parts are from its archive; leftovers
  of failed loads are never newer than what they were made from; what was validated stays
  valid; storage is not written before a config was accepted; every call returns;
* the resolver: only whole modules are cached; modules share what they import; nothing
  is evaluated again that is cached (that circles of imports end is up to the machine's
  stack, and nothing in the code sees to it);
* the wasm boundary: each Region has one holder, who gives it back once;
* arithmetic: rounding never makes shares exceed what is shared, and takes little; a
  number that is written as a text is read back as the same, and read exactly or refused;
* contract calls: two ways to ask the chain the same agree, whatever it holds; a
  response has what was put into the `Context`, in order; a price is accepted only if
  the funds cover it; different names share an account only if zero bytes at their ends
  are all that tells them apart.

The behaviours that are hard to test are listed in `PROJECT.json` under `hazards`,
each with its line and the properties that would show it going wrong, or a note why
none does yet.

## 2. Modules

Names of constants, variables and actions are those of the code where TLA+ allows it.
A definition that starts with a comment "Faulty" is a mutant: the definition after it,
changed by a plausible mistake. It is used by no specification; each shows that the
property it is listed with in `PROJECT.json` fails when the code is wrong in that way.

**`Transactions`** models `StorageTransaction`, `RepLog` and `transactional()`, for any
number of transactions on a base storage or nested. `local_state[t]` and `ops_log[t]`
are the two records a transaction keeps, `storage[t]` the path of stores it reads
through, which in Rust is in its type. Rust's borrow rules are part of what the code
relies on, so they are modelled as guards: `CanShare` is what taking `&s` needs,
`CanMutate` what `&mut s` needs, `Consumable` what moving `self` needs. They are rustc's,
external to the file, and no property of the runs is about them. Actions: `New`,
`Transactional` (opening), `Set`, `Remove`, `Prepare`, `Commit` (a `RepLog` may be
committed to any storage, not only the one it was made on), `CallbackOk`,
`CallbackErr`, `Rollback`, `DropLog`, and the loop of `RepLog::commit` as `Apply`, one
op a step, and `CommitReturns`. An `Apply` on a storage that is a transaction appends
to that one's log, as `Op::apply` does by calling `set` and `remove`.

**`Promises`** adds a history variable to it: `promised[t]` is what the storage that
`t` is committed to owes its readers when the commit is over, fixed when `t` is consumed
(and, for a log that is committed by itself, when its commit begins). It is set from what
reads showed and not from the log, so that the end of the replay can be held against it.

**`SnapshotStore`** is what all of that promises, without overlay, log or borrow: a
transaction has a private copy (`view`) of the store it was opened on, remembers its
last change to each key (`changes`), and is merged in one step or not at all.
`Transactions` implements it under this mapping: the view of an open store is what
`Get` finds, with the rest of a running commit applied (`Settled`); the changes of an
open transaction are its overlay, those of a prepared one the last op on each key of its
log; a commit happens when it starts.

**`RangeMerge`** models `StorageTransaction::range` and `MergeOverlay`. `left` and
`right` are the keys the two peekable iterators still hold, and `Peek` is the first of
them in the order asked for: both maps are sorted and borrowed, so that an iterator over
one is determined by what is left of it. An action is one round of
`next()`: `LeftIsFirst`, `BothSides`, `RightIsFirst` (the outcomes of `pick_match`),
`OnlyLeft`, `OnlyRight`, `AtEnd`. A deletion is skipped by going round again, as
`take_left` calls `next()`.

**`KeyEncoding`** has the pure functions of `length_prefixed.rs` and
`namespace_helpers.rs` over byte strings of any radix: the two-digit length, prefixes,
concatenation and trimming, the upper bound of a namespace with its carry, the order of
`Vec<u8>`. **`TypedStores`** composes it with one storage shared by several views. A
view is a record of kind, namespaces and stored type: buckets, singletons, sequences,
`PrefixedStorage` (raw bytes), `TypedStorage` (no prefix, so that it is the whole
storage), and the scripts of the engine, whose `storage_set` writes under a key path
joined with dots (`ExpandKeyPath`). The actions are `Save`, `Remove`, `Update` with its
two ways to fail, `ScriptFails`, a key path that is refused, and `nextval` with the three
ways it can go at `currval(&seq)? + 1`: `Nextval`, which wraps to 0 at `u64::MAX` as a
build without overflow checks does, `NextvalPanics`, as one with them does, and
`NextvalFails`, the error of `currval`. A stored value remembers the type it was serialized
as, so that reading another view's value is a parse error, as with serde. Nothing is
assumed of the parts of a key path: they may be empty, and hold dots and zeros. `Related`
says which views may then meet in a raw key: views of which one's namespaces begin with
the other's; a `TypedStorage` and all others; two key paths of which one is not `Plain`
(it has an empty part, or a dot in one); a key path and a view if the path has a zero byte
or the length of the view's first name, two bytes, has none. `issued` is a history
variable: the numbers a sequence has given out since it began anew, or since somebody
related to it removed or overwrote it.

**`OmnibusEngine`** models an engine being driven by `deploy()`, `handle()` or single
method calls. `load_core` is a sequence of steps that can each fail: `LoadBytes`,
`ResolverConfig`, `CompileEntrypoint` for each entrypoint, `TakeAst`, `LoadConfig`,
`RegisterComponents`, `WarmStatement` for each top-level statement, `Warmed`. Its stages
`init_core`, `load_config`, `register_components` and `warm_ast` are public as well, and
`StartStage` is one of them called by itself: it goes through the same steps and returns
when it is over (`GoesOn`), and panics if what it unwraps is `None` (`Missing`), in which
case the engine is gone. `alone` is a history variable of these calls. Parts of the engine hold the number of the load that made them, so that a
mixture of several archives shows. An archive is what decides these steps: is it a zip,
does its config parse and have the required keys, which functions and statements do its
entrypoints have, and what do those do. `?` in the code is `Fails`: the error ends the
operation, and whatever was assigned before stays.

**`ModuleResolver`** models `impl_resolve` and everything that happens while an
import is resolved: `stack` is the scripts under evaluation, innermost last. An import
is answered from the cache (`ResolveFromCache`), fails (`ResolveFails`), or begins an
evaluation (`ResolveBegins`) at whose end the module is cached and handed over
(`ResolveEnds`). A script has a const part, which `compile_with_scope` evaluates before it
compiles the rest (`Compile`, or `CompileFails`): it may import too, has no source to look
from, and leaves what it has imported in the cache even if the rest does not compile. Failures travel outwards (`Unwind`) until a script catches them
(`Catch`). Between uses, the cache is switched or cleared. The script language's own
part (import statements, try/catch, the machine's stack) is external, and modelled as
the resolver meets it. Import paths are kept as sequences of components because the
resolver's work is on them; `renewed` is a history variable.

**`WasmRegions`** models who holds which Region: `vm` are those the VM is to give back,
`Lent` those an import in progress lends to it, `out` the output of an address
conversion, `leaked` those nobody knows any more. Addresses are reused as an allocator
does. The VM is not in the repository: it may do whatever the exports and imports let
it, `allocate` and `deallocate` in the middle of an import included.

**`Arithmetic`** has `math.rs`: checked and unchecked operations at any width, division
by zero, rounding, and texts in both directions. A result is a value, an error or a
panic, and a number beyond the width is a panic or wraps, according to the build.
**`Shares`** is a contract, which is not part of the repository, that uses it as
contracts do: an amount is handed out by weights, through rates (`from_ratio`,
`percent`, `permille`, then `*`) or without (`multiply_ratio`), each share taken from
the rest with the checked `-` and added with `+`. It gives the operations states in
which rounding adds up. Rates also come in as texts.

**`MockChain`** is `MockQuerier` with its bank, staking, distribution, wasm and custom
handlers, the flattening of a querier's two levels of errors in `Querier::custom_query`,
`has_coins`, and the address conversions of `MockApi`. A test may set balances, staking
data and the custom handler. **`ContractCalls`** is the contract between a call and its
response, on that chain: `Enter` and `EnterFails` (`exports.rs`), `AddLog`, `AddMessage`,
`SetData` on the `Context`, `Ask`, `AskGarbled` (an answer of the VM that does not
parse), `Charge` (`has_coins`), `Credit` (an account under a canonical address), and
the ends `Return` and `Refuse`. What the contract does with these is up to it: every
order is modelled. `added`, `charge` and `credited` are history variables.

`MC*` modules give constants values that `.cfg` files cannot express. `*_proofs`
modules hold theorems only.

Composition: `TypedStores` is built on `KeyEncoding`; `Transactions` instantiates
`SnapshotStore` for the refinement. `RangeMerge` takes the two maps as they are while an
iterator lives, which is sound because both are borrowed for that time.
`Promises` extends `Transactions` with its history variable.
`OmnibusEngine` uses of the resolver what `load_core` calls of it, `ModuleResolver` the
rest. `ContractCalls` extends `MockChain`, as the contract and the test take turns on
the chain; `Shares` extends `Arithmetic`.

## 3. Runs

| run | what it asks | states |
|---|---|---|
| `transactions` | two transactions, two keys, two values, logs of up to two caller ops: overlay matches log, a replay ends with what was promised, refinement of `SnapshotStore` | 76,618 |
| `transactions_deep` | three transactions, so that chains are three deep and siblings share a store: refinement | 14,477 |
| `range_merge` | every overlay on every store of three keys, all bounds (inverted ones too), both orders: the types of what is handed out, prefix and whole of the merged view, termination | 161,280 |
| `typed_stores` | fourteen views on one storage of up to three entries: names that are prefixes of each other, a nested bucket, raw access, the whole storage, key paths of scripts that read alike or like the raw key of a bucket, a sequence that passes its last number: isolation, exact ranges with any bounds, sequences that remember | 41,530 |
| `engine` | eleven archives, each failing at a different stage or not at all; up to three loads on an engine, every method and every stage by itself in every order | 391,250 |
| `resolver` | an archive of twelve files with sharing, circles, caught and uncaught failures, imports in const parts and files reachable under several paths; four uses, with the cache cleared or switched between | 25,870 |
| `regions` | seven addresses: a call with arguments, an import with input, output and answer, and two leaks | 264 |
| `arithmetic` | every way to hand out ten amounts by weights of up to eight, in both builds, by rates and by ratios, and some 1,170 texts that are read: shares fit, little is lost, texts are read back and read exactly | 109,038 |
| `contract` | every contract of up to two additions to its `Context`, any queries, charges and credits, on a chain that a test changed once: answers agree, responses are complete, funds cover prices, accounts are apart but for zeros at their ends | 376,676 |

Why the bounds are enough. *transactions*: the hazards need a set and a later removal of
the same key, two keys so that one is untouched, two stores that are nested or siblings,
and a commit that is interrupted by other steps; with three transactions a commit goes
into a transaction whose reads pass through another one. `MaxOps` bounds what callers
write, and replaying a nested log may make a log longer than that. *range_merge*: three
keys hold every pattern of two neighbours and a third, such as two deletions in a row
before a pair from below; two values tell the sides apart. *typed_stores*: radix 3 makes
lengths from 3 to 8 need the second digit, as 256 and more do in the code, leaves a digit
for the dot, and lets a name of all twos reach the carry. One of the keys of a bucket is
the upper bound of the bucket nested in it but for the zero at its end, which is where
ranges go wrong, and one reaches into the nested bucket. Of the key paths, two read alike because of an empty part,
two because of a dot, and one with a zero is the raw key of a bucket. `MaxCounter` is `u64::MAX`.
Three entries are what the properties relate: the one a call is about, one beside it,
and a counter. *engine*: three loads are a good one,
a failing one and another on top; two statements in the AST when `init_core` is called
by itself are two that a reload has put in an order; two rounds stand for the thousand of `run_handle`,
since a failure after a success already shows what stays behind. *resolver*: `MaxDepth` is
the machine's stack; five is deeper than the longest chain of the archive that is no
circle. *regions*: the largest number of live Regions a call needs, and two leaks. *arithmetic*:
base 2 with three decimal places (eight to one) and numbers of five bits; fourths and
eighths have exact rates and thirds do not, amounts up to 31 times a rate reach the
overflow and most others do not, and `percent` and `permille` are fourths and eighths. Texts
have up to two digits before the dot and up to four after, one more than is allowed.
*contract*: one change of the chain is enough because updates replace what was there and
do not depend on it; two additions, of two logs, a message or two data, show order and the last datum winning;
purses name a denomination twice, or with zero; names have two to five bytes where
addresses take three or four, and one is another with a zero at its end.
Symmetry is used where constants are interchangeable, in runs of safety properties only.

Runs that find something. Three runs check a statement of a comment of the code that the
code does not keep (`findings` in `PROJECT.json` has the quotes):

* `range_past_prefix`: "If last bytes are 255, we handle overflow up the chain"
  (`namespace_helpers.rs:68`), but the carry leaves zeros at the end of the upper bound.
  The bound of `[0, 1, 255]` is `[0, 2, 0]`, and `[0, 2]`, which lies beside the namespace,
  is below it: a range without an end finds it, and `trim` panics because it is shorter
  than the prefix.
* `regions_of_a_range`: the Regions of the bounds "must remain in scope as long as the
  start_ptr / end_ptr do"; the arms of the `match` drop them before the import is called.
* `regions_left`: every Region is to be consumed "exactly once"; the output Region of an
  address conversion that fails is never.

Other places where code and comments part, which the models follow the code in and which
no run is spent on:

* a prefix of bytes that are all 255 "is never possible as a namespace"
  (`namespace_helpers.rs:69`), but a namespace of 65535 bytes of 255 is accepted and has
  such a prefix; its ranges are empty. `RangesAreExact` excepts this case;
* `Bucket::update` "only updates *pre-existing* values" (`bucket.rs:100`), but it hands the
  action an `Option` and stores a value under a key that had none;
* a relative import is to be looked for from its module's source (`resolver.rs:436`), but
  the source of a module is the path its importer wrote (`:478`), so that a module that was
  itself reached by a relative path imports from another directory than its own;
* `AllBalances` is to return all coins that are not zero (`query.rs`); the mock returns
  what it was given. Its unbonding delegations are all delegations, and its
  `human_address` drops every zero and not only those at the end;
* `has_coins` looks at the first coin of a denomination only, and refuses a price of zero
  if the denomination is not there. `FundsCover` says what that leaves true;
* `Decimal` and `Uint128` "deserialize as a base64 string"; they are decimal texts. A
  plus sign after the dot is accepted and counted as a digit, so that `1.+5` is 1.05;
  `ReadsExactly` is about texts without a sign after the dot;
* key paths of scripts with empty parts, dots or zeros may come to the same key, or to the
  raw key of a view: `["a", "b"]`, `["", "a", "b"]` and `"a.b"` are one key. Nothing in the
  code says what should be; `Isolation` says that no other paths meet;
* addresses of the mock are padded with zeros, which a `HumanAddr` may itself have at its
  end: two such names have one canonical address. `AccountsApart` says that these are the
  only ones.

## 4. Fairness and liveness

Everything is one thread that runs until its call ends, and nothing it does waits for
anything. So weak fairness of the steps of a call in progress is what the machine gives:
`WF(EngineStep)`. It is not assumed that anyone makes another call. `EveryCallReturns`
holds under it, and rests on the calls of script functions and statements ending, each of
which is a single step. `Drains` of `RangeMerge` assumes a caller that goes on calling
`next()`, as `collect()` and `count()` do. The other modules state no liveness. That
imports end is not claimed: nothing in the code bounds how deep they nest, and a circle of
imports ends where the machine's stack does.

The runs of `RangeMerge`, `ModuleResolver` and `Shares` turn deadlock checking off: an
exhausted iterator does not move, a resolver that has been used `MaxRounds` times, or has
trapped, is at its end, and so is a contract that has handed out everything or failed.

## 5. Proofs

All constants are arbitrary here, subject to the named assumptions in the modules, which
TLC evaluates in the runs: that marker values are different from values, that bounds are
numbers and inputs have their types, that the radix and the base are at least 2, of the
arithmetic that a whole is a power of the base, a multiple of a thousand, and fits. Names of
accounts are any sequences of numbers, zeros among them, and parts of key paths any bytes.

The state invariants and action properties that the passing runs check are all theorems
here; what is left to TLC alone are the temporal properties of section 4. Type correctness
is proved of every module; where a run does not check it too, that is because the model's
types alone hold it up.

The models compute with folds over sequences: the length of a prefix, a numeral, the sum
of coins, what a filter keeps. They are recursive functions on `0 .. n`, whose existence
has to be proved before anything can be said of them. The library's induction theorems
take a predicate as a parameter, which the provers cannot instantiate, so that the modules
that need it have two lemmas of their own, about sets in place of predicates. `UpTo`: a
set that has 0 and with each number the next has all numbers up to n; its proof is the
least counterexample, from the well-foundedness of `<`. `Recursion`: a function defined by
its first value and a table of steps exists. Each fold then has a lemma that says what it
is step by step (`FlattenIs`, `ExpandIs`, `PowerIs`, `NumeralIs`, `FilteredIs`,
`TotalIs`), and its properties follow by `UpTo`.

**`Transactions_proofs`**: `TypeCorrect`, `Invariant` and `RecordsAgree` (the property
`LocalMatchesLog`), for any sets of keys, values and transactions. The inductive invariant
is `IInv == TypeOK /\ ClosedIsReset /\ BorrowRules /\ LocalMatchesLog`. `LocalMatchesLog` is
not inductive alone: it speaks of open transactions, and needs that one that is just being
opened has an empty log and overlay (`ClosedIsReset`); and an `Apply` writes to a
transaction's overlay and log at once, provided that its target is still alive, which
`BorrowRules` says. `BorrowRules` is what rustc's rules come to over many steps; it follows
from the guards that stand for them, is no result about `transactions.rs`, and is here only
for what rests on it. It needs the types, and that ended transactions have given
their paths back. The lemmas on `LastDelta` (what a log leaves in a key: `NoDelta`,
`DeltaAt`, `DeltaCases`, `AppendLastDelta`) reduce the search of the community modules to
the last position that matches, and say what one more op changes. The preservation of the
borrow rules is in three lemmas, by kind of step: opening, closing, and work on logs.

A read goes down a path of transactions, so it must be shown that none of them changes
meanwhile. `ChainLinks` says, from `BorrowRules`, that every transaction on a path is open
and was opened on the next one; so a store that nobody reads from is on nobody's path but
its own. `StepTouches` says that every step changes the contents of one store at most, and
of one that nobody reads. `GetUnfolds` is the equation reads are reasoned with: an open
transaction answers from its overlay, or as the store below does.

On these rest `OverlaysImplementSnapshots` (`ImplementsSnapshots`) and `CallbacksAreKept`
(`CommitsWhatItShowed`). The step that is hard in the first is a commit: in `SnapshotStore`
it is one step, which here is its start, when nothing has been written yet; each `Apply` is
then a stutter. So the mapping adds to what `Get` finds in a store the rest of the log that
is being committed to it (`PendingDelta`), and the proof is that applying op `i` moves
exactly that op from one to the other (`DeltaUnfolds`, `WriteShows`). Elsewhere nothing
shows, by the argument of the views (`ElsewhereSame`). `Looks` states the mapping store by
store; there is one lemma for each action, and `StepRefines` collects them.
`CallbacksAreKept` is about the end of the replay, whose ops are looked at one by one:
between start and end, what the target shows with the ops still to come applied is what was
promised (`OnItsWay`). `ItStarts` says so of the step in which the transaction is consumed,
for which overlay and log must agree; `StaysOnItsWay` keeps it, because an `Apply` in the
order of the log turns its op from pending to shown, and nobody else writes to the target
(`TargetIsKept`). When no op is left it is the property.

**`RangeMerge_proofs`**: `MergeTypeCorrect` (`TypeOK`), `PrefixIsYielded` (`YieldsPrefix`)
and `AllIsYielded` (`YieldsAll`), for every number of keys, all overlays, stores, bounds
and both orders. The invariant relates what was handed out to what both sides still hold:
whatever either side has passed comes before all that either still holds (`Passed`), and
what was handed out is, in order, what the merged view has and neither side holds any more
(`Delivered`). `Passed` is why a pair of one side is never handed out too early: without
it, `Delivered` could be true now and a smaller key still to come. `RoundPasses` is the
one argument for all six outcomes of `next()`: the first of what is held, on either side,
moves behind, and it is handed out if it shows.

**`TypedStores_proofs`**: `NoCollision`, that a raw key of one prefix determines its
namespace and its key; and of the views, with any radix, names, keys and key paths,
`ViewsTypeCorrect` (`TypeOK`), `SequencesRemember` (`CounterRemembers`), `ViewsApart`
(`Isolation`) and `RangesFindTheirViews` (`RangesAreExact`), of which `PlainRanges` is the
case that contracts rely on: when a prefix does not end in the largest byte, its ranges
are exact whatever else is stored. Isolation comes down to what a raw key tells.
`EncodedIs` and `FlattenIs` say where in it which byte is; `NestedTell`, that two lists of
names whose prefixes begin the same raw key begin the same way, by induction on the names,
as each length tells where the next name begins (`DigitsTell`); `ExpandTells`, that a key
path is determined by what its dots separate if it is `Plain`; `ScriptsApart`, that the raw
key of a view whose first length has a zero byte is no expanded path that has none. The
other paths are `Related`, and nothing is claimed of them.
`StepTouches` says that a call changes one raw key. Nothing more is needed for
`CounterRemembers`, which is inductive with the types, because only related views meet in a
raw key (`RawKeysTell`) and no two sequences do (`CountersTell`); `WrapIs` is the one case
in which the number falls. Ranges rest on the order of byte strings: `LexBetween`
says that what is between two keys behind a prefix is behind it too, and `LexBelowUpper`
and `LexToUpper` do the same for the bound that `UpperIs` computes with its carry. What
`LexToUpper` has to leave open, the bound without some of the zeros at its end, are the
strays; the run `range_past_prefix` shows one.

**`OmnibusEngine_proofs`**: `EngineTypeCorrect` (`TypeOK`), `PartsInOrder`
(`StagesInOrder`), `ValidationLasts` (`ValidatedStaysValid`), `NoWriteBeforeConfig`
(`WritesNeedConfig`) and `LoadsAreReported` (`LoadReports`), for all sets of archives, any
bound on loads, any number of rounds, and stages called by themselves in any order. None of
them is inductive: each assigns in one step what another step has prepared. `Progress`
closes the gap, by saying what every stage of `load_core` finds unless it was called by
itself (during `warm_ast`, for instance, that the config is that of the load in progress)
and that what is being compiled is of the resolver's archive; `CallsInOrder` says that a
load is only ever the first call of an operation. `ConcatLoads` is the reason why merged
statements stay in the order of their loads. `LoadsAreReported` needs in addition how far
the load in progress has come (`LoadGoesOn`): the functions compiled so far are those of
the entrypoints before this one, the AST of the engine has no function of this load before
`TakeAst` and just the archive's after it (`CompilesOn`, `TakesAll`), and the caches are of
an earlier load until `Warmed`.

**`ModuleResolver_proofs`**: `ResolverTypeCorrect` (`TypeOK`), `OnlyWholeModules`
(`CacheIsComplete`), `ModulesAreShared` (`SharedInstances`) and `CachedIsNotEvaluated`
(`EvaluatedOnce`), for any archive and any depth of the machine's stack. All three are
about the cache, which a script enters at its end; what it was until then is on the stack.
`FramesInOrder` says that each script on the stack is what the one outside it is about to
import, and has come as far as it has outcomes, in its const part first; `FramesShare`, that what a script on the
stack has imported is what the cache has. The case that breaks the simple invariant is a
circle: a script that is on the stack twice is evaluated twice, and replaces its own
module, after which those that have the old one do not share. `renewed` records these
files, and `CirclesAreRenewed` says that it does so when the circle begins.

**`Shares_proofs`**: `SharesNeverExceed` (`SharesFit`) and `SharesLoseLittle`
(`LossBounded`), for every base, width, amount and set of totals, in both builds as far as
each claims it. The invariant (`SumsDue`) is that, when weights of `given` have been
served, what was paid and the rates in use are no more than is due to `given`, and with
checks less by the loss of that many roundings at most; `RateDue` says the same of a rate
that is in hand. All of it is multiplied out, since products of variables are where the
SMT solver needs help: `Multiply`, `Cancel` and `Floor` are the only facts on products it
is given, and `RatioRate`, `PercentRate`, `PermilleRate`, `ShareByRatio` and `ShareByRate`
say what rounding does in one operation.

Of texts: `SharesTypeCorrect` (`TypeOK`, so that what `from_str` makes of any text fits),
`NumbersAreRead` (`RoundTrip`) and `TextsAreReadExactly` (`ReadsExactly`). `Remembers`
adds to the invariant what the last text was read as. Both directions are about the same
two facts of numerals: two in a row count as `NumeralConcat` says, and one is less than
the power of its length (`NumeralFits`), with `PowerSum` for the exponents. Going out,
`PaddedIs` says that the digits of a number are digits, and what the first of them stand
for at each place; a sequence of digits that grows like a numeral is that numeral
(`NumeralUnique`), so the padded fraction is read as what it was, and cutting zeros off
its end divides by what the reader multiplies with again (`FirstDigits`,
`FractionParses`). Coming in, `ReadWhole` and `ReadFraction` show that the two factors of
the code (whole by `Fractional`, fraction by the power of the missing places) make the
number that the digits on both sides of the dot are together, and that it is refused
exactly when that does not fit. TLAPS has no definition of `^`, so the model has a
function `Power`.

**`ContractCalls_proofs`**: `CallsTypeCorrect` (`TypeOK`), `AnswersAgree`
(`QueriesAgree`), `ResponsesAreComplete` (`ResponseIsWhatWasAdded`), `PricesAreCovered`
(`FundsCover`) and `AccountsAreApart` (`AccountsApart`), for every chain a test can set
up, all purses, prices, names and lengths of addresses, and contracts of any size.
`FilteredIs` and its consequences are what reasoning about the code's `filter`, `find` and
`position` needs: what a filter keeps, that it keeps the order, and what its first element
is. Agreement of queries is then a fact of each state: `find` on the balances and
`position` in `has_coins` look at the same first coin (`BalancesDoAgree`), and the first
delegation that matches both names is the first of the delegator's that matches the
validator (`DelegationsDoAgree`). The response needs an invariant, since it is made from
the `Context` long after the additions: `Collected` says that the `Context` holds, list by
list, what was added so far. `TotalOfFirst` compares the first coin of a denomination with
the sum of all, which is the same if none is named twice. `Booked` says that whoever was
credited has an account of exactly that under the canonical address of the name, and that
there are no others, and no less if several names share it. Two names have one address only
if one is the other but for zeros at its end (`AddressesApart`), and a name without zeros,
and no other, comes back when the zeros are dropped (`NothingDropped`, `PaddingDropped`,
`NameIsFound`).

**`WasmRegions_proofs`**: `RegionsTypeCorrect` (`TypeOK`) and `RegionsHeldOnce`
(`HeldOnce`), for any set of addresses and with or without the iterator feature. The
invariant is the two together: who holds an output depends on which import is waited for,
which is in `TypeOK`, and that answers are taken from what the VM holds is in `HeldOnce`.
`Added` and `Removed` say what a step does to the heap; each action has a lemma that names
what is lent and what is the output after it.

Only model-checked: `EveryCallReturns` and `Drains`. Liveness under
fairness, and `ENABLED`, are out of the prover's reach. No module has a `RECURSIVE`
operator. The findings of section 3 are counterexamples, and have no theorem.

## 6. What is not modelled

* Bytes and texts: serialization (`serde.rs`, base64 in `encoding.rs`), parsing of scripts
  and configs, zip decompression, the wording of errors, logging, `debug_print`. Outcomes
  of these (it parses or not, which type a value has) are inputs of the models.
* The scripts themselves, save their functions, effects and imports; in particular the
  constants of the scope that entrypoints see and that modules, compiled by the clone of
  the resolver, do not. The values of constants decide nothing in the model.
* How deep the machine's stack is: imports nest until it ends (`StackOverflow`).
* Of the resolver: `resolve_ast`, file extensions, where a source is split into const part
  and the rest, and the lookup of config keys by path.
* Gas, and panics other than those named in the models. A panic ends the call of the
  contract and the chain discards its writes.
* Capacities of buffers in `release_buffer`, and the encoding of key-value pairs that
  `ExternalIterator` splits.
* Fields of messages, and of queries what does not select the answer: a message is told
  apart by the module it is for. The macros of `entry_points.rs` and the list of script
  packages keep no state.

## 7. Plan

Done: the transactional storage, its abstract specification, the refinement and its proof;
the iterator over it; the typed views with all kinds of stores and the key paths of
scripts; the engine; the resolver; the wasm boundary; arithmetic; contract calls on the
mock chain; and, for each of these, proofs of the invariants that the runs check.

Left, in order:

1. The clone of the resolver that the script engine keeps, with statements that depend on
   constants of the scope that `init_with_scope` sets later; lookup in the resolver's
   config by path.
2. `ExternalIterator` against `MemoryStorage::range`: the pair with an empty key that ends
   an iteration, and the layout in which key and value are sent.
3. A handle on an engine that a failed reload has left as a mixture: what the functions of
   an old archive see of the constants of a new one.
