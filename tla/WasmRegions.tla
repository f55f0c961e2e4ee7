----------------------------- MODULE WasmRegions -----------------------------
(***************************************************************************)
(* The memory that a contract and the VM that runs it share: memory.rs,    *)
(* imports.rs and exports.rs of packages/cosmwasm/std/src.  A Region, a    *)
(* heap block of its own, says where data is; its address goes over the    *)
(* boundary.  Some Regions own their data, so that who gets the address    *)
(* must give them back, and some describe data that is only lent.          *)
(*                                                                         *)
(* The VM is not in the repository: its part is what the imports and the   *)
(* exports of the contract let it do and oblige it to.                     *)
(***************************************************************************)
EXTENDS Integers, Sequences, FiniteSets

CONSTANTS Addresses,  \* of Regions; the allocator may use a free one again
          iterator,   \* cfg(feature = "iterator")
          NULL,
          MaxLeaks    \* bound on the address conversions that fail

ASSUME NullAssumption == NULL \notin Addresses
ASSUME OtherAssumption == iterator \in BOOLEAN /\ MaxLeaks \in Nat

VARIABLES
  regions,  \* the live Regions: address to "owned" or "lent"
  call,     \* where the contract is: not called, running, waiting for the VM
  import,   \* the import it waits for: its name and the addresses it passed
  out,      \* canon or human: the Region the VM is to write into
  vm,       \* the addresses of owned Regions that are the VM's to give back
  leaked    \* the Regions whose address nobody has any more

vars == <<regions, call, import, out, vm, leaked>>

Answering  == {"db_read", "query_chain"} \cup (IF iterator THEN {"db_next"} ELSE {})
Converting == {"canonicalize_address", "humanize_address"}
Writing    == {"db_write", "db_remove"}
Imports    == Answering \cup Converting \cup Writing \cup (IF iterator THEN {"db_scan"} ELSE {})
NoImport   == [name |-> "none", passed |-> {}]

Live == DOMAIN regions
Free == Addresses \ Live

With(new, data) ==
  [a \in Live \cup new |-> IF a \in new THEN data ELSE regions[a]]
Without(old) == [a \in Live \ old |-> regions[a]]

-----------------------------------------------------------------------------
(* memory.rs                                                               *)

(* alloc: the Region owns the buffer, and is left to the one who gets its  *)
(* address.                                                                *)
alloc(a) == regions' = With({a}, "owned")

(* release_buffer, which does not say the capacity of the vector.          *)
release_buffer(a) == regions' = With({a}, "owned")

-----------------------------------------------------------------------------
(* The exports.  The VM calls allocate and deallocate whenever the         *)
(* contract does not run, which it does not while it waits for an import.  *)

VmHasControl == call \in {"idle", "waiting"}

allocate(a) ==
  /\ VmHasControl /\ a \in Free
  /\ alloc(a)
  /\ vm' = vm \cup {a}
  /\ UNCHANGED <<call, import, out, leaked>>

deallocate(a) ==
  /\ VmHasControl /\ a \in vm
  /\ regions' = Without({a})
  /\ vm' = vm \ {a}
  /\ UNCHANGED <<call, import, out, leaked>>

(* do_init, do_handle and do_migrate get env and msg, do_query gets msg    *)
(* alone: they consume what they get.                                      *)
Enter(args) ==
  /\ call = "idle" /\ args \subseteq vm
  /\ Cardinality(args) \in {1, 2}
  /\ call' = "running"
  /\ regions' = Without(args)
  /\ vm' = vm \ args
  /\ UNCHANGED <<import, out, leaked>>

(* Whatever came of the call, its result is handed over in a buffer.       *)
Return(a) ==
  /\ call = "running" /\ a \in Free
  /\ release_buffer(a)
  /\ vm' = vm \cup {a}
  /\ call' = "idle"
  /\ UNCHANGED <<import, out, leaked>>

-----------------------------------------------------------------------------
(* imports.rs, up to the call of the import ...                            *)

Calls(name, passed) ==
  /\ call = "running" /\ name \in Imports
  /\ call' = "waiting"
  /\ import' = [name |-> name, passed |-> passed]
  /\ UNCHANGED <<vm, leaked>>

(* get, set, remove, raw_query and the iterator's next: the data of the    *)
(* Regions is lent to the VM, and the boxes are dropped at the end.        *)
CallLending(name, lent) ==
  /\ name \in Answering \cup Writing
  /\ Cardinality(lent) = CASE name = "db_next" -> 0 [] name = "db_write" -> 2 [] OTHER -> 1
  /\ lent \subseteq Free
  /\ Calls(name, lent)
  /\ regions' = With(lent, "lent")
  /\ UNCHANGED out

(* canonical_address and human_address: beside the input, alloc() makes a  *)
(* Region for the output.                                                  *)
CallConverting(name, send, output) ==
  /\ name \in Converting
  /\ {send, output} \subseteq Free /\ send # output
  /\ Calls(name, {send})
  /\ regions' = [a \in Live \cup {send, output} |->
                   CASE a = send -> "lent" [] a = output -> "owned" [] OTHER -> regions[a]]
  /\ out' = output

(* range: the arms of `match` own the boxes, and drop them before the      *)
(* import is called.  The second may get the place of the first.           *)
CallScan(bounds) ==
  /\ bounds \subseteq Free /\ Cardinality(bounds) <= 2
  /\ Calls("db_scan", bounds)
  /\ UNCHANGED <<regions, out>>

-----------------------------------------------------------------------------
(* ... and from its return on.                                             *)

Continues == call = "waiting" /\ call' = "running" /\ import' = NoImport

(* Dropping the boxes; after range there are none.                         *)
Lent == IF import.name = "db_scan" THEN {} ELSE import.passed

(* The VM answers with a Region, which is consumed.                        *)
Answered(a) ==
  /\ import.name \in Answering /\ a \in vm
  /\ Continues
  /\ regions' = Without(Lent \cup {a})
  /\ vm' = vm \ {a}
  /\ UNCHANGED <<out, leaked>>

(* No answer: writes, scans, and reads that find nothing.                  *)
NotAnswered ==
  /\ import.name \in Writing \cup {"db_scan", "db_read"}
  /\ Continues
  /\ regions' = Without(Lent)
  /\ UNCHANGED <<out, vm, leaked>>

(* Faulty: the output is not consumed.                                     *)
ConvertedUnconsumed ==
  /\ import.name \in Converting
  /\ Continues
  /\ regions' = Without(Lent) /\ out' = NULL
  /\ UNCHANGED <<vm, leaked>>

(* The VM has written the address into the output, which is consumed.      *)
Converted ==
  /\ import.name \in Converting
  /\ Continues
  /\ regions' = Without(Lent \cup {out}) /\ out' = NULL
  /\ UNCHANGED <<vm, leaked>>

(* The VM answers with an error, which is consumed; the output is not.     *)
ConversionFails(a) ==
  /\ import.name \in Converting /\ a \in vm
  /\ Cardinality(leaked) < MaxLeaks
  /\ Continues
  /\ regions' = Without(Lent \cup {a}) /\ out' = NULL
  /\ vm' = vm \ {a}
  /\ leaked' = leaked \cup {out}

-----------------------------------------------------------------------------
Init ==
  /\ regions = [a \in {} |-> "owned"]
  /\ call = "idle" /\ import = NoImport /\ out = NULL
  /\ vm = {} /\ leaked = {}

Next ==
  \/ \E a \in Addresses : allocate(a)
  \/ \E a \in Addresses : deallocate(a)
  \/ \E args \in SUBSET vm : Enter(args)
  \/ \E a \in Addresses : Return(a)
  \/ \E name \in Imports, lent \in SUBSET Free : CallLending(name, lent)
  \/ \E name \in Imports, send, output \in Addresses : CallConverting(name, send, output)
  \/ \E bounds \in SUBSET Free : CallScan(bounds)
  \/ \E a \in Addresses : Answered(a)
  \/ NotAnswered
  \/ Converted
  \/ \E a \in Addresses : ConversionFails(a)

Spec == Init /\ [][Next]_vars

-----------------------------------------------------------------------------
(* Properties.                                                             *)

(* Regions are at addresses; the contract has an import, and an output for *)
(* it, only while it waits.                                                *)
TypeOK ==
  /\ Live \subseteq Addresses /\ \A a \in Live : regions[a] \in {"owned", "lent"}
  /\ call \in {"idle", "running", "waiting"}
  /\ import.name \in Imports \cup {"none"} /\ import.passed \subseteq Addresses
  /\ call = "waiting" <=> import.name # "none"
  /\ import.name = "none" => import.passed = {}
  /\ out # NULL <=> import.name \in Converting
  /\ out \in Addresses \cup {NULL}
  /\ vm \subseteq Addresses /\ leaked \subseteq Addresses

Output == {out} \ {NULL}

(* Every live Region has one holder that knows its address and will give   *)
(* it back, or none; and what is given back to the heap with its data owns *)
(* the data: nothing is freed twice, freed under a borrower, or forgotten, *)
(* however calls, answers and allocations are interleaved.                 *)
HeldOnce ==
  /\ Live = vm \cup leaked \cup Lent \cup Output
  /\ vm \cap leaked = {} /\ vm \cap Lent = {} /\ vm \cap Output = {}
  /\ leaked \cap Lent = {} /\ leaked \cap Output = {} /\ Lent \cap Output = {}
  /\ \A a \in Live : regions[a] = IF a \in Lent THEN "lent" ELSE "owned"

(* The comment in ExternalStorage::range: "start and end (Regions) must    *)
(* remain in scope as long as the start_ptr / end_ptr do", that is, until  *)
(* the import that they are passed to has returned.                        *)
PassedAreLive == \A a \in import.passed : a \in Live /\ regions[a] = "lent"

(* The doc comment of consume_region: "Make sure to call it exactly once", *)
(* so that when the VM has given back all it has, nothing is left.         *)
NothingLeft == call = "idle" /\ vm = {} => Live = {}
=============================================================================
