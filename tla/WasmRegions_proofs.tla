-------------------------- MODULE WasmRegions_proofs --------------------------
(***************************************************************************)
(* That every Region has one holder, for any number of addresses and of    *)
(* failed conversions.                                                     *)
(***************************************************************************)
EXTENDS WasmRegions, TLAPS

(* The types, and who holds what, which depend on each other.              *)
IInv == TypeOK /\ HeldOnce

(* The names of the imports, which tell the kinds of imports apart.        *)
LEMMA Kinds ==
  /\ "none" \notin Imports
  /\ (Answering \cup Writing) \cap Converting = {}
  /\ "db_scan" \notin Answering \cup Writing \cup Converting
  /\ Answering \cup Writing \cup Converting \subseteq Imports
  BY DEF Imports, Answering, Writing, Converting

(* What alloc and the consumers of Regions do to the heap.                 *)
LEMMA Added ==
  ASSUME NEW S, NEW data, regions' = With(S, data)
  PROVE  /\ Live' = Live \cup S
         /\ \A a \in Live' : regions'[a] = IF a \in S THEN data ELSE regions[a]
  BY DEF With, Live

LEMMA Removed ==
  ASSUME NEW S, regions' = Without(S)
  PROVE  /\ Live' = Live \ S
         /\ \A a \in Live' : regions'[a] = regions[a]
  BY DEF Without, Live

(* Nothing is live at first.                                               *)
LEMMA InitInvariant == Init => IInv
  BY DEF Init, IInv, TypeOK, HeldOnce, NoImport, Lent, Output, Live,
      Converting

(* Steps of the VM, beside which the contract stands still.                *)
LEMMA AllocateKeeps ==
  ASSUME IInv, NEW a \in Addresses, allocate(a)
  PROVE  IInv'
<1>1. regions' = With({a}, "owned")
  BY DEF allocate, alloc
<1>2. /\ Live' = Live \cup {a}
      /\ \A b \in Live' : regions'[b] = IF b \in {a} THEN "owned" ELSE regions[b]
  BY <1>1, Added
<1>3. Lent' = Lent /\ Output' = Output
  BY DEF Lent, Output, allocate
<1>4. TypeOK'
  BY <1>2 DEF IInv, TypeOK, allocate
<1>5. HeldOnce'
  BY <1>2, <1>3 DEF IInv, HeldOnce, Free, allocate
<1> QED  BY <1>4, <1>5 DEF IInv

LEMMA DeallocateKeeps ==
  ASSUME IInv, NEW a \in Addresses, deallocate(a)
  PROVE  IInv'
<1>1. regions' = Without({a})
  BY DEF deallocate
<1>2. /\ Live' = Live \ {a}
      /\ \A b \in Live' : regions'[b] = regions[b]
  BY <1>1, Removed
<1>3. Lent' = Lent /\ Output' = Output
  BY DEF Lent, Output, deallocate
<1>4. TypeOK'
  BY <1>2 DEF IInv, TypeOK, deallocate
<1>5. HeldOnce'
  BY <1>2, <1>3 DEF IInv, HeldOnce, deallocate
<1> QED  BY <1>4, <1>5 DEF IInv

(* A call of the contract, and its end.                                    *)
LEMMA EnterKeeps ==
  ASSUME IInv, NEW args \in SUBSET vm, Enter(args)
  PROVE  IInv'
<1>1. regions' = Without(args)
  BY DEF Enter
<1>2. /\ Live' = Live \ args
      /\ \A b \in Live' : regions'[b] = regions[b]
  BY <1>1, Removed
<1>3. Lent' = Lent /\ Output' = Output
  BY DEF Lent, Output, Enter
<1>4. TypeOK'
  BY <1>2 DEF IInv, TypeOK, Enter
<1>5. HeldOnce'
  BY <1>2, <1>3 DEF IInv, HeldOnce, Enter
<1> QED  BY <1>4, <1>5 DEF IInv

LEMMA ReturnKeeps ==
  ASSUME IInv, NEW a \in Addresses, Return(a)
  PROVE  IInv'
<1>1. regions' = With({a}, "owned")
  BY DEF Return, release_buffer
<1>2. /\ Live' = Live \cup {a}
      /\ \A b \in Live' : regions'[b] = IF b \in {a} THEN "owned" ELSE regions[b]
  BY <1>1, Added
<1>3. Lent' = Lent /\ Output' = Output
  BY DEF Lent, Output, Return
<1>4. TypeOK'
  BY <1>2 DEF IInv, TypeOK, Return
<1>5. HeldOnce'
  BY <1>2, <1>3 DEF IInv, HeldOnce, Free, Return
<1> QED  BY <1>4, <1>5 DEF IInv

(* The calls of imports.                                                   *)
LEMMA CallLendingKeeps ==
  ASSUME IInv, NEW name \in Imports, NEW lent \in SUBSET Free, CallLending(name, lent)
  PROVE  IInv'
<1>1. regions' = With(lent, "lent")
  BY DEF CallLending
<1>2. /\ Live' = Live \cup lent
      /\ \A b \in Live' : regions'[b] = IF b \in lent THEN "lent" ELSE regions[b]
  BY <1>1, Added
<1>3. Lent' = lent /\ Output' = {}
  BY Kinds DEF IInv, TypeOK, Lent, Output, CallLending, Calls
<1>4. Lent = {} /\ Output = {}
  BY Kinds DEF IInv, TypeOK, Lent, Output, CallLending, Calls
<1>5. TypeOK'
  BY <1>2, Kinds DEF IInv, TypeOK, CallLending, Calls, Free
<1>6. HeldOnce'
  BY <1>2, <1>3, <1>4 DEF IInv, HeldOnce, CallLending, Calls, Free
<1> QED  BY <1>5, <1>6 DEF IInv

LEMMA CallConvertingKeeps ==
  ASSUME IInv, NEW name \in Imports, NEW send \in Addresses, NEW output \in Addresses,
         CallConverting(name, send, output)
  PROVE  IInv'
<1>1. /\ Live' = Live \cup {send, output}
      /\ \A b \in Live' : regions'[b] = CASE b = send -> "lent"
                                          [] b = output -> "owned"
                                          [] OTHER -> regions[b]
  BY DEF CallConverting, Live
<1>2. Lent' = {send} /\ Output' = {output}
  BY Kinds, NullAssumption DEF CallConverting, Calls, Lent, Output
<1>3. TypeOK'
  BY <1>1, Kinds, NullAssumption DEF IInv, TypeOK, CallConverting, Calls
<1>4. Lent = {} /\ Output = {}
  BY Kinds DEF IInv, TypeOK, Lent, Output, CallConverting, Calls
<1>5. HeldOnce'
  BY <1>1, <1>2, <1>4 DEF IInv, HeldOnce, CallConverting, Calls, Free
<1> QED  BY <1>3, <1>5 DEF IInv

LEMMA CallScanKeeps ==
  ASSUME IInv, NEW bounds \in SUBSET Free, CallScan(bounds)
  PROVE  IInv'
<1>1. Lent' = {} /\ Lent = {} /\ Output' = Output /\ Live' = Live
  BY DEF IInv, TypeOK, Lent, Output, Live, CallScan, Calls
<1>2. TypeOK'
  BY <1>1, Kinds DEF IInv, TypeOK, CallScan, Calls, Free
<1>3. HeldOnce'
  BY <1>1 DEF IInv, HeldOnce, CallScan, Calls
<1> QED  BY <1>2, <1>3 DEF IInv

(* Their returns.                                                          *)
LEMMA AnsweredKeeps ==
  ASSUME IInv, NEW a \in Addresses, Answered(a)
  PROVE  IInv'
<1>1. regions' = Without((Lent \cup {a}))
  BY DEF Answered
<1>2. /\ Live' = Live \ (Lent \cup {a})
      /\ \A b \in Live' : regions'[b] = regions[b]
  BY <1>1, Removed
<1>3. Lent' = {} /\ Output' = Output
  BY DEF Lent, Output, Answered, Continues, NoImport
<1>4. TypeOK'
  BY <1>2, Kinds DEF IInv, TypeOK, Answered, Continues, NoImport
<1>5. HeldOnce'
  BY <1>2, <1>3 DEF IInv, HeldOnce, Answered
<1> QED  BY <1>4, <1>5 DEF IInv

LEMMA NotAnsweredKeeps ==
  ASSUME IInv, NotAnswered
  PROVE  IInv'
<1>1. regions' = Without(Lent)
  BY DEF NotAnswered
<1>2. /\ Live' = Live \ Lent
      /\ \A b \in Live' : regions'[b] = regions[b]
  BY <1>1, Removed
<1>3. Lent' = {} /\ Output' = Output
  BY DEF Lent, Output, NotAnswered, Continues, NoImport
<1>4. import.name \notin Converting
  BY Kinds DEF NotAnswered, Answering
<1>5. TypeOK'
  BY <1>2, <1>4, Kinds DEF IInv, TypeOK, NotAnswered, Continues, NoImport
<1>6. HeldOnce'
  BY <1>2, <1>3 DEF IInv, HeldOnce, NotAnswered
<1> QED  BY <1>5, <1>6 DEF IInv

LEMMA ConvertedKeeps ==
  ASSUME IInv, Converted
  PROVE  IInv'
<1>1. regions' = Without((Lent \cup {out}))
  BY DEF Converted
<1>2. /\ Live' = Live \ (Lent \cup {out})
      /\ \A b \in Live' : regions'[b] = regions[b]
  BY <1>1, Removed
<1>3. Lent' = {} /\ Output' = {}
  BY DEF Lent, Output, Converted, Continues, NoImport
<1>4. Output = {out} /\ out \in Addresses
  BY DEF IInv, TypeOK, Output, Converted
<1>5. TypeOK'
  BY <1>2, Kinds DEF IInv, TypeOK, Converted, Continues, NoImport
<1>6. HeldOnce'
  BY <1>2, <1>3, <1>4 DEF IInv, HeldOnce, Converted
<1> QED  BY <1>5, <1>6 DEF IInv

LEMMA ConversionFailsKeeps ==
  ASSUME IInv, NEW a \in Addresses, ConversionFails(a)
  PROVE  IInv'
<1>1. regions' = Without((Lent \cup {a}))
  BY DEF ConversionFails
<1>2. /\ Live' = Live \ (Lent \cup {a})
      /\ \A b \in Live' : regions'[b] = regions[b]
  BY <1>1, Removed
<1>3. Lent' = {} /\ Output' = {}
  BY DEF Lent, Output, ConversionFails, Continues, NoImport
<1>4. Output = {out} /\ out \in Addresses
  BY DEF IInv, TypeOK, Output, ConversionFails
<1>5. TypeOK'
  BY <1>2, Kinds DEF IInv, TypeOK, ConversionFails, Continues, NoImport
<1>6. HeldOnce'
  BY <1>2, <1>3, <1>4, Kinds DEF IInv, HeldOnce, ConversionFails
<1> QED  BY <1>5, <1>6 DEF IInv

(* One step per action of Next.                                            *)
LEMMA NextKeeps == IInv /\ [Next]_vars => IInv'
<1> SUFFICES ASSUME IInv, [Next]_vars PROVE IInv'
  OBVIOUS
<1>1. CASE \E a \in Addresses : allocate(a)
  BY <1>1, AllocateKeeps
<1>2. CASE \E a \in Addresses : deallocate(a)
  BY <1>2, DeallocateKeeps
<1>3. CASE \E args \in SUBSET vm : Enter(args)
  BY <1>3, EnterKeeps
<1>4. CASE \E a \in Addresses : Return(a)
  BY <1>4, ReturnKeeps
<1>5. CASE \E name \in Imports, lent \in SUBSET Free : CallLending(name, lent)
  BY <1>5, CallLendingKeeps
<1>6. CASE \E name \in Imports, send, output \in Addresses : CallConverting(name, send, output)
  BY <1>6, CallConvertingKeeps
<1>7. CASE \E bounds \in SUBSET Free : CallScan(bounds)
  BY <1>7, CallScanKeeps
<1>8. CASE \E a \in Addresses : Answered(a)
  BY <1>8, AnsweredKeeps
<1>9. CASE NotAnswered
  BY <1>9, NotAnsweredKeeps
<1>10. CASE Converted
  BY <1>10, ConvertedKeeps
<1>11. CASE \E a \in Addresses : ConversionFails(a)
  BY <1>11, ConversionFailsKeeps
<1>12. CASE UNCHANGED vars
  BY <1>12 DEF vars, IInv, TypeOK, HeldOnce, Lent, Output, Live
<1> QED
  BY <1>1, <1>2, <1>3, <1>4, <1>5, <1>6, <1>7, <1>8, <1>9, <1>10, <1>11, <1>12
  DEF Next

(* The inductive invariant holds.                                          *)
THEOREM RegionsInvariant == Spec => []IInv
  BY InitInvariant, NextKeeps, PTL DEF Spec

(* The variables keep their types, and there is an import and an output    *)
(* just while the contract waits for one.                                  *)
THEOREM RegionsTypeCorrect == Spec => []TypeOK
<1>1. IInv => TypeOK
  BY DEF IInv
<1> QED  BY <1>1, RegionsInvariant, PTL

(* However calls, answers, failures and allocations are interleaved, each  *)
(* live Region of memory.rs has one holder, so that nothing is freed twice *)
(* and nothing lent is freed with its data.                                *)
THEOREM RegionsHeldOnce == Spec => []HeldOnce
<1>1. IInv => HeldOnce
  BY DEF IInv
<1> QED  BY <1>1, RegionsInvariant, PTL
=============================================================================
