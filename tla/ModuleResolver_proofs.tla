----------------------- MODULE ModuleResolver_proofs -----------------------
(***************************************************************************)
(* Theorems about ModuleResolver: for every archive, all entrypoints and   *)
(* queries, and any depth of the machine's stack, only whole modules are   *)
(* cached, they share what they import, and nothing that is cached is      *)
(* evaluated again.                                                        *)
(***************************************************************************)
EXTENDS ModuleResolver, SequenceTheorems, TLAPS

(* Option::None is not the path of a file.                                  *)
LEMMA NoneIsNoFile == None \notin Files
BY ArchiveAssumption, BasePathAssumption DEF Files

(* The scripts of the archive are sequences of import statements.           *)
LEMMA StatementsType ==
  ASSUME NEW f \in Files
  PROVE  Statements(f) \in Seq(Import) /\ Consts(f) \in Nat /\ Consts(f) <= Len(Statements(f))
<1>1. Archive[f].consts \in Seq(Import) /\ Archive[f].imports \in Seq(Import)
  BY ArchiveAssumption DEF Files, Script
<1>2. /\ Archive[f].consts \o Archive[f].imports \in Seq(Import)
      /\ Len(Archive[f].consts \o Archive[f].imports) = Len(Archive[f].consts) + Len(Archive[f].imports)
  BY <1>1, ConcatProperties
<1>3. Len(Archive[f].consts) \in Nat /\ Len(Archive[f].imports) \in Nat
  BY <1>1, LenProperties
<1>4. /\ Statements(f) = Archive[f].consts \o Archive[f].imports
      /\ Consts(f) = Len(Archive[f].consts)
  BY DEF Statements, Consts
<1>5. \A a, b \in Nat : a <= a + b
  OBVIOUS
<1> QED  BY ONLY <1>2, <1>3, <1>4, <1>5

-----------------------------------------------------------------------------
(* The stack of scripts.                                                   *)

(* The innermost script and those outside it.                               *)
LEMMA StackParts ==
  ASSUME stack \in Seq(FrameType), stack # <<>>
  PROVE  /\ Len(stack) \in Nat \ {0}
         /\ Top = stack[Len(stack)] /\ Top \in FrameType
         /\ Caller \in Seq(FrameType) /\ Len(Caller) = Len(stack) - 1
         /\ \A k \in 1 .. Len(stack) - 1 : Caller[k] = stack[k]
<1>1. Len(stack) \in Nat \ {0} /\ \A k \in 1 .. Len(stack) : stack[k] \in FrameType
  OBVIOUS
<1>2. Top = stack[Len(stack)]
  BY DEF Top, Seqs!Last
<1>3. Caller = SubSeq(stack, 1, Len(stack) - 1)
  BY DEF Caller, Seqs!Front
<1>4. \A k \in 1 .. Len(stack) - 1 : stack[k] \in FrameType
  BY <1>1
<1>5. /\ Caller \in Seq(FrameType) /\ Len(Caller) = Len(stack) - 1
      /\ \A k \in 1 .. Len(stack) - 1 : Caller[k] = stack[k]
  <2>1. PICK n \in Nat : n = Len(stack) - 1  BY <1>1
  <2>2. /\ SubSeq(stack, 1, n) \in Seq(FrameType) /\ Len(SubSeq(stack, 1, n)) = n
        /\ \A k \in 1 .. n : SubSeq(stack, 1, n)[k] = stack[k]
    BY <1>4, <2>1
  <2> QED  BY <1>3, <2>1, <2>2
<1> QED  BY <1>1, <1>2, <1>5

(* A last element is put in the place of another one.                       *)
LEMMA AppendToFront ==
  ASSUME NEW s \in Seq(FrameType), s # <<>>, NEW f \in FrameType
  PROVE  LET t == Append(Seqs!Front(s), f)
         IN  /\ t \in Seq(FrameType) /\ Len(t) = Len(s) /\ t[Len(s)] = f
             /\ \A k \in 1 .. Len(s) - 1 : t[k] = s[k]
             /\ DOMAIN t = 1 .. Len(s)
<1>1. PICK n \in Nat : Len(s) = n + 1
  <2>1. Len(s) \in Nat /\ Len(s) # 0  OBVIOUS
  <2> QED  BY <2>1
<1>2. \A k \in 1 .. n : s[k] \in FrameType
  BY <1>1
<1>3. /\ SubSeq(s, 1, n) \in Seq(FrameType) /\ Len(SubSeq(s, 1, n)) = n
      /\ \A k \in 1 .. n : SubSeq(s, 1, n)[k] = s[k]
  BY <1>2
<1>4. Seqs!Front(s) = SubSeq(s, 1, n)
  BY <1>1 DEF Seqs!Front
<1> QED  BY <1>1, <1>3, <1>4

(* The innermost script is put in the place of what it was before.          *)
LEMMA TopReplaced ==
  ASSUME stack \in Seq(FrameType), stack # <<>>, NEW f \in FrameType,
         stack' = Append(Caller, f)
  PROVE  /\ stack' \in Seq(FrameType) /\ Len(stack') = Len(stack)
         /\ \A k \in 1 .. Len(stack) - 1 : stack'[k] = stack[k]
         /\ stack'[Len(stack)] = f
BY StackParts

(* A script that goes on has one statement less before it and one outcome   *)
(* more behind it.                                                          *)
LEMMA GoesOnIs ==
  ASSUME NEW frame \in FrameType, frame.rest # <<>>, NEW o \in Outcome
  PROVE  /\ GoesOn(frame, o) \in FrameType
         /\ GoesOn(frame, o).file = frame.file
         /\ GoesOn(frame, o).source = frame.source
         /\ GoesOn(frame, o).compiled = frame.compiled
         /\ GoesOn(frame, o).rest = Tail(frame.rest)
         /\ GoesOn(frame, o).imports = Append(frame.imports, o)
<1> DEFINE later == Tail(frame.rest)
           longer == Append(frame.imports, o)
<1>1. later \in Seq(Import) /\ longer \in Seq(Outcome)
  BY DEF FrameType
<1>2. GoesOn(frame, o) = [frame EXCEPT !.rest = later, !.imports = longer]
  BY DEF GoesOn
<1> HIDE DEF later, longer
<1>3. /\ GoesOn(frame, o) \in FrameType
      /\ GoesOn(frame, o).file = frame.file
      /\ GoesOn(frame, o).source = frame.source
      /\ GoesOn(frame, o).compiled = frame.compiled
      /\ GoesOn(frame, o).rest = later
      /\ GoesOn(frame, o).imports = longer
  BY <1>1, <1>2 DEF FrameType
<1> QED  BY <1>3 DEF later, longer

(* What it imported was its next statement; a failure of it was caught.     *)
LEMMA GoesOnRan ==
  ASSUME NEW frame \in FrameType, frame.file \in Files, AtImport(frame), Ran(frame),
         NEW o \in Outcome, o = None => Head(frame.rest).caught
  PROVE  /\ Ran(GoesOn(frame, o))
         /\ Asked(frame.file, frame.source, Len(frame.imports) + 1) =
              FilePath(Head(frame.rest).path, Parent(SourceOf(frame)))
<1> DEFINE statements == Statements(frame.file)
           n          == Len(frame.imports)
           longer     == Append(frame.imports, o)
<1>0. frame.rest # <<>>
  BY DEF AtImport
<1>1. /\ statements \in Seq(Import) /\ frame.rest \in Seq(Import)
      /\ frame.imports \in Seq(Outcome) /\ n \in Nat
      /\ Consts(frame.file) \in Nat /\ frame.compiled \in BOOLEAN
  BY StatementsType DEF FrameType
<1>2. /\ Len(statements) = n + Len(frame.rest)
      /\ \A i \in DOMAIN frame.rest : frame.rest[i] = statements[n + i]
      /\ \A i \in 1 .. n : frame.imports[i] = None => statements[i].caught
  BY DEF Ran
<1>3. /\ Len(longer) = n + 1 /\ longer[n + 1] = o
      /\ \A i \in 1 .. n : longer[i] = frame.imports[i]
  BY <1>1
<1>4. /\ Len(Tail(frame.rest)) = Len(frame.rest) - 1 /\ 1 \in DOMAIN frame.rest
      /\ Len(frame.rest) \in Nat
      /\ \A i \in DOMAIN Tail(frame.rest) :
           i \in Nat /\ i + 1 \in DOMAIN frame.rest /\ Tail(frame.rest)[i] = frame.rest[i + 1]
  BY <1>0, <1>1
<1>5. Head(frame.rest) = statements[n + 1]
  BY <1>0, <1>1, <1>2, <1>4
<1>9. /\ frame.compiled => n >= Consts(frame.file) /\ Archive[frame.file].compiles
      /\ ~ frame.compiled => n + 1 <= Consts(frame.file)
  BY <1>1 DEF Ran, AtImport
<1>10. Asked(frame.file, frame.source, n + 1) = FilePath(Head(frame.rest).path, Parent(SourceOf(frame)))
  <2>1. (IF n + 1 <= Consts(frame.file) THEN None ELSE frame.source) = SourceOf(frame)
    BY <1>1, <1>9 DEF SourceOf
  <2> QED  BY <1>5, <2>1 DEF Asked
<1>11. IF frame.compiled THEN Len(longer) >= Consts(frame.file) /\ Archive[frame.file].compiles
                        ELSE Len(longer) <= Consts(frame.file)
  BY <1>1, <1>3, <1>9
<1> HIDE DEF longer, statements, n
<1>6. Len(statements) = Len(longer) + Len(Tail(frame.rest))
  <2>1. n \in Nat /\ Len(frame.rest) \in Nat  BY <1>1, <1>4
  <2>2. Len(statements) = n + Len(frame.rest)  BY <1>2
  <2>3. Len(longer) = n + 1 /\ Len(Tail(frame.rest)) = Len(frame.rest) - 1  BY <1>3, <1>4
  <2>4. ASSUME NEW a \in Nat, NEW b \in Nat  PROVE a + b = (a + 1) + (b - 1)
    OBVIOUS
  <2> QED  BY ONLY <2>1, <2>2, <2>3, <2>4, Zenon
<1>7. \A i \in DOMAIN Tail(frame.rest) : Tail(frame.rest)[i] = statements[Len(longer) + i]
  <2> TAKE i \in DOMAIN Tail(frame.rest)
  <2>1. n \in Nat /\ i \in Nat /\ Len(longer) = n + 1  BY <1>1, <1>3, <1>4
  <2>2. n + (i + 1) = Len(longer) + i  BY ONLY <2>1
  <2>3. i + 1 \in DOMAIN frame.rest /\ Tail(frame.rest)[i] = frame.rest[i + 1]  BY <1>4
  <2>4. frame.rest[i + 1] = statements[n + (i + 1)]  BY <1>2, <2>3
  <2> QED  BY <2>2, <2>3, <2>4, Zenon
<1>8. \A i \in 1 .. Len(longer) : longer[i] = None => statements[i].caught
  BY <1>1, <1>2, <1>3, <1>5
<1>12. /\ GoesOn(frame, o).file = frame.file /\ GoesOn(frame, o).compiled = frame.compiled
       /\ GoesOn(frame, o).rest = Tail(frame.rest) /\ GoesOn(frame, o).imports = longer
  BY <1>0, GoesOnIs DEF longer
<1>13. Ran(GoesOn(frame, o))
  BY ONLY <1>6, <1>7, <1>8, <1>11, <1>12 DEF Ran, statements
<1> QED  BY <1>10, <1>13 DEF n

-----------------------------------------------------------------------------
(* Steps of the stack, by what they do to it.                              *)

(* A resolver that nobody has used.                                         *)
LEMMA InitInvariant == Init => IInv
<1> SUFFICES ASSUME Init PROVE IInv
  OBVIOUS
<1>1. DOMAIN cache = {} /\ stack = <<>> /\ DOMAIN stack = {} /\ stack \in Seq(FrameType)
  BY DEF Init
<1>2. /\ cache_enabled = TRUE /\ result = "none" /\ unwinding = FALSE
      /\ made = 0 /\ renewed = {} /\ rounds = 0
  BY DEF Init
<1>3. \A f \in DOMAIN cache : FALSE
  BY <1>1
<1>4. TypeOK
  <2>1. DOMAIN cache \subseteq Files /\ renewed \subseteq Files  BY <1>1, <1>2
  <2>2. {made, rounds} \subseteq Nat  BY <1>2
  <2> QED  BY <1>1, <1>2, <1>3, <2>1, <2>2 DEF TypeOK
<1> QED
  BY <1>1, <1>4 DEF Init, IInv, FramesInOrder, CirclesAreRenewed, FramesShare,
                    CacheIsComplete, SharedInstances, EvaluatedOnce

(* No scripts are left, or there were none: nothing is asked of the stack.  *)
LEMMA EmptyKeeps ==
  ASSUME stack' = <<>>, ~ unwinding'
  PROVE  /\ stack' \in Seq(FrameType)
         /\ FramesInOrder' /\ CirclesAreRenewed' /\ FramesShare' /\ EvaluatedOnce'
BY DEF FramesInOrder, CirclesAreRenewed, FramesShare, EvaluatedOnce

(* Catch, and an import that the cache answers: the innermost script goes   *)
(* on, with the module that the cache has or with a failure it catches.     *)
LEMMA AdvanceKeeps ==
  ASSUME IInv, stack # <<>>, AtImport(Top),
         NEW o \in Outcome,
         o = None => Head(Top.rest).caught,
         o # None /\ cache_enabled => File \in DOMAIN cache /\ cache[File].id = o,
         stack' = Append(Caller, GoesOn(Top, o)), unwinding' = FALSE,
         UNCHANGED <<cache_enabled, cache, made, renewed, result, rounds>>
  PROVE  IInv'
<1> DEFINE n == Len(stack)
           top == GoesOn(Top, o)
<1>1. stack \in Seq(FrameType)
  BY DEF IInv, TypeOK
<1>2. /\ n \in Nat \ {0} /\ Top = stack[n] /\ Top \in FrameType
      /\ top \in FrameType /\ top.file = Top.file /\ top.source = Top.source
      /\ top.compiled = Top.compiled /\ Top.rest # <<>> /\ top.imports = Append(Top.imports, o)
  BY <1>1, StackParts, GoesOnIs DEF AtImport
<1>3. /\ stack' \in Seq(FrameType) /\ Len(stack') = n /\ stack'[n] = top
      /\ \A k \in 1 .. n - 1 : stack'[k] = stack[k]
      /\ DOMAIN stack = 1 .. n /\ DOMAIN stack' = 1 .. n
  BY <1>1, <1>2, TopReplaced
<1> HIDE DEF n, top
<1>4. \A k \in 1 .. n : /\ stack'[k].file = stack[k].file /\ stack'[k].source = stack[k].source
                        /\ stack'[k].compiled = stack[k].compiled
  BY <1>2, <1>3
<1>5. TypeOK'
  BY <1>3 DEF IInv, TypeOK
<1>6. n > 1 => /\ Top.file \in Files /\ Ran(top)
               /\ Asked(Top.file, Top.source, Len(Top.imports) + 1) = File
  BY <1>2, <1>3, GoesOnRan DEF IInv, FramesInOrder, top, File
<1>7. FramesInOrder'
  <2>1. ASSUME NEW k \in 1 .. n, k > 1
        PROVE  /\ stack'[k].file \in Files
               /\ Ran(stack'[k])
               /\ AtImport(stack'[k - 1])
               /\ stack'[k].source = Head(stack'[k - 1].rest).path
               /\ stack'[k].file = FilePath(Head(stack'[k - 1].rest).path, Parent(SourceOf(stack'[k - 1])))
    <3>1. k - 1 \in 1 .. n - 1 /\ stack'[k - 1] = stack[k - 1]  BY <1>2, <1>3, <2>1
    <3>2. /\ stack[k].file \in Files
          /\ Ran(stack[k])
          /\ AtImport(stack[k - 1])
          /\ stack[k].source = Head(stack[k - 1].rest).path
          /\ stack[k].file = FilePath(Head(stack[k - 1].rest).path, Parent(SourceOf(stack[k - 1])))
      BY <1>3, <2>1 DEF IInv, FramesInOrder
    <3>3. Ran(stack'[k])
      BY <1>2, <1>3, <1>6, <2>1, <3>2
    <3> QED  BY <1>4, <3>1, <3>2, <3>3
  <2>2. \A k \in 1 .. n : k = 1 => stack'[k].file = None /\ stack'[k].compiled
    BY <1>3, <1>4 DEF IInv, FramesInOrder
  <2> QED  BY <1>3, <2>1, <2>2 DEF FramesInOrder
<1>8. CirclesAreRenewed' /\ EvaluatedOnce'
  BY <1>3, <1>4 DEF IInv, CirclesAreRenewed, EvaluatedOnce
<1>9. CacheIsComplete' /\ SharedInstances'
  BY DEF IInv, CacheIsComplete, SharedInstances
<1>10. FramesShare'
  <2>0. UNCHANGED <<cache_enabled, cache, renewed>>
    OBVIOUS
  <2> SUFFICES ASSUME cache_enabled, NEW k \in 1 .. n, k > 1
               PROVE  FrameShares(stack[k])'
    BY <1>3, <2>0 DEF FramesShare
  <2> DEFINE file(m) == Asked(stack'[k].file, stack'[k].source, m)
  <2> SUFFICES \A m \in DOMAIN stack'[k].imports :
                 stack'[k].imports[m] # None /\ file(m) \notin renewed =>
                   file(m) \in DOMAIN cache /\ cache[file(m)].id = stack'[k].imports[m]
    BY <2>0, Zenon DEF FrameShares
  <2> TAKE m \in DOMAIN stack'[k].imports
  <2> HAVE stack'[k].imports[m] # None /\ file(m) \notin renewed
  <2>1. FrameShares(stack[k])
    BY <1>3 DEF IInv, FramesShare
  <2>2. CASE stack'[k].imports = stack[k].imports
    BY <1>4, <2>1, <2>2 DEF FrameShares
  <2>3. CASE k = n
    <3>1. Top.imports \in Seq(Outcome)  BY <1>2 DEF FrameType
    <3>2. CASE m \in DOMAIN Top.imports /\ stack'[k].imports[m] = Top.imports[m]
      <4>1. Top = stack[k]  BY <1>2, <2>3
      <4>2. file(m) = Asked(stack[k].file, stack[k].source, m)
        BY <1>4
      <4>3. m \in DOMAIN stack[k].imports /\ stack[k].imports[m] # None
        BY <3>2, <4>1
      <4>4. file(m) \in DOMAIN cache /\ cache[file(m)].id = stack[k].imports[m]
        BY <2>1, <4>2, <4>3 DEF FrameShares
      <4> QED  BY <3>2, <4>1, <4>4
    <3>3. CASE m = Len(Top.imports) + 1 /\ stack'[k].imports[m] = o
      <4>1. file(m) = File
        BY <1>2, <1>4, <1>6, <2>3, <3>3 DEF File
      <4> QED  BY <3>3, <4>1
    <3>4. \/ m \in DOMAIN Top.imports /\ stack'[k].imports[m] = Top.imports[m]
          \/ m = Len(Top.imports) + 1 /\ stack'[k].imports[m] = o
      <4>1. stack'[k].imports = Append(Top.imports, o)  BY <1>2, <1>3, <2>3
      <4>2. m \in DOMAIN Append(Top.imports, o)  BY <4>1
      <4>3. \/ m \in DOMAIN Top.imports /\ Append(Top.imports, o)[m] = Top.imports[m]
            \/ m = Len(Top.imports) + 1 /\ Append(Top.imports, o)[m] = o
        BY <3>1, <4>2
      <4> QED  BY <4>1, <4>3
    <3> QED  BY <3>2, <3>3, <3>4
  <2>4. k = n \/ stack'[k] = stack[k]
    BY <1>2, <1>3
  <2> QED  BY <2>2, <2>3, <2>4
<1> QED  BY <1>5, <1>7, <1>8, <1>9, <1>10 DEF IInv

(* Unwind and CompileFails: the innermost script is gone, and the one       *)
(* outside it is at the import of it.                                       *)
LEMMA UnwindKeeps ==
  ASSUME IInv, stack # <<>>, Len(stack) > 1, stack' = Caller, unwinding' = TRUE,
         UNCHANGED <<cache_enabled, cache, result, made, renewed, rounds>>
  PROVE  IInv'
<1>1. stack \in Seq(FrameType) /\ stack # <<>> /\ Len(stack) > 1
  BY DEF IInv, TypeOK
<1> DEFINE n == Len(stack) - 1
<1>2. /\ n \in Nat \ {0} /\ stack' \in Seq(FrameType) /\ Len(stack') = n
      /\ \A k \in 1 .. n : stack'[k] = stack[k]
      /\ DOMAIN stack = 1 .. n + 1 /\ DOMAIN stack' = 1 .. n
      /\ stack' # <<>> /\ stack'[n] \in FrameType
  BY <1>1, StackParts
<1> HIDE DEF n
<1>3. Top' = stack[n]
  BY <1>2 DEF Top, Seqs!Last
<1>4. FramesInOrder'
  <2>1. AtImport(stack[n])
    <3>1. n + 1 \in DOMAIN stack /\ n + 1 > 1 /\ (n + 1) - 1 = n  BY <1>2
    <3> QED  BY <3>1 DEF IInv, FramesInOrder
  <2>2. \A k \in 1 .. n : k > 1 => k - 1 \in 1 .. n /\ k \in 1 .. n + 1
    BY <1>2
  <2>3. 1 \in DOMAIN stack  BY <1>2
  <2> QED  BY <1>2, <1>3, <2>1, <2>2, <2>3 DEF IInv, FramesInOrder
<1>5. UNCHANGED <<cache_enabled, cache, result, made, renewed, rounds>> /\ unwinding' = TRUE
  OBVIOUS
<1>6. \A k \in 1 .. n : k \in 1 .. n + 1  BY <1>2
<1>7. CirclesAreRenewed' /\ EvaluatedOnce' /\ FramesShare'
  BY <1>2, <1>5, <1>6 DEF IInv, CirclesAreRenewed, EvaluatedOnce, FramesShare, FrameShares
<1>8. CacheIsComplete' /\ SharedInstances'
  BY <1>5 DEF IInv, CacheIsComplete, SharedInstances
<1>9. TypeOK'
  BY <1>2, <1>5 DEF IInv, TypeOK
<1> QED  BY <1>4, <1>7, <1>8, <1>9 DEF IInv

(* ResolveBegins: a file that is not in the cache becomes the innermost     *)
(* script; if it is on the stack already, that is noted.                    *)
LEMMA BeginsKeeps ==
  ASSUME IInv, ResolveBegins
  PROVE  IInv'
<1> DEFINE n == Len(stack)
           new == Frame(File, Head(Top.rest).path, FALSE, Statements(File))
<1>1. /\ stack \in Seq(FrameType) /\ stack # <<>> /\ Top.rest # <<>> /\ ~ unwinding
      /\ File \in Files /\ AtImport(Top)
      /\ ~ (cache_enabled /\ File \in DOMAIN cache)
  BY DEF IInv, TypeOK, ResolveBegins, Importing, Evaluating, AtImport, Files, Hit
<1>2. n \in Nat \ {0} /\ Top = stack[n] /\ Top \in FrameType
  BY <1>1, StackParts
<1>3. Head(Top.rest).path \in Path
  <2>1. Top.rest \in Seq(Import)  BY <1>2 DEF FrameType
  <2>2. Head(Top.rest) \in Import  BY <1>1, <2>1
  <2> QED  BY <2>2 DEF Import
<1>4. /\ new \in FrameType /\ new.file = File /\ new.source = Head(Top.rest).path
      /\ ~ new.compiled /\ new.rest = Statements(File) /\ new.imports = <<>>
  BY <1>1, <1>3, StatementsType DEF Frame, FrameType
<1>5. Ran(new)
  <2> DEFINE statements == Statements(File)
  <2>1. statements \in Seq(Import)  BY <1>1, StatementsType
  <2> HIDE DEF new
  <2>2. /\ Len(new.imports) = 0 /\ new.rest = statements /\ Statements(new.file) = statements
        /\ 1 .. 0 = {} /\ DOMAIN statements = 1 .. Len(statements) /\ Len(statements) \in Nat
    BY <1>4, <2>1
  <2> HIDE DEF statements, n
  <2>3. /\ Len(statements) = 0 + Len(statements)
        /\ \A i \in 1 .. Len(statements) : 0 + i = i
    BY <2>2
  <2>4. Len(new.imports) <= Consts(new.file)
    BY <1>1, <1>4, <2>2, StatementsType
  <2> QED  BY <1>4, <2>2, <2>3, <2>4 DEF Ran
<1>6. stack' = Append(stack, new)
  BY DEF ResolveBegins
<1> HIDE DEF n, new
<1>7. /\ stack' \in Seq(FrameType) /\ Len(stack') = n + 1 /\ stack'[n + 1] = new
      /\ \A k \in 1 .. n : stack'[k] = stack[k]
      /\ DOMAIN stack = 1 .. n /\ DOMAIN stack' = 1 .. n + 1
  BY <1>1, <1>2, <1>4, <1>6 DEF n
<1>8. \A k \in 1 .. n + 1 : k = n + 1 \/ k \in 1 .. n
  BY <1>2
<1>9. /\ renewed' = IF \E k \in 1 .. n : stack[k].file = File THEN renewed \cup {File} ELSE renewed
      /\ renewed \subseteq renewed' /\ renewed' \subseteq Files
      /\ UNCHANGED <<cache_enabled, cache, result, unwinding, made, rounds>>
  BY <1>1, <1>7 DEF ResolveBegins, IInv, TypeOK
<1>10. TypeOK'
  BY <1>7, <1>9 DEF IInv, TypeOK
<1>11. FramesInOrder'
  <2>1. ASSUME NEW k \in 1 .. n + 1, k > 1
        PROVE  /\ stack'[k].file \in Files
               /\ Ran(stack'[k])
               /\ AtImport(stack'[k - 1])
               /\ stack'[k].source = Head(stack'[k - 1].rest).path
               /\ stack'[k].file = FilePath(Head(stack'[k - 1].rest).path, Parent(SourceOf(stack'[k - 1])))
    <3>1. CASE k = n + 1
      <4>1. stack'[k - 1] = Top /\ stack'[k] = new  BY <1>2, <1>7, <3>1
      <4> QED  BY <1>1, <1>4, <1>5, <4>1 DEF File
    <3>2. CASE k \in 1 .. n
      <4>1. stack'[k] = stack[k] /\ stack'[k - 1] = stack[k - 1]  BY <1>2, <1>7, <2>1, <3>2
      <4> QED  BY <1>7, <2>1, <3>2, <4>1 DEF IInv, FramesInOrder
    <3> QED  BY <1>8, <3>1, <3>2
  <2>2. \A k \in 1 .. n + 1 : k = 1 => stack'[k].file = None /\ stack'[k].compiled
    BY <1>2, <1>7 DEF IInv, FramesInOrder
  <2> QED  BY <1>1, <1>7, <1>9, <2>1, <2>2 DEF FramesInOrder
<1>12. CirclesAreRenewed'
  <2> SUFFICES ASSUME NEW j \in 1 .. n + 1, NEW k \in 1 .. n + 1,
                      j < k, stack'[j].file = stack'[k].file
               PROVE  stack'[k].file \in renewed'
    BY <1>7 DEF CirclesAreRenewed
  <2>1. j \in 1 .. n  BY <1>2
  <2>2. CASE k \in 1 .. n
    BY <1>7, <1>9, <2>1, <2>2 DEF IInv, CirclesAreRenewed
  <2>3. CASE k = n + 1
    <3>1. stack[j].file = File /\ stack'[k].file = File  BY <1>4, <1>7, <2>1, <2>3
    <3> QED  BY <1>9, <2>1, <3>1
  <2> QED  BY <1>8, <2>2, <2>3
<1>13. EvaluatedOnce'
  <2> SUFFICES ASSUME cache_enabled, NEW k \in 1 .. n + 1, stack'[k].file \in DOMAIN cache
               PROVE  stack'[k].file \in renewed'
    BY <1>7, <1>9 DEF EvaluatedOnce
  <2>1. k # n + 1  BY <1>1, <1>4, <1>7
  <2> QED  BY <1>7, <1>8, <1>9, <2>1 DEF IInv, EvaluatedOnce
<1>14. CacheIsComplete' /\ SharedInstances'
  BY <1>9 DEF IInv, CacheIsComplete, SharedInstances
<1>15. FramesShare'
  <2> SUFFICES ASSUME cache_enabled, NEW k \in 1 .. n + 1, k > 1,
                      NEW m \in DOMAIN stack'[k].imports,
                      NEW file, file = Asked(stack'[k].file, stack'[k].source, m),
                      stack'[k].imports[m] # None, file \notin renewed
               PROVE  file \in DOMAIN cache /\ cache[file].id = stack'[k].imports[m]
    BY <1>7, <1>9 DEF FramesShare, FrameShares
  <2>1. k # n + 1
    BY <1>4, <1>7
  <2>2. k \in 1 .. n /\ stack'[k] = stack[k]
    BY <1>7, <1>8, <2>1
  <2>3. FrameShares(stack[k])
    BY <1>7, <2>2 DEF IInv, FramesShare
  <2> QED  BY <2>2, <2>3 DEF FrameShares
<1> QED  BY <1>10, <1>11, <1>12, <1>13, <1>14, <1>15 DEF IInv

(* Compile: the const part is behind the innermost script, which has its    *)
(* source from here on.                                                     *)
LEMMA CompileKeeps ==
  ASSUME IInv, Compile
  PROVE  IInv'
<1> DEFINE n   == Len(stack)
           top == [Top EXCEPT !.compiled = TRUE]
<1>1. /\ stack \in Seq(FrameType) /\ stack # <<>> /\ ~ unwinding
      /\ ~ Top.compiled /\ Len(Top.imports) = Consts(Top.file) /\ Archive[Top.file].compiles
  BY DEF IInv, TypeOK, Compile, Compiling, Evaluating
<1>2. n \in Nat \ {0} /\ Top = stack[n] /\ Top \in FrameType
  BY <1>1, StackParts
<1>3. /\ top \in FrameType /\ top.file = Top.file /\ top.source = Top.source
      /\ top.compiled /\ top.rest = Top.rest /\ top.imports = Top.imports
  BY <1>2 DEF FrameType
<1>4. stack' = Append(Caller, top)
  BY DEF Compile
<1> HIDE DEF n, top
<1>5. /\ stack' \in Seq(FrameType) /\ Len(stack') = n /\ stack'[n] = top
      /\ \A k \in 1 .. n - 1 : stack'[k] = stack[k]
      /\ DOMAIN stack = 1 .. n /\ DOMAIN stack' = 1 .. n
  BY <1>1, <1>2, <1>3, <1>4, TopReplaced DEF n
<1>6. \A k \in 1 .. n : /\ stack'[k].file = stack[k].file /\ stack'[k].source = stack[k].source
                        /\ stack'[k].rest = stack[k].rest /\ stack'[k].imports = stack[k].imports
                        /\ k # n => stack'[k] = stack[k]
  BY <1>2, <1>3, <1>5
<1>7. UNCHANGED <<cache_enabled, cache, result, unwinding, made, renewed, rounds>>
  BY DEF Compile
<1>8. TypeOK'
  BY <1>5, <1>7 DEF IInv, TypeOK
<1>9. n > 1 => Ran(top)
  <2> SUFFICES ASSUME n > 1  PROVE Ran(top)
    OBVIOUS
  <2>1. Ran(Top) /\ Top.file \in Files
    BY <1>2, <1>5 DEF IInv, FramesInOrder
  <2>2. Consts(Top.file) \in Nat
    BY <2>1, StatementsType
  <2> QED  BY <1>1, <1>3, <2>1, <2>2 DEF Ran
<1>10. FramesInOrder'
  <2>1. ASSUME NEW k \in 1 .. n, k > 1
        PROVE  /\ stack'[k].file \in Files
               /\ Ran(stack'[k])
               /\ AtImport(stack'[k - 1])
               /\ stack'[k].source = Head(stack'[k - 1].rest).path
               /\ stack'[k].file = FilePath(Head(stack'[k - 1].rest).path, Parent(SourceOf(stack'[k - 1])))
    <3>1. k - 1 \in 1 .. n - 1 /\ stack'[k - 1] = stack[k - 1]  BY <1>2, <1>5, <2>1
    <3>2. /\ stack[k].file \in Files
          /\ Ran(stack[k])
          /\ AtImport(stack[k - 1])
          /\ stack[k].source = Head(stack[k - 1].rest).path
          /\ stack[k].file = FilePath(Head(stack[k - 1].rest).path, Parent(SourceOf(stack[k - 1])))
      BY <1>5, <2>1 DEF IInv, FramesInOrder
    <3>3. Ran(stack'[k])
      BY <1>5, <1>6, <1>9, <2>1, <3>2
    <3> QED  BY <1>6, <3>1, <3>2, <3>3
  <2>2. \A k \in 1 .. n : k = 1 => stack'[k].file = None /\ stack'[k].compiled
    BY <1>3, <1>5, <1>6 DEF IInv, FramesInOrder
  <2> QED  BY <1>1, <1>5, <1>7, <2>1, <2>2 DEF FramesInOrder
<1>11. CirclesAreRenewed' /\ EvaluatedOnce'
  BY <1>5, <1>6, <1>7 DEF IInv, CirclesAreRenewed, EvaluatedOnce
<1>12. CacheIsComplete' /\ SharedInstances'
  BY <1>7 DEF IInv, CacheIsComplete, SharedInstances
<1>13. FramesShare'
  BY <1>5, <1>6, <1>7 DEF IInv, FramesShare, FrameShares
<1> QED  BY <1>8, <1>10, <1>11, <1>12, <1>13 DEF IInv

(* ResolveEnds: the innermost script is at its end, so that its module is   *)
(* whole; nobody has got another one of the file, unless it was renewed.    *)
LEMMA EndsKeeps ==
  ASSUME IInv, ResolveEnds
  PROVE  IInv'
<1> DEFINE n     == Len(stack) - 1
           outer == stack[n]
           later == GoesOn(outer, made + 1)
<1>1. /\ stack \in Seq(FrameType) /\ stack # <<>> /\ Len(stack) > 1
      /\ Top.rest = <<>> /\ Top.compiled /\ ~ unwinding /\ made \in Nat
  BY DEF IInv, TypeOK, ResolveEnds, Evaluating
<1>2. /\ n \in Nat \ {0} /\ DOMAIN stack = 1 .. n + 1 /\ Top = stack[n + 1] /\ Top \in FrameType
      /\ Caller \in Seq(FrameType) /\ Len(Caller) = n /\ Caller # <<>>
      /\ \A k \in 1 .. n : Caller[k] = stack[k]
      /\ outer = Caller[n] /\ outer \in FrameType
  BY <1>1, StackParts
<1>3. Seqs!Last(Caller) = outer /\ stack' = Append(Seqs!Front(Caller), later)
  BY <1>2 DEF Seqs!Last, ResolveEnds
<1>4. /\ outer.rest # <<>> /\ AtImport(outer)
      /\ Top.file \in Files /\ Archive[Top.file].compiles /\ Ran(Top)
      /\ Top.source = Head(outer.rest).path
      /\ Top.file = FilePath(Head(outer.rest).path, Parent(SourceOf(outer)))
  <2>1. n + 1 \in DOMAIN stack /\ n + 1 > 1 /\ (n + 1) - 1 = n  BY <1>2
  <2>2. Ran(Top)
    BY <1>2, <2>1 DEF IInv, FramesInOrder
  <2>3. /\ AtImport(outer) /\ Top.file \in Files
        /\ Top.source = Head(outer.rest).path
        /\ Top.file = FilePath(Head(outer.rest).path, Parent(SourceOf(outer)))
    BY <1>2, <2>1 DEF IInv, FramesInOrder
  <2>4. outer.rest # <<>>  BY <2>3 DEF AtImport
  <2>5. Archive[Top.file].compiles  BY <1>1, <2>2 DEF Ran
  <2> QED  BY <2>2, <2>3, <2>4, <2>5
<1>5. made + 1 \in Outcome /\ made + 1 # None
  BY <1>1, BasePathAssumption DEF Outcome
<1>6. /\ later \in FrameType /\ later.file = outer.file /\ later.source = outer.source
      /\ later.compiled = outer.compiled
      /\ later.rest = Tail(outer.rest) /\ later.imports = Append(outer.imports, made + 1)
  BY <1>2, <1>4, <1>5, GoesOnIs
<1>7. /\ stack' \in Seq(FrameType) /\ Len(stack') = n /\ stack'[n] = later
      /\ \A k \in 1 .. n - 1 : stack'[k] = stack[k]
      /\ DOMAIN stack' = 1 .. n
  <2>1. /\ stack' \in Seq(FrameType) /\ Len(stack') = n /\ stack'[n] = later
        /\ \A k \in 1 .. n - 1 : stack'[k] = Caller[k]
        /\ DOMAIN stack' = 1 .. n
    <3>1. PICK s \in Seq(FrameType) : s = Caller  BY <1>2
    <3>2. PICK f \in FrameType : f = later  BY <1>6
    <3>3. stack' = Append(Seqs!Front(s), f) /\ s # <<>> /\ Len(s) = n
      BY <1>2, <1>3, <3>1, <3>2
    <3> HIDE DEF n, outer, later
    <3> QED  BY <3>1, <3>2, <3>3, AppendToFront
  <2>2. \A k \in 1 .. n - 1 : k \in 1 .. n  BY <1>2
  <2> QED  BY <1>2, <2>1, <2>2
<1>8. UNCHANGED <<cache_enabled, result, unwinding, renewed, rounds>> /\ made' = made + 1
  BY DEF ResolveEnds
<1> HIDE DEF n, outer, later
<1>9. \A k \in 1 .. n : /\ k \in 1 .. n + 1
                        /\ stack'[k].file = stack[k].file
                        /\ stack'[k].source = stack[k].source
                        /\ stack'[k].compiled = stack[k].compiled
  BY <1>2, <1>6, <1>7
<1>10. \A f \in DOMAIN cache' :
         \/ f \in DOMAIN cache /\ cache'[f] = cache[f] /\ (f # Top.file \/ ~ cache_enabled)
         \/ cache_enabled /\ f = Top.file /\ cache'[f] = Module
  BY DEF ResolveEnds, Cached
<1>11. /\ DOMAIN cache \subseteq DOMAIN cache'
       /\ \A f \in DOMAIN cache : f # Top.file => cache'[f] = cache[f]
       /\ cache_enabled => Top.file \in DOMAIN cache' /\ cache'[Top.file] = Module
       /\ ~ cache_enabled => cache' = cache
  BY DEF ResolveEnds, Cached
<1>12. /\ Module.id = made + 1 /\ Module.source = Top.source /\ Module.imports = Top.imports
  BY DEF Module
<1>13. cache_enabled /\ Top.file \in DOMAIN cache => Top.file \in renewed
  BY <1>2 DEF IInv, EvaluatedOnce
<1>14. TypeOK'
  <2>1. Top.source \in Path /\ Top.imports \in Seq(Outcome)
    <3>1. outer.rest \in Seq(Import)  BY <1>2 DEF FrameType
    <3>2. Head(outer.rest) \in Import  BY <1>4, <3>1
    <3> QED  BY <1>2, <1>4, <3>2 DEF Import, FrameType
  <2>2. \A f \in DOMAIN cache' : /\ cache'[f].id \in 1 .. made'
                                 /\ cache'[f].source \in Path
                                 /\ cache'[f].imports \in Seq(Outcome)
    BY <1>1, <1>8, <1>10, <1>12, <2>1 DEF IInv, TypeOK
  <2>3. DOMAIN cache' \subseteq Files
    BY <1>4, <1>10 DEF IInv, TypeOK
  <2> QED  BY <1>1, <1>7, <1>8, <2>2, <2>3 DEF IInv, TypeOK
<1>15. n > 1 => outer.file \in Files /\ Ran(outer)
  BY <1>2 DEF IInv, FramesInOrder, outer
<1>16. n > 1 => /\ Ran(later)
                /\ Asked(outer.file, outer.source, Len(outer.imports) + 1) =
                     FilePath(Head(outer.rest).path, Parent(SourceOf(outer)))
  BY <1>2, <1>4, <1>5, <1>15, GoesOnRan DEF later
<1>17. FramesInOrder'
  <2>1. ASSUME NEW k \in 1 .. n, k > 1
        PROVE  /\ stack'[k].file \in Files
               /\ Ran(stack'[k])
               /\ AtImport(stack'[k - 1])
               /\ stack'[k].source = Head(stack'[k - 1].rest).path
               /\ stack'[k].file = FilePath(Head(stack'[k - 1].rest).path, Parent(SourceOf(stack'[k - 1])))
    <3>1. k - 1 \in 1 .. n - 1 /\ stack'[k - 1] = stack[k - 1]  BY <1>2, <1>7, <2>1
    <3>2. /\ stack[k].file \in Files
          /\ Ran(stack[k])
          /\ AtImport(stack[k - 1])
          /\ stack[k].source = Head(stack[k - 1].rest).path
          /\ stack[k].file = FilePath(Head(stack[k - 1].rest).path, Parent(SourceOf(stack[k - 1])))
      BY <1>2, <1>9, <2>1 DEF IInv, FramesInOrder
    <3>3. Ran(stack'[k])
      BY <1>2, <1>7, <1>16, <2>1, <3>2
    <3> QED  BY <1>9, <3>1, <3>2, <3>3
  <2>2. \A k \in 1 .. n : k = 1 => stack'[k].file = None /\ stack'[k].compiled
    BY <1>2, <1>9 DEF IInv, FramesInOrder
  <2> QED  BY <1>1, <1>7, <1>8, <2>1, <2>2 DEF FramesInOrder
<1>18. CirclesAreRenewed'
  BY <1>2, <1>7, <1>8, <1>9 DEF IInv, CirclesAreRenewed
<1>19. EvaluatedOnce'
  <2> SUFFICES ASSUME cache_enabled, NEW k \in 1 .. n, stack'[k].file \in DOMAIN cache'
               PROVE  stack'[k].file \in renewed
    BY <1>7, <1>8 DEF EvaluatedOnce
  <2>1. CASE stack[k].file \in DOMAIN cache
    BY <1>2, <1>9, <2>1 DEF IInv, EvaluatedOnce
  <2>2. CASE stack[k].file = Top.file
    <3>1. k < n + 1 /\ n + 1 \in DOMAIN stack /\ k \in DOMAIN stack  BY <1>2
    <3> QED  BY <1>2, <1>9, <2>2, <3>1 DEF IInv, CirclesAreRenewed
  <2> QED  BY <1>9, <1>10, <2>1, <2>2
<1>20. CacheIsComplete'
  <2>1. /\ Len(Top.imports) = Len(Statements(Top.file))
        /\ \A m \in DOMAIN Statements(Top.file) :
             Top.imports[m] = None => Statements(Top.file)[m].caught
    <3>1. Top.imports \in Seq(Outcome) /\ Statements(Top.file) \in Seq(Import)
      BY <1>2, <1>4, StatementsType DEF FrameType
    <3>2. Len(Top.rest) = 0  BY <1>1
    <3> QED  BY <1>4, <3>1, <3>2 DEF Ran
  <2> QED  BY <1>4, <1>10, <1>12, <2>1 DEF IInv, CacheIsComplete
<1>21. ASSUME cache_enabled, NEW g, NEW o, o # None, g \notin renewed,
              g \in DOMAIN cache, cache[g].id = o
       PROVE  g \in DOMAIN cache' /\ cache'[g].id = o
  BY <1>11, <1>13, <1>21
<1>22. SharedInstances'
  <2> SUFFICES ASSUME NEW f \in DOMAIN cache', NEW m \in DOMAIN Statements(f),
                      NEW file, file = Asked(f, cache'[f].source, m),
                      cache'[f].imports[m] # None, file \notin renewed
               PROVE  file \in DOMAIN cache' /\ cache'[file].id = cache'[f].imports[m]
    BY <1>8 DEF SharedInstances
  <2>1. CASE f \in DOMAIN cache /\ cache'[f] = cache[f]
    <3>1. file \in DOMAIN cache /\ cache[file].id = cache[f].imports[m]
      BY <2>1 DEF IInv, SharedInstances
    <3>2. CASE cache_enabled
      BY <1>21, <2>1, <3>1, <3>2
    <3>3. CASE ~ cache_enabled
      BY <1>11, <3>1, <3>3
    <3> QED  BY <3>2, <3>3
  <2>2. CASE cache_enabled /\ f = Top.file /\ cache'[f] = Module
    <3>1. FrameShares(Top)
      BY <1>2, <2>2 DEF IInv, FramesShare
    <3>2. DOMAIN Top.imports = DOMAIN Statements(Top.file)
      <4>1. Top.imports \in Seq(Outcome) /\ Statements(Top.file) \in Seq(Import)
        BY <1>2, <1>4, StatementsType DEF FrameType
      <4> QED  BY <1>1, <1>4, <4>1 DEF Ran
    <3>3. m \in DOMAIN Top.imports /\ Top.imports[m] = cache'[f].imports[m]
      BY <1>12, <2>2, <3>2
    <3>4. file = Asked(Top.file, Top.source, m)
      BY <1>12, <2>2
    <3>5. file \in DOMAIN cache /\ cache[file].id = Top.imports[m]
      BY <3>1, <3>3, <3>4 DEF FrameShares
    <3> QED  BY <1>21, <2>2, <3>3, <3>5
  <2> QED  BY <1>10, <2>1, <2>2
<1>23. FramesShare'
  <2> SUFFICES ASSUME cache_enabled, NEW k \in 1 .. n, k > 1,
                      NEW m \in DOMAIN stack'[k].imports,
                      NEW file, file = Asked(stack'[k].file, stack'[k].source, m),
                      stack'[k].imports[m] # None, file \notin renewed
               PROVE  file \in DOMAIN cache' /\ cache'[file].id = stack'[k].imports[m]
    BY <1>7, <1>8 DEF FramesShare, FrameShares
  <2>1. FrameShares(stack[k])
    BY <1>2, <1>9 DEF IInv, FramesShare
  <2>2. CASE m \in DOMAIN stack[k].imports /\ stack'[k].imports[m] = stack[k].imports[m]
    <3>1. file = Asked(stack[k].file, stack[k].source, m)
      BY <1>9
    <3>2. file \in DOMAIN cache /\ cache[file].id = stack'[k].imports[m]
      BY <2>1, <2>2, <3>1 DEF FrameShares
    <3> QED  BY <1>21, <3>2
  <2>3. CASE k = n /\ m = Len(outer.imports) + 1 /\ stack'[k].imports[m] = made + 1
    <3>1. file = Top.file
      BY <1>2, <1>4, <1>6, <1>7, <1>16, <2>3
    <3> QED  BY <1>11, <1>12, <2>3, <3>1
  <2>4. k \in 1 .. n - 1 \/ k = n
    BY <1>2
  <2>5. CASE k \in 1 .. n - 1
    BY <1>7, <2>2, <2>5
  <2>6. CASE k = n
    <3>1. stack'[k].imports = Append(outer.imports, made + 1) /\ stack[k] = outer
      BY <1>6, <1>7, <2>6 DEF outer
    <3>2. outer.imports \in Seq(Outcome)  BY <1>2 DEF FrameType
    <3>3. m \in DOMAIN Append(outer.imports, made + 1)  BY <3>1
    <3>4. \/ m \in DOMAIN outer.imports /\ Append(outer.imports, made + 1)[m] = outer.imports[m]
          \/ m = Len(outer.imports) + 1 /\ Append(outer.imports, made + 1)[m] = made + 1
      BY <3>2, <3>3
    <3> QED  BY <2>2, <2>3, <2>6, <3>1, <3>4
  <2> QED  BY <2>4, <2>5, <2>6
<1> QED  BY <1>14, <1>17, <1>18, <1>19, <1>20, <1>22, <1>23 DEF IInv

-----------------------------------------------------------------------------
(* All steps.                                                              *)

(* Steps while nothing is under evaluation, and those that leave nothing:   *)
(* files may go from the cache, if they are noted as renewed.               *)
LEMMA IdleKeeps ==
  ASSUME IInv, stack' = <<>>, ~ unwinding', TypeOK',
         made' = made,
         \/ DOMAIN cache' = {}
         \/ /\ DOMAIN cache' \subseteq DOMAIN cache
            /\ \A f \in DOMAIN cache' : cache'[f] = cache[f]
            /\ renewed' = renewed \cup (DOMAIN cache \ DOMAIN cache')
  PROVE  IInv'
<1>1. CacheIsComplete' /\ SharedInstances'
  <2>1. CASE DOMAIN cache' = {}
    BY <2>1 DEF CacheIsComplete, SharedInstances
  <2>2. CASE /\ DOMAIN cache' \subseteq DOMAIN cache
             /\ \A f \in DOMAIN cache' : cache'[f] = cache[f]
             /\ renewed' = renewed \cup (DOMAIN cache \ DOMAIN cache')
    BY <2>2 DEF IInv, CacheIsComplete, SharedInstances
  <2> QED  BY <2>1, <2>2
<1> QED  BY <1>1, EmptyKeeps DEF IInv

(* The types of a resolver whose cache gets nothing new.                    *)
LEMMA TypeKept ==
  ASSUME TypeOK,
         DOMAIN cache' \subseteq DOMAIN cache, \A f \in DOMAIN cache' : cache'[f] = cache[f],
         cache_enabled' \in BOOLEAN, unwinding' \in BOOLEAN, stack' \in Seq(FrameType),
         result' \in {"none", "ok", "err", "trapped"}, renewed' \subseteq Files,
         made' = made, rounds' \in Nat
  PROVE  TypeOK'
<1>1. DOMAIN cache' \subseteq Files /\ {made', rounds'} \subseteq Nat
  BY DEF TypeOK
<1>2. \A f \in DOMAIN cache' : /\ cache'[f].id \in 1 .. made'
                             /\ cache'[f].source \in Path
                             /\ cache'[f].imports \in Seq(Outcome)
  BY DEF TypeOK
<1> QED  BY <1>1, <1>2 DEF TypeOK

(* Each action of the resolver, of those who use it and of the evaluation   *)
(* of scripts, preserves the invariant.                                     *)
LEMMA NextKeeps == IInv /\ [Next]_vars => IInv'
<1> SUFFICES ASSUME IInv, [Next]_vars  PROVE IInv'
  OBVIOUS
<1>0. /\ TypeOK /\ stack \in Seq(FrameType) /\ <<>> \in Seq(FrameType)
      /\ unwinding => stack # <<>> /\ AtImport(Top)
  BY DEF IInv, TypeOK, FramesInOrder
<1>1. CASE ResolveFromCache
  <2>1. cache[File].id \in 1 .. made /\ made \in Nat
    BY <1>0, <1>1 DEF TypeOK, ResolveFromCache, Hit
  <2>2. cache[File].id \in Outcome /\ cache[File].id # None
    BY <2>1, BasePathAssumption DEF Outcome
  <2>3. unwinding' = FALSE /\ stack # <<>> /\ AtImport(Top)
    BY <1>0, <1>1 DEF TypeOK, ResolveFromCache, Importing, Evaluating
  <2> QED
    BY <1>1, <2>2, <2>3, AdvanceKeeps DEF ResolveFromCache, Hit
<1>2. CASE ResolveFails
  <2>1. /\ unwinding' = TRUE /\ stack # <<>> /\ AtImport(Top)
        /\ UNCHANGED <<cache_enabled, cache, stack, result, made, renewed, rounds>>
    BY <1>2 DEF ResolveFails, Importing, Evaluating
  <2>2. TypeOK'  BY <1>0, <2>1 DEF TypeOK
  <2>3. FramesInOrder'  BY <2>1 DEF IInv, FramesInOrder, Top
  <2>4. /\ CirclesAreRenewed' /\ FramesShare' /\ EvaluatedOnce'
        /\ CacheIsComplete' /\ SharedInstances'
    BY <2>1 DEF IInv, CirclesAreRenewed, FramesShare, FrameShares, CacheIsComplete,
                SharedInstances, EvaluatedOnce
  <2> QED  BY <2>2, <2>3, <2>4 DEF IInv
<1>3. CASE ResolveBegins
  BY <1>3, BeginsKeeps
<1>4. CASE StackOverflow
  <2>1. TypeOK'  BY <1>0, <1>4, TypeKept DEF TypeOK, StackOverflow
  <2> QED  BY <1>4, <2>1, IdleKeeps DEF StackOverflow, Importing, Evaluating
<1>5. CASE ResolveEnds
  BY <1>5, EndsKeeps
<1>6. CASE Catch
  <2>1. None \in Outcome  BY DEF Outcome
  <2> QED  BY <1>0, <1>6, <2>1, AdvanceKeeps DEF Catch
<1>7. CASE Unwind
  <2>1. unwinding' = TRUE /\ stack # <<>>
    BY <1>0, <1>7 DEF IInv, TypeOK, Unwind
  <2> QED  BY <1>7, <2>1, UnwindKeeps DEF Unwind
<1>8. CASE End
  <2>1. TypeOK'  BY <1>0, <1>8, TypeKept DEF TypeOK, End
  <2> QED  BY <1>8, <2>1, IdleKeeps DEF End
<1>9. ASSUME NEW i \in Entrypoints, Begin(i)  PROVE IInv'
  <2> DEFINE frame == Frame(None, None, TRUE, <<i>>)
  <2>1. frame \in FrameType /\ frame.file = None /\ frame.compiled
    <3>1. <<i>> \in Seq(Import)  BY EntrypointsAssumption
    <3> QED  BY <3>1 DEF Frame, FrameType
  <2>2. ~ unwinding  BY <1>0, <1>9 DEF Begin, IsIdle
  <2>3. /\ stack' = <<frame>> /\ rounds' = rounds + 1
        /\ UNCHANGED <<cache_enabled, cache, result, unwinding, made, renewed>>
    BY <1>9 DEF Begin
  <2> HIDE DEF frame
  <2>4. /\ stack' \in Seq(FrameType) /\ DOMAIN stack' = {1} /\ stack'[1] = frame
    BY <2>1, <2>3
  <2>5. TypeOK'  BY <1>0, <2>3, <2>4, TypeKept DEF TypeOK
  <2>6. frame.file \notin DOMAIN cache  BY <1>0, <2>1, NoneIsNoFile DEF TypeOK
  <2>7. FramesInOrder' /\ CirclesAreRenewed' /\ FramesShare' /\ EvaluatedOnce'
    BY <2>1, <2>2, <2>3, <2>4, <2>6
       DEF FramesInOrder, CirclesAreRenewed, FramesShare, EvaluatedOnce
  <2>8. CacheIsComplete' /\ SharedInstances'
    BY <2>3 DEF IInv, CacheIsComplete, SharedInstances
  <2> QED  BY <2>5, <2>7, <2>8 DEF IInv
<1>10. ASSUME NEW enable \in BOOLEAN, enable_cache(enable)  PROVE IInv'
  <2>1. TypeOK'  BY <1>0, <1>10, TypeKept DEF TypeOK, enable_cache, IsIdle
  <2> QED  BY <1>0, <1>10, <2>1, IdleKeeps DEF enable_cache, IsIdle
<1>11. CASE clear_cache
  <2>1. DOMAIN cache' = {} /\ renewed' = {}  BY <1>11 DEF clear_cache
  <2>2. TypeOK'  BY <1>0, <1>11, <2>1, TypeKept DEF TypeOK, clear_cache, IsIdle
  <2> QED  BY <1>0, <1>11, <2>1, <2>2, IdleKeeps DEF clear_cache, IsIdle
<1>12. ASSUME NEW query \in Queries, clear_cache_for_path(query)  PROVE IInv'
  <2> DEFINE file == FilePath(query.path, query.source)
  <2>1. /\ DOMAIN cache' = DOMAIN cache \ {file}
        /\ \A f \in DOMAIN cache' : cache'[f] = cache[f]
        /\ renewed' = renewed \cup ({file} \cap DOMAIN cache)
    BY <1>12 DEF clear_cache_for_path
  <2> HIDE DEF file
  <2>2. TypeOK'  BY <1>0, <1>12, <2>1, TypeKept DEF TypeOK, clear_cache_for_path, IsIdle
  <2> QED  BY <1>0, <1>12, <2>1, <2>2, IdleKeeps DEF clear_cache_for_path, IsIdle
<1>13. CASE UNCHANGED vars
  BY <1>13 DEF vars, IInv, TypeOK, FramesInOrder, Top, CirclesAreRenewed, FramesShare,
    FrameShares, CacheIsComplete, SharedInstances, EvaluatedOnce
<1>14. CASE Compile
  BY <1>14, CompileKeeps
<1>15. CASE CompileFails
  <2>1. stack # <<>> /\ Len(stack) > 1
    <3>1. /\ Len(stack) \in Nat \ {0} /\ DOMAIN stack = 1 .. Len(stack)
          /\ Top = stack[Len(stack)] /\ ~ Top.compiled
      BY <1>0, <1>15, StackParts DEF CompileFails, Compiling, Evaluating
    <3>2. \A k \in DOMAIN stack : k = 1 => stack[k].compiled
      BY DEF IInv, FramesInOrder
    <3> QED  BY <3>1, <3>2
  <2> QED  BY <1>15, <2>1, UnwindKeeps DEF CompileFails
<1> QED
  BY <1>1, <1>2, <1>3, <1>4, <1>5, <1>6, <1>7, <1>8, <1>9, <1>10, <1>11, <1>12, <1>13, <1>14, <1>15
     DEF Next, Evaluate

(* The inductive invariant holds.                                          *)
THEOREM ResolverInvariant == Spec => []IInv
BY InitInvariant, NextKeeps, PTL DEF Spec

(* The cache and the stack of scripts keep their shape.                    *)
THEOREM ResolverTypeCorrect == Spec => []TypeOK
<1>1. IInv => TypeOK  BY DEF IInv
<1> QED  BY <1>1, ResolverInvariant, PTL

(* Whatever an archive holds and however imports in it fail, no module is  *)
(* cached whose script did not run to its end.                             *)
THEOREM OnlyWholeModules == Spec => []CacheIsComplete
<1>1. IInv => CacheIsComplete  BY DEF IInv
<1> QED  BY <1>1, ResolverInvariant, PTL

(* Modules that are cached have got from each import the module that is    *)
(* cached for its file, under whatever paths they import it.               *)
THEOREM ModulesAreShared == Spec => []SharedInstances
<1>1. IInv => SharedInstances  BY DEF IInv
<1> QED  BY <1>1, ResolverInvariant, PTL

(* A script whose module is cached is evaluated only by its own imports.   *)
THEOREM CachedIsNotEvaluated == Spec => []EvaluatedOnce
<1>1. IInv => EvaluatedOnce  BY DEF IInv
<1> QED  BY <1>1, ResolverInvariant, PTL
=============================================================================
