------------------------- MODULE OmnibusEngine_proofs -------------------------
(***************************************************************************)
(* That the engine is never put together in the wrong order, and what      *)
(* load_core reports of it, for all archives, any number of loads and      *)
(* stages that are called by themselves in any order.                      *)
(***************************************************************************)
EXTENDS OmnibusEngine, SequenceTheorems, TLAPS

(* The AST that nothing has been compiled into.                            *)
LEMMA NoAstType == NoAst \in Ast /\ 0 \in Loads
<1>1. 0 \in Loads
  BY BoundsAssumption DEF Loads
<1>2. <<>> \in Seq(Statement)
  OBVIOUS
<1> QED  BY <1>1, <1>2 DEF NoAst, Ast

(* It has no function and no statement.                                    *)
LEMMA NoAstIs == (\A f \in Fns : NoAst.fns[f] = 0) /\ DOMAIN NoAst.body = {}
  BY DEF NoAst

(* Archives, among them the one that stands for none.                      *)
LEMMA ArchiveType ==
  ASSUME NEW a \in Archives \cup {NoArchive}
  PROVE  a.entrypoints \in Seq(Entrypoint)
<1>1. CASE a = NoArchive
  BY <1>1 DEF NoArchive
<1>2. CASE a \in Archives
  BY <1>2, ArchivesAssumption DEF Archive
<1> QED  BY <1>1, <1>2

(* The statements of an AST.                                               *)
Bodies == Seq(Statement)

(* Statements of one load behind statements of no later load: they stay in *)
(* the order of their loads.                                               *)
LEMMA ConcatLoads ==
  ASSUME NEW a \in Bodies, NEW b \in Bodies, NEW n \in Loads,
         \A i \in DOMAIN a : a[i].load <= n,
         \A i \in DOMAIN b : b[i].load = n
  PROVE  /\ a \o b \in Bodies
         /\ \A i \in DOMAIN (a \o b) : (a \o b)[i].load <= n
         /\ (\A i \in DOMAIN a : a[i].load = n) =>
              \A i \in DOMAIN (a \o b) : (a \o b)[i].load = n
         /\ (\A i, j \in DOMAIN a : i < j => a[i].load <= a[j].load) =>
              \A i, j \in DOMAIN (a \o b) : i < j => (a \o b)[i].load <= (a \o b)[j].load
<1> DEFINE c == a \o b
<1>1. /\ Len(a) \in Nat /\ Len(b) \in Nat
      /\ DOMAIN a = 1 .. Len(a) /\ DOMAIN b = 1 .. Len(b)
  BY LenProperties DEF Bodies
<1>2. c \in Bodies /\ Len(c) = Len(a) + Len(b)
      /\ \A i \in 1 .. (Len(a) + Len(b)) : c[i] = IF i <= Len(a) THEN a[i] ELSE b[i - Len(a)]
  BY ConcatProperties DEF Bodies
<1> HIDE DEF c
<1>3. DOMAIN c = 1 .. (Len(a) + Len(b))
  BY <1>2, LenProperties DEF Bodies
<1>4. ASSUME NEW i \in DOMAIN c
      PROVE  \/ i \in DOMAIN a /\ c[i] = a[i]
             \/ i > Len(a) /\ c[i].load = n
  <2>1. CASE i <= Len(a)
    BY <1>1, <1>2, <1>3, <2>1
  <2>2. CASE i > Len(a)
    <3>1. i - Len(a) \in DOMAIN b
      BY <1>1, <1>3, <2>2
    <3>2. c[i] = b[i - Len(a)]
      BY <1>1, <1>2, <1>3, <2>2
    <3> QED  BY <2>2, <3>1, <3>2
  <2> QED  BY <1>1, <1>3, <2>1, <2>2
<1>5. n <= n
  BY DEF Loads
<1>6. \A i \in DOMAIN c : c[i].load <= n
  BY <1>4, <1>5
<1>7. ASSUME \A i \in DOMAIN a : a[i].load = n
      PROVE  \A i \in DOMAIN c : c[i].load = n
  BY <1>4, <1>7
<1>8. ASSUME \A i, j \in DOMAIN a : i < j => a[i].load <= a[j].load,
             NEW i \in DOMAIN c, NEW j \in DOMAIN c, i < j
      PROVE  c[i].load <= c[j].load
  <2>1. CASE j \in DOMAIN a /\ c[j] = a[j]
    <3>1. i \in DOMAIN a /\ c[i] = a[i]
      BY <1>1, <1>3, <1>4, <1>8, <2>1
    <3> QED  BY <1>8, <2>1, <3>1
  <2>2. CASE c[j].load = n
    BY <1>6, <2>2
  <2> QED  BY <1>4, <2>1, <2>2
<1> QED  BY <1>2, <1>6, <1>7, <1>8 DEF c

(* What merging does to functions and to statements.                       *)
LEMMA MergeIs ==
  ASSUME NEW a \in Ast, NEW b \in Ast
  PROVE  /\ Merge(a, b) \in Ast
         /\ Merge(a, b).made
         /\ Merge(a, b).body = a.body \o b.body
         /\ a.body \in Bodies /\ b.body \in Bodies
         /\ \A f \in Fns : Merge(a, b).fns[f] = IF b.fns[f] # 0 THEN b.fns[f] ELSE a.fns[f]
<1>1. a.body \in Bodies /\ b.body \in Bodies
  BY DEF Ast, Bodies
<1>2. a.body \o b.body \in Bodies
  BY <1>1 DEF Bodies
<1>3. Merge(a, b) \in Ast
  BY <1>2 DEF Merge, Ast, Bodies
<1> QED  BY <1>1, <1>3 DEF Merge

(* The AST of an entrypoint is of the load of its archive.                 *)
LEMMA AstOfIs ==
  ASSUME NEW e \in Entrypoint, rh_resolver \in Loads
  PROVE  /\ AstOf(e) \in Ast
         /\ \A f \in Fns : AstOf(e).fns[f] \in {0, rh_resolver}
         /\ rh_resolver # 0 => \A f \in Fns : AstOf(e).fns[f] # 0 <=> f \in e.fns
         /\ \A i \in DOMAIN AstOf(e).body : AstOf(e).body[i].load = rh_resolver
<1>1. e.body \in Effects /\ 0 \in Loads
  BY NoAstType DEF Entrypoint
<1> DEFINE body == IF e.body = "pure" THEN <<>> ELSE <<[load |-> rh_resolver, effect |-> e.body]>>
<1>2. body \in Seq(Statement)
      /\ \A i \in DOMAIN body : body[i].load = rh_resolver
  <2>1. CASE e.body = "pure"
    BY <2>1
  <2>2. CASE e.body # "pure"
    <3> DEFINE statement == [load |-> rh_resolver, effect |-> e.body]
    <3>1. statement \in Statement
      BY <1>1, <2>2 DEF Statement
    <3>2. body = <<statement>> /\ statement.load = rh_resolver
      BY <2>2
    <3> HIDE DEF body, statement
    <3> QED  BY <3>1, <3>2
  <2> QED  BY <2>1, <2>2
<1> HIDE DEF body
<1>3. AstOf(e) = [made |-> TRUE, fns |-> [f \in Fns |-> IF f \in e.fns THEN rh_resolver ELSE 0],
                  body |-> body]
  BY DEF AstOf, body
<1> QED  BY <1>1, <1>2, <1>3 DEF Ast

(* The sequences of calls there are, and what is left of one.              *)
LEMMA CallTypes ==
  /\ <<>> \in Seq(Call)
  /\ <<"load_core", "validate", "run_deploy">> \in Seq(Call)
  /\ <<"load_core", "run_handle">> \in Seq(Call)
  /\ \A call \in Call : <<call>> \in Seq(Call)
  /\ \A calls \in Seq(Call) : calls # <<>> => Tail(calls) \in Seq(Call)
  BY DEF Call

(* The end of a call, good or bad.                                         *)
LEMMA EndIs ==
  ASSUME TypeOK, Fails \/ (todo # <<>> /\ Returns)
  PROVE  /\ todo' \in Seq(Call) /\ stage' = "idle"
         /\ bytes' = NoArchive /\ compiled' = NoAst /\ compiled' \in Ast
         /\ entry' \in Nat /\ position' \in Nat /\ reply' \in {"ok", "err"}
         /\ CallsInOrder /\ alone' = alone => CallsInOrder'
<1>1. CASE Fails
  BY <1>1, CallTypes, NoAstType DEF Fails, Ends, CallsInOrder, Loading
<1>2. CASE todo # <<>> /\ Returns
  <2>1. todo' \in Seq(Call) /\ todo' = Tail(todo)
    BY <1>2, CallTypes DEF Returns, TypeOK
  <2>2. ASSUME CallsInOrder, alone' = alone PROVE CallsInOrder'
    <3>1. \A i \in DOMAIN todo' : i \in Nat \ {0} /\ i + 1 \in DOMAIN todo /\ todo'[i] = todo[i + 1]
      BY <1>2, <2>1, HeadTailProperties DEF TypeOK
    <3>2. \A i \in DOMAIN todo' :
            /\ todo'[i] # "load_core"
            /\ todo'[i] \in StageMethods => todo'[i] \in alone'
      BY <2>2, <3>1 DEF CallsInOrder
    <3>3. todo' # <<>> => 1 \in DOMAIN todo'
      OBVIOUS
    <3> QED  BY <1>2, <3>2, <3>3 DEF CallsInOrder, Loading, Returns, Ends
  <2> QED  BY <1>2, <2>1, <2>2, NoAstType DEF Returns, Ends
<1> QED  BY <1>1, <1>2

(* Nothing is asked of the stages of an engine that is idle.               *)
LEMMA IdleProgress ==
  ASSUME stage' = "idle", compiled' = NoAst,
         rh_resolver \in Nat, rh_resolver' = rh_resolver, rh_ast' = rh_ast,
         registered' => cfg' # 0 \/ "register_components" \in alone',
         Progress
  PROVE  Progress'
BY NoAstIs DEF Progress, StageMethods

(* A new engine.                                                           *)
LEMMA InitInvariant == Init => IInv
<1> SUFFICES ASSUME Init PROVE IInv
  OBVIOUS
<1>1. TypeOK
  BY NoAstType, CallTypes DEF Init, TypeOK
<1>2. CallsInOrder /\ Progress
  BY DEF Init, CallsInOrder, Loading, Progress, NoAst
<1>3. StagesInOrder /\ ValidatedStaysValid /\ WritesNeedConfig
  BY DEF Init, StagesInOrder, ValidatedStaysValid, WritesNeedConfig, NoAst
<1> QED  BY <1>1, <1>2, <1>3 DEF IInv

(* An engine made anew for an operation, or gone in a panic.               *)
LEMMA NewEngineKeeps ==
  ASSUME NewEngine, stage' = "idle", compiled' = NoAst, entry' \in Nat, position' \in Nat,
         bytes' \in Archives \cup {NoArchive}, reply' \in {"none", "panic"},
         todo' \in {<<>>, <<"load_core", "validate", "run_deploy">>, <<"load_core", "run_handle">>}
  PROVE  IInv'
<1>1. TypeOK'
  BY NoAstType, CallTypes DEF TypeOK, NewEngine
<1>2. CallsInOrder'
  BY BoundsAssumption DEF CallsInOrder, Loading, StageMethods, NewEngine
<1>3. Progress'
  BY NoAstIs DEF Progress, NewEngine
<1>4. StagesInOrder'
  BY NoAstIs DEF StagesInOrder, NewEngine
<1>5. ValidatedStaysValid' /\ WritesNeedConfig'
  BY DEF ValidatedStaysValid, WritesNeedConfig, NewEngine
<1> QED  BY <1>1, <1>2, <1>3, <1>4, <1>5 DEF IInv

(* Operations and methods being called: each makes or keeps an engine.     *)
LEMMA OperationKeeps ==
  ASSUME IInv, NEW a \in Archives, Deploy(a) \/ Handle(a)
  PROVE  IInv'
<1>1. compiled = NoAst /\ entry \in Nat /\ position \in Nat /\ stage = "idle"
  BY DEF IInv, TypeOK, Progress, Deploy, Handle, Operation
<1> QED  BY <1>1, NewEngineKeeps DEF Deploy, Handle, Operation

LEMMA MethodKeeps ==
  ASSUME IInv, NEW call \in Call, NEW a \in Archives \cup {NoArchive}, Method(call, a)
  PROVE  IInv'
<1>1. /\ stage = "idle" /\ stage' = "idle" /\ todo' = <<call>> /\ bytes' = a /\ reply' = "none"
      /\ alone' = alone \cup ({call} \cap StageMethods) /\ alone \subseteq alone'
      /\ alone' \subseteq StageMethods
      /\ UNCHANGED <<entry, compiled, position, loads, parts, storage, endpoints_ok>>
      /\ call = "load_core" => loads < MaxLoads
  BY DEF Method, IInv, TypeOK
<1>2. TypeOK'
  BY <1>1, CallTypes DEF IInv, TypeOK, parts, resolver
<1>3. CallsInOrder'
  BY <1>1 DEF CallsInOrder, Loading, parts, resolver
<1>4. Progress'
  BY <1>1 DEF IInv, Progress, StageMethods, parts, resolver
<1>5. StagesInOrder'
  BY <1>1 DEF IInv, StagesInOrder, parts, resolver
<1>6. ValidatedStaysValid' /\ WritesNeedConfig'
  BY <1>1 DEF IInv, ValidatedStaysValid, WritesNeedConfig, loaded_core, parts, resolver
<1> QED  BY <1>2, <1>3, <1>4, <1>5, <1>6 DEF IInv

(* The stages of load_core.                                                *)
LEMMA LoadBytesKeeps ==
  ASSUME IInv, LoadBytes
  PROVE  IInv'
<1>0. /\ stage = "idle" /\ todo # <<>> /\ todo[1] = "load_core" /\ compiled = NoAst
      /\ loads \in Nat /\ rh_resolver \in Nat /\ rh_resolver <= loads /\ loads' = loads + 1
      /\ loads < MaxLoads /\ loads' \in Loads
      /\ UNCHANGED <<rh_ast, cfg, registered, warmed, storage, endpoints_ok, alone>>
  <2>1. stage = "idle" /\ todo # <<>> /\ todo[1] = "load_core"
    BY DEF LoadBytes, Calls
  <2>2. loads \in Loads /\ rh_resolver \in Loads
    BY DEF IInv, TypeOK
  <2> QED  BY <2>1, <2>2, BoundsAssumption
    DEF IInv, StagesInOrder, Progress, CallsInOrder, Loading, LoadBytes, Loads
<1>1. \/ /\ rh_resolver' = loads' /\ archive' = bytes /\ configured' = FALSE
         /\ stage' = "init_core" /\ UNCHANGED <<todo, reply, bytes, entry, compiled, position>>
      \/ Fails /\ UNCHANGED <<rh_resolver, archive, configured>>
  BY DEF LoadBytes, loop, resolver
<1>2. TypeOK'
  <2>1. rh_resolver' \in Loads /\ configured' \in BOOLEAN /\ archive' \in Archives \cup {NoArchive}
    BY <1>0, <1>1 DEF IInv, TypeOK
  <2>2. CASE Fails
    BY <1>0, <2>1, <2>2, EndIs DEF IInv, TypeOK
  <2>3. CASE ~ Fails
    BY <1>0, <1>1, <2>1, <2>3 DEF IInv, TypeOK, StageMethods
  <2> QED  BY <2>2, <2>3
<1>3. CallsInOrder'
  <2>1. CASE Fails
    BY <1>0, <2>1, EndIs DEF IInv
  <2>2. CASE ~ Fails
    BY <1>0, <1>1, <2>2 DEF IInv, CallsInOrder, Loading
  <2> QED  BY <2>1, <2>2
<1>4. /\ rh_resolver' \in Nat /\ rh_resolver <= rh_resolver' /\ rh_resolver' <= loads'
      /\ {cfg, warmed} \subseteq Nat
      /\ \A f \in Fns : rh_ast.fns[f] \in Nat
      /\ \A i \in DOMAIN rh_ast.body : rh_ast.body[i].load \in Nat
  <2>1. rh_ast.body \in Seq(Statement)
    BY DEF IInv, TypeOK, Ast
  <2>2. \A i \in DOMAIN rh_ast.body : rh_ast.body[i] \in Statement
    BY <2>1, LenProperties, ElementOfSeq
  <2>3. \A i \in DOMAIN rh_ast.body : rh_ast.body[i].load \in Nat
    BY <2>2 DEF Statement, Loads
  <2>4. {cfg, warmed} \subseteq Nat /\ \A f \in Fns : rh_ast.fns[f] \in Nat
    BY DEF IInv, TypeOK, Ast, Loads
  <2>5. rh_resolver' \in Nat /\ rh_resolver <= rh_resolver' /\ rh_resolver' <= loads'
    BY <1>0, <1>1
  <2> QED  BY <2>3, <2>4, <2>5
<1>5. Progress'
  <2>1. registered => cfg # 0 \/ "register_components" \in alone
    BY DEF IInv, Progress
  <2>2. \A i \in DOMAIN rh_ast.body : rh_ast.body[i].load <= rh_resolver'
    <3>1. \A i \in DOMAIN rh_ast.body : rh_ast.body[i].load <= rh_resolver
      BY DEF IInv, Progress
    <3> QED  BY <1>0, <1>4, <3>1
  <2>3. CASE Fails
    <3>1. stage' = "idle" /\ compiled' = NoAst  BY <2>3 DEF Fails, Ends
    <3>2. rh_resolver' = rh_resolver \/ stage' = "init_core"  BY <1>1
    <3> QED  BY <1>0, <2>1, <3>1, <3>2, IdleProgress DEF IInv
  <2>4. CASE ~ Fails
    <3>1. stage' = "init_core" /\ compiled' = NoAst /\ rh_resolver' # 0
      BY <1>0, <1>1, <2>4
    <3> QED  BY <1>0, <2>1, <2>2, <3>1, NoAstIs DEF Progress
  <2> QED  BY <2>3, <2>4
<1>6. StagesInOrder'
  BY <1>0, <1>4 DEF IInv, StagesInOrder
<1>7. ValidatedStaysValid' /\ WritesNeedConfig'
  BY <1>0, <1>4 DEF IInv, ValidatedStaysValid, WritesNeedConfig, loaded_core
<1> QED  BY <1>2, <1>3, <1>5, <1>6, <1>7 DEF IInv

(* A stage that is called by itself is noted, and it has what it unwraps.   *)
LEMMA StartStageKeeps ==
  ASSUME IInv, NEW call \in StageMethods, StartStage(call)
  PROVE  IInv'
<1>0. stage = "idle" /\ todo # <<>> /\ todo[1] = call /\ compiled = NoAst
  BY DEF StartStage, Calls, IInv, Progress
<1>1. CASE Missing(call)
  BY <1>1, NewEngineKeeps DEF StartStage, Ends
<1>2. CASE ~ Missing(call)
  <2>1. /\ stage' = call /\ position' = 1 /\ UNCHANGED <<todo, reply, bytes, entry, compiled>>
        /\ UNCHANGED <<loads, storage, endpoints_ok, alone>>
        /\ UNCHANGED <<rh_resolver, archive, configured, rh_ast, cfg, registered, warmed>>
    BY <1>2 DEF StartStage, parts, resolver
  <2>2. TypeOK'
    BY <2>1 DEF IInv, TypeOK
  <2>3. CallsInOrder'
    BY <1>0, <2>1 DEF IInv, CallsInOrder, Loading, StageMethods
  <2>4. Progress'
    BY <1>0, <1>2, <2>1 DEF IInv, Progress, Missing, StageMethods
  <2>5. StagesInOrder' /\ ValidatedStaysValid' /\ WritesNeedConfig'
    BY <2>1 DEF IInv, StagesInOrder, ValidatedStaysValid, WritesNeedConfig, loaded_core
  <2> QED  BY <2>2, <2>3, <2>4, <2>5 DEF IInv
<1> QED  BY <1>1, <1>2

LEMMA ResolverConfigKeeps ==
  ASSUME IInv, ResolverConfig
  PROVE  IInv'
<1>0. /\ stage = "init_core"
      /\ \/ /\ configured' = TRUE /\ stage' = "compile" /\ entry' = 1
            /\ UNCHANGED <<todo, reply, bytes, compiled, position>>
         \/ Fails /\ UNCHANGED configured
      /\ UNCHANGED <<loads, rh_resolver, archive, rh_ast, cfg, registered, warmed>>
      /\ UNCHANGED <<storage, endpoints_ok, alone>>
  BY DEF ResolverConfig
<1>1. TypeOK'
  <2>1. CASE Fails
    BY <1>0, <2>1, EndIs DEF IInv, TypeOK
  <2>2. CASE ~ Fails
    <3>1. /\ configured' = TRUE /\ stage' = "compile" /\ entry' = 1
          /\ UNCHANGED <<todo, reply, bytes, compiled, position>>
      BY <1>0, <2>2, Zenon
    <3>2. configured' \in BOOLEAN
      BY <3>1, Zenon
    <3> QED  BY <1>0, <3>1, <3>2 DEF IInv, TypeOK
  <2> QED  BY <2>1, <2>2
<1>2. CallsInOrder'
  <2>1. CASE Fails
    BY <1>0, <2>1, EndIs DEF IInv
  <2>2. CASE ~ Fails
    BY <1>0, <2>2 DEF IInv, CallsInOrder, Loading
  <2> QED  BY <2>1, <2>2
<1>3. Progress'
  <2>1. CASE Fails
    BY <1>0, <2>1, IdleProgress DEF IInv, TypeOK, Loads, Progress, Fails, Ends
  <2>2. CASE ~ Fails
    BY <1>0, <2>2 DEF IInv, Progress
  <2> QED  BY <2>1, <2>2
<1>4. StagesInOrder' /\ ValidatedStaysValid' /\ WritesNeedConfig'
  BY <1>0 DEF IInv, StagesInOrder, ValidatedStaysValid, WritesNeedConfig, loaded_core
<1> QED  BY <1>1, <1>2, <1>3, <1>4 DEF IInv

(* What compiling one more entrypoint makes of the AST.                     *)
LEMMA CompiledIs ==
  ASSUME IInv, CompileEntrypoint
  PROVE  /\ entry \in 1 .. Len(archive.entrypoints)
         /\ archive.entrypoints[entry] \in Entrypoint
         /\ compiled' \in Ast
         /\ \A f \in Fns : compiled'.fns[f] \in {0, rh_resolver}
         /\ \A i \in DOMAIN compiled'.body : compiled'.body[i].load = rh_resolver
<1>0. entry \in 1 .. Len(archive.entrypoints)
  BY DEF IInv, TypeOK, Progress, CompileEntrypoint
<1>1. PICK e \in Entrypoint : e = archive.entrypoints[entry]
  <2>1. archive.entrypoints \in Seq(Entrypoint)
    BY ArchiveType DEF IInv, TypeOK
  <2> QED  BY <1>0, <2>1
<1>2. /\ compiled' \in Ast
      /\ \A f \in Fns : compiled'.fns[f] \in {0, rh_resolver}
      /\ \A i \in DOMAIN compiled'.body : compiled'.body[i].load = rh_resolver
  <2>1. CASE compiled' = Merge(compiled, AstOf(e))
    <3>1. AstOf(e) \in Ast /\ compiled \in Ast
      BY AstOfIs DEF IInv, TypeOK
    <3>2. /\ \A f \in Fns : AstOf(e).fns[f] \in {0, rh_resolver}
          /\ \A i \in DOMAIN AstOf(e).body : AstOf(e).body[i].load = rh_resolver
      BY AstOfIs DEF IInv, TypeOK
    <3>3. /\ \A f \in Fns : compiled.fns[f] \in {0, rh_resolver}
          /\ \A i \in DOMAIN compiled.body : compiled.body[i].load = rh_resolver
      BY DEF IInv, Progress
    <3>4. \A f \in Fns : compiled'.fns[f] \in {0, rh_resolver}
      <4>1. \A f \in Fns : compiled'.fns[f] \in {AstOf(e).fns[f], compiled.fns[f]}
        BY <2>1, <3>1, MergeIs
      <4> QED  BY <3>2, <3>3, <4>1
    <3>5. \A i \in DOMAIN compiled'.body : compiled'.body[i].load = rh_resolver
      <4>1. rh_resolver \in Loads /\ rh_resolver <= rh_resolver
        BY DEF IInv, TypeOK, Loads
      <4>2. /\ compiled.body \in Bodies /\ AstOf(e).body \in Bodies
            /\ compiled'.body = compiled.body \o AstOf(e).body
        <5>1. compiled \in Ast /\ AstOf(e) \in Ast  BY <3>1
        <5>2. compiled' = Merge(compiled, AstOf(e))  BY <2>1
        <5>3. /\ compiled.body \in Bodies /\ AstOf(e).body \in Bodies
              /\ Merge(compiled, AstOf(e)).body = compiled.body \o AstOf(e).body
          BY ONLY <5>1, MergeIs, ZenonT(60)
        <5> QED  BY ONLY <5>2, <5>3, Zenon
      <4>3. \A i \in DOMAIN compiled.body : compiled.body[i].load <= rh_resolver
        BY <3>3, <4>1
      <4>4. \A i \in DOMAIN (compiled.body \o AstOf(e).body) :
              (compiled.body \o AstOf(e).body)[i].load = rh_resolver
        BY <3>2, <3>3, <4>1, <4>2, <4>3, ConcatLoads
      <4> QED  BY <4>2, <4>4
    <3> QED  BY <2>1, <3>1, <3>4, <3>5, MergeIs
  <2>2. CASE compiled' = compiled
    BY <2>2 DEF IInv, TypeOK, Progress
  <2>3. CASE compiled' = NoAst
    BY <2>3, NoAstType, NoAstIs
  <2> QED  BY <1>1, <2>1, <2>2, <2>3 DEF CompileEntrypoint, Fails, Ends
<1> QED  BY <1>0, <1>1, <1>2

LEMMA CompileEntrypointKeeps ==
  ASSUME IInv, CompileEntrypoint
  PROVE  IInv'
<1>1. /\ stage = "compile"
      /\ \/ /\ stage' = "compile" /\ entry' = entry + 1
            /\ UNCHANGED <<todo, reply, bytes, position>>
         \/ Fails
  BY DEF CompileEntrypoint
<1>2. /\ storage' = storage \/ (storage' = storage \cup {rh_resolver} /\ registered)
      /\ UNCHANGED <<loads, rh_resolver, archive, configured, rh_ast, cfg, registered, warmed>>
      /\ UNCHANGED <<endpoints_ok, alone>>
  BY DEF CompileEntrypoint, CanCompile, parts, resolver
<1>3. TypeOK'
  <2>1. storage' \subseteq Loads
    BY <1>2 DEF IInv, TypeOK
  <2>2. CASE Fails
    BY <1>2, <2>1, <2>2, EndIs DEF IInv, TypeOK
  <2>3. CASE ~ Fails
    BY <1>1, <1>2, <2>1, <2>3, CompiledIs DEF IInv, TypeOK
  <2> QED  BY <2>2, <2>3
<1>4. CallsInOrder'
  <2>1. CASE Fails
    BY <1>2, <2>1, EndIs DEF IInv
  <2>2. CASE ~ Fails
    BY <1>1, <1>2, <2>2 DEF IInv, CallsInOrder, Loading
  <2> QED  BY <2>1, <2>2
<1>5. Progress'
  <2>1. CASE Fails
    BY <1>2, <2>1, IdleProgress DEF IInv, TypeOK, Loads, Progress, Fails, Ends
  <2>2. CASE ~ Fails
    <3>1. stage' = "compile" /\ entry' # 0
      BY <1>1, <2>2, CompiledIs
    <3> QED  BY <1>1, <1>2, <3>1, CompiledIs DEF IInv, Progress
  <2> QED  BY <2>1, <2>2
<1>6. StagesInOrder' /\ ValidatedStaysValid'
  BY <1>2 DEF IInv, StagesInOrder, ValidatedStaysValid, loaded_core
<1>7. WritesNeedConfig'
  BY <1>2 DEF IInv, Progress, WritesNeedConfig
<1> QED  BY <1>3, <1>4, <1>5, <1>6, <1>7 DEF IInv

LEMMA TakeAstKeeps ==
  ASSUME IInv, TakeAst
  PROVE  IInv'
<1>0. /\ stage = "compile"
      /\ UNCHANGED <<loads, rh_resolver, archive, configured, cfg, registered, warmed>>
      /\ UNCHANGED <<storage, endpoints_ok, alone>>
  BY DEF TakeAst, resolver
<1>1. CASE Fails /\ UNCHANGED rh_ast
  <2>1. TypeOK' /\ CallsInOrder'
    BY <1>0, <1>1, EndIs DEF IInv, TypeOK
  <2>2. Progress'
    BY <1>0, <1>1, IdleProgress DEF IInv, TypeOK, Loads, Progress, Fails, Ends
  <2>3. StagesInOrder' /\ ValidatedStaysValid' /\ WritesNeedConfig'
    BY <1>0, <1>1 DEF IInv, StagesInOrder, ValidatedStaysValid, WritesNeedConfig, loaded_core
  <2> QED  BY <2>1, <2>2, <2>3 DEF IInv
<1>2. CASE ~ (Fails /\ UNCHANGED rh_ast)
  <2>1. /\ rh_ast' = Merge(rh_ast, compiled)
        /\ stage' = "load_config" /\ UNCHANGED <<todo, reply, bytes, entry, compiled, position>>
    BY <1>2 DEF TakeAst, loop
  <2>2. /\ rh_ast \in Ast /\ compiled \in Ast
        /\ rh_resolver \in Nat /\ rh_resolver \in Loads /\ rh_resolver # 0
    BY <1>0 DEF IInv, TypeOK, Progress, Loads
  <2>3. rh_ast' \in Ast /\ rh_ast'.made
    BY <2>1, <2>2, MergeIs
  <2>4. \A f \in Fns : /\ rh_ast'.fns[f] <= rh_resolver
                       /\ rh_ast.fns[f] # 0 => rh_ast'.fns[f] # 0
    <3> TAKE f \in Fns
    <3>1. rh_ast'.fns[f] = IF compiled.fns[f] # 0 THEN compiled.fns[f] ELSE rh_ast.fns[f]
      BY <2>1 DEF Merge
    <3>2. rh_ast.fns[f] <= rh_resolver /\ compiled.fns[f] \in {0, rh_resolver}
      BY DEF IInv, Progress, StagesInOrder
    <3> QED  BY <2>2, <3>1, <3>2
  <2>5. /\ \A i \in DOMAIN rh_ast'.body : rh_ast'.body[i].load <= rh_resolver
        /\ \A i, j \in DOMAIN rh_ast'.body : i < j => rh_ast'.body[i].load <= rh_ast'.body[j].load
    <3>1. /\ rh_ast.body \in Bodies /\ compiled.body \in Bodies
          /\ rh_ast'.body = rh_ast.body \o compiled.body
      <4>1. rh_ast \in Ast /\ compiled \in Ast  BY DEF IInv, TypeOK
      <4>2. rh_ast' = Merge(rh_ast, compiled)  BY <2>1
      <4>3. /\ rh_ast.body \in Bodies /\ compiled.body \in Bodies
            /\ Merge(rh_ast, compiled).body = rh_ast.body \o compiled.body
        BY ONLY <4>1, MergeIs, ZenonT(60)
      <4> QED  BY ONLY <4>2, <4>3, Zenon
    <3>2. /\ \A i \in DOMAIN rh_ast.body : rh_ast.body[i].load <= rh_resolver
          /\ \A i \in DOMAIN compiled.body : compiled.body[i].load = rh_resolver
          /\ \A i, j \in DOMAIN rh_ast.body : i < j => rh_ast.body[i].load <= rh_ast.body[j].load
      BY DEF IInv, Progress, StagesInOrder
    <3> QED  BY <2>2, <3>1, <3>2, ConcatLoads
  <2>6. TypeOK'
    BY <1>0, <2>1, <2>3 DEF IInv, TypeOK, StageMethods
  <2>7. CallsInOrder'
    BY <1>0, <2>1 DEF IInv, CallsInOrder, Loading
  <2>8. Progress'
    BY <1>0, <2>1, <2>2, <2>3, <2>5 DEF IInv, Progress
  <2>9. StagesInOrder'
    BY <1>0, <2>1, <2>3, <2>4, <2>5 DEF IInv, StagesInOrder
  <2>10. ValidatedStaysValid' /\ WritesNeedConfig'
    BY <1>0, <2>1, <2>3, <2>4
    DEF IInv, ValidatedStaysValid, WritesNeedConfig, loaded_core, Fns
  <2> QED  BY <2>6, <2>7, <2>8, <2>9, <2>10 DEF IInv
<1> QED  BY <1>1, <1>2

LEMMA LoadConfigKeeps ==
  ASSUME IInv, LoadConfig
  PROVE  IInv'
<1>0. /\ stage = "load_config" /\ todo # <<>> /\ Head(todo) = todo[1]
      /\ UNCHANGED <<loads, rh_resolver, archive, configured, rh_ast, registered, warmed>>
      /\ UNCHANGED <<storage, endpoints_ok, alone>>
      /\ rh_resolver \in Loads /\ rh_resolver \in Nat /\ rh_resolver # 0 /\ cfg \in Nat /\ warmed \in Nat
  BY DEF IInv, TypeOK, Loads, Progress, CallsInOrder, LoadConfig, resolver
<1>1. \/ todo[1] = stage /\ Returns /\ cfg' = rh_resolver
      \/ /\ todo[1] # stage /\ stage' = "register_components" /\ cfg' = rh_resolver
         /\ UNCHANGED <<todo, reply, bytes, entry, compiled, position>>
      \/ Fails /\ cfg' = cfg
  BY <1>0 DEF LoadConfig, GoesOn
<1>2. TypeOK'
  <2>1. cfg' \in Loads  BY <1>0, <1>1 DEF IInv, TypeOK
  <2>2. CASE Fails \/ Returns
    BY <1>0, <2>1, <2>2, EndIs DEF IInv, TypeOK
  <2>3. CASE ~ (Fails \/ Returns)
    BY <1>0, <1>1, <2>1, <2>3 DEF IInv, TypeOK, StageMethods
  <2> QED  BY <2>2, <2>3
<1>3. CallsInOrder'
  <2>1. CASE Fails \/ Returns
    BY <1>0, <2>1, EndIs DEF IInv
  <2>2. CASE ~ (Fails \/ Returns)
    BY <1>0, <1>1, <2>2 DEF IInv, CallsInOrder, Loading
  <2> QED  BY <2>1, <2>2
<1>4. cfg' # 0 \/ cfg' = cfg
  BY <1>0, <1>1
<1>5. Progress'
  <2>1. CASE Fails \/ Returns
    <3>1. stage' = "idle" /\ compiled' = NoAst
      BY <1>0, <2>1, EndIs DEF IInv
    <3> QED  BY <1>0, <1>4, <3>1, IdleProgress DEF IInv, Progress
  <2>2. CASE ~ (Fails \/ Returns)
    BY <1>0, <1>1, <2>2 DEF IInv, Progress
  <2> QED  BY <2>1, <2>2
<1>6. StagesInOrder'
  <2>1. todo[1] = stage => "load_config" \in alone
    <3>1. 1 \in DOMAIN todo  BY <1>0 DEF IInv, TypeOK
    <3> QED  BY <1>0, <3>1 DEF IInv, CallsInOrder, StageMethods
  <2>2. todo[1] # stage => rh_ast.made
    BY <1>0 DEF IInv, Progress
  <2>3. warmed <= rh_resolver
    BY DEF IInv, StagesInOrder
  <2>4. "load_config" \notin alone => (cfg' # 0 => rh_ast.made)
    BY <1>0, <1>1, <2>1, <2>2 DEF IInv, StagesInOrder
  <2> QED  BY <1>0, <1>1, <2>3, <2>4 DEF IInv, StagesInOrder
<1>7. ValidatedStaysValid' /\ WritesNeedConfig'
  BY <1>0, <1>4 DEF IInv, ValidatedStaysValid, WritesNeedConfig, loaded_core
<1> QED  BY <1>2, <1>3, <1>5, <1>6, <1>7 DEF IInv

LEMMA RegisterComponentsKeeps ==
  ASSUME IInv, RegisterComponents
  PROVE  IInv'
<1>0. /\ stage = "register_components" /\ todo # <<>> /\ Head(todo) = todo[1] /\ registered' = TRUE
      /\ UNCHANGED <<loads, rh_resolver, archive, configured, rh_ast, cfg, warmed>>
      /\ UNCHANGED <<storage, endpoints_ok, alone>>
      /\ rh_resolver \in Nat
  BY DEF IInv, TypeOK, Loads, CallsInOrder, RegisterComponents, resolver
<1>1. \/ todo[1] = stage /\ Returns
      \/ /\ todo[1] # stage /\ stage' = "warm_ast" /\ position' = 1
         /\ UNCHANGED <<todo, reply, bytes, entry, compiled>>
  BY <1>0 DEF RegisterComponents, GoesOn
<1>2. cfg # 0 \/ "register_components" \in alone
  <2>1. 1 \in DOMAIN todo  BY <1>0 DEF IInv, TypeOK
  <2> QED  BY <1>0, <2>1 DEF IInv, CallsInOrder, Progress, StageMethods
<1>3. TypeOK'
  <2>1. CASE Returns
    BY <1>0, <2>1, EndIs DEF IInv, TypeOK
  <2>2. CASE ~ Returns
    BY <1>0, <1>1, <2>2 DEF IInv, TypeOK, StageMethods
  <2> QED  BY <2>1, <2>2
<1>4. CallsInOrder'
  <2>1. CASE Returns
    BY <1>0, <2>1, EndIs DEF IInv
  <2>2. CASE ~ Returns
    BY <1>0, <1>1, <2>2 DEF IInv, CallsInOrder, Loading
  <2> QED  BY <2>1, <2>2
<1>5. Progress'
  <2>1. CASE Returns
    <3>1. stage' = "idle" /\ compiled' = NoAst
      BY <1>0, <2>1, EndIs DEF IInv
    <3> QED  BY <1>0, <1>2, <3>1, IdleProgress DEF IInv
  <2>2. CASE ~ Returns
    BY <1>0, <1>1, <1>2, <2>2 DEF IInv, Progress
  <2> QED  BY <2>1, <2>2
<1>6. StagesInOrder' /\ ValidatedStaysValid' /\ WritesNeedConfig'
  BY <1>0 DEF IInv, StagesInOrder, ValidatedStaysValid, WritesNeedConfig, loaded_core
<1> QED  BY <1>3, <1>4, <1>5, <1>6 DEF IInv

LEMMA WarmStatementKeeps ==
  ASSUME IInv, WarmStatement
  PROVE  IInv'
<1>0. /\ stage = "warm_ast"
      /\ UNCHANGED <<loads, rh_resolver, archive, configured, rh_ast, cfg, registered, warmed>>
      /\ UNCHANGED <<endpoints_ok, alone>>
  BY DEF WarmStatement, parts, resolver
<1>1. PICK statement \in Statement : statement = rh_ast.body[position]
  <2>1. position \in 1 .. Len(rh_ast.body)
    BY DEF IInv, TypeOK, Progress, WarmStatement
  <2>2. rh_ast.body \in Seq(Statement)
    BY DEF IInv, TypeOK, Ast
  <2> QED  BY <2>1, <2>2, ElementOfSeq
<1>2. \/ Fails /\ UNCHANGED storage
      \/ /\ storage' = storage \cup {statement.load} /\ position' = position + 1
         /\ ~ Fruitless(statement.effect)
         /\ UNCHANGED <<stage, todo, reply, bytes, entry, compiled>>
  BY <1>1 DEF WarmStatement
<1>3. statement.load \in Loads /\ statement.effect \in {"fails", "writes"}
  BY DEF Statement, Effects
<1>4. storage' # storage => registered
  BY <1>2, <1>3 DEF Fruitless
<1>5. TypeOK'
  <2>1. storage' \subseteq Loads
    BY <1>2, <1>3 DEF IInv, TypeOK
  <2>2. CASE Fails
    BY <1>0, <2>1, <2>2, EndIs DEF IInv, TypeOK
  <2>3. CASE ~ Fails
    BY <1>0, <1>2, <2>1, <2>3 DEF IInv, TypeOK
  <2> QED  BY <2>2, <2>3
<1>6. CallsInOrder'
  <2>1. CASE Fails
    BY <1>0, <2>1, EndIs DEF IInv
  <2>2. CASE ~ Fails
    BY <1>0, <1>2, <2>2 DEF IInv, CallsInOrder, Loading
  <2> QED  BY <2>1, <2>2
<1>7. Progress'
  <2>1. CASE Fails
    BY <1>0, <2>1, IdleProgress DEF IInv, TypeOK, Loads, Progress, Fails, Ends
  <2>2. CASE ~ Fails
    BY <1>0, <1>2, <2>2 DEF IInv, TypeOK, Progress
  <2> QED  BY <2>1, <2>2
<1>8. StagesInOrder' /\ ValidatedStaysValid'
  BY <1>0 DEF IInv, StagesInOrder, ValidatedStaysValid, loaded_core
<1>9. WritesNeedConfig'
  BY <1>0, <1>4 DEF IInv, Progress, WritesNeedConfig
<1> QED  BY <1>5, <1>6, <1>7, <1>8, <1>9 DEF IInv

LEMMA WarmedKeeps ==
  ASSUME IInv, Warmed
  PROVE  IInv'
<1>0. /\ stage = "warm_ast" /\ todo # <<>> /\ warmed' = rh_resolver /\ Returns
      /\ UNCHANGED <<loads, rh_resolver, archive, configured, rh_ast, cfg, registered>>
      /\ UNCHANGED <<storage, endpoints_ok, alone>>
      /\ rh_resolver \in Loads /\ rh_resolver \in Nat /\ rh_resolver # 0 /\ rh_ast.made
  BY DEF IInv, TypeOK, Loads, Progress, CallsInOrder, Warmed, resolver
<1>1. TypeOK' /\ CallsInOrder'
  BY <1>0, EndIs DEF IInv, TypeOK
<1>2. Progress'
  BY <1>0, IdleProgress DEF IInv, Progress, Returns, Ends
<1>3. StagesInOrder'
  <2>1. "warm_ast" \notin alone => cfg = rh_resolver /\ registered
    <3>1. 1 \in DOMAIN todo  BY <1>0 DEF IInv, TypeOK
    <3> QED  BY <1>0, <3>1 DEF IInv, CallsInOrder, Progress, StageMethods
  <2> QED  BY <1>0, <2>1 DEF IInv, StagesInOrder
<1>4. ValidatedStaysValid' /\ WritesNeedConfig'
  BY <1>0 DEF IInv, ValidatedStaysValid, WritesNeedConfig, loaded_core
<1> QED  BY <1>1, <1>2, <1>3, <1>4 DEF IInv

(* The other methods, which leave the parts of the engine alone.           *)
LEMMA OthersKeep ==
  ASSUME IInv, UNCHANGED <<loads, parts, storage, alone>>,
         \/ Fails /\ UNCHANGED endpoints_ok
         \/ /\ todo # <<>> /\ Returns
            /\ endpoints_ok' => endpoints_ok \/ (loaded_core /\ \A f \in Endpoints : rh_ast.fns[f] # 0)
            /\ endpoints_ok' \in BOOLEAN
  PROVE  IInv'
<1>1. UNCHANGED <<loads, rh_resolver, archive, configured, rh_ast, cfg, registered, warmed, storage, alone>>
  BY DEF parts, resolver
<1>2. TypeOK' /\ CallsInOrder'
  BY <1>1, EndIs DEF IInv, TypeOK
<1>3. Progress'
  BY <1>1, EndIs, IdleProgress DEF IInv, TypeOK, Loads, Progress
<1>4. StagesInOrder' /\ WritesNeedConfig'
  BY <1>1 DEF IInv, StagesInOrder, WritesNeedConfig
<1>5. ValidatedStaysValid'
  BY <1>1 DEF IInv, ValidatedStaysValid, loaded_core
<1> QED  BY <1>2, <1>3, <1>4, <1>5 DEF IInv

LEMMA ValidateKeeps ==
  ASSUME IInv, Validate
  PROVE  IInv'
BY OthersKeep DEF IInv, TypeOK, Validate, Calls

LEMMA RunDeployKeeps ==
  ASSUME IInv, RunDeploy
  PROVE  IInv'
BY OthersKeep DEF IInv, TypeOK, RunDeploy, Calls

LEMMA StartHandleKeeps ==
  ASSUME IInv, StartHandle
  PROVE  IInv'
<1>1. CASE Fails
  BY <1>1, OthersKeep DEF IInv, TypeOK, StartHandle
<1>2. CASE ~ Fails
  <2>1. /\ stage = "idle" /\ todo # <<>> /\ todo[1] = "run_handle" /\ loaded_core
        /\ stage' = "handle" /\ position' = 1 /\ UNCHANGED <<todo, reply, bytes, entry, compiled>>
        /\ UNCHANGED <<loads, rh_resolver, archive, configured, rh_ast, cfg, registered, warmed>>
        /\ UNCHANGED <<storage, endpoints_ok, alone>>
    BY <1>2 DEF StartHandle, Calls, parts, resolver
  <2>2. TypeOK' /\ CallsInOrder'
    BY <2>1 DEF IInv, TypeOK, CallsInOrder, Loading
  <2>3. Progress'
    BY <2>1 DEF IInv, Progress, loaded_core
  <2>4. StagesInOrder' /\ ValidatedStaysValid' /\ WritesNeedConfig'
    BY <2>1 DEF IInv, StagesInOrder, ValidatedStaysValid, WritesNeedConfig, loaded_core
  <2> QED  BY <2>2, <2>3, <2>4 DEF IInv
<1> QED  BY <1>1, <1>2

LEMMA RoundKeeps ==
  ASSUME IInv, NEW effect \in Effects, Round(effect)
  PROVE  IInv'
<1>1. CASE Fails /\ UNCHANGED storage
  BY <1>1, OthersKeep DEF IInv, TypeOK, Round
<1>2. CASE ~ (Fails /\ UNCHANGED storage)
  <2>1. /\ stage = "handle" /\ position' = position + 1
        /\ UNCHANGED <<stage, todo, reply, bytes, entry, compiled>>
        /\ UNCHANGED <<loads, rh_resolver, archive, configured, rh_ast, cfg, registered, warmed>>
        /\ UNCHANGED <<endpoints_ok, alone>>
        /\ \/ storage' = storage
           \/ storage' = storage \cup {rh_ast.fns["simple"]} /\ registered
    BY <1>2 DEF Round, Fruitless, parts, resolver
  <2>2. TypeOK'
    <3>1. rh_ast.fns["simple"] \in Loads
      BY DEF IInv, TypeOK, Ast, Fns
    <3> QED  BY <2>1, <3>1 DEF IInv, TypeOK
  <2>3. CallsInOrder'
    BY <2>1 DEF IInv, CallsInOrder, Loading
  <2>4. Progress'
    BY <2>1 DEF IInv, Progress, loaded_core
  <2>5. StagesInOrder' /\ ValidatedStaysValid'
    BY <2>1 DEF IInv, StagesInOrder, ValidatedStaysValid, loaded_core
  <2>6. WritesNeedConfig'
    BY <2>1 DEF IInv, Progress, WritesNeedConfig
  <2> QED  BY <2>2, <2>3, <2>4, <2>5, <2>6 DEF IInv
<1> QED  BY <1>1, <1>2

LEMMA HandleReturnsKeeps ==
  ASSUME IInv, HandleReturns
  PROVE  IInv'
BY OthersKeep DEF IInv, TypeOK, CallsInOrder, HandleReturns

(* One step per action of Next.                                            *)
LEMMA NextKeeps == IInv /\ [Next]_vars => IInv'
<1> SUFFICES ASSUME IInv, [Next]_vars PROVE IInv'
  OBVIOUS
<1>1. CASE \E a \in Archives : Deploy(a)
  BY <1>1, OperationKeeps
<1>2. CASE \E a \in Archives : Handle(a)
  BY <1>2, OperationKeeps
<1>3. CASE \E a \in Archives : Method("load_core", a)
  BY <1>3, MethodKeeps DEF Call
<1>4. CASE \E call \in Call \ {"load_core"} : Method(call, NoArchive)
  BY <1>4, MethodKeeps
<1>5. CASE LoadBytes
  BY <1>5, LoadBytesKeeps
<1>6. CASE ResolverConfig
  BY <1>6, ResolverConfigKeeps
<1>7. CASE CompileEntrypoint
  BY <1>7, CompileEntrypointKeeps
<1>8. CASE TakeAst
  BY <1>8, TakeAstKeeps
<1>9. CASE LoadConfig
  BY <1>9, LoadConfigKeeps
<1>10. CASE WarmStatement
  BY <1>10, WarmStatementKeeps
<1>11. CASE Warmed
  BY <1>11, WarmedKeeps
<1>12. CASE Validate
  BY <1>12, ValidateKeeps
<1>13. CASE RunDeploy
  BY <1>13, RunDeployKeeps
<1>14. CASE StartHandle
  BY <1>14, StartHandleKeeps
<1>15. CASE \E effect \in Effects : Round(effect)
  BY <1>15, RoundKeeps
<1>16. CASE HandleReturns
  BY <1>16, HandleReturnsKeeps
<1>17. CASE \E call \in StageMethods : StartStage(call)
  BY <1>17, StartStageKeeps
<1>18. CASE RegisterComponents
  BY <1>18, RegisterComponentsKeeps
<1>19. CASE UNCHANGED vars
  BY <1>19 DEF vars, parts, resolver, loop, IInv, TypeOK, CallsInOrder, Loading, Progress,
     StagesInOrder, ValidatedStaysValid, WritesNeedConfig, loaded_core
<1> QED
  BY <1>1, <1>2, <1>3, <1>4, <1>5, <1>6, <1>7, <1>8, <1>9, <1>10, <1>11, <1>12, <1>13, <1>14, <1>15,
     <1>16, <1>17, <1>18, <1>19
  DEF Next, EngineStep

(* The inductive invariant holds.                                          *)
THEOREM EngineInvariant == Spec => []IInv
  BY InitInvariant, NextKeeps, PTL DEF Spec

(* The parts of the engine keep their shape.                               *)
THEOREM EngineTypeCorrect == Spec => []TypeOK
<1>1. IInv => TypeOK
  BY DEF IInv
<1> QED  BY <1>1, EngineInvariant, PTL

(* However loads fail and are repeated, no part of the engine is newer     *)
(* than the parts it was made from, and a part is there only with what it  *)
(* needs, unless a stage was called by itself that does without.           *)
THEOREM PartsInOrder == Spec => []StagesInOrder
<1>1. IInv => StagesInOrder
  BY DEF IInv
<1> QED  BY <1>1, EngineInvariant, PTL

(* No reload, failed or not, takes the endpoints from an engine that       *)
(* validate() has accepted.                                                *)
THEOREM ValidationLasts == Spec => []ValidatedStaysValid
<1>1. IInv => ValidatedStaysValid
  BY DEF IInv
<1> QED  BY <1>1, EngineInvariant, PTL

(* Scripts cannot write to the storage of an engine that has accepted no   *)
(* config, neither while it compiles them nor while it evaluates them,     *)
(* unless register_components() was called by itself.                      *)
THEOREM NoWriteBeforeConfig == Spec => []WritesNeedConfig
<1>1. IInv => WritesNeedConfig
  BY DEF IInv
<1> QED  BY <1>1, EngineInvariant, PTL

-----------------------------------------------------------------------------
(* What load_core reports.                                                 *)

(* How far a load has come: what is compiled is what the entrypoints before *)
(* this one have; nothing of the archive is in the AST before all of it is. *)
Compiled(f) ==
  \E i \in DOMAIN archive.entrypoints :
    i < entry /\ ~ archive.entrypoints[i].blank /\ f \in archive.entrypoints[i].fns

LoadGoesOn ==
  /\ stage = "compile" => \A f \in Fns : compiled.fns[f] # 0 <=> Compiled(f)
  /\ Loading => stage # "handle"
  /\ Loading /\ stage # "idle" => rh_resolver = loads /\ warmed < loads
  /\ Loading /\ stage \in {"init_core", "compile"} => \A f \in Fns : rh_ast.fns[f] < loads
  /\ Loading /\ stage \in {"load_config", "register_components", "warm_ast"} => Taken

(* A step of a load that changes neither resolver nor AST, and compiles     *)
(* nothing.                                                                *)
LEMMA LoadStays ==
  ASSUME LoadGoesOn, UNCHANGED <<todo, loads, rh_resolver, archive, rh_ast, warmed>>,
         stage' # "compile", stage # "idle", stage' # "handle" \/ ~ Loading,
         stage' = "init_core" => stage = "init_core",
         stage' \in {"load_config", "register_components", "warm_ast"} =>
           stage \in {"load_config", "register_components", "warm_ast"}
  PROVE  LoadGoesOn'
BY DEF LoadGoesOn, Loading, Taken, Provided

(* One more entrypoint is compiled.                                        *)
LEMMA CompilesOn ==
  ASSUME IInv, LoadGoesOn, CompileEntrypoint, ~ Fails
  PROVE  LoadGoesOn'
<1> DEFINE e == archive.entrypoints[entry]
<1>1. /\ stage = "compile" /\ stage' = "compile" /\ entry' = entry + 1
      /\ compiled' = IF e.blank THEN compiled ELSE Merge(compiled, AstOf(e))
      /\ UNCHANGED <<todo, loads, rh_resolver, archive, rh_ast, warmed>>
  BY DEF CompileEntrypoint, parts, resolver
<1>2. /\ entry \in DOMAIN archive.entrypoints /\ e \in Entrypoint
      /\ rh_resolver \in Loads /\ rh_resolver # 0
      /\ DOMAIN archive.entrypoints \subseteq Nat
  <2>1. archive.entrypoints \in Seq(Entrypoint)
    BY ArchiveType DEF IInv, TypeOK
  <2>2. entry \in 1 .. Len(archive.entrypoints) /\ e \in Entrypoint
    BY CompiledIs
  <2> QED  BY <1>1, <2>1, <2>2 DEF IInv, TypeOK, Progress
<1>3. \A f \in Fns : Compiled(f)' <=> Compiled(f) \/ (~ e.blank /\ f \in e.fns)
  <2> TAKE f \in Fns
  <2>1. \A i \in DOMAIN archive.entrypoints : i < entry + 1 <=> i < entry \/ i = entry
    BY <1>2
  <2> QED  BY <1>1, <1>2, <2>1 DEF Compiled
<1>4. \A f \in Fns : compiled'.fns[f] # 0 <=> compiled.fns[f] # 0 \/ (~ e.blank /\ f \in e.fns)
  <2>1. CASE e.blank
    BY <1>1, <2>1
  <2>2. CASE ~ e.blank
    <3>1. compiled \in Ast /\ AstOf(e) \in Ast
      BY <1>2, AstOfIs DEF IInv, TypeOK
    <3>2. \A f \in Fns : compiled'.fns[f] =
                           IF AstOf(e).fns[f] # 0 THEN AstOf(e).fns[f] ELSE compiled.fns[f]
      <4>1. compiled' = Merge(compiled, AstOf(e))  BY <1>1, <2>2
      <4>2. compiled \in Ast /\ AstOf(e) \in Ast  BY <3>1
      <4> HIDE DEF e
      <4>3. \A f \in Fns : Merge(compiled, AstOf(e)).fns[f] =
                           IF AstOf(e).fns[f] # 0 THEN AstOf(e).fns[f] ELSE compiled.fns[f]
        BY ONLY <4>2, MergeIs, ZenonT(60)
      <4> QED  BY ONLY <4>1, <4>3, Zenon
    <3>3. \A f \in Fns : AstOf(e).fns[f] # 0 <=> f \in e.fns
      BY <1>2, AstOfIs
    <3> QED  BY <2>2, <3>2, <3>3
  <2> QED  BY <2>1, <2>2
<1> HIDE DEF e
<1>5. \A f \in Fns : compiled'.fns[f] # 0 <=> Compiled(f)'
  BY <1>1, <1>3, <1>4 DEF LoadGoesOn
<1> QED  BY <1>1, <1>5 DEF LoadGoesOn, Loading

(* All of the AST goes into that of the engine.                            *)
LEMMA TakesAll ==
  ASSUME IInv, LoadGoesOn, TakeAst, ~ (Fails /\ UNCHANGED rh_ast)
  PROVE  LoadGoesOn'
<1>1. /\ stage = "compile" /\ stage' = "load_config" /\ rh_ast' = Merge(rh_ast, compiled)
      /\ archive.listed => entry > Len(archive.entrypoints)
      /\ archive.listed
      /\ UNCHANGED <<todo, loads, rh_resolver, archive, warmed>>
  BY DEF TakeAst, loop, resolver
<1>2. \A f \in Fns : Compiled(f) <=> Provided(f)
  <2>1. archive.entrypoints \in Seq(Entrypoint) /\ entry \in Nat
    BY ArchiveType DEF IInv, TypeOK
  <2>2. \A i \in DOMAIN archive.entrypoints : i < entry
    BY <1>1, <2>1
  <2> QED  BY <2>2 DEF Compiled, Provided
<1>3. ASSUME Loading PROVE Taken'
  <2> SUFFICES ASSUME NEW f \in Fns
               PROVE  rh_ast'.fns[f] = rh_resolver <=> Provided(f)
    BY <1>1 DEF Taken, Provided
  <2>1. rh_ast'.fns[f] = IF compiled.fns[f] # 0 THEN compiled.fns[f] ELSE rh_ast.fns[f]
    BY <1>1 DEF Merge
  <2>2. /\ rh_ast.fns[f] < rh_resolver /\ compiled.fns[f] \in {0, rh_resolver}
        /\ rh_ast.fns[f] \in Nat /\ rh_resolver \in Nat
    BY <1>1, <1>3 DEF IInv, TypeOK, Ast, Loads, Progress, LoadGoesOn
  <2>3. compiled.fns[f] # 0 <=> Provided(f)
    BY <1>1, <1>2 DEF LoadGoesOn
  <2> QED  BY <2>1, <2>2, <2>3
<1> QED  BY <1>1, <1>3 DEF LoadGoesOn, Loading

(* Every step of a load, and of all else.                                  *)
LEMMA LoadKeeps ==
  ASSUME IInv, LoadGoesOn, [Next]_vars
  PROVE  LoadGoesOn'
<1>1. CASE stage' = "idle"
  BY <1>1 DEF LoadGoesOn
<1>2. CASE LoadBytes
  <2>1. CASE Fails
    BY <1>1, <2>1 DEF Fails, Ends
  <2>2. CASE ~ Fails
    <3>1. /\ stage' = "init_core" /\ loads' = loads + 1 /\ rh_resolver' = loads'
          /\ UNCHANGED <<rh_ast, warmed>>
      BY <1>2, <2>2 DEF LoadBytes
    <3>2. /\ {loads, rh_resolver, warmed} \subseteq Nat /\ \A f \in Fns : rh_ast.fns[f] \in Nat
          /\ warmed <= rh_resolver /\ rh_resolver <= loads
          /\ \A f \in Fns : rh_ast.fns[f] <= rh_resolver
      BY DEF IInv, TypeOK, Ast, Loads, StagesInOrder
    <3>3. warmed < loads' /\ \A f \in Fns : rh_ast.fns[f] < loads'
      BY <3>1, <3>2
    <3> QED  BY <3>1, <3>3 DEF LoadGoesOn
  <2> QED  BY <2>1, <2>2
<1>3. ASSUME NEW call \in StageMethods, StartStage(call)
      PROVE  LoadGoesOn'
  <2>1. CASE Missing(call)
    BY <1>1, <1>3, <2>1 DEF StartStage, Ends
  <2>2. CASE ~ Missing(call)
    <3>1. /\ stage' = call /\ todo' = todo /\ todo[1] = call
          /\ call # "load_core" /\ call # "compile" /\ call # "handle"
      BY <1>3, <2>2 DEF StartStage, Calls, StageMethods
    <3> QED  BY <3>1 DEF LoadGoesOn, Loading
  <2> QED  BY <2>1, <2>2
<1>4. CASE ResolverConfig
  <2>1. CASE Fails
    BY <1>1, <2>1 DEF Fails, Ends
  <2>2. CASE ~ Fails
    <3>1. /\ stage = "init_core" /\ stage' = "compile" /\ entry' = 1 /\ compiled' = NoAst
          /\ UNCHANGED <<todo, loads, rh_resolver, archive, rh_ast, warmed>>
      BY <1>4, <2>2 DEF ResolverConfig, IInv, Progress
    <3>2. \A f \in Fns : compiled'.fns[f] # 0 <=> Compiled(f)'
      <4>1. archive.entrypoints \in Seq(Entrypoint)
        BY ArchiveType DEF IInv, TypeOK
      <4>2. \A i \in DOMAIN archive.entrypoints : ~ (i < 1)
        BY <4>1
      <4> QED  BY <3>1, <4>2, NoAstIs DEF Compiled
    <3> QED  BY <3>1, <3>2 DEF LoadGoesOn, Loading
  <2> QED  BY <2>1, <2>2
<1>5. CASE CompileEntrypoint
  BY <1>1, <1>5, CompilesOn DEF Fails, Ends
<1>6. CASE TakeAst
  BY <1>1, <1>6, TakesAll DEF Fails, Ends
<1>7. CASE LoadConfig
  BY <1>1, <1>7, LoadStays DEF LoadConfig, GoesOn, Returns, Fails, Ends, resolver
<1>8. CASE RegisterComponents
  BY <1>1, <1>8, LoadStays DEF RegisterComponents, GoesOn, Returns, Ends, resolver
<1>9. CASE WarmStatement
  BY <1>1, <1>9, LoadStays DEF WarmStatement, Fails, Ends, parts, resolver
<1>10. CASE StartHandle
  <2>1. CASE Fails
    BY <1>1, <2>1 DEF Fails, Ends
  <2>2. CASE ~ Fails
    BY <1>10, <2>2 DEF LoadGoesOn, Loading, StartHandle, Calls
  <2> QED  BY <2>1, <2>2
<1>11. CASE \E effect \in Effects : Round(effect)
  <2>1. CASE Fails
    BY <1>1, <2>1 DEF Fails, Ends
  <2>2. CASE ~ Fails
    BY <1>11, <2>2 DEF LoadGoesOn, Loading, Round
  <2> QED  BY <2>1, <2>2
<1>12. CASE Warmed \/ Validate \/ RunDeploy \/ HandleReturns
  BY <1>1, <1>12 DEF Warmed, Validate, RunDeploy, HandleReturns, Returns, Fails, Ends
<1>13. ASSUME NEW calls, NEW a, Operation(calls, a) \/ Method(calls, a)
       PROVE  LoadGoesOn'
  BY <1>1, <1>13 DEF Operation, Method
<1>14. CASE UNCHANGED vars
  BY <1>14 DEF vars, parts, resolver, loop, LoadGoesOn, Loading, Compiled, Taken, Provided
<1> QED
  BY <1>2, <1>3, <1>4, <1>5, <1>6, <1>7, <1>8, <1>9, <1>10, <1>11, <1>12, <1>13, <1>14
  DEF Next, EngineStep, Deploy, Handle

(* What the property says of one step.                                     *)
Reports ==
  Loading /\ todo' # todo =>
    IF reply' = "ok"
    THEN loaded_core' /\ registered' /\ {rh_resolver, cfg, warmed}' = {loads'} /\ Taken'
    ELSE /\ Taken' \/ \A f \in Fns : rh_ast'.fns[f] < loads'
         /\ warmed' < loads'
         /\ loaded_core' <=> warmed' # 0

(* The last stage finds all parts of this load but the caches, which it     *)
(* makes; a load that fails before the AST is merged leaves none of it, and *)
(* one that fails later all of it, under the caches of an earlier one.      *)
LEMMA StepReports ==
  ASSUME IInv, LoadGoesOn, [Next]_vars
  PROVE  Reports
<1> SUFFICES ASSUME Loading, todo' # todo
    PROVE  IF reply' = "ok"
           THEN loaded_core' /\ registered' /\ {rh_resolver, cfg, warmed}' = {loads'} /\ Taken'
           ELSE /\ Taken' \/ \A f \in Fns : rh_ast'.fns[f] < loads'
                /\ warmed' < loads'
                /\ loaded_core' <=> warmed' # 0
  BY DEF Reports
<1>0. todo # <<>> /\ todo[1] = "load_core" /\ stage # "handle" /\ (loaded_core' <=> warmed' # 0)
  <2>1. IInv'
    BY NextKeeps
  <2>2. loaded_core' <=> warmed' # 0
    BY <2>1 DEF IInv, TypeOK, Loads, StagesInOrder, loaded_core
  <2> QED  BY <2>2 DEF Loading, LoadGoesOn
<1>1. CASE Warmed
  <2>1. stage = "warm_ast" /\ cfg = rh_resolver /\ rh_resolver = loads /\ registered /\ rh_resolver # 0
    BY <1>0, <1>1 DEF IInv, Progress, LoadGoesOn, Warmed
  <2>2. /\ reply' = "ok" /\ warmed' = rh_resolver
        /\ UNCHANGED <<loads, rh_resolver, archive, rh_ast, cfg, registered>>
    BY <1>1 DEF Warmed, Returns, resolver
  <2>3. Taken'
    BY <2>1, <2>2 DEF LoadGoesOn, Taken, Provided
  <2> QED  BY <1>0, <2>1, <2>2, <2>3
<1>2. CASE LoadBytes
  <2>1. loads' = loads + 1 /\ warmed' = warmed /\ rh_ast' = rh_ast /\ reply' = "err"
    BY <1>2 DEF LoadBytes, Fails
  <2>2. /\ {loads, rh_resolver, warmed} \subseteq Nat /\ \A f \in Fns : rh_ast.fns[f] \in Nat
        /\ warmed <= rh_resolver /\ rh_resolver <= loads
        /\ \A f \in Fns : rh_ast.fns[f] <= rh_resolver
    BY DEF IInv, TypeOK, Ast, Loads, StagesInOrder
  <2>3. warmed' < loads' /\ \A f \in Fns : rh_ast'.fns[f] < loads'
    BY <2>1, <2>2
  <2> QED  BY <1>0, <2>1, <2>3
<1>3. CASE /\ stage \in {"init_core", "compile", "load_config", "warm_ast"}
           /\ reply' = "err" /\ UNCHANGED <<loads, rh_resolver, archive, rh_ast, warmed>>
  <2>1. warmed' < loads'
    BY <1>3 DEF LoadGoesOn
  <2>2. Taken' \/ \A f \in Fns : rh_ast'.fns[f] < loads'
    BY <1>3 DEF LoadGoesOn, Taken, Provided
  <2> QED  BY <1>0, <1>3, <2>1, <2>2
<1>4. CASE ResolverConfig
  BY <1>3, <1>4 DEF ResolverConfig, Fails
<1>5. CASE CompileEntrypoint
  BY <1>3, <1>5 DEF CompileEntrypoint, Fails, parts, resolver
<1>6. CASE TakeAst
  BY <1>3, <1>6 DEF TakeAst, Fails, loop, resolver
<1>7. CASE LoadConfig
  <2>1. Head(todo) # stage  BY <1>0, <1>7 DEF LoadConfig
  <2> QED  BY <1>3, <1>7, <2>1 DEF LoadConfig, GoesOn, Fails, resolver
<1>8. CASE WarmStatement
  BY <1>3, <1>8 DEF WarmStatement, Fails, parts, resolver
<1>9. CASE RegisterComponents
  BY <1>0, <1>9 DEF RegisterComponents, GoesOn
<1>10. ASSUME NEW call \in StageMethods, StartStage(call)  PROVE FALSE
  BY <1>0, <1>10 DEF StartStage, Calls, StageMethods
<1>11. ASSUME NEW calls, NEW a, Operation(calls, a) \/ Method(calls, a)  PROVE FALSE
  BY <1>0, <1>11 DEF Operation, Method
<1>12. CASE Validate \/ RunDeploy \/ StartHandle
  BY <1>0, <1>12 DEF Validate, RunDeploy, StartHandle, Calls
<1>13. CASE HandleReturns \/ \E effect \in Effects : Round(effect)
  BY <1>0, <1>13 DEF HandleReturns, Round
<1>14. CASE UNCHANGED vars
  BY <1>14 DEF vars
<1> QED
  BY <1>1, <1>2, <1>4, <1>5, <1>6, <1>7, <1>8, <1>9, <1>10, <1>11, <1>12, <1>13, <1>14
  DEF Next, EngineStep, Deploy, Handle

(* load_core says Ok only when resolver, config, caches and just the        *)
(* functions it has are of the archive it was given; an error leaves all of *)
(* its functions or none, and older caches, or no caches and nothing to run. *)
THEOREM LoadsAreReported == Spec => LoadReports
<1>1. Init => LoadGoesOn
  BY DEF Init, LoadGoesOn, Loading
<1>2. IInv /\ LoadGoesOn /\ [Next]_vars => LoadGoesOn' /\ Reports
  BY LoadKeeps, StepReports
<1>3. Reports <=> (Loading /\ todo' # todo =>
       IF reply' = "ok"
       THEN loaded_core' /\ registered' /\ {rh_resolver, cfg, warmed}' = {loads'} /\ Taken'
       ELSE /\ Taken' \/ \A f \in Fns : rh_ast'.fns[f] < loads'
            /\ warmed' < loads'
            /\ loaded_core' <=> warmed' # 0)
  BY DEF Reports
<1> QED  BY <1>1, <1>2, <1>3, EngineInvariant, PTL DEF Spec, LoadReports
=============================================================================
