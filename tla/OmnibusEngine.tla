---------------------------- MODULE OmnibusEngine ----------------------------
(***************************************************************************)
(* OmnibusEngine of packages/core/src/engine.rs, driven by deploy() and    *)
(* handle() of operations.rs or by its public methods, and the part of the *)
(* zip resolver that load_core runs: loading the archive, its config and   *)
(* the scripts that the config names as entrypoints.  The stages of        *)
(* load_core are public methods too, and may be called by themselves.      *)
(*                                                                         *)
(* Loads are numbered, and a part of the engine holds the number of the    *)
(* load that its archive came by; 0 stands for Option::None.               *)
(***************************************************************************)
EXTENDS Integers, Sequences, FiniteSets

CONSTANTS Archives,       \* what a caller may pass as `bytes`, see below
          MaxLoads,       \* bound on the calls of load_core on one engine
          MaxStatements,  \* bound on an AST that init_core is called with
          Rounds          \* how often run_handle calls the script, 1000 in the code

ASSUME BoundsAssumption == MaxLoads \in Nat \ {0} /\ Rounds \in Nat \ {0}

Endpoints == {"deploy", "handle", "query"}  \* ENDPOINT_METHODS
Fns       == Endpoints \cup {"simple"}

(* An archive: is it a zip, does its config parse, does that have the      *)
(* required keys, and the entrypoints it lists, if it does.  An entrypoint *)
(* may fail to compile (the file is missing, or it has a syntax error),    *)
(* and has functions and statements.  const says what its const part does, *)
(* which is evaluated while compiling: nothing of note, fail, or call      *)
(* storage_set; so says body of its top-level statements.  "blank" is a    *)
(* file from which no AST is made.                                         *)
Effects    == {"pure", "fails", "writes"}
Entrypoint == [compiles : BOOLEAN, blank : BOOLEAN, fns : SUBSET Fns,
               const : Effects, body : Effects]
Archive    == [zip : BOOLEAN, json : BOOLEAN, keys : BOOLEAN,
               listed : BOOLEAN, entrypoints : Seq(Entrypoint)]

ASSUME ArchivesAssumption == Archives \subseteq Archive

VARIABLES
  todo,         \* the methods still to be called
  stage,        \* where the call of the moment is, "idle" between calls
  bytes,        \* the archive load_core is called with
  entry,        \* compile_entrypoints: the entrypoint it is at
  compiled,     \* and the AST it has accumulated
  position,     \* warm_ast: the statement it is at; run_handle: the round
  reply,        \* how the last method ended
  loads,        \* how many times load_core was called on this engine
  rh_resolver,  \* the load that the resolver was made by
  archive,      \* and its archive
  configured,   \* and whether it has parsed the config
  rh_ast,       \* where each function is from; the statements, oldest first
  cfg,          \* the load that cfg is from
  registered,   \* whether scripts have storage_set
  warmed,       \* the load that rh_caches and rh_global were made in
  storage,      \* the loads of this engine whose scripts have written to
                \* deps.storage
  endpoints_ok, \* whether validate() has succeeded on this engine
  alone         \* the stages of load_core that were called by themselves

resolver == <<rh_resolver, archive, configured>>
parts    == <<resolver, rh_ast, cfg, registered, warmed>>
loop     == <<bytes, entry, compiled, position>>
vars     == <<todo, stage, reply, loads, storage, endpoints_ok, alone, parts, loop>>

StageMethods == {"init_core", "load_config", "register_components", "warm_ast"}
Call         == {"load_core", "validate", "run_deploy", "run_handle"} \cup StageMethods

NoAst     == [made |-> FALSE, fns |-> [f \in Fns |-> 0], body |-> <<>>]
NoArchive == [zip |-> FALSE, json |-> FALSE, keys |-> FALSE, listed |-> FALSE, entrypoints |-> <<>>]

(* Faulty: the new AST takes the place of the old one.                     *)
MergeReplacing(a, b) == b

(* Faulty: the new AST is merged the wrong way round.                      *)
MergeSwapped(a, b) ==
  [made |-> TRUE,
   fns |-> [f \in Fns |-> IF a.fns[f] # 0 THEN a.fns[f] ELSE b.fns[f]],
   body |-> b.body \o a.body]

(* AST::merge: a function of the second replaces one of the same name, the *)
(* statements of the second follow those of the first.                     *)
Merge(a, b) ==
  [made |-> TRUE,
   fns |-> [f \in Fns |-> IF b.fns[f] # 0 THEN b.fns[f] ELSE a.fns[f]],
   body |-> a.body \o b.body]

(* The AST of an entrypoint.                                               *)
AstOf(e) ==
  [made |-> TRUE,
   fns |-> [f \in Fns |-> IF f \in e.fns THEN rh_resolver ELSE 0],
   body |-> IF e.body = "pure" THEN <<>> ELSE <<[load |-> rh_resolver, effect |-> e.body]>>]

loaded_core == rh_resolver # 0 /\ rh_ast.made /\ warmed # 0

-----------------------------------------------------------------------------
(* Calls and their ends.                                                   *)

Ends == stage' = "idle" /\ bytes' = NoArchive /\ entry' = 0 /\ compiled' = NoAst /\ position' = 0

Returns == reply' = "ok" /\ todo' = Tail(todo) /\ Ends

(* `?`: the error goes to the caller, who calls nothing else.              *)
Fails == reply' = "err" /\ todo' = <<>> /\ Ends

(* A stage that was called by itself returns, else the next one follows.   *)
GoesOn(next, start) ==
  IF Head(todo) = stage THEN Returns
  ELSE stage' = next /\ position' = start /\ UNCHANGED <<todo, reply, bytes, entry, compiled>>

(* Faulty: operations go on with the engine of the operation before.       *)
EngineKept == UNCHANGED <<loads, parts, storage, endpoints_ok, alone>>

(* Faulty: the script functions are registered from the start.             *)
NewEngineRegistered ==
  /\ loads' = 0 /\ rh_resolver' = 0 /\ archive' = NoArchive /\ configured' = FALSE
  /\ rh_ast' = NoAst /\ cfg' = 0 /\ registered' = TRUE /\ warmed' = 0
  /\ endpoints_ok' = FALSE /\ storage' = {} /\ alone' = {}

(* OmnibusEngine::new(deps)                                                *)
NewEngine ==
  /\ loads' = 0 /\ rh_resolver' = 0 /\ archive' = NoArchive /\ configured' = FALSE
  /\ rh_ast' = NoAst /\ cfg' = 0 /\ registered' = FALSE /\ warmed' = 0
  /\ endpoints_ok' = FALSE /\ storage' = {} /\ alone' = {}

(* operations::deploy and operations::handle.                              *)
Operation(calls, a) ==
  /\ stage = "idle" /\ todo = <<>>
  /\ NewEngine
  /\ todo' = calls /\ bytes' = a /\ reply' = "none"
  /\ UNCHANGED <<stage, entry, compiled, position>>

Deploy(a) == Operation(<<"load_core", "validate", "run_deploy">>, a)
Handle(a) == Operation(<<"load_core", "run_handle">>, a)

(* A method called on the engine there is.                                 *)
Method(call, a) ==
  /\ stage = "idle" /\ todo = <<>>
  /\ call = "load_core" => loads < MaxLoads
  /\ call = "init_core" => Len(rh_ast.body) < MaxStatements
  /\ todo' = <<call>> /\ bytes' = a /\ reply' = "none"
  /\ alone' = alone \cup ({call} \cap StageMethods)
  /\ UNCHANGED <<stage, entry, compiled, position, loads, parts, storage, endpoints_ok>>

Calls(call) == stage = "idle" /\ todo # <<>> /\ Head(todo) = call

-----------------------------------------------------------------------------
(* load_core                                                               *)

(* load_from_bytes, and on success the resolver is set, twice: in          *)
(* rh_resolver, and a clone of it in the script engine; init_core follows. *)
LoadBytes ==
  /\ Calls("load_core")
  /\ loads' = loads + 1
  /\ IF bytes.zip
     THEN /\ rh_resolver' = loads' /\ archive' = bytes /\ configured' = FALSE
          /\ stage' = "init_core" /\ UNCHANGED <<todo, reply, loop>>
     ELSE Fails /\ UNCHANGED resolver
  /\ UNCHANGED <<rh_ast, cfg, registered, warmed, storage, endpoints_ok, alone>>

(* What a stage unwraps is None.                                           *)
Missing(call) ==
  \/ call # "register_components" /\ rh_resolver = 0
  \/ call = "load_config" /\ ~ configured
  \/ call = "warm_ast" /\ ~ rh_ast.made

(* A stage is called by itself; a panic takes the engine with it.          *)
StartStage(call) ==
  /\ Calls(call)
  /\ IF Missing(call)
     THEN NewEngine /\ reply' = "panic" /\ todo' = <<>> /\ Ends
     ELSE /\ stage' = call /\ position' = 1
          /\ UNCHANGED <<todo, reply, bytes, entry, compiled>>
          /\ UNCHANGED <<loads, parts, storage, endpoints_ok, alone>>

(* init_with_scope: set_scope, load_config.                                *)
ResolverConfig ==
  /\ stage = "init_core"
  /\ IF archive.json
     THEN /\ configured' = TRUE
          /\ stage' = "compile" /\ entry' = 1 /\ UNCHANGED <<todo, reply, bytes, compiled, position>>
     ELSE Fails /\ UNCHANGED configured
  /\ UNCHANGED <<loads, rh_resolver, archive, rh_ast, cfg, registered, warmed>>
  /\ UNCHANGED <<storage, endpoints_ok, alone>>

(* compile_entrypoints, one round of its loop: a const part that calls     *)
(* storage_set finds it only if it was registered before.                  *)
CanCompile(e) ==
  e.compiles /\ e.const # "fails" /\ (e.const = "writes" => registered)

(* Faulty: a file without an AST is never left behind.                     *)
CompileEntrypointStuck ==
  /\ stage = "compile" /\ archive.listed /\ entry <= Len(archive.entrypoints)
  /\ LET e == archive.entrypoints[entry]
     IN  /\ IF CanCompile(e)
            THEN /\ IF e.blank THEN UNCHANGED <<compiled, entry>>
                    ELSE compiled' = Merge(compiled, AstOf(e)) /\ entry' = entry + 1
                 /\ UNCHANGED <<stage, todo, reply, bytes, position>>
            ELSE Fails
         /\ storage' = IF CanCompile(e) /\ e.const = "writes" THEN storage \cup {rh_resolver} ELSE storage
  /\ UNCHANGED <<loads, parts, endpoints_ok, alone>>

(* Faulty: what has been compiled goes into the AST of the engine at once. *)
CompileEntrypointAtOnce ==
  /\ stage = "compile" /\ archive.listed /\ entry <= Len(archive.entrypoints)
  /\ LET e == archive.entrypoints[entry]
     IN  /\ IF CanCompile(e)
            THEN /\ compiled' = IF e.blank THEN compiled ELSE Merge(compiled, AstOf(e))
                 /\ rh_ast' = IF e.blank THEN rh_ast ELSE Merge(rh_ast, AstOf(e))
                 /\ entry' = entry + 1
                 /\ UNCHANGED <<stage, todo, reply, bytes, position>>
            ELSE Fails /\ UNCHANGED rh_ast
         /\ storage' = IF CanCompile(e) /\ e.const = "writes" THEN storage \cup {rh_resolver} ELSE storage
  /\ UNCHANGED <<loads, resolver, cfg, registered, warmed, endpoints_ok, alone>>

CompileEntrypoint ==
  /\ stage = "compile" /\ archive.listed /\ entry <= Len(archive.entrypoints)
  /\ LET e == archive.entrypoints[entry]
     IN  /\ IF CanCompile(e)
            THEN /\ compiled' = IF e.blank THEN compiled ELSE Merge(compiled, AstOf(e))
                 /\ entry' = entry + 1
                 /\ UNCHANGED <<stage, todo, reply, bytes, position>>
            ELSE Fails
         /\ storage' = IF CanCompile(e) /\ e.const = "writes" THEN storage \cup {rh_resolver} ELSE storage
  /\ UNCHANGED <<loads, parts, endpoints_ok, alone>>

(* The end of compile_entrypoints, and what init_core does with the AST.   *)
TakeAst ==
  /\ stage = "compile" /\ (archive.listed => entry > Len(archive.entrypoints))
  /\ IF archive.listed /\ compiled.made
     THEN /\ rh_ast' = Merge(rh_ast, compiled)
          /\ stage' = "load_config" /\ UNCHANGED <<todo, reply, loop>>
     ELSE Fails /\ UNCHANGED rh_ast
  /\ UNCHANGED <<loads, resolver, cfg, registered, warmed, storage, endpoints_ok, alone>>

(* load_config with CortexConfig::validate.                                *)
LoadConfig ==
  /\ stage = "load_config"
  /\ IF archive.keys
     THEN cfg' = rh_resolver /\ GoesOn("register_components", position)
     ELSE Fails /\ UNCHANGED cfg
  /\ UNCHANGED <<loads, resolver, rh_ast, registered, warmed, storage, endpoints_ok, alone>>

(* register_components: register_handlers, register_functions.             *)
RegisterComponents ==
  /\ stage = "register_components"
  /\ registered' = TRUE
  /\ GoesOn("warm_ast", 1)
  /\ UNCHANGED <<loads, resolver, rh_ast, cfg, warmed, storage, endpoints_ok, alone>>

(* warm_ast: every statement of the merged AST is evaluated; one that      *)
(* calls storage_set fails if there is none.                               *)
Fruitless(effect) == effect = "fails" \/ (effect = "writes" /\ ~ registered)

WarmStatement ==
  /\ stage = "warm_ast" /\ position <= Len(rh_ast.body)
  /\ LET statement == rh_ast.body[position]
     IN  IF Fruitless(statement.effect)
         THEN Fails /\ UNCHANGED storage
         ELSE /\ storage' = storage \cup {statement.load}
              /\ position' = position + 1
              /\ UNCHANGED <<stage, todo, reply, bytes, entry, compiled>>
  /\ UNCHANGED <<loads, parts, endpoints_ok, alone>>

Warmed ==
  /\ stage = "warm_ast" /\ position > Len(rh_ast.body)
  /\ warmed' = rh_resolver
  /\ Returns
  /\ UNCHANGED <<loads, resolver, rh_ast, cfg, registered, storage, endpoints_ok, alone>>

-----------------------------------------------------------------------------
(* The other methods.                                                      *)

(* validate: every endpoint is a function of the AST.                      *)
Validate ==
  /\ Calls("validate")
  /\ IF loaded_core /\ \A f \in Endpoints : rh_ast.fns[f] # 0
     THEN Returns /\ endpoints_ok' = TRUE
     ELSE Fails /\ UNCHANGED endpoints_ok
  /\ UNCHANGED <<loads, parts, storage, alone>>

(* run_deploy, which does nothing yet.                                     *)
RunDeploy ==
  /\ Calls("run_deploy")
  /\ Returns
  /\ UNCHANGED <<loads, parts, storage, endpoints_ok, alone>>

(* run_handle: the loop starts, or there is nothing to run.                *)
StartHandle ==
  /\ Calls("run_handle")
  /\ IF loaded_core
     THEN stage' = "handle" /\ position' = 1 /\ UNCHANGED <<todo, reply, bytes, entry, compiled>>
     ELSE Fails
  /\ UNCHANGED <<loads, parts, storage, endpoints_ok, alone>>

(* One round: the script function `simple` is called, which may write; an  *)
(* error, also that there is no such function, ends the loop, and what     *)
(* earlier rounds wrote stays.                                             *)
Round(effect) ==
  /\ stage = "handle" /\ position <= Rounds
  /\ IF rh_ast.fns["simple"] = 0 \/ Fruitless(effect)
     THEN Fails /\ UNCHANGED storage
     ELSE /\ storage' = IF effect = "writes" THEN storage \cup {rh_ast.fns["simple"]} ELSE storage
          /\ position' = position + 1
          /\ UNCHANGED <<stage, todo, reply, bytes, entry, compiled>>
  /\ UNCHANGED <<loads, parts, endpoints_ok, alone>>

HandleReturns ==
  /\ stage = "handle" /\ position > Rounds
  /\ Returns
  /\ UNCHANGED <<loads, parts, storage, endpoints_ok, alone>>

-----------------------------------------------------------------------------
Init ==
  /\ todo = <<>> /\ stage = "idle" /\ reply = "none"
  /\ bytes = NoArchive /\ entry = 0 /\ compiled = NoAst /\ position = 0
  /\ loads = 0 /\ rh_resolver = 0 /\ archive = NoArchive /\ configured = FALSE
  /\ rh_ast = NoAst /\ cfg = 0 /\ registered = FALSE /\ warmed = 0
  /\ storage = {} /\ endpoints_ok = FALSE /\ alone = {}

(* What the engine does once it has been called.                           *)
EngineStep ==
  \/ LoadBytes
  \/ \E call \in StageMethods : StartStage(call)
  \/ ResolverConfig
  \/ CompileEntrypoint
  \/ TakeAst
  \/ LoadConfig
  \/ RegisterComponents
  \/ WarmStatement
  \/ Warmed
  \/ Validate
  \/ RunDeploy
  \/ StartHandle
  \/ \E effect \in Effects : Round(effect)
  \/ HandleReturns

Next ==
  \/ \E a \in Archives : Deploy(a)
  \/ \E a \in Archives : Handle(a)
  \/ \E a \in Archives : Method("load_core", a)
  \/ \E call \in Call \ {"load_core"} : Method(call, NoArchive)
  \/ EngineStep

(* The engine runs to the end of a call: it is one thread, and waits for   *)
(* nothing.                                                                *)
Spec == Init /\ [][Next]_vars /\ WF_vars(EngineStep)

-----------------------------------------------------------------------------
(* Properties.                                                             *)

Loads     == 0 .. MaxLoads
Statement == [load : Loads, effect : Effects \ {"pure"}]
Ast       == [made : BOOLEAN, fns : [Fns -> Loads], body : Seq(Statement)]

(* The parts of the engine keep their shape.                               *)
TypeOK ==
  /\ todo \in Seq(Call)
  /\ stage \in {"idle", "compile", "handle"} \cup StageMethods
  /\ {bytes, archive} \subseteq Archives \cup {NoArchive}
  /\ entry \in Nat /\ position \in Nat
  /\ compiled \in Ast /\ rh_ast \in Ast
  /\ reply \in {"none", "ok", "err", "panic"}
  /\ {loads, rh_resolver, cfg, warmed} \subseteq Loads
  /\ configured \in BOOLEAN /\ registered \in BOOLEAN
  /\ storage \subseteq Loads
  /\ endpoints_ok \in BOOLEAN
  /\ alone \subseteq StageMethods

(* However loads fail and are repeated, and whatever stages are called by  *)
(* themselves, nothing in the engine is newer than what it was made from:  *)
(* the config, the functions and the caches than the resolver, statements  *)
(* than those that follow them.  The caches are of an AST, under a config  *)
(* that is as new and with the script functions, and the config is that of *)
(* an AST, unless it was the stage itself that somebody called.            *)
StagesInOrder ==
  /\ cfg <= rh_resolver /\ warmed <= rh_resolver /\ rh_resolver <= loads
  /\ \A f \in Fns : rh_ast.fns[f] <= rh_resolver
  /\ \A i, j \in DOMAIN rh_ast.body : i < j => rh_ast.body[i].load <= rh_ast.body[j].load
  /\ warmed # 0 => rh_ast.made
  /\ "warm_ast" \notin alone => warmed <= cfg /\ (warmed # 0 => registered)
  /\ "load_config" \notin alone => (cfg # 0 => rh_ast.made)

(* An engine that validate() accepted stays one that it would accept,      *)
(* whatever is loaded into it and fails to load later.                     *)
ValidatedStaysValid ==
  endpoints_ok => loaded_core /\ \A f \in Endpoints : rh_ast.fns[f] # 0

(* No script writes to the storage of an engine that has never accepted a  *)
(* config, not even one that compiling evaluates, unless somebody calls    *)
(* register_components() out of turn.                                      *)
WritesNeedConfig == storage # {} => cfg # 0 \/ "register_components" \in alone

(* The functions of the AST that are from the resolver's archive are those *)
(* that the entrypoints of the archive have.                               *)
Provided(f) ==
  \E i \in DOMAIN archive.entrypoints :
    ~ archive.entrypoints[i].blank /\ f \in archive.entrypoints[i].fns

Taken == \A f \in Fns : rh_ast.fns[f] = rh_resolver <=> Provided(f)

Loading == todo # <<>> /\ todo[1] = "load_core"

(* When load_core returns Ok, resolver, config and caches are from the     *)
(* archive it was given, and so are just those functions that the archive  *)
(* has; the others are what earlier loads have left.  When it returns an   *)
(* error, the functions of the archive are all there or none of them is,   *)
(* the caches are older, and the engine can be run if it has any.          *)
LoadReports ==
  [][Loading /\ todo' # todo =>
       IF reply' = "ok"
       THEN loaded_core' /\ registered' /\ {rh_resolver, cfg, warmed}' = {loads'} /\ Taken'
       ELSE /\ Taken' \/ \A f \in Fns : rh_ast'.fns[f] < loads'
            /\ warmed' < loads'
            /\ loaded_core' <=> warmed' # 0]_vars

(* Every operation and every method returns, if the calls of scripts do.   *)
EveryCallReturns == todo # <<>> ~> todo = <<>>

-----------------------------------------------------------------------------
(* What the proofs rest on besides.                                        *)

(* The calls of an operation, of which load_core is the first.             *)
CallsInOrder ==
  /\ stage # "idle" => todo # <<>>
  /\ \A i \in DOMAIN todo : todo[i] = "load_core" => i = 1
  /\ \A i \in DOMAIN todo : todo[i] \in StageMethods => todo[i] \in alone
  /\ stage = "idle" /\ Loading => loads < MaxLoads

(* A stage finds what the stages before it have made, unless it was called *)
(* by itself, and what is being compiled is of the resolver's archive.     *)
Progress ==
  /\ stage \in {"init_core", "compile", "load_config", "warm_ast"} => rh_resolver # 0
  /\ stage = "compile" => entry # 0
  /\ stage = "load_config" /\ todo[1] # stage => rh_ast.made
  /\ stage = "register_components" /\ todo[1] # stage =>
       rh_resolver # 0 /\ rh_ast.made /\ cfg = rh_resolver
  /\ stage = "warm_ast" => rh_ast.made /\ position # 0
  /\ stage = "warm_ast" /\ todo[1] # stage => cfg = rh_resolver /\ registered
  /\ stage = "handle" => loaded_core
  /\ registered => cfg # 0 \/ "register_components" \in alone
  /\ \A f \in Fns : compiled.fns[f] \in {0, rh_resolver}
  /\ \A i \in DOMAIN compiled.body : compiled.body[i].load = rh_resolver
  /\ stage \in {"idle", "init_core"} => compiled = NoAst
  /\ \A i \in DOMAIN rh_ast.body : rh_ast.body[i].load <= rh_resolver

(* The conjunction that every step preserves.                              *)
IInv == /\ TypeOK /\ CallsInOrder /\ Progress
        /\ StagesInOrder /\ ValidatedStaysValid /\ WritesNeedConfig
=============================================================================
