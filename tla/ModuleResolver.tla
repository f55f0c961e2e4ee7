--------------------------- MODULE ModuleResolver ---------------------------
(***************************************************************************)
(* How ZipModuleResolver (packages/rhai/module-resolver/zip/src/           *)
(* resolver.rs) resolves the imports of scripts, and those of the modules  *)
(* they import, out of one archive and with one cache.                     *)
(*                                                                         *)
(* A path is a sequence of components, the first of which is "/" in an     *)
(* absolute one; the extension is left out, as all paths get the same.     *)
(* Files are found by the path as it is: no ".." is resolved.              *)
(***************************************************************************)
EXTENDS Integers, Sequences, FiniteSets

Seqs == INSTANCE SequencesExt

CONSTANTS
  Archive,        \* the files: a function from paths to Scripts
  Entrypoints,    \* the imports of scripts that are no modules
  Queries,        \* what clear_cache_for_path is asked for: [path, source]
  base_path,      \* Option<PathBuf>: a path or None
  None,
  MaxDepth,       \* how many evaluations fit on the machine's stack
  MaxRounds       \* bound: how often somebody uses the resolver

(* An import statement: its path as it is written, and whether the script  *)
(* catches a failure of it.  A script has imports in its const part and in *)
(* the rest of it; the rest may not compile, or there may be none, and a   *)
(* const part that does not compile is as if there were none and the rest  *)
(* did not.                                                                *)
Path   == Seq(STRING)
Import == [path : Path, caught : BOOLEAN]
Script == [consts : Seq(Import), compiles : BOOLEAN, imports : Seq(Import)]

ASSUME ArchiveAssumption ==
  /\ DOMAIN Archive \subseteq Path
  /\ \A f \in DOMAIN Archive : Archive[f] \in Script
ASSUME EntrypointsAssumption == Entrypoints \subseteq Import
ASSUME BasePathAssumption ==
  None \notin Path /\ None \notin Nat /\ base_path \in Path \cup {None}
ASSUME BoundsAssumption   == MaxDepth \in Nat \ {0} /\ MaxRounds \in Nat

VARIABLES
  cache_enabled,
  cache,      \* the modules by their file paths
  stack,      \* the scripts that are being evaluated: an entrypoint, and the
              \* modules that are being imported, the innermost last
  result,     \* how the last entrypoint ended
  unwinding,  \* the import that the innermost script is at has failed
  made,       \* how many modules were made: their numbers tell them apart
  renewed,    \* the files whose module in the cache was removed, or may be
              \* replaced as they were imported while being evaluated
  rounds

vars == <<cache_enabled, cache, stack, result, unwinding, made, renewed, rounds>>

-----------------------------------------------------------------------------
IsRelative(path) == path = <<>> \/ Head(path) # "/"

(* get_file_path                                                           *)
FilePath(path, source_path) ==
  IF ~ IsRelative(path) THEN path
  ELSE IF base_path # None THEN base_path \o path
  ELSE IF source_path # None THEN source_path \o path
  ELSE path

(* Path::parent of the source of a script.                                 *)
Parent(source) == IF source \in {None, <<>>} THEN None ELSE Seqs!Front(source)

(* split_source_const: the const part comes first.                         *)
Consts(file)     == Len(Archive[file].consts)
Statements(file) == Archive[file].consts \o Archive[file].imports

(* A script under evaluation: whether that of its const part is over, what *)
(* it has still to import, and what its imports came to, None for those    *)
(* that failed and were caught.  The const part is evaluated by itself and *)
(* has no source.                                                          *)
Frame(file, source, compiled, statements) ==
  [file |-> file, source |-> source, compiled |-> compiled, rest |-> statements, imports |-> <<>>]

AtImport(frame) ==
  /\ frame.rest # <<>>
  /\ ~ frame.compiled => Len(frame.imports) < Consts(frame.file)

SourceOf(frame) == IF frame.compiled THEN frame.source ELSE None

Top     == Seqs!Last(stack)
Caller  == Seqs!Front(stack)

(* The script goes on behind an import that came to `outcome`.             *)
GoesOn(frame, outcome) ==
  [frame EXCEPT !.rest = Tail(@), !.imports = Append(@, outcome)]

-----------------------------------------------------------------------------
(* impl_resolve, for the import the innermost script is at.                *)

Evaluating == stack # <<>> /\ ~ unwinding
Compiling  == Evaluating /\ ~ Top.compiled /\ Len(Top.imports) = Consts(Top.file)
Importing  == Evaluating /\ AtImport(Top)

File == FilePath(Head(Top.rest).path, Parent(SourceOf(Top)))

(* Faulty: the cache is not asked.                                         *)
Miss == FALSE

Hit == cache_enabled /\ File \in DOMAIN cache

ResolveFromCache ==
  /\ Importing /\ Hit
  /\ stack' = Append(Caller, GoesOn(Top, cache[File].id))
  /\ UNCHANGED <<cache_enabled, cache, result, unwinding, made, renewed, rounds>>

(* There is no such file.                                                  *)
ResolveFails ==
  /\ Importing /\ ~ Hit
  /\ File \notin DOMAIN Archive
  /\ unwinding' = TRUE
  /\ UNCHANGED <<cache_enabled, cache, stack, result, made, renewed, rounds>>

(* The script is found, and compile_with_scope evaluates its const part.   *)
ResolveBegins ==
  /\ Importing /\ ~ Hit
  /\ File \in DOMAIN Archive
  /\ Len(stack) < MaxDepth
  /\ stack' = Append(stack, Frame(File, Head(Top.rest).path, FALSE, Statements(File)))
  /\ renewed' = IF \E k \in DOMAIN stack : stack[k].file = File
                THEN renewed \cup {File} ELSE renewed
  /\ UNCHANGED <<cache_enabled, cache, result, unwinding, made, rounds>>

(* Nothing bounds the nesting of imports but the machine.                  *)
StackOverflow ==
  /\ Importing /\ ~ Hit
  /\ File \in DOMAIN Archive
  /\ Len(stack) = MaxDepth
  /\ stack' = <<>> /\ result' = "trapped"
  /\ UNCHANGED <<cache_enabled, cache, unwinding, made, renewed, rounds>>

(* The rest of it is compiled, and gets the path as the import has it for  *)
(* its source; its evaluation begins.                                      *)
Compile ==
  /\ Compiling /\ Archive[Top.file].compiles
  /\ stack' = Append(Caller, [Top EXCEPT !.compiled = TRUE])
  /\ UNCHANGED <<cache_enabled, cache, result, unwinding, made, renewed, rounds>>

(* ErrorInModule: it does not compile, or there is no AST.  What its const *)
(* part has imported stays in the cache.                                   *)
CompileFails ==
  /\ Compiling /\ ~ Archive[Top.file].compiles
  /\ stack' = Caller /\ unwinding' = TRUE
  /\ UNCHANGED <<cache_enabled, cache, result, made, renewed, rounds>>

(* eval_ast_as_new has returned: the module is put into the cache, and     *)
(* handed to the script that imports it.                                   *)
Module == [id |-> made + 1, source |-> Top.source, imports |-> Top.imports]

(* Faulty: the cache goes by the path as the import has it.                *)
CachedAsWritten ==
  [f \in DOMAIN cache \cup {Top.source} |-> IF f = Top.source THEN Module ELSE cache[f]]

Cached ==
  [f \in DOMAIN cache \cup {Top.file} |-> IF f = Top.file THEN Module ELSE cache[f]]

ResolveEnds ==
  /\ Evaluating /\ Top.compiled /\ Top.rest = <<>> /\ Len(stack) > 1
  /\ cache' = IF cache_enabled THEN Cached ELSE cache
  /\ made' = made + 1
  /\ stack' = Append(Seqs!Front(Caller), GoesOn(Seqs!Last(Caller), made'))
  /\ UNCHANGED <<cache_enabled, result, unwinding, renewed, rounds>>

(* The script catches the failure of its import.                           *)
Catch ==
  /\ unwinding /\ Head(Top.rest).caught
  /\ stack' = Append(Caller, GoesOn(Top, None))
  /\ unwinding' = FALSE
  /\ UNCHANGED <<cache_enabled, cache, result, made, renewed, rounds>>

(* Faulty: a failed import is passed over.                                 *)
UnwindIgnored ==
  /\ unwinding /\ ~ Head(Top.rest).caught /\ Len(stack) > 1
  /\ stack' = Append(Caller, GoesOn(Top, None))
  /\ unwinding' = FALSE
  /\ UNCHANGED <<cache_enabled, cache, result, made, renewed, rounds>>

(* ErrorInModule: it does not, so that it fails itself.                    *)
Unwind ==
  /\ unwinding /\ ~ Head(Top.rest).caught /\ Len(stack) > 1
  /\ stack' = Caller
  /\ UNCHANGED <<cache_enabled, cache, result, unwinding, made, renewed, rounds>>

-----------------------------------------------------------------------------
(* Entrypoints, and the methods that take the resolver mutably, for which  *)
(* nothing may be under evaluation.                                        *)

IsIdle == stack = <<>> /\ result # "trapped" /\ rounds < MaxRounds

(* A script without a source that imports something.                       *)
Begin(i) ==
  /\ IsIdle
  /\ stack' = <<Frame(None, None, TRUE, <<i>>)>>
  /\ rounds' = rounds + 1
  /\ UNCHANGED <<cache_enabled, cache, result, unwinding, made, renewed>>

End ==
  /\ Len(stack) = 1
  /\ \/ ~ unwinding /\ Top.rest = <<>> /\ result' = "ok"
     \/ unwinding /\ ~ Head(Top.rest).caught /\ result' = "err"
  /\ stack' = <<>> /\ unwinding' = FALSE
  /\ UNCHANGED <<cache_enabled, cache, made, renewed, rounds>>

enable_cache(enable) ==
  /\ IsIdle
  /\ cache_enabled' = enable
  /\ rounds' = rounds + 1
  /\ UNCHANGED <<cache, stack, result, unwinding, made, renewed>>

clear_cache ==
  /\ IsIdle
  /\ cache' = [f \in {} |-> 0] /\ renewed' = {}
  /\ rounds' = rounds + 1
  /\ UNCHANGED <<cache_enabled, stack, result, unwinding, made>>

(* clear_cache_for_path, which takes the source path as it is, and not the *)
(* parent of it.                                                           *)
clear_cache_for_path(query) ==
  /\ IsIdle
  /\ LET file == FilePath(query.path, query.source)
     IN  /\ cache' = [f \in DOMAIN cache \ {file} |-> cache[f]]
         /\ renewed' = renewed \cup ({file} \cap DOMAIN cache)
  /\ rounds' = rounds + 1
  /\ UNCHANGED <<cache_enabled, stack, result, unwinding, made>>

-----------------------------------------------------------------------------
Init ==
  /\ cache_enabled = TRUE /\ cache = [f \in {} |-> 0]
  /\ stack = <<>> /\ result = "none" /\ unwinding = FALSE
  /\ made = 0 /\ renewed = {} /\ rounds = 0

Evaluate ==
  \/ ResolveFromCache
  \/ ResolveFails
  \/ ResolveBegins
  \/ StackOverflow
  \/ Compile
  \/ CompileFails
  \/ ResolveEnds
  \/ Catch
  \/ Unwind
  \/ End

Next ==
  \/ \E i \in Entrypoints : Begin(i)
  \/ \E enable \in BOOLEAN : enable_cache(enable)
  \/ clear_cache
  \/ \E query \in Queries : clear_cache_for_path(query)
  \/ Evaluate

Spec == Init /\ [][Next]_vars

-----------------------------------------------------------------------------
(* Properties.                                                             *)

Files   == DOMAIN Archive
Outcome == Nat \cup {None}

FrameType == [file : Files \cup {None}, source : Path \cup {None}, compiled : BOOLEAN,
              rest : Seq(Import), imports : Seq(Outcome)]

(* The cache holds modules under the paths of files, the stack scripts.    *)
TypeOK ==
  /\ cache_enabled \in BOOLEAN /\ unwinding \in BOOLEAN
  /\ DOMAIN cache \subseteq Files
  /\ \A f \in DOMAIN cache : /\ cache[f].id \in 1 .. made
                             /\ cache[f].source \in Path
                             /\ cache[f].imports \in Seq(Outcome)
  /\ stack \in Seq(FrameType)
  /\ result \in {"none", "ok", "err", "trapped"}
  /\ renewed \subseteq Files
  /\ {made, rounds} \subseteq Nat

(* Whatever fails while modules import each other, a module in the cache   *)
(* is whole: its script ran to its end, const part and all, and every      *)
(* import that it did not catch gave it a module.                          *)
CacheIsComplete ==
  \A f \in DOMAIN cache :
    LET statements == Statements(f)
    IN  /\ Archive[f].compiles
        /\ Len(cache[f].imports) = Len(statements)
        /\ \A n \in DOMAIN statements :
             cache[f].imports[n] = None => statements[n].caught

(* The file that the nth import of a script asks for.                      *)
Asked(f, source, n) ==
  FilePath(Statements(f)[n].path, Parent(IF n <= Consts(f) THEN None ELSE source))

(* Modules in the cache share what they import: the module that one of     *)
(* them got from a file is the one in the cache under that file, unless    *)
(* that was renewed.                                                       *)
SharedInstances ==
  \A f \in DOMAIN cache : \A n \in DOMAIN Statements(f) :
    LET file == Asked(f, cache[f].source, n)
    IN  cache[f].imports[n] # None /\ file \notin renewed =>
          file \in DOMAIN cache /\ cache[file].id = cache[f].imports[n]

(* A script is not evaluated while its module is in the cache, unless the  *)
(* script imports itself, directly or not.                                 *)
EvaluatedOnce ==
  cache_enabled =>
    \A k \in DOMAIN stack : stack[k].file \in DOMAIN cache => stack[k].file \in renewed

(* A script that is a module has come as far as it has outcomes: what it   *)
(* has behind it and before it are the statements of its file, and what    *)
(* failed was caught.  It is compiled when its const part is behind it.    *)
Ran(frame) ==
  LET statements == Statements(frame.file)
      n          == Len(frame.imports)
  IN  /\ IF frame.compiled THEN n >= Consts(frame.file) /\ Archive[frame.file].compiles
                           ELSE n <= Consts(frame.file)
      /\ Len(statements) = n + Len(frame.rest)
      /\ \A i \in DOMAIN frame.rest : frame.rest[i] = statements[n + i]
      /\ \A i \in 1 .. n : frame.imports[i] = None => statements[i].caught

(* Every module under evaluation is what the script outside it imports.    *)
FramesInOrder ==
  /\ unwinding => stack # <<>> /\ AtImport(Top)
  /\ \A k \in DOMAIN stack : k = 1 => stack[k].file = None /\ stack[k].compiled
  /\ \A k \in DOMAIN stack : k > 1 =>
       /\ stack[k].file \in Files
       /\ Ran(stack[k])
       /\ AtImport(stack[k - 1])
       /\ LET import == Head(stack[k - 1].rest)
          IN  /\ stack[k].source = import.path
              /\ stack[k].file = FilePath(import.path, Parent(SourceOf(stack[k - 1])))

(* A script that imports itself is known to be evaluated again.            *)
CirclesAreRenewed ==
  \A j, k \in DOMAIN stack : j < k /\ stack[j].file = stack[k].file => stack[k].file \in renewed

(* What a module under evaluation has imported is what the cache has.      *)
FrameShares(frame) ==
  \A n \in DOMAIN frame.imports :
    LET file == Asked(frame.file, frame.source, n)
    IN  frame.imports[n] # None /\ file \notin renewed =>
          file \in DOMAIN cache /\ cache[file].id = frame.imports[n]

FramesShare == cache_enabled => \A k \in DOMAIN stack : k > 1 => FrameShares(stack[k])

(* The conjunction that every step preserves.                              *)
IInv == /\ TypeOK /\ FramesInOrder /\ CirclesAreRenewed /\ FramesShare
        /\ CacheIsComplete /\ SharedInstances /\ EvaluatedOnce
=============================================================================
