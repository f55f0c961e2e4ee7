-------------------------- MODULE MCOmnibusEngine --------------------------
(* Archives that fail at each stage of load_core, and some that do not.     *)
EXTENDS OmnibusEngine

Script(fns, const, body) ==
  [compiles |-> TRUE, blank |-> FALSE, fns |-> fns, const |-> const, body |-> body]

Whole    == Script(Fns, "pure", "writes")
Half     == Script({"deploy", "simple"}, "pure", "pure")
Rest     == Script({"handle", "query"}, "writes", "pure")
Failing  == Script({"query"}, "pure", "fails")
BadConst == Script({"query"}, "fails", "pure")
Broken   == [Half EXCEPT !.compiles = FALSE]
Blank    == [compiles |-> TRUE, blank |-> TRUE, fns |-> {}, const |-> "pure", body |-> "pure"]

Zip(entrypoints) ==
  [zip |-> TRUE, json |-> TRUE, keys |-> TRUE, listed |-> TRUE, entrypoints |-> entrypoints]

MCArchives ==
  { Zip(<<Whole>>),
    Zip(<<Blank, Half>>),
    Zip(<<Half, Rest>>),                         \* writes while compiling
    Zip(<<Whole, Failing>>),                     \* fails in warm_ast
    Zip(<<Half, Broken>>),
    Zip(<<BadConst>>),
    Zip(<<Blank>>),                              \* no AST
    [Zip(<<>>) EXCEPT !.listed = FALSE],         \* no entrypoints
    [Zip(<<Whole>>) EXCEPT !.keys = FALSE],      \* the config is refused
    [Zip(<<Whole>>) EXCEPT !.json = FALSE],
    [Zip(<<>>) EXCEPT !.zip = FALSE] }
=============================================================================
