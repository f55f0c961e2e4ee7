-------------------------- MODULE MCModuleResolver --------------------------
(* An archive with what makes imports hard: shared modules, files that are  *)
(* imported under several paths, failures that are caught and that are not, *)
(* and modules that import themselves.                                      *)
EXTENDS ModuleResolver

Plain(path) == [path |-> path, caught |-> FALSE]
Tried(path) == [path |-> path, caught |-> TRUE]
Good(imports) == [consts |-> <<>>, compiles |-> TRUE, imports |-> imports]

MCArchive ==
  [ f \in { <<"a">>, <<"d">>, <<"e">>, <<"g">>, <<"loop">>, <<"broken">>,
            <<"lib", "a">>, <<"lib", "b">>, <<"lib", "c">>, <<"lib", "d">>, <<"lib", "f">>, <<"/", "d">> } |->
    CASE f = <<"e">> -> Good(<<Tried(<<"g">>), Plain(<<"lib", "c">>), Plain(<<"lib", "d">>)>>)
      [] f = <<"g">> -> Good(<<Plain(<<"lib", "d">>), Plain(<<"broken">>)>>)
      [] f = <<"loop">> -> Good(<<Plain(<<"d">>), Plain(<<"loop">>)>>)
      [] f = <<"broken">> -> [consts |-> <<Plain(<<"lib", "f">>)>>, compiles |-> FALSE, imports |-> <<>>]
      [] f = <<"lib", "a">> -> Good(<<Plain(<<"a">>)>>)    \* itself, or the root's
      [] f = <<"lib", "b">> ->                             \* the root's, and its own
           [consts |-> <<Plain(<<"d">>)>>, compiles |-> TRUE, imports |-> <<Plain(<<"d">>)>>]
      [] f = <<"lib", "c">> -> Good(<<Plain(<<"d">>), Tried(<<"e">>)>>)
      [] f = <<"lib", "d">> -> Good(<<Tried(<<"f">>)>>)    \* there is no "f" at the root
      [] f = <<"a">> -> Good(<<Plain(<<"/", "d">>), Tried(<<"lib", "none">>)>>)
      [] OTHER -> Good(<<>>) ]

MCEntrypoints ==
  {Plain(<<"e">>), Plain(<<"loop">>), Plain(<<"lib", "a">>), Plain(<<"lib", "b">>), Plain(<<"lib", "d">>),
   Plain(<<"a">>), Plain(<<"g">>), Tried(<<"none">>), Plain(<<"none">>)}

MCQueries ==
  {[path |-> <<"d">>, source |-> <<"lib">>], [path |-> <<"d">>, source |-> None]}
=============================================================================
