---------------------------- MODULE LogStreamMC ----------------------------
(***************************************************************************)
(* Three captured blobs, the last compressed, and a live log.  The texts   *)
(* hold lines longer than a fragment and than a window, entries that must  *)
(* shrink, characters on every cut, a compressed log without its end and a *)
(* line that takes two runs.                                               *)
(***************************************************************************)
EXTENDS LogStream

MCTexts == <<{<<"a">>, <<"x", "L", "C", "n", "a">>,
              <<"n", "a", "a", "a", "a", "a", "a", "a", "a", "a", "a">>},
             {<<"n">>},
             {<<"a", "e">>, <<"a">>},
             {<<"a", "x", "n", "L">>, <<"L", "C", "a", "L", "C">>}>>

MCTails == {<<"C", "n">>, <<"a">>}
=============================================================================
