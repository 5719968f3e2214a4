------------------------------- MODULE MCPlugins -------------------------------
(***************************************************************************)
(* An instance of Plugins for TLC.                                         *)
(***************************************************************************)
EXTENDS Plugins, MCFileNames, TLC

MCPlugins == {"a", "b", "c"}
Graph(a, b, c) == [p \in MCPlugins |-> CASE p = "a" -> a [] p = "b" -> b [] p = "c" -> c]
\* a and b depend on each other, and c on both: a cycle once a is active, none before.
MCGraphs == {Graph(<<"b">>, <<"a">>, <<"b", "a">>)}
MCOffers == {{"b", "c"}}
MCConfigs == {"edited"}
\* One plugin is switched off and one is configured; that there is no file yet is the
\* same as a file cut by a crash.
MCFiles == {[p \in MCPlugins |-> [active |-> p # "a",
                                  config |-> IF p = "c" THEN "edited" ELSE "{}"]]}
\* Pages and files are alike.
MCSymmetry == Permutations(Pages) \cup Permutations(Hashes)
=============================================================================
