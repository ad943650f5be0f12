------------------------- MODULE MC_CircularModules -------------------------
(* Two files that declare each other.                                        *)
EXTENDS ModuleLoader, TLC

File(name) == [dir |-> <<>>, base |-> name]
Mod(name) == [is_file |-> FALSE, steps |-> <<name>>]
Entry == File("main")
Circle == (Entry :> <<Mod("a")>>) @@ (File("a") :> <<Mod("b")>>) @@ (File("b") :> <<Mod("a")>>)
MCTrees == {Circle}
=============================================================================
