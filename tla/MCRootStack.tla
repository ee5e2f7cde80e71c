---------------------------- MODULE MCRootStack ----------------------------
(* Small instances of RootStack. *)
EXTENDS RootStack, TLC

Symmetry == Permutations(Token)

=============================================================================
