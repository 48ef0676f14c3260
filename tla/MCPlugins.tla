------------------------------ MODULE MCPlugins ------------------------------
(***************************************************************************)
(* Names are interchangeable.                                              *)
(***************************************************************************)
EXTENDS Plugins, TLC

CONSTANTS n1, n2

NameSymmetry == Permutations({n1, n2})

=============================================================================
