------------------------------ MODULE MCServer ------------------------------
(***************************************************************************)
(* Small instances of Server.  Connections are interchangeable.            *)
(***************************************************************************)
EXTENDS Server, TLC

Symmetry == Permutations(Client)

=============================================================================
