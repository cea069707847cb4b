----------------------------- MODULE MCPhysical -----------------------------
(* Pages of 4 bytes, 2 pages to a bitmap byte, low memory of 32 bytes.     *)
EXTENDS Physical, TLC

Symmetry == Permutations(Clients)

=============================================================================
