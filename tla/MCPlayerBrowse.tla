--------------------------- MODULE MCPlayerBrowse ---------------------------
(* Two players, two interfaces, and as many addresses as records.          *)
EXTENDS PlayerBrowse, TLC

Symmetry == Permutations(Instance) \cup Permutations(Interface)

=============================================================================
