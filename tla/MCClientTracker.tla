-------------------------- MODULE MCClientTracker --------------------------
(* One peer over a long time, and three peers for two records.             *)
EXTENDS ClientTracker, TLC

Names == {"", "Living Room"}
Unnamed == {""}
Symmetry == Permutations(Ip)

=============================================================================
