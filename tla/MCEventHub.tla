---------------------------- MODULE MCEventHub ----------------------------
(* Instances of EventHub for TLC.  SIDs and threads are interchangeable.  *)
EXTENDS EventHub, TLC

Symmetry == Permutations(Sid) \cup Permutations(Caller)
=============================================================================
