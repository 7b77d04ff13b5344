-------------------------- MODULE MCClientReporter --------------------------
(* Two peers that share one record, reported on at any moment.             *)
EXTENDS ClientReporter, TLC

Unnamed == {""}

=============================================================================
