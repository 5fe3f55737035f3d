------------------------------ MODULE MCOutbox ------------------------------
(* Small instances of Outbox, and its mutants. *)
EXTENDS Outbox, TLC

Symmetry == Permutations(Relay)

=============================================================================
