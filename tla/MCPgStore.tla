----------------------------- MODULE MCPgStore -----------------------------
(* Instances of PgStore for TLC. *)
EXTENDS PgStore, TLC

Symmetry == Permutations(Session) \cup Permutations(Val)

=============================================================================
