------------------------ MODULE MCPgTransactionSource ------------------------
(* PgTransactionSource on small instances. *)
EXTENDS PgTransactionSource, TLC

Symmetry == Permutations(Callers) \cup Permutations(Writes)
=============================================================================
