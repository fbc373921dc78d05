---------------------------- MODULE MCPgwSession ----------------------------
(***************************************************************************)
(* PgwSession for model checking with symmetry: nothing distinguishes the  *)
(* workers, the memory blocks or the IMSIs.  Only for runs without         *)
(* liveness properties.                                                    *)
(***************************************************************************)
EXTENDS PgwSession, TLC

Symmetry == Permutations(Workers) \cup Permutations(Blocks) \cup Permutations(Imsis)
=============================================================================
