---------------------------- MODULE MCSgwSession ----------------------------
(***************************************************************************)
(* SgwSession for model checking with symmetry: nothing distinguishes the  *)
(* requests of the MME, the IMSIs or the eNodeBs.                          *)
(***************************************************************************)
EXTENDS SgwSession, TLC

Symmetry == Permutations(Trxns) \cup Permutations(Imsis) \cup Permutations(ENodeBs)
=============================================================================
