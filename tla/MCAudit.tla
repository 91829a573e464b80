------------------------------- MODULE MCAudit -------------------------------
(***************************************************************************)
(* A small instance of FadeAudit for TLC.                                  *)
(***************************************************************************)
EXTENDS FadeAudit, TLC

Symmetry == Permutations(Ids)
=============================================================================
