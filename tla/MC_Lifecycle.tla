---------------------------- MODULE MC_Lifecycle ----------------------------
(***************************************************************************)
(* Instances of Lifecycle.  A second cycle makes the baseline of an apply  *)
(* depend on what an earlier one and its rollback left; the snapshot ids   *)
(* are interchangeable.                                                    *)
(***************************************************************************)
EXTENDS Lifecycle, TLC

Symmetry == Permutations(Cycle)
=============================================================================
