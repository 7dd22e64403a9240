-------------------------- MODULE MCApprovalGates --------------------------
(***************************************************************************)
(* ApprovalGates on small instances.  The people who click are             *)
(* interchangeable, and so are the processes that decide.                  *)
(***************************************************************************)
EXTENDS ApprovalGates, TLC

ProcessSymmetry ==
  Permutations(Approvers) \cup Permutations(Deciders)
=============================================================================
