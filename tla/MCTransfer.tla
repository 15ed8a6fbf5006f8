----------------------------- MODULE MCTransfer -----------------------------
(***************************************************************************)
(* TransferHelper for TLC: one user sends files to another device, twice.  *)
(* The applicant and the accepting device differ, so there is no symmetry. *)
(***************************************************************************)
EXTENDS TransferHelper
=============================================================================
