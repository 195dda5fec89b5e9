----------------------------- MODULE MCCTSearch -----------------------------
(***************************************************************************)
(* The search over pages of two among five issuances, with a user who      *)
(* clicks as often as there is a button.                                   *)
(***************************************************************************)
EXTENDS CTSearch

CONSTANTS r1, r2

=============================================================================
