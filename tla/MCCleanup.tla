------------------------------ MODULE MCCleanup ------------------------------
(***************************************************************************)
(* The periodic cleanup with two tests, a period of two and a lifetime of  *)
(* three units of time, so that tests start between two ticks.             *)
(***************************************************************************)
EXTENDS Cleanup

CONSTANTS t1, t2

MCTestIDs == {t1, t2}

=============================================================================
