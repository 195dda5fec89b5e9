------------------------------ MODULE MCIPData ------------------------------
(***************************************************************************)
(* The three feeds.  The prefixes sleep for two units of time after a      *)
(* success, everything else for one, so that the downloads fall together   *)
(* in every way.  The addresses of Google stay the same, and the download  *)
(* of the names does not fail, to keep the product of the three small.     *)
(***************************************************************************)
EXTENDS IPData

CONSTANTS l1

MCInterval == [f \in Feeds |-> IF f = "prefixes" THEN 2 ELSE 1]
MCMaxVersion == [f \in Feeds |-> IF f = "google" THEN 0 ELSE 1]
MCMaxFailures == [f \in Feeds |-> IF f = "names" THEN 0 ELSE 1]
MCRetryAfter == [f \in Feeds |-> 1]

=============================================================================
