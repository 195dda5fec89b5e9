---------------------------- MODULE MCHTTPServer ----------------------------
(***************************************************************************)
(* The HTTP server on small instances: one test, and the host names that   *)
(* take serveHTTP along each of its paths.                                 *)
(***************************************************************************)
EXTENDS HTTPServer

CONSTANTS t1, r1

MCTestIDs == {t1}
MCWords == {"www", "_acme"}
MCUnderscored == {"_acme"}
MCSubdomains == {<<>>, <<"www">>}

Plain(words) == [labels |-> [i \in 1..Len(words) |-> LowerLabel(words[i])], dot |-> FALSE]

(* The name of the test, in upper case and with the dot of a full name.    *)
ShoutedName ==
  [labels |-> [i \in 1..3 |-> [word |-> <<t1, "test", "domain">>[i], upper |-> TRUE]],
   dot |-> TRUE]

MCHosts == {Plain(<<"domain">>), ShoutedName, Plain(<<"www", t1, "test", "domain">>),
            Plain(<<"_acme", t1, "test", "domain">>), Plain(<<"www">>)}
MCServerNames == {Plain(<<t1, "test", "domain">>), ShoutedName}

=============================================================================
