---------------------------- MODULE MCSMTPServer ----------------------------
(***************************************************************************)
(* The SMTP server on small instances: a session, two messages one after   *)
(* the other, two tests and the addresses that take Rcpt along its paths.  *)
(***************************************************************************)
EXTENDS SMTPServer

CONSTANTS t1, t2, s1

MCTestIDs == {t1, t2}
MCWords == {"www"}

Plain(words) == [labels |-> [i \in 1..Len(words) |-> LowerLabel(words[i])], dot |-> FALSE]

MCAddresses ==
  {Plain(<<"www", t1, "test", "domain">>), Plain(<<t2, "test", "domain">>), NULL}

MCShoutedAddresses ==
  {[labels |-> [i \in 1..3 |-> [word |-> <<t1, "test", "domain">>[i], upper |-> TRUE]],
    dot |-> FALSE], Plain(<<t2, "test", "domain">>)}

=============================================================================
