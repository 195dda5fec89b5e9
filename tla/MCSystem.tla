------------------------------ MODULE MCSystem ------------------------------
(***************************************************************************)
(* The system on small instances: one test, and a crew of actors who may   *)
(* all act at the same time, in every order, with every failure.           *)
(***************************************************************************)
EXTENDS System

CONSTANTS t1, q1, r1, c1, s1, s2

MCTestIDs == {t1}
MCWords == {"sectigo", "com", "evil", "none"}
MCSubdomains == {<<>>}

TestName(dot) ==
  [labels |-> <<LowerLabel(t1), LowerLabel("test"), LowerLabel("domain")>>, dot |-> dot]
MCNames == {TestName(TRUE)}
MCHosts == {TestName(FALSE)}

In(prefix) == [prefix |-> prefix, name |-> "p"]
Content(text, length) == [text |-> text, length |-> length]
MCPaths == {In("acme-challenge")}
MCContents == {Content("c", ContentLimit)}

Shouted(words) ==
  [labels |-> [i \in DOMAIN words |-> [word |-> words[i], upper |-> TRUE]], dot |-> FALSE]
CNAME(words) ==
  [op |-> "add_dns_record", test |-> t1,
   record |-> [type |-> "CNAME", sub |-> <<>>, target |-> Shouted(words)]]
TXT ==
  [op |-> "add_dns_record", test |-> t1,
   record |-> [type |-> "TXT", sub |-> <<>>, txt |-> Content("x", TextLimit)]]

MCPosted ==
  {[op |-> "start"], [op |-> "view", test |-> t1], [op |-> "stop", test |-> t1],
   CNAME(<<"sectigo", "com">>), CNAME(<<"evil", "com">>), CNAME(<<>>), CNAME(<<"none", "sectigo", "com">>),
   TXT,
   [op |-> "add_http_file", test |-> t1,
    file |-> [scheme |-> "http", sub |-> <<>>, path |-> In("acme-challenge"),
              content |-> Content("c", ContentLimit)]]}

(* What was published before the program started. *)
Published ==
  {<<"TXT", [Txt |-> Content("x", TextLimit)]>>,
   <<"CNAME", [Target |-> [labels |-> <<LowerLabel("sectigo"), LowerLabel("com")>>,
                           dot    |-> TRUE]]>>}

MCRecordData ==
  Published
    \cup {<<r.type, DataOf(r)>> : r \in {TXT.record, CNAME(<<"sectigo", "com">>).record}}
MCRData == {p[2] : p \in MCRecordData}

(* Two users, and the cleanup, may stop the test at different times.       *)
Scene(actors, records, from) == [crew |-> actors, published |-> records, clock |-> from]
MCScenes ==
  {Scene({q1, s1}, Published, 1), Scene({r1, s1}, {}, 1), Scene({c1, s1}, {}, 1),
   Scene({s1, s2}, {}, 0), Scene({q1, r1, c1}, {}, 1)}

=============================================================================
