---------------------------- MODULE MCDashboard -----------------------------
(***************************************************************************)
(* The dashboard on small instances: one session among all statements of   *)
(* the other sessions, of the cleanup and of the servers.                  *)
(***************************************************************************)
EXTENDS Dashboard

CONSTANTS t1, t2

MCTestIDs == {t1, t2}
MCSubdomains == {<<>>}

Content(text, length) == [text |-> text, length |-> length]
Short == Content("c", ContentLimit)
Other == Content("d", 0)
Long == Content("e", ContentLimit + 1)
In(prefix) == [prefix |-> prefix, name |-> "p"]

MCContents == {Short, Other}
MCPaths == {In("acme-challenge")}

File(scheme, path, content) ==
  [op |-> "add_http_file", test |-> t1,
   file |-> [scheme |-> scheme, sub |-> <<>>, path |-> path, content |-> content]]

MCFileEdits ==
  {[op |-> op] : op \in {"start", "home", "assets", "view_issuance", "unrecognized"}}
    \cup {[op |-> op, test |-> t1] : op \in {"none", "ctsearch"}}
    \cup {[op |-> "rm_http_file", test |-> t1, id |-> 1],
          File("http", In("acme-challenge"), Short),
          File("http", In("acme-challenge"), Long),
          File("http", In("other"), Short),
          File("other", In("acme-challenge"), Short)}

LongText == Content("long", TextLimit + 1)
ShortText == Content("short", TextLimit)

Record(record) == [op |-> "add_dns_record", test |-> t1, record |-> record]
TXT(txt) == [type |-> "TXT", sub |-> <<>>, txt |-> txt]
CAA(flag, tag) ==
  [type |-> "CAA", sub |-> <<>>, flag |-> flag, tag |-> tag, value |-> LongText]

MCRecordData ==
  {<<"TXT", DataOf(TXT(ShortText))>>, <<"CAA", DataOf(CAA(FlagLimit, ShortText))>>}
MCRData == {p[2] : p \in MCRecordData}

MCRecordEdits ==
  {[op |-> "stop", test |-> t1], [op |-> "view", test |-> t1],
   [op |-> "rm_dns_record", test |-> t1, id |-> 1],
   Record(TXT(ShortText)), Record(TXT(LongText)),
   Record(CAA(FlagLimit, ShortText)), Record(CAA(FlagLimit + 1, ShortText)),
   Record(CAA(FlagLimit, LongText)), Record([type |-> "other"])}

MCPosted == MCFileEdits \cup MCRecordEdits

=============================================================================
