-------------------------------- MODULE Forms --------------------------------
(***************************************************************************)
(* The forms that users post to the dashboard, and what dashboard.go makes *)
(* of their fields before it executes a statement.  Users may post other   *)
(* values than the page offers, so every field is checked.                 *)
(*                                                                         *)
(* A text is known by its length and its identity.  The target of a CNAME  *)
(* is a Hostname, and one without labels is an empty field.                *)
(***************************************************************************)
EXTENDS Database, SequencesExt

CONSTANT Malformed  \* those of Words that are empty or too long for a DNS label

ASSUME FormsAssumption == Malformed \subseteq Words

Text == [text : STRING, length : Nat]

(* A path is known by the well-known directory that it is in, or "other".  *)
Path == [prefix : {"pki-validation", "acme-challenge", "other"}, name : STRING]

TextLimit == 255
ContentLimit == 512
FlagLimit == 255

(* A number that cannot be parsed is NULL. *)
PostedRecord ==
  [type : {"TXT"}, sub : Seq(Label), txt : Text]
    \cup [type : {"CAA"}, sub : Seq(Label), flag : Int \cup {NULL}, tag : Text, value : Text]
    \cup [type : {"CNAME"}, sub : Seq(Label), target : Hostname]
    \cup [type : {"other"}]

PostedFile ==
  [scheme : Schemes \cup {"other"}, sub : Seq(Label), path : Path, content : Text]

(* What serveTest is asked to do.  view and ctsearch are GET requests, the *)
(* others are POST requests; none is one without a recognized button.      *)
TestForms ==
  [op : {"view", "ctsearch", "none", "stop"}, test : TestIDs]
    \cup [op : {"add_dns_record"}, test : TestIDs, record : PostedRecord]
    \cup [op : {"add_http_file"}, test : TestIDs, file : PostedFile]
    \cup [op : {"rm_dns_record", "rm_http_file"}, test : TestIDs, id : 1..MaxRows]

(* The other paths of serveDashboard. *)
OtherForms == [op : {"start", "home", "assets", "view_issuance", "unrecognized"}]

-----------------------------------------------------------------------------
(* The fields of a DNS record.                                             *)

LowerWords(labels) == [i \in DOMAIN labels |-> labels[i].word]

validateCAATag(tag) == tag.length \in 1..TextLimit

authorizedCNAMETargetDomains ==
  {<<"sectigo", "com">>, <<"comodoca", "com">>, <<"ssl", "com">>,
   <<"dcv", "digicert", "com">>, <<"acm-validations", "aws">>}

IsBeneath(domain, name) == IsSuffix(domain, LowerWords(name.labels))

IsAuthorized(name) == \E d \in authorizedCNAMETargetDomains : IsBeneath(d, name)

IsDomainName(name) == \A i \in DOMAIN name.labels : name.labels[i].word \notin Malformed

(* A bug: the target is stored as it was posted. *)
NormalizedRaw(target) == target

(* In lower case, and absolute. *)
Normalized(target) == [ToLower(target) EXCEPT !.dot = TRUE]

IsCNAMETarget(target) ==
  target.labels # <<>> /\ IsDomainName(Normalized(target)) /\ IsAuthorized(Normalized(target))

IsValidRecord(r) ==
  CASE r.type = "TXT"   -> r.txt.length <= TextLimit
    [] r.type = "CAA"   -> r.flag \in 0..FlagLimit /\ validateCAATag(r.tag)
    [] r.type = "CNAME" -> IsCNAMETarget(r.target)
    [] r.type = "other" -> FALSE

(* The column data_json of a valid record.                                 *)
DataOf(r) ==
  CASE r.type = "TXT"   -> [Txt |-> r.txt]
    [] r.type = "CAA"   -> [Flag |-> r.flag, Tag |-> r.tag, Value |-> r.value]
    [] r.type = "CNAME" -> [Target |-> Normalized(r.target)]

-----------------------------------------------------------------------------
(* The fields of a file.                                                   *)

WellKnown(path) == path.prefix \in {"pki-validation", "acme-challenge"}

IsValidFile(f) ==
  f.scheme \in Schemes /\ WellKnown(f.path) /\ f.content.length <= ContentLimit

=============================================================================
