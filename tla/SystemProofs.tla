---------------------------- MODULE SystemProofs ----------------------------
(***************************************************************************)
(* Theorems about the whole program, for every number of queries,          *)
(* requests, connections, mails and sessions, who all act together: every  *)
(* variable has its type; the program implements the log of a test         *)
(* (TestLog), whatever fails or crashes in between; the pages that users   *)
(* see are complete; and what they published is answered, and was checked. *)
(*                                                                         *)
(* The inductive invariant is the conjunction of those of the components.  *)
(* A component's module proves what its own steps keep, given that the     *)
(* others leave its variables and its request table alone and start no     *)
(* stopped test again (OthersKeep), and what its steps do to a test        *)
(* (ServesTest).  Here it is shown that each component is such an          *)
(* environment of the others, and that ServesTest is a step of the log.    *)
(* PagesInv is added for what users see, TargetsInv and PublishedInv for   *)
(* what they publish; each rests on what the steps of the components do to *)
(* rows, pages, queries and records (StepEffects, RecordEffects).          *)
(***************************************************************************)
EXTENDS System, DatabaseProofs

DNSP == INSTANCE DNSServerProofs
WebP == INSTANCE HTTPServerProofs
SMTPP == INSTANCE SMTPServerProofs WITH Sessions <- Connections, session <- connection
DashP == INSTANCE DashboardProofs

-----------------------------------------------------------------------------
(* System and the modules of proofs have an instance each of the           *)
(* components.  Their definitions are the same.                            *)

(* The actions and the state of the DNS server. *)
LEMMA DNSCopies ==
  /\ \A q : DNS!serveDNS(q) = DNSP!serveDNS(q)
  /\ \A q : DNS!ServeQuery(q) = DNSP!ServeQuery(q)
  /\ \A q : DNS!TestOf(q) = DNSP!TestOf(q)
  /\ \A q : DNS!TestOf(q)' = DNSP!TestOf(q)'
  /\ DNS!DNSCrash = DNSP!DNSCrash
  /\ DNS!DNSInit = DNSP!DNSInit
  /\ DNS!DNSTypeOK = DNSP!DNSTypeOK
  BY SMTT(60) DEF DNS!serveDNS, DNSP!serveDNS, DNS!ServeQuery, DNSP!ServeQuery, DNS!TestOf,
         DNSP!TestOf, DNS!DNSCrash, DNSP!DNSCrash, DNS!DNSInit, DNSP!DNSInit,
         DNS!DNSTypeOK, DNSP!DNSTypeOK, DNS!Refuse, DNSP!Refuse, DNS!AnswerApex,
         DNSP!AnswerApex, DNS!DenyName, DNSP!DenyName, DNS!AdmitQuery,
         DNSP!AdmitQuery, DNS!CheckQuery, DNSP!CheckQuery, DNS!Lookup, DNSP!Lookup,
         DNS!recordDNSRequest, DNSP!recordDNSRequest, DNS!WriteReply,
         DNSP!WriteReply, DNS!TargetOf, DNSP!TargetOf, DNS!QueryInFlight,
         DNSP!QueryInFlight, DNS!NoQuery, DNSP!NoQuery, DNS!DBTypeOK, DNSP!DBTypeOK,
         DNS!Query, DNSP!Query, DNS!ToLower, DNSP!ToLower, DNS!Refusable,
         DNSP!Refusable, DNS!QueryArrival, DNSP!QueryArrival, DNS!refused,
         DNSP!refused, DNS!dbVars, DNSP!dbVars, DNS!IsTestDomain, DNSP!IsTestDomain,
         DNS!ApexAnswers, DNSP!ApexAnswers, DNS!parseHostname, DNSP!parseHostname,
         DNS!IsUnderscored, DNSP!IsUnderscored, DNS!HostAnswers, DNSP!HostAnswers,
         DNS!isRunningTest, DNSP!isRunningTest, DNS!lookupDNSRecords,
         DNSP!lookupDNSRecords, DNS!InsertDNSRequest, DNSP!InsertDNSRequest,
         DNS!ReplyTo, DNSP!ReplyTo, DNS!TestRow, DNSP!TestRow, DNS!DNSRecord,
         DNSP!DNSRecord, DNS!HTTPFile, DNSP!HTTPFile, DNS!RequestRow,
         DNSP!RequestRow, DNS!QueryLocations, DNSP!QueryLocations, DNS!Hostname,
         DNSP!Hostname, DNS!RR, DNSP!RR, DNS!DNSReply, DNSP!DNSReply, DNS!Stages,
         DNSP!Stages, DNS!LowerLabel, DNSP!LowerLabel, DNS!IsSubDomain,
         DNSP!IsSubDomain, DNS!Stage, DNSP!Stage, DNS!BuiltIn, DNSP!BuiltIn,
         DNS!Exists, DNSP!Exists, DNS!RowFor, DNSP!RowFor, DNS!AnyWord,
         DNSP!AnyWord, DNS!RecordTypes, DNSP!RecordTypes, DNS!Schemes, DNSP!Schemes,
         DNS!Label, DNSP!Label, DNS!BuiltInTypes, DNSP!BuiltInTypes

(* Those of the HTTP and HTTPS servers. *)
LEMMA WebCopies ==
  /\ \A r : Web!serveHTTP(r) = WebP!serveHTTP(r)
  /\ \A r : Web!ServeRequest(r) = WebP!ServeRequest(r)
  /\ \A r : Web!Cancel(r) = WebP!Cancel(r)
  /\ \A r : Web!HostTest(r) = WebP!HostTest(r)
  /\ \A r : Web!HostTest(r)' = WebP!HostTest(r)'
  /\ Web!HTTPCrash = WebP!HTTPCrash
  /\ Web!HTTPInit = WebP!HTTPInit
  /\ Web!HTTPTypeOK = WebP!HTTPTypeOK
<1>1. \A r : Web!serveHTTP(r) = WebP!serveHTTP(r)
  BY SMTT(60) DEF Web!serveHTTP, WebP!serveHTTP, Web!Schemes, WebP!Schemes, Web!ToLower,
         WebP!ToLower, Web!RefuseHandshake, WebP!RefuseHandshake, Web!ToDashboard,
         WebP!ToDashboard, Web!RejectHost, WebP!RejectHost, Web!RejectSource,
         WebP!RejectSource, Web!AdmitRequest, WebP!AdmitRequest, Web!LowerLabel,
         WebP!LowerLabel, Web!getHTTPSConfig, WebP!getHTTPSConfig,
         Web!RequestArrival, WebP!RequestArrival, Web!dbVars, WebP!dbVars,
         Web!Received, WebP!Received, Web!IsDashboardHost, WebP!IsDashboardHost,
         Web!IsTestHost, WebP!IsTestHost, Web!parseHostname, WebP!parseHostname,
         Web!Stage, WebP!Stage, Web!IsUnderscored, WebP!IsUnderscored, Web!Exists,
         WebP!Exists
<1>2. \A r : Web!ServeRequest(r) = WebP!ServeRequest(r)
  BY SMTT(60) DEF Web!ServeRequest, WebP!ServeRequest, Web!CheckRequest, WebP!CheckRequest,
         Web!LookupFile, WebP!LookupFile, Web!recordHTTPRequest,
         WebP!recordHTTPRequest, Web!Respond, WebP!Respond, Web!isRunningTest,
         WebP!isRunningTest, Web!HostTest, WebP!HostTest, Web!Finish, WebP!Finish,
         Web!Fail, WebP!Fail, Web!dbVars, WebP!dbVars, Web!FilesFor, WebP!FilesFor,
         Web!WithoutFile, WebP!WithoutFile, Web!InsertHTTPRequest,
         WebP!InsertHTTPRequest, Web!Exists, WebP!Exists, Web!HostTarget,
         WebP!HostTarget, Web!FileAt, WebP!FileAt, Web!RowFor, WebP!RowFor,
         Web!parseHostname, WebP!parseHostname, Web!LowerLabel, WebP!LowerLabel
<1>3. /\ \A r : Web!Cancel(r) = WebP!Cancel(r)
      /\ \A r : Web!HostTest(r) = WebP!HostTest(r)
      /\ \A r : Web!HostTest(r)' = WebP!HostTest(r)'
      /\ Web!HTTPCrash = WebP!HTTPCrash
  BY SMTT(60) DEF Web!Cancel, WebP!Cancel, Web!HostTest, WebP!HostTest, Web!HTTPCrash,
         WebP!HTTPCrash, Web!RequestInFlight, WebP!RequestInFlight, Web!dbVars,
         WebP!dbVars, Web!HostTarget, WebP!HostTarget, Web!parseHostname,
         WebP!parseHostname, Web!LowerLabel, WebP!LowerLabel
<1>4. /\ Web!HTTPInit = WebP!HTTPInit
      /\ Web!HTTPTypeOK = WebP!HTTPTypeOK
  BY SMTT(60) DEF Web!HTTPInit, WebP!HTTPInit, Web!HTTPTypeOK, WebP!HTTPTypeOK,
         Web!NoRequest, WebP!NoRequest, Web!DBTypeOK, WebP!DBTypeOK, Web!Request,
         WebP!Request, Web!TestRow, WebP!TestRow, Web!DNSRecord, WebP!DNSRecord,
         Web!HTTPFile, WebP!HTTPFile, Web!RequestRow, WebP!RequestRow,
         Web!RequestLocations, WebP!RequestLocations, Web!Hostname, WebP!Hostname,
         Web!Schemes, WebP!Schemes, Web!Stages, WebP!Stages, Web!AnyWord,
         WebP!AnyWord, Web!RecordTypes, WebP!RecordTypes, Web!Label, WebP!Label
<1> QED BY <1>1, <1>2, <1>3, <1>4

(* Those of the SMTP server. *)
LEMMA SMTPCopies ==
  /\ \A c, m : SMTP!Mail(c, m) = SMTPP!Mail(c, m)
  /\ \A c, addr : SMTP!Rcpt(c, addr) = SMTPP!Rcpt(c, addr)
  /\ \A c : SMTP!Abandon(c) = SMTPP!Abandon(c)
  /\ \A c : SMTP!DataUnreadable(c) = SMTPP!DataUnreadable(c)
  /\ \A c : SMTP!Data(c) = SMTPP!Data(c)
  /\ \A c : SMTP!RecordMail(c) = SMTPP!RecordMail(c)
  /\ \A c : SMTP!CurrentTest(c) = SMTPP!CurrentTest(c)
  /\ \A c : SMTP!CurrentTest(c)' = SMTPP!CurrentTest(c)'
  /\ SMTP!SMTPCrash = SMTPP!SMTPCrash
  /\ SMTP!SMTPInit = SMTPP!SMTPInit
  /\ SMTP!SMTPTypeOK = SMTPP!SMTPTypeOK
  BY SMTT(60) DEF SMTP!Mail, SMTPP!Mail, SMTP!Rcpt, SMTPP!Rcpt, SMTP!Abandon, SMTPP!Abandon,
         SMTP!DataUnreadable, SMTPP!DataUnreadable, SMTP!Data, SMTPP!Data,
         SMTP!RecordMail, SMTPP!RecordMail, SMTP!CurrentTest, SMTPP!CurrentTest,
         SMTP!SMTPCrash, SMTPP!SMTPCrash, SMTP!SMTPInit, SMTPP!SMTPInit,
         SMTP!SMTPTypeOK, SMTPP!SMTPTypeOK, SMTP!dbVars, SMTPP!dbVars,
         SMTP!InTransaction, SMTPP!InTransaction, SMTP!parseEmailAddress,
         SMTPP!parseEmailAddress, SMTP!Reset, SMTPP!Reset, SMTP!Advance,
         SMTPP!Advance, SMTP!Stage, SMTPP!Stage, SMTP!CheckMail, SMTPP!CheckMail,
         SMTP!recordSMTPRequest, SMTPP!recordSMTPRequest, SMTP!Reply, SMTPP!Reply,
         SMTP!NewSession, SMTPP!NewSession, SMTP!DBTypeOK, SMTPP!DBTypeOK,
         SMTP!Session, SMTPP!Session, SMTP!MailHistory, SMTPP!MailHistory,
         SMTP!parseHostname, SMTPP!parseHostname, SMTP!NextIndex, SMTPP!NextIndex,
         SMTP!Exists, SMTPP!Exists, SMTP!isRunningTest, SMTPP!isRunningTest,
         SMTP!FailTest, SMTPP!FailTest, SMTP!InsertSMTPRequest,
         SMTPP!InsertSMTPRequest, SMTP!TestRow, SMTPP!TestRow, SMTP!DNSRecord,
         SMTPP!DNSRecord, SMTP!HTTPFile, SMTPP!HTTPFile, SMTP!RequestRow,
         SMTPP!RequestRow, SMTP!Stages, SMTPP!Stages, SMTP!LowerLabel,
         SMTPP!LowerLabel, SMTP!RowFor, SMTPP!RowFor, SMTP!AnyWord, SMTPP!AnyWord,
         SMTP!RecordTypes, SMTPP!RecordTypes, SMTP!Schemes, SMTPP!Schemes, SMTP!Min,
         SMTPP!Min

(* Those of the dashboard. *)
LEMMA DashCopies ==
  /\ \A s : Dash!serveDashboard(s) = DashP!serveDashboard(s)
  /\ \A s : Dash!startTest(s) = DashP!startTest(s)
  /\ \A s : Dash!serveTest(s) = DashP!serveTest(s)
  /\ \A s : Dash!MayEdit(s) = DashP!MayEdit(s)
  /\ \A s : Dash!MayEdit(s)' = DashP!MayEdit(s)'
  /\ Dash!DashboardCrash = DashP!DashboardCrash
  /\ Dash!DashboardInit = DashP!DashboardInit
  /\ Dash!DashboardTypeOK = DashP!DashboardTypeOK
  BY SMTT(60) DEF Dash!serveDashboard, DashP!serveDashboard, Dash!startTest, DashP!startTest,
         Dash!serveTest, DashP!serveTest, Dash!MayEdit, DashP!MayEdit,
         Dash!DashboardCrash, DashP!DashboardCrash, Dash!DashboardInit,
         DashP!DashboardInit, Dash!DashboardTypeOK, DashP!DashboardTypeOK,
         Dash!Schemes, DashP!Schemes, Dash!StatusOf, DashP!StatusOf, Dash!Arrive,
         DashP!Arrive, Dash!dbVars, DashP!dbVars, Dash!InsertTest, DashP!InsertTest,
         Dash!Answer, DashP!Answer, Dash!AnswerFailure, DashP!AnswerFailure,
         Dash!loadTestDashboard, DashP!loadTestDashboard, Dash!RejectForm,
         DashP!RejectForm, Dash!ApplyEdit, DashP!ApplyEdit, Dash!FailEdit,
         DashP!FailEdit, Dash!ShowPage, DashP!ShowPage, Dash!IsEdit, DashP!IsEdit,
         Dash!Form, DashP!Form, Dash!SessionInFlight, DashP!SessionInFlight,
         Dash!NoSession, DashP!NoSession, Dash!DBTypeOK, DashP!DBTypeOK,
         Dash!Session, DashP!Session, Dash!serveViewIssuance,
         DashP!serveViewIssuance, Dash!TestForms, DashP!TestForms, Dash!Stage,
         DashP!Stage, Dash!Exists, DashP!Exists, Dash!BlankPage, DashP!BlankPage,
         Dash!RowsOf, DashP!RowsOf, Dash!LoadOrder, DashP!LoadOrder, Dash!IsInvalid,
         DashP!IsInvalid, Dash!Statement, DashP!Statement, Dash!Outcome,
         DashP!Outcome, Dash!TestRow, DashP!TestRow, Dash!DNSRecord,
         DashP!DNSRecord, Dash!HTTPFile, DashP!HTTPFile, Dash!RequestRow,
         DashP!RequestRow, Dash!Page, DashP!Page, Dash!Stages, DashP!Stages,
         Dash!PostedRecord, DashP!PostedRecord, Dash!PostedFile, DashP!PostedFile,
         Dash!IsValidRecord, DashP!IsValidRecord, Dash!IsValidFile,
         DashP!IsValidFile, Dash!StopTest, DashP!StopTest, Dash!InsertRecord,
         DashP!InsertRecord, Dash!LowerWords, DashP!LowerWords, Dash!DataOf,
         DashP!DataOf, Dash!InsertFile, DashP!InsertFile, Dash!DeleteRecord,
         DashP!DeleteRecord, Dash!DeleteFile, DashP!DeleteFile, Dash!FilesInPlace,
         DashP!FilesInPlace, Dash!AnyWord, DashP!AnyWord, Dash!RecordTypes,
         DashP!RecordTypes, Dash!Label, DashP!Label, Dash!Text, DashP!Text,
         Dash!Hostname, DashP!Hostname, Dash!Path, DashP!Path, Dash!TextLimit,
         DashP!TextLimit, Dash!FlagLimit, DashP!FlagLimit, Dash!validateCAATag,
         DashP!validateCAATag, Dash!IsCNAMETarget, DashP!IsCNAMETarget,
         Dash!WellKnown, DashP!WellKnown, Dash!ContentLimit, DashP!ContentLimit,
         Dash!isRunningTest, DashP!isRunningTest, Dash!IsNextID, DashP!IsNextID,
         Dash!Target, DashP!Target, Dash!Normalized, DashP!Normalized, Dash!FileAt,
         DashP!FileAt, Dash!RowIsOf, DashP!RowIsOf, Dash!IsDomainName,
         DashP!IsDomainName, Dash!IsAuthorized, DashP!IsAuthorized, Dash!ToLower,
         DashP!ToLower, Dash!authorizedCNAMETargetDomains,
         DashP!authorizedCNAMETargetDomains, Dash!IsBeneath, DashP!IsBeneath,
         Dash!LowerLabel, DashP!LowerLabel

(* The database that the DNS server uses. *)
LEMMA DNSDatabase ==
  /\ DBTypeOK = DNSP!DBTypeOK
  /\ DBTypeOK' = DNSP!DBTypeOK'
  /\ dbVars = DNSP!dbVars
  /\ dbVars' = DNSP!dbVars'
  /\ \A t : isRunningTest(t) = DNSP!isRunningTest(t)
  /\ \A t, q : InsertDNSRequest(t, q) = DNSP!InsertDNSRequest(t, q)
  /\ StopsAreFinal = DNSP!StopsAreFinal
  BY SMTT(60) DEF DBTypeOK, DNSP!DBTypeOK, dbVars, DNSP!dbVars, isRunningTest,
         DNSP!isRunningTest, InsertDNSRequest, DNSP!InsertDNSRequest, TestRow,
         DNSP!TestRow, DNSRecord, DNSP!DNSRecord, HTTPFile, DNSP!HTTPFile,
         RequestRow, DNSP!RequestRow, Exists, DNSP!Exists, RowFor, DNSP!RowFor,
         AnyWord, DNSP!AnyWord, RecordTypes, DNSP!RecordTypes, Schemes,
         DNSP!Schemes, Stage, DNSP!Stage, StopsAreFinal, DNSP!StopsAreFinal

(* The database that the HTTP and HTTPS servers use. *)
LEMMA WebDatabase ==
  /\ DBTypeOK = WebP!DBTypeOK
  /\ DBTypeOK' = WebP!DBTypeOK'
  /\ dbVars = WebP!dbVars
  /\ dbVars' = WebP!dbVars'
  /\ \A t : isRunningTest(t) = WebP!isRunningTest(t)
  /\ \A t, r : InsertHTTPRequest(t, r) = WebP!InsertHTTPRequest(t, r)
  /\ StopsAreFinal = WebP!StopsAreFinal
  BY SMTT(60) DEF DBTypeOK, WebP!DBTypeOK, dbVars, WebP!dbVars, isRunningTest,
         WebP!isRunningTest, InsertHTTPRequest, WebP!InsertHTTPRequest, TestRow,
         WebP!TestRow, DNSRecord, WebP!DNSRecord, HTTPFile, WebP!HTTPFile,
         RequestRow, WebP!RequestRow, Exists, WebP!Exists, RowFor, WebP!RowFor,
         AnyWord, WebP!AnyWord, RecordTypes, WebP!RecordTypes, Schemes,
         WebP!Schemes, Stage, WebP!Stage, StopsAreFinal, WebP!StopsAreFinal

(* The database that the SMTP server uses. *)
LEMMA SMTPDatabase ==
  /\ DBTypeOK = SMTPP!DBTypeOK
  /\ DBTypeOK' = SMTPP!DBTypeOK'
  /\ dbVars = SMTPP!dbVars
  /\ dbVars' = SMTPP!dbVars'
  /\ \A t : isRunningTest(t) = SMTPP!isRunningTest(t)
  /\ \A t, m : InsertSMTPRequest(t, m) = SMTPP!InsertSMTPRequest(t, m)
  /\ StopsAreFinal = SMTPP!StopsAreFinal
  BY SMTT(60) DEF DBTypeOK, SMTPP!DBTypeOK, dbVars, SMTPP!dbVars, isRunningTest,
         SMTPP!isRunningTest, InsertSMTPRequest, SMTPP!InsertSMTPRequest, TestRow,
         SMTPP!TestRow, DNSRecord, SMTPP!DNSRecord, HTTPFile, SMTPP!HTTPFile,
         RequestRow, SMTPP!RequestRow, Exists, SMTPP!Exists, RowFor, SMTPP!RowFor,
         AnyWord, SMTPP!AnyWord, RecordTypes, SMTPP!RecordTypes, Schemes,
         SMTPP!Schemes, Stage, SMTPP!Stage, StopsAreFinal, SMTPP!StopsAreFinal

(* The database that the dashboard uses. *)
LEMMA DashDatabase ==
  /\ DBTypeOK = DashP!DBTypeOK
  /\ DBTypeOK' = DashP!DBTypeOK'
  /\ dbVars = DashP!dbVars
  /\ dbVars' = DashP!dbVars'
  /\ \A t : isRunningTest(t) = DashP!isRunningTest(t)
  /\ \A t : InsertTest(t) = DashP!InsertTest(t)
  /\ \A t : Stage(t) = DashP!Stage(t)
  /\ \A t : Stage(t)' = DashP!Stage(t)'
  /\ \A t : MayEnd(t) = DashP!MayEnd(t)
  /\ StopsAreFinal = DashP!StopsAreFinal
  BY SMTT(60) DEF DBTypeOK, DashP!DBTypeOK, dbVars, DashP!dbVars, isRunningTest,
         DashP!isRunningTest, InsertTest, DashP!InsertTest, Stage, DashP!Stage,
         TestRow, DashP!TestRow, DNSRecord, DashP!DNSRecord, HTTPFile,
         DashP!HTTPFile, RequestRow, DashP!RequestRow, Exists, DashP!Exists,
         AnyWord, DashP!AnyWord, RecordTypes, DashP!RecordTypes, Schemes,
         DashP!Schemes, StopsAreFinal, DashP!StopsAreFinal, MayEnd, DashP!MayEnd

(* Whatever the instance of the DNS server is told of the constants is so. *)
LEMMA DNSAssumptions ==
  DNSP!HostnamesAssumption /\ DNSP!DatabaseAssumption /\ DNSP!DNSAssumption
  BY HostnamesAssumption, DatabaseAssumption, ComponentsAssumption
     DEF HostnamesAssumption, DatabaseAssumption, ComponentsAssumption,
         DNSP!HostnamesAssumption, DNSP!DatabaseAssumption, DNSP!DNSAssumption,
         DNS!DNSAssumption, DNS!Hostname, DNS!Label, DNS!AnyWord, DNSP!Hostname, DNSP!Label,
         DNSP!AnyWord, AnyWord, DNSP!RecordTypes, RecordTypes

(* What the instance of the HTTP and HTTPS servers is told of them. *)
LEMMA WebAssumptions ==
  WebP!HostnamesAssumption /\ WebP!DatabaseAssumption /\ WebP!HTTPAssumption
  BY HostnamesAssumption, DatabaseAssumption, ComponentsAssumption
     DEF HostnamesAssumption, DatabaseAssumption, ComponentsAssumption,
         WebP!HostnamesAssumption, WebP!DatabaseAssumption, WebP!HTTPAssumption,
         Web!HTTPAssumption, Web!Hostname, Web!Label, Web!AnyWord, WebP!Hostname, WebP!Label,
         WebP!AnyWord, AnyWord, WebP!RecordTypes, RecordTypes

(* What the instance of the SMTP server is told of them. *)
LEMMA SMTPAssumptions ==
  SMTPP!HostnamesAssumption /\ SMTPP!DatabaseAssumption /\ SMTPP!SMTPAssumption
  BY HostnamesAssumption, DatabaseAssumption, ComponentsAssumption
     DEF HostnamesAssumption, DatabaseAssumption, ComponentsAssumption,
         SMTPP!HostnamesAssumption, SMTPP!DatabaseAssumption, SMTPP!SMTPAssumption,
         SMTP!SMTPAssumption, SMTP!Hostname, SMTP!Label, SMTP!AnyWord, SMTPP!Hostname,
         SMTPP!Label, SMTPP!AnyWord, AnyWord, SMTPP!RecordTypes, RecordTypes

(* What the instance of the dashboard is told of them. *)
LEMMA DashAssumptions ==
  /\ DashP!HostnamesAssumption /\ DashP!DatabaseAssumption
  /\ DashP!FormsAssumption /\ DashP!DashboardAssumption
<1>1. DashP!DashboardAssumption = Dash!DashboardAssumption
  BY DEF Dash!DashboardAssumption, DashP!DashboardAssumption, Dash!TestForms,
         DashP!TestForms, Dash!OtherForms, DashP!OtherForms, Dash!IsValidRecord,
         DashP!IsValidRecord, Dash!DataOf, DashP!DataOf, Dash!IsValidFile,
         DashP!IsValidFile, Dash!RecordTypes, DashP!RecordTypes, Dash!PostedRecord,
         DashP!PostedRecord, Dash!PostedFile, DashP!PostedFile, Dash!TextLimit,
         DashP!TextLimit, Dash!FlagLimit, DashP!FlagLimit, Dash!validateCAATag,
         DashP!validateCAATag, Dash!IsCNAMETarget, DashP!IsCNAMETarget, Dash!Target,
         DashP!Target, Dash!Normalized, DashP!Normalized, Dash!Schemes,
         DashP!Schemes, Dash!WellKnown, DashP!WellKnown, Dash!ContentLimit,
         DashP!ContentLimit, Dash!Label, DashP!Label, Dash!Text, DashP!Text,
         Dash!Hostname, DashP!Hostname, Dash!Path, DashP!Path, Dash!IsDomainName,
         DashP!IsDomainName, Dash!IsAuthorized, DashP!IsAuthorized, Dash!AnyWord,
         DashP!AnyWord, Dash!ToLower, DashP!ToLower,
         Dash!authorizedCNAMETargetDomains, DashP!authorizedCNAMETargetDomains,
         Dash!IsBeneath, DashP!IsBeneath, Dash!LowerLabel, DashP!LowerLabel,
         Dash!LowerWords, DashP!LowerWords
<1>2. DashP!HostnamesAssumption /\ DashP!DatabaseAssumption /\ DashP!FormsAssumption
  BY HostnamesAssumption, DatabaseAssumption, FormsAssumption
     DEF HostnamesAssumption, DatabaseAssumption, FormsAssumption,
         DashP!HostnamesAssumption, DashP!DatabaseAssumption, DashP!FormsAssumption,
         DashP!AnyWord, AnyWord, DashP!RecordTypes, RecordTypes
<1> QED BY <1>1, <1>2, ComponentsAssumption DEF ComponentsAssumption

-----------------------------------------------------------------------------
(* The steps of the log of a test, in terms of the program.                *)

StagesStay ==
  /\ UNCHANGED clock
  /\ \A t \in TestIDs : Stage(t)' = Stage(t) /\ test'[t].stopped = test[t].stopped
EntriesStay == \A t \in TestIDs : Entries(t)' = Entries(t)
SitesStay == \A t \in TestIDs : Site(t)' = Site(t)

(* Somebody who has left no entry is admitted to a running test. *)
LEMMA Admission ==
  ASSUME NEW t \in TestIDs, NEW a \in Everybody, Stage(t) = "running",
         a \notin Entries(t), <<t, a>> \notin Inside,
         Inside' = Inside \cup {<<t, a>>}, StagesStay, EntriesStay, SitesStay
  PROVE  Log!Next
<1>1. Log!Admit(t, a)
  BY DEF Log!Admit, StagesStay, EntriesStay, SitesStay
<1> QED BY <1>1 DEF Log!Next

(* Somebody inside leaves an entry, and goes. *)
LEMMA Entry ==
  ASSUME NEW t \in TestIDs, NEW a \in Everybody, <<t, a>> \in Inside,
         Inside' = Inside \ {<<t, a>>}, StagesStay, SitesStay,
         Entries(t)' = Entries(t) \cup {a},
         \A u \in TestIDs \ {t} : Entries(u)' = Entries(u)
  PROVE  Log!Next
<1>1. Log!Enter(t, a)
  BY DEF Log!Enter, StagesStay, SitesStay
<1> QED BY <1>1 DEF Log!Next

(* Somebody inside makes a change to the test, or stops it, and goes. *)
LEMMA Change ==
  ASSUME NEW t \in TestIDs, NEW a \in Everybody, <<t, a>> \in Inside,
         Inside' = Inside \ {<<t, a>>}, EntriesStay,
         UNCHANGED clock, MayEnd(t),
         \A u \in TestIDs \ {t} : /\ Stage(u)' = Stage(u) /\ Site(u)' = Site(u)
                                   /\ test'[u].stopped = test[u].stopped
  PROVE  Log!Next
<1>1. Log!Change(t, a)
  BY DEF Log!Change, EntriesStay, MayEnd
<1> QED BY <1>1 DEF Log!Next

(* Some go without a trace, or nothing happens. *)
LEMMA Departure ==
  ASSUME Inside' \subseteq Inside, StagesStay, EntriesStay, SitesStay
  PROVE  Log!Next
<1>1. Inside' = Inside \ (Inside \ Inside')
  OBVIOUS
<1>2. Log!Leave
  BY <1>1 DEF Log!Leave, StagesStay, EntriesStay, SitesStay
<1> QED BY <1>2 DEF Log!Next

(* A test is started. *)
LEMMA Beginning ==
  ASSUME NEW t \in TestIDs, Stage(t) = "absent", Stage(t)' = "running",
         \A u \in TestIDs \ {t} : Stage(u)' = Stage(u),
         \A u \in TestIDs : test'[u].stopped = test[u].stopped, UNCHANGED clock,
         Inside' = Inside, EntriesStay, SitesStay
  PROVE  Log!Next
<1>1. Log!Start(t)
  BY DEF Log!Start, EntriesStay, SitesStay
<1> QED BY <1>1 DEF Log!Next

(* Some running tests end. *)
LEMMA Cleanup ==
  ASSUME UNCHANGED clock, \A t \in TestIDs : MayEnd(t),
         Inside' = Inside, EntriesStay, SitesStay
  PROVE  Log!Next
<1> DEFINE over == {t \in TestIDs : Stage(t) = "running" /\ Stage(t)' = "stopped"}
           stage == [t \in TestIDs |-> Stage(t)]
           ended == [t \in TestIDs |-> test[t].stopped]
<1>1. over \in SUBSET {t \in TestIDs : stage[t] = "running"}
  OBVIOUS
<1>2. stage' = [t \in TestIDs |-> IF t \in over THEN "stopped" ELSE stage[t]]
  BY DEF MayEnd
<1>3. ended' = [t \in TestIDs |-> IF t \in over THEN clock ELSE ended[t]]
  BY DEF MayEnd
<1>4. Log!End
  BY <1>1, <1>2, <1>3 DEF Log!End, EntriesStay, SitesStay
<1> QED BY <1>4 DEF Log!Next

(* Time passes. *)
LEMMA Passing ==
  ASSUME clock \in Nat, Tick, Inside' = Inside, EntriesStay, SitesStay
  PROVE  Log!Next
<1>1. clock' > clock /\ UNCHANGED test
  BY DEF Tick
<1>2. \A t : Stage(t)' = Stage(t)
  BY <1>1, TestUnchanged
<1>3. Log!Pass
  BY <1>1, <1>2 DEF Log!Pass, EntriesStay, SitesStay
<1> QED BY <1>3 DEF Log!Next

-----------------------------------------------------------------------------
(* Who is inside, component by component.                                  *)

DNSInside == {<<DNSP!TestOf(q), <<"dns", q>>>> : q \in {q \in DNSQueries : DNSP!IsAdmitted(q)}}
WebInside ==
  {<<WebP!HostTest(r), <<"http", r>>>> : r \in {r \in HTTPRequests : WebP!IsAdmitted(r)}}
SMTPInside ==
  {<<SMTPP!CurrentTest(c), <<"smtp", connection[c].mail>>>> :
     c \in {c \in Connections : SMTPP!IsAdmitted(c)}}
UserInside ==
  {<<session[s].form.test, <<"user", s>>>> : s \in {s \in Sessions : DashP!IsAdmitted(s)}}

(* They are all that are inside. *)
LEMMA InsideParts ==
  /\ Inside = DNSInside \cup WebInside \cup SMTPInside \cup UserInside
  /\ Inside' = DNSInside' \cup WebInside' \cup SMTPInside' \cup UserInside'
<1>1. /\ {q \in DNSQueries : query[q].pc \in {"lookup", "record"}}
           = {q \in DNSQueries : DNSP!IsAdmitted(q)}
      /\ {q \in DNSQueries : query[q].pc \in {"lookup", "record"}}'
           = {q \in DNSQueries : DNSP!IsAdmitted(q)'}
  BY DEF DNSP!IsAdmitted
<1>2. /\ {r \in HTTPRequests : request[r].pc \in {"lookup", "record"}}
           = {r \in HTTPRequests : WebP!IsAdmitted(r)}
      /\ {r \in HTTPRequests : request[r].pc \in {"lookup", "record"}}'
           = {r \in HTTPRequests : WebP!IsAdmitted(r)'}
  BY DEF WebP!IsAdmitted
<1>3. /\ {c \in Connections : connection[c].pc = "insert"}
           = {c \in Connections : SMTPP!IsAdmitted(c)}
      /\ {c \in Connections : connection[c].pc = "insert"}'
           = {c \in Connections : SMTPP!IsAdmitted(c)'}
  BY DEF SMTPP!IsAdmitted
<1>4. /\ {s \in Sessions : session[s].pc \in {"load", "edit"} /\ Dash!MayEdit(s)}
           = {s \in Sessions : DashP!IsAdmitted(s)}
      /\ {s \in Sessions : session[s].pc \in {"load", "edit"} /\ Dash!MayEdit(s)}'
           = {s \in Sessions : DashP!IsAdmitted(s)'}
  BY DashCopies DEF DashP!IsAdmitted
<1> QED BY <1>1, <1>2, <1>3, <1>4, DNSCopies, WebCopies, SMTPCopies
        DEF Inside, DNSInside, WebInside, SMTPInside, UserInside

(* The parts are disjoint. *)
LEMMA Apart ==
  /\ \A x \in DNSInside : x[2][1] = "dns"
  /\ \A x \in WebInside : x[2][1] = "http"
  /\ \A x \in SMTPInside : x[2][1] = "smtp"
  /\ \A x \in UserInside : x[2][1] = "user"
  BY DEF DNSInside, WebInside, SMTPInside, UserInside

(* A component's part changes only with the variable of the component. *)
LEMMA PartsStay ==
  /\ UNCHANGED query => DNSInside' = DNSInside
  /\ UNCHANGED request => WebInside' = WebInside
  /\ UNCHANGED connection => SMTPInside' = SMTPInside
  /\ UNCHANGED session => UserInside' = UserInside
<1>1. UNCHANGED query => DNSInside' = DNSInside
  BY DEF DNSInside, DNSP!TestOf, DNSP!TargetOf, DNSP!IsAdmitted
<1>2. UNCHANGED request => WebInside' = WebInside
  BY DEF WebInside, WebP!HostTest, WebP!HostTarget, WebP!IsAdmitted
<1>3. UNCHANGED connection => SMTPInside' = SMTPInside
  BY DEF SMTPInside, SMTPP!CurrentTest, SMTPP!IsAdmitted
<1>4. UNCHANGED session => UserInside' = UserInside
  BY DEF UserInside, DashP!IsAdmitted, DashP!MayEdit, DashP!Form
<1> QED BY <1>1, <1>2, <1>3, <1>4

(* What a test is to the log is in these tables. *)
LEMMA TablesStay ==
  /\ UNCHANGED <<clock, test>> => StagesStay
  /\ UNCHANGED <<dns_request, http_request, smtp_request>> => EntriesStay
  /\ UNCHANGED <<dns_record, http_file>> => SitesStay
  BY TestUnchanged DEF StagesStay, EntriesStay, SitesStay, Entries, Site

-----------------------------------------------------------------------------
(* The steps of the components are steps of the log.                       *)

SystemInv ==
  /\ DNSP!ServerInv
  /\ WebP!ServerInv
  /\ SMTPP!CountedInv
  /\ DashP!DashboardInv

(* A query is admitted, recorded or given up. *)
LEMMA DNSServes ==
  ASSUME NEW q \in DNSQueries, DNSP!ServesTest(q), UNCHANGED <<request, connection, session>>
  PROVE  Log!Next
<1> DEFINE a == <<"dns", q>>
           Others == WebInside \cup SMTPInside \cup UserInside
<1>1. /\ \A p \in DNSQueries \ {q} : query'[p] = query[p]
      /\ UNCHANGED <<clock, test, dns_record, http_file, http_request, smtp_request>>
      /\ \/ /\ UNCHANGED dns_request
            /\ DNSP!IsAdmitted(q)' => DNSP!IsAdmitted(q) /\ DNSP!TestOf(q)' = DNSP!TestOf(q)
         \/ /\ UNCHANGED dns_request /\ DNSP!TestOf(q)' = DNSP!TestOf(q)
            /\ DNSP!TestOf(q) \in TestIDs /\ isRunningTest(DNSP!TestOf(q))
            /\ ~DNSP!IsAdmitted(q) /\ DNSP!IsAdmitted(q)'
            /\ \A row \in dns_request : row.req # q
         \/ /\ DNSP!IsAdmitted(q) /\ ~DNSP!IsAdmitted(q)'
            /\ DNSP!TestOf(q) \in TestIDs /\ InsertDNSRequest(DNSP!TestOf(q), q)
  BY DNSDatabase DEF DNSP!ServesTest
<1>2. /\ Inside = DNSInside \cup Others /\ Inside' = DNSInside' \cup Others
      /\ StagesStay /\ SitesStay
  BY <1>1, InsideParts, PartsStay, TablesStay
<1>3. a \in Everybody
  BY DEF Everybody
<1>4. \A t : <<t, a>> \notin Others
  BY Apart
<1>5. ASSUME NEW p \in DNSQueries \ {q}
      PROVE  /\ DNSP!IsAdmitted(p)' = DNSP!IsAdmitted(p)
             /\ DNSP!TestOf(p)' = DNSP!TestOf(p)
  BY <1>1 DEF DNSP!IsAdmitted, DNSP!TestOf, DNSP!TargetOf
<1> HIDE DEF Others
<1>6. CASE /\ UNCHANGED dns_request
           /\ DNSP!IsAdmitted(q)' => DNSP!IsAdmitted(q) /\ DNSP!TestOf(q)' = DNSP!TestOf(q)
  <2>1. DNSInside' \subseteq DNSInside
    BY <1>5, <1>6 DEF DNSInside
  <2> QED BY <1>1, <1>2, <1>6, <2>1, Departure, TablesStay
<1>7. CASE /\ UNCHANGED dns_request /\ DNSP!TestOf(q)' = DNSP!TestOf(q)
           /\ DNSP!TestOf(q) \in TestIDs /\ isRunningTest(DNSP!TestOf(q))
           /\ ~DNSP!IsAdmitted(q) /\ DNSP!IsAdmitted(q)'
           /\ \A row \in dns_request : row.req # q
  <2>1. PICK t \in TestIDs : t = DNSP!TestOf(q)
    BY <1>7
  <2>2. DNSInside' = DNSInside \cup {<<t, a>>} /\ <<t, a>> \notin DNSInside
    BY <1>5, <1>7, <2>1 DEF DNSInside
  <2>3. a \notin Entries(t) /\ Stage(t) = "running"
    BY <1>7, <2>1, RunningStage DEF Entries
  <2> QED BY <1>1, <1>2, <1>3, <1>4, <1>7, <2>2, <2>3, Admission, TablesStay
<1>8. CASE /\ DNSP!IsAdmitted(q) /\ ~DNSP!IsAdmitted(q)'
           /\ DNSP!TestOf(q) \in TestIDs /\ InsertDNSRequest(DNSP!TestOf(q), q)
  <2>1. PICK t \in TestIDs : t = DNSP!TestOf(q)
    BY <1>8
  <2>2. DNSInside' = DNSInside \ {<<t, a>>} /\ <<t, a>> \in DNSInside
    BY <1>5, <1>8, <2>1 DEF DNSInside
  <2>3. dns_request' = dns_request \cup {RowFor(t, q)}
    BY <1>8, <2>1 DEF InsertDNSRequest
  <2>4. RowFor(t, q).test = t /\ RowFor(t, q).req = q
    BY DEF RowFor
  <2>5. /\ Entries(t)' = Entries(t) \cup {a}
        /\ \A u \in TestIDs \ {t} : Entries(u)' = Entries(u)
    BY <1>1, <2>3, <2>4 DEF Entries
  <2> QED BY <1>2, <1>3, <1>4, <2>2, <2>5, Entry
<1> QED BY <1>1, <1>6, <1>7, <1>8

(* So is a request, which may be given up at any point. *)
LEMMA WebServes ==
  ASSUME NEW r \in HTTPRequests, WebP!ServesTest(r), UNCHANGED <<query, connection, session>>
  PROVE  Log!Next
<1> DEFINE a == <<"http", r>>
           Others == DNSInside \cup SMTPInside \cup UserInside
<1>1. /\ \A p \in HTTPRequests \ {r} : request'[p] = request[p]
      /\ UNCHANGED <<clock, test, dns_record, http_file, dns_request, smtp_request>>
      /\ \/ /\ UNCHANGED http_request
            /\ WebP!IsAdmitted(r)' => WebP!IsAdmitted(r) /\ WebP!HostTest(r)' = WebP!HostTest(r)
         \/ /\ UNCHANGED http_request /\ WebP!HostTest(r)' = WebP!HostTest(r)
            /\ WebP!HostTest(r) \in TestIDs /\ isRunningTest(WebP!HostTest(r))
            /\ ~WebP!IsAdmitted(r) /\ WebP!IsAdmitted(r)'
            /\ \A row \in http_request : row.req # r
         \/ /\ WebP!IsAdmitted(r) /\ ~WebP!IsAdmitted(r)'
            /\ WebP!HostTest(r) \in TestIDs /\ InsertHTTPRequest(WebP!HostTest(r), r)
  BY WebDatabase DEF WebP!ServesTest
<1>2. /\ Inside = WebInside \cup Others /\ Inside' = WebInside' \cup Others
      /\ StagesStay /\ SitesStay
  BY <1>1, InsideParts, PartsStay, TablesStay
<1>3. a \in Everybody
  BY DEF Everybody
<1>4. \A t : <<t, a>> \notin Others
  BY Apart
<1>5. ASSUME NEW p \in HTTPRequests \ {r}
      PROVE  /\ WebP!IsAdmitted(p)' = WebP!IsAdmitted(p)
             /\ WebP!HostTest(p)' = WebP!HostTest(p)
  BY <1>1 DEF WebP!IsAdmitted, WebP!HostTest, WebP!HostTarget
<1> HIDE DEF Others
<1>6. CASE /\ UNCHANGED http_request
           /\ WebP!IsAdmitted(r)' => WebP!IsAdmitted(r) /\ WebP!HostTest(r)' = WebP!HostTest(r)
  <2>1. WebInside' \subseteq WebInside
    BY <1>5, <1>6 DEF WebInside
  <2> QED BY <1>1, <1>2, <1>6, <2>1, Departure, TablesStay
<1>7. CASE /\ UNCHANGED http_request /\ WebP!HostTest(r)' = WebP!HostTest(r)
           /\ WebP!HostTest(r) \in TestIDs /\ isRunningTest(WebP!HostTest(r))
           /\ ~WebP!IsAdmitted(r) /\ WebP!IsAdmitted(r)'
           /\ \A row \in http_request : row.req # r
  <2>1. PICK t \in TestIDs : t = WebP!HostTest(r)
    BY <1>7
  <2>2. WebInside' = WebInside \cup {<<t, a>>} /\ <<t, a>> \notin WebInside
    BY <1>5, <1>7, <2>1 DEF WebInside
  <2>3. a \notin Entries(t) /\ Stage(t) = "running"
    BY <1>7, <2>1, RunningStage DEF Entries
  <2> QED BY <1>1, <1>2, <1>3, <1>4, <1>7, <2>2, <2>3, Admission, TablesStay
<1>8. CASE /\ WebP!IsAdmitted(r) /\ ~WebP!IsAdmitted(r)'
           /\ WebP!HostTest(r) \in TestIDs /\ InsertHTTPRequest(WebP!HostTest(r), r)
  <2>1. PICK t \in TestIDs : t = WebP!HostTest(r)
    BY <1>8
  <2>2. WebInside' = WebInside \ {<<t, a>>} /\ <<t, a>> \in WebInside
    BY <1>5, <1>8, <2>1 DEF WebInside
  <2>3. http_request' = http_request \cup {RowFor(t, r)}
    BY <1>8, <2>1 DEF InsertHTTPRequest
  <2>4. RowFor(t, r).test = t /\ RowFor(t, r).req = r
    BY DEF RowFor
  <2>5. /\ Entries(t)' = Entries(t) \cup {a}
        /\ \A u \in TestIDs \ {t} : Entries(u)' = Entries(u)
    BY <1>1, <2>3, <2>4 DEF Entries
  <2> QED BY <1>2, <1>3, <1>4, <2>2, <2>5, Entry
<1> QED BY <1>1, <1>6, <1>7, <1>8


(* So is the mail of a session, which nobody else has. *)
LEMMA SMTPServes ==
  ASSUME NEW c \in Connections, SMTPP!MailsAreOwned, SMTPP!ServesTest(c),
         UNCHANGED <<query, request, session>>
  PROVE  Log!Next
<1> DEFINE m == connection[c].mail
           a == <<"smtp", m>>
           Others == DNSInside \cup WebInside \cup UserInside
<1>1. /\ \A p \in Connections \ {c} : connection'[p] = connection[p]
      /\ UNCHANGED <<clock, test, dns_record, http_file, dns_request, http_request>>
      /\ \/ UNCHANGED smtp_request /\ ~SMTPP!IsAdmitted(c)'
         \/ /\ UNCHANGED smtp_request /\ ~SMTPP!IsAdmitted(c) /\ SMTPP!IsAdmitted(c)'
            /\ SMTPP!CurrentTest(c)' = SMTPP!CurrentTest(c) /\ connection'[c].mail = m
            /\ m \in Mails
            /\ SMTPP!CurrentTest(c) \in TestIDs /\ isRunningTest(SMTPP!CurrentTest(c))
            /\ \A row \in smtp_request : ~(row.req = m /\ row.test = SMTPP!CurrentTest(c))
         \/ /\ SMTPP!IsAdmitted(c) /\ ~SMTPP!IsAdmitted(c)'
            /\ m \in Mails /\ SMTPP!CurrentTest(c) \in TestIDs
            /\ InsertSMTPRequest(SMTPP!CurrentTest(c), m)
  BY SMTPDatabase DEF SMTPP!ServesTest
<1>2. /\ Inside = SMTPInside \cup Others /\ Inside' = SMTPInside' \cup Others
      /\ StagesStay /\ SitesStay
  BY <1>1, InsideParts, PartsStay, TablesStay
<1>3. m \in Mails => m # NULL /\ a \in Everybody
  <2>1. Mails \subseteq Nat
    BY SMTPAssumptions DEF SMTPP!SMTPAssumption
  <2>2. NULL \notin Nat
    BY DatabaseAssumption
  <2>3. m \in Mails => a \in Everybody
    BY DEF Everybody
  <2> QED BY <2>1, <2>2, <2>3
<1>4. \A t : <<t, a>> \notin Others
  BY Apart
<1>5. ASSUME NEW p \in Connections \ {c}
      PROVE  /\ SMTPP!IsAdmitted(p)' = SMTPP!IsAdmitted(p)
             /\ SMTPP!CurrentTest(p)' = SMTPP!CurrentTest(p)
             /\ connection'[p].mail = connection[p].mail
             /\ m \in Mails => connection[p].mail # m
  BY <1>1, <1>3 DEF SMTPP!IsAdmitted, SMTPP!CurrentTest, SMTPP!MailsAreOwned
<1> HIDE DEF Others
<1>6. CASE UNCHANGED smtp_request /\ ~SMTPP!IsAdmitted(c)'
  <2>1. SMTPInside' \subseteq SMTPInside
    BY <1>5, <1>6 DEF SMTPInside
  <2> QED BY <1>1, <1>2, <1>6, <2>1, Departure, TablesStay
<1>7. CASE /\ UNCHANGED smtp_request /\ ~SMTPP!IsAdmitted(c) /\ SMTPP!IsAdmitted(c)'
           /\ SMTPP!CurrentTest(c)' = SMTPP!CurrentTest(c) /\ connection'[c].mail = m
           /\ m \in Mails
           /\ SMTPP!CurrentTest(c) \in TestIDs /\ isRunningTest(SMTPP!CurrentTest(c))
           /\ \A row \in smtp_request : ~(row.req = m /\ row.test = SMTPP!CurrentTest(c))
  <2>1. PICK t \in TestIDs : t = SMTPP!CurrentTest(c)
    BY <1>7
  <2>2. SMTPInside' = SMTPInside \cup {<<t, a>>} /\ <<t, a>> \notin SMTPInside
    BY <1>5, <1>7, <2>1 DEF SMTPInside
  <2>3. a \notin Entries(t) /\ Stage(t) = "running"
    BY <1>7, <2>1, RunningStage DEF Entries
  <2> QED BY <1>1, <1>2, <1>3, <1>4, <1>7, <2>2, <2>3, Admission, TablesStay
<1>8. CASE /\ SMTPP!IsAdmitted(c) /\ ~SMTPP!IsAdmitted(c)'
           /\ m \in Mails /\ SMTPP!CurrentTest(c) \in TestIDs
           /\ InsertSMTPRequest(SMTPP!CurrentTest(c), m)
  <2>1. PICK t \in TestIDs : t = SMTPP!CurrentTest(c)
    BY <1>8
  <2>2. SMTPInside' = SMTPInside \ {<<t, a>>} /\ <<t, a>> \in SMTPInside
    BY <1>5, <1>8, <2>1 DEF SMTPInside
  <2>3. smtp_request' = smtp_request \cup {RowFor(t, m)}
    BY <1>8, <2>1 DEF InsertSMTPRequest
  <2>4. RowFor(t, m).test = t /\ RowFor(t, m).req = m
    BY DEF RowFor
  <2>5. /\ Entries(t)' = Entries(t) \cup {a}
        /\ \A u \in TestIDs \ {t} : Entries(u)' = Entries(u)
    BY <1>1, <2>3, <2>4 DEF Entries
  <2> QED BY <1>2, <1>3, <1>4, <1>8, <2>2, <2>5, Entry
<1> QED BY <1>1, <1>6, <1>7, <1>8

(* A user starts a test, is admitted to one, changes it, or is turned      *)
(* away.                                                                   *)
LEMMA DashboardServes ==
  ASSUME DBTypeOK, NEW s \in Sessions, DashP!ServesTest(s),
         UNCHANGED <<query, request, connection>>
  PROVE  Log!Next
<1> DEFINE a == <<"user", s>>
           Others == DNSInside \cup WebInside \cup SMTPInside
           u == session[s].form.test
<1>1. /\ \A p \in Sessions \ {s} : session'[p] = session[p]
      /\ UNCHANGED <<dns_request, http_request, smtp_request>>
      /\ \/ /\ UNCHANGED <<clock, test, dns_record, http_file>>
            /\ DashP!IsAdmitted(s)' => DashP!IsAdmitted(s) /\ session'[s].form = session[s].form
         \/ /\ \E t \in TestIDs : InsertTest(t)
            /\ ~DashP!IsAdmitted(s) /\ ~DashP!IsAdmitted(s)'
         \/ /\ UNCHANGED <<clock, test, dns_record, http_file>> /\ session'[s].form = session[s].form
            /\ ~DashP!IsAdmitted(s) /\ DashP!IsAdmitted(s)'
            /\ u \in TestIDs /\ isRunningTest(u)
         \/ /\ DashP!IsAdmitted(s) /\ ~DashP!IsAdmitted(s)' /\ UNCHANGED clock
            /\ \E t \in TestIDs : u = t /\ DashP!RowsElsewhere(t) /\ MayEnd(t)
  BY DashDatabase DEF DashP!ServesTest, DashP!OthersStay, DashP!Form
<1>2. /\ Inside = UserInside \cup Others /\ Inside' = UserInside' \cup Others
      /\ EntriesStay
  BY <1>1, InsideParts, PartsStay, TablesStay
<1>3. a \in Everybody
  BY DEF Everybody
<1>4. \A t : <<t, a>> \notin Others
  BY Apart
<1>5. ASSUME NEW p \in Sessions \ {s}
      PROVE  /\ DashP!IsAdmitted(p)' = DashP!IsAdmitted(p)
             /\ session'[p].form = session[p].form
  BY <1>1 DEF DashP!IsAdmitted, DashP!MayEdit, DashP!Form
<1> HIDE DEF Others
<1>6. CASE /\ UNCHANGED <<clock, test, dns_record, http_file>>
           /\ DashP!IsAdmitted(s)' => DashP!IsAdmitted(s) /\ session'[s].form = session[s].form
  <2>1. UserInside' \subseteq UserInside
    BY <1>5, <1>6 DEF UserInside
  <2> QED BY <1>2, <1>6, <2>1, Departure, TablesStay
<1>7. CASE /\ \E t \in TestIDs : InsertTest(t)
           /\ ~DashP!IsAdmitted(s) /\ ~DashP!IsAdmitted(s)'
  <2>1. PICK t \in TestIDs : InsertTest(t)
    BY <1>7
  <2>2. UserInside' = UserInside
    BY <1>5, <1>7 DEF UserInside
  <2>3. /\ Stage(t) = "absent" /\ Stage(t)' = "running"
        /\ \A v \in TestIDs \ {t} : Stage(v)' = Stage(v)
        /\ \A v \in TestIDs : test'[v].stopped = test[v].stopped
        /\ UNCHANGED clock
    BY <2>1, StartOfTest
  <2>4. SitesStay
    BY <2>1, TablesStay DEF InsertTest
  <2> QED BY <1>2, <2>2, <2>3, <2>4, Beginning
<1>8. CASE /\ UNCHANGED <<clock, test, dns_record, http_file>> /\ session'[s].form = session[s].form
           /\ ~DashP!IsAdmitted(s) /\ DashP!IsAdmitted(s)'
           /\ u \in TestIDs /\ isRunningTest(u)
  <2>1. PICK t \in TestIDs : t = u
    BY <1>8
  <2>2. UserInside' = UserInside \cup {<<t, a>>} /\ <<t, a>> \notin UserInside
    BY <1>5, <1>8, <2>1 DEF UserInside
  <2>3. a \notin Entries(t) /\ Stage(t) = "running"
    BY <1>8, <2>1, RunningStage DEF Entries
  <2> QED BY <1>2, <1>3, <1>4, <1>8, <2>2, <2>3, Admission, TablesStay
<1>9. CASE /\ DashP!IsAdmitted(s) /\ ~DashP!IsAdmitted(s)' /\ UNCHANGED clock
           /\ \E t \in TestIDs : u = t /\ DashP!RowsElsewhere(t) /\ MayEnd(t)
  <2>1. PICK t \in TestIDs : u = t /\ DashP!RowsElsewhere(t) /\ MayEnd(t)
    BY <1>9
  <2>2. UserInside' = UserInside \ {<<t, a>>} /\ <<t, a>> \in UserInside
    BY <1>5, <1>9, <2>1 DEF UserInside
  <2>3. \A v \in TestIDs \ {t} : /\ Stage(v)' = Stage(v) /\ Site(v)' = Site(v)
                                   /\ test'[v].stopped = test[v].stopped
    BY <2>1 DEF DashP!RowsElsewhere, Stage, Exists, Site
  <2> QED BY <1>2, <1>3, <1>4, <1>9, <2>1, <2>2, <2>3, Change
<1> QED BY <1>1, <1>6, <1>7, <1>8, <1>9

-----------------------------------------------------------------------------
(* Every step of the system keeps the invariant and is a step of the log.  *)

(* What the other components are promised by a step of one. *)
LEMMA Undisturbed ==
  ASSUME SystemInv, DBTypeOK', StopsAreFinal
  PROVE  /\ UNCHANGED <<query, dns_request>> => DNSP!ServerInv'
         /\ UNCHANGED <<request, http_request>> => WebP!ServerInv'
         /\ UNCHANGED <<connection, mail, smtp_request>> => SMTPP!CountedInv'
         /\ UNCHANGED session => DashP!DashboardInv'
<1>1. UNCHANGED <<query, dns_request>> => DNSP!ServerInv'
  BY DNSP!OthersKeep, DNSAssumptions, DNSDatabase DEF SystemInv
<1>2. UNCHANGED <<request, http_request>> => WebP!ServerInv'
  BY WebP!OthersKeep, WebAssumptions, WebDatabase DEF SystemInv
<1>3. UNCHANGED <<connection, mail, smtp_request>> => SMTPP!CountedInv'
  BY SMTPP!OthersKeepCounted, SMTPAssumptions, SMTPDatabase DEF SystemInv
<1>4. UNCHANGED session => DashP!DashboardInv'
  BY DashP!EnvironmentKeeps, DashAssumptions, DashDatabase DEF SystemInv
<1> QED BY <1>1, <1>2, <1>3, <1>4

(* The invariant includes the type of the database. *)
LEMMA DatabaseType ==
  /\ DNSP!ServerInv => DBTypeOK
  /\ DNSP!ServerInv' => DBTypeOK'
  /\ WebP!ServerInv' => DBTypeOK'
  /\ SMTPP!CountedInv' => DBTypeOK'
  /\ DashP!DashboardInv' => DBTypeOK'
<1>1. (DNSP!ServerInv => DBTypeOK) /\ (DNSP!ServerInv' => DBTypeOK')
  BY DNSDatabase DEF DNSP!ServerInv, DNSP!TypeInv, DNSP!DNSTypeOK
<1>2. WebP!ServerInv' => DBTypeOK'
  BY WebDatabase DEF WebP!ServerInv, WebP!HTTPInv, WebP!HTTPTypeOK
<1>3. SMTPP!CountedInv' => DBTypeOK'
  BY SMTPDatabase DEF SMTPP!CountedInv, SMTPP!SMTPInv, SMTPP!SMTPTypeOK
<1>4. DashP!DashboardInv' => DBTypeOK'
  BY DashDatabase DEF DashP!DashboardInv, DashP!DashboardTypeOK
<1> QED BY <1>1, <1>2, <1>3, <1>4

(* A step of a query. *)
LEMMA DNSStepKeeps ==
  ASSUME SystemInv, DNSStep
  PROVE  SystemInv' /\ Log!Next
<1>1. PICK q \in DNSQueries : DNS!serveDNS(q) \/ DNS!ServeQuery(q)
  BY DEF DNSStep
<1>2. UNCHANGED <<request, connection, mail, session>>
  BY DEF DNSStep
<1>3. DNSP!ServerInv' /\ DNSP!ServesTest(q)
  BY <1>1, DNSP!ServerStep, DNSAssumptions, DNSCopies DEF SystemInv
<1>4. DBTypeOK' /\ UNCHANGED <<test, http_request, smtp_request>>
  BY <1>3, DatabaseType DEF DNSP!ServesTest
<1>5. SystemInv'
  BY <1>2, <1>3, <1>4, TestUnchanged, Undisturbed DEF SystemInv
<1>6. Log!Next
  BY <1>2, <1>3, DNSServes
<1> QED BY <1>5, <1>6

(* A step of a request. *)
LEMMA WebStepKeeps ==
  ASSUME SystemInv, WebStep
  PROVE  SystemInv' /\ Log!Next
<1>1. PICK r \in HTTPRequests : Web!serveHTTP(r) \/ Web!ServeRequest(r) \/ Web!Cancel(r)
  BY DEF WebStep
<1>2. UNCHANGED <<query, connection, mail, session>>
  BY DEF WebStep
<1>3. WebP!ServerInv' /\ WebP!ServesTest(r)
  BY <1>1, WebP!ServerStep, WebAssumptions, WebCopies DEF SystemInv
<1>4. DBTypeOK' /\ UNCHANGED <<test, dns_request, smtp_request>>
  BY <1>3, DatabaseType DEF WebP!ServesTest
<1>5. SystemInv'
  BY <1>2, <1>3, <1>4, TestUnchanged, Undisturbed DEF SystemInv
<1>6. Log!Next
  BY <1>2, <1>3, WebServes
<1> QED BY <1>5, <1>6

(* A step of a mail connection. *)
LEMMA SMTPStepKeeps ==
  ASSUME SystemInv, SMTPStep
  PROVE  SystemInv' /\ Log!Next
<1>1. PICK c \in Connections :
        \/ \E m \in Mails : SMTP!Mail(c, m)
        \/ \E addr \in Addresses : SMTP!Rcpt(c, addr)
        \/ SMTP!Abandon(c) \/ SMTP!DataUnreadable(c) \/ SMTP!Data(c)
        \/ SMTP!RecordMail(c)
  BY DEF SMTPStep
<1>2. UNCHANGED <<query, request, session>>
  BY DEF SMTPStep
<1>3. SMTPP!CountedInv' /\ SMTPP!ServesTest(c)
  BY <1>1, SMTPP!ServerStep, SMTPAssumptions, SMTPCopies DEF SystemInv
<1>4. DBTypeOK' /\ UNCHANGED <<test, dns_request, http_request>>
  BY <1>3, DatabaseType DEF SMTPP!ServesTest
<1>5. SystemInv'
  BY <1>2, <1>3, <1>4, TestUnchanged, Undisturbed DEF SystemInv
<1>6. Log!Next
  BY <1>2, <1>3, SMTPServes DEF SystemInv, SMTPP!CountedInv, SMTPP!SMTPInv
<1> QED BY <1>5, <1>6

(* A step of a session. *)
LEMMA DashboardStepKeeps ==
  ASSUME SystemInv, DashboardStep
  PROVE  SystemInv' /\ Log!Next
<1>1. PICK s \in Sessions : Dash!serveDashboard(s) \/ Dash!startTest(s) \/ Dash!serveTest(s)
  BY DEF DashboardStep
<1>2. UNCHANGED <<query, request, connection, mail>>
  BY DEF DashboardStep
<1>3. DashP!DashboardInv' /\ DashP!KeepsOthers /\ DashP!ServesTest(s)
  BY <1>1, DashP!DashboardStep, DashAssumptions, DashCopies DEF SystemInv
<1>4. DBTypeOK' /\ StopsAreFinal /\ UNCHANGED <<dns_request, http_request, smtp_request>>
  BY <1>3, DatabaseType, DashDatabase DEF DashP!KeepsOthers
<1>5. SystemInv'
  BY <1>2, <1>3, <1>4, Undisturbed DEF SystemInv
<1>6. Log!Next
  BY <1>2, <1>3, DashboardServes, DatabaseType DEF SystemInv
<1> QED BY <1>5, <1>6

(* The periodic cleanup stops tests that run, and does nothing else. *)
LEMMA CleanupKeeps ==
  ASSUME SystemInv, cleanupTests, UNCHANGED componentVars
  PROVE  SystemInv' /\ Log!Next
<1>1. /\ DBTypeOK /\ DBTypeOK' /\ StopsAreFinal
      /\ UNCHANGED <<dns_record, http_file, dns_request, http_request, smtp_request>>
  BY DatabaseType, TestStatements DEF SystemInv
<1>2. SystemInv'
  BY <1>1, Undisturbed DEF SystemInv, componentVars
<1>3. UNCHANGED clock /\ \A t \in TestIDs : MayEnd(t)
  BY <1>1, StopOfTests
<1>4. Inside' = Inside
  BY InsideParts, PartsStay DEF componentVars
<1> QED BY <1>1, <1>2, <1>3, <1>4, TablesStay, Cleanup

(* Time passes for everybody. *)
LEMMA TickKeeps ==
  ASSUME SystemInv, Tick, UNCHANGED componentVars
  PROVE  SystemInv' /\ Log!Next
<1>1. /\ DBTypeOK /\ DBTypeOK' /\ StopsAreFinal /\ clock \in Nat
      /\ UNCHANGED <<dns_record, http_file, dns_request, http_request, smtp_request>>
  BY DatabaseType, TestStatements DEF SystemInv, DBTypeOK
<1>2. SystemInv'
  BY <1>1, Undisturbed DEF SystemInv, componentVars
<1>3. Inside' = Inside
  BY InsideParts, PartsStay DEF componentVars
<1> QED BY <1>1, <1>2, <1>3, TablesStay, Passing

(* A crash loses everybody inside, without a trace. *)
LEMMA CrashKeeps ==
  ASSUME SystemInv, SystemCrash
  PROVE  SystemInv' /\ Log!Next
<1>1. /\ UNCHANGED <<clock, test, dns_record, http_file>>
      /\ UNCHANGED <<dns_request, http_request, smtp_request>>
      /\ UNCHANGED dbVars
      /\ DBTypeOK'
  BY DatabaseType DEF SystemCrash, SystemInv, dbVars, DBTypeOK
<1>2. StopsAreFinal
  BY <1>1, TestUnchanged
<1>3. DNSP!ServerInv' /\ DNSInside' \subseteq DNSInside
  <2>1. CASE UNCHANGED query
    BY <1>1, <1>2, <2>1, Undisturbed, PartsStay
  <2>2. CASE DNS!DNSCrash
    <3>1. /\ DNSP!ServerInv'
          /\ \A q \in DNSQueries :
               DNSP!IsAdmitted(q)' => DNSP!IsAdmitted(q) /\ DNSP!TestOf(q)' = DNSP!TestOf(q)
      BY <1>1, <2>2, DNSP!CrashKeeps, DNSAssumptions, DNSCopies, DNSDatabase DEF SystemInv
    <3> QED BY <3>1 DEF DNSInside
  <2> QED BY <2>1, <2>2 DEF SystemCrash
<1>4. WebP!ServerInv' /\ WebInside' \subseteq WebInside
  <2>1. CASE UNCHANGED request
    BY <1>1, <1>2, <2>1, Undisturbed, PartsStay
  <2>2. CASE Web!HTTPCrash
    <3>1. /\ WebP!ServerInv'
          /\ \A r \in HTTPRequests :
               WebP!IsAdmitted(r)' => WebP!IsAdmitted(r) /\ WebP!HostTest(r)' = WebP!HostTest(r)
      BY <1>1, <2>2, WebP!CrashKeeps, WebAssumptions, WebCopies, WebDatabase DEF SystemInv
    <3> QED BY <3>1 DEF WebInside
  <2> QED BY <2>1, <2>2 DEF SystemCrash
<1>5. SMTPP!CountedInv' /\ SMTPInside' \subseteq SMTPInside
  <2>1. CASE UNCHANGED <<connection, mail>>
    BY <1>1, <1>2, <2>1, Undisturbed, PartsStay
  <2>2. CASE SMTP!SMTPCrash
    <3>1. SMTPP!CountedInv' /\ \A c \in Connections : ~SMTPP!IsAdmitted(c)'
      BY <1>1, <2>2, SMTPP!CrashAdmitsNobody, SMTPAssumptions, SMTPCopies, SMTPDatabase
         DEF SystemInv
    <3> QED BY <3>1 DEF SMTPInside
  <2> QED BY <2>1, <2>2 DEF SystemCrash
<1>6. DashP!DashboardInv' /\ UserInside' \subseteq UserInside
  <2>1. CASE UNCHANGED session
    BY <1>1, <1>2, <2>1, Undisturbed, PartsStay
  <2>2. CASE Dash!DashboardCrash
    <3>1. DashP!DashboardInv'
      BY <1>1, <1>2, <2>2, DashP!CrashKeeps, DashAssumptions, DashCopies, DashDatabase
         DEF SystemInv
    <3>2. \A s \in Sessions : ~DashP!IsAdmitted(s)'
      BY <2>2, DashP!CrashAdmitsNobody, DashAssumptions, DashCopies
    <3> QED BY <3>1, <3>2 DEF UserInside
  <2> QED BY <2>1, <2>2 DEF SystemCrash
<1>7. Inside' \subseteq Inside
  BY <1>3, <1>4, <1>5, <1>6, InsideParts
<1> QED BY <1>1, <1>3, <1>4, <1>5, <1>6, <1>7, TablesStay, Departure DEF SystemInv

(* Every step. *)
LEMMA SystemStep ==
  ASSUME SystemInv, [SystemNext]_systemVars
  PROVE  SystemInv' /\ [Log!Next]_(Log!testVars)
<1>1. CASE SystemNext
  BY <1>1, DNSStepKeeps, WebStepKeeps, SMTPStepKeeps, DashboardStepKeeps, CleanupKeeps,
     TickKeeps, CrashKeeps DEF SystemNext
<1>2. CASE UNCHANGED systemVars
  <2>1. /\ UNCHANGED <<dbVars, componentVars>>
    BY <1>2 DEF systemVars
  <2>2. DBTypeOK' /\ StopsAreFinal
    BY <2>1, TestUnchanged, DatabaseType DEF dbVars, DBTypeOK, SystemInv
  <2>3. SystemInv'
    BY <2>1, <2>2, Undisturbed DEF SystemInv, dbVars, componentVars
  <2>4. Inside' = Inside
    BY <2>1, InsideParts, PartsStay DEF componentVars
  <2>5. Log!Next
    BY <2>1, <2>4, TablesStay, Departure DEF dbVars
  <2> QED BY <2>3, <2>5
<1> QED BY <1>1, <1>2


-----------------------------------------------------------------------------
(* The theorems.                                                           *)

(* The database the program starts with has its type. *)
LEMMA InitialDatabase ==
  ASSUME SystemInit
  PROVE  /\ DBTypeOK
         /\ \A t \in TestIDs : test[t].stopped = NULL
         /\ dns_request = {} /\ http_request = {} /\ smtp_request = {}
<1>1. PICK running \in SUBSET TestIDs, scene \in Scenes :
        /\ test = [t \in TestIDs |-> [started |-> IF t \in running THEN 0 ELSE NULL,
                                      stopped |-> NULL]]
        /\ dns_record \in {{}} \cup {{r} : r \in Earlier(running, scene.published)}
        /\ clock = scene.clock
  BY DEF SystemInit
<1>2. test \in [TestIDs -> TestRow]
  <2>1. ASSUME NEW t \in TestIDs
        PROVE  [started |-> IF t \in running THEN 0 ELSE NULL, stopped |-> NULL] \in TestRow
    BY DEF TestRow
  <2> QED BY <1>1, <2>1
<1>3. dns_record \subseteq DNSRecord
  <2>1. scene.published \subseteq RecordTypes \X RData
    BY SystemAssumption, DatabaseAssumption
  <2>2. ASSUME NEW t \in running, NEW sub \in Subdomains, NEW p \in scene.published
        PROVE  [id |-> 1, test |-> t, sub |-> sub, type |-> p[1], data |-> p[2]] \in DNSRecord
    <3>1. p[1] \in RecordTypes /\ p[2] \in RData
      BY <2>1
    <3> QED BY <3>1, DatabaseAssumption DEF DNSRecord
  <2>3. Earlier(running, scene.published) \subseteq DNSRecord
    BY <2>2 DEF Earlier
  <2> QED BY <1>1, <2>3
<1>4. clock \in Nat
  BY <1>1, SystemAssumption, DatabaseAssumption
<1>5. \A t \in TestIDs : test[t].stopped = NULL
  BY <1>1
<1> QED BY <1>2, <1>3, <1>4, <1>5 DEF SystemInit, DBTypeOK

(* The program starts in an initial state of the log: nobody is inside. *)
LEMMA SystemBegins ==
  ASSUME SystemInit
  PROVE  SystemInv /\ Log!Init
<1>1. DNSP!ServerInv /\ \A q \in DNSQueries : ~DNSP!IsAdmitted(q)
  BY InitialDatabase, DNSP!ServerBegins, DNSAssumptions, DNSCopies, DNSDatabase DEF SystemInit
<1>2. WebP!ServerInv
  BY InitialDatabase, WebP!ServerBegins, WebAssumptions, WebCopies, WebDatabase DEF SystemInit
<1>3. SMTPP!CountedInv
  BY InitialDatabase, SMTPP!ServerBegins, SMTPAssumptions, SMTPCopies, SMTPDatabase
     DEF SystemInit
<1>4. DashP!DashboardInv
  BY InitialDatabase, DashP!InvInit, DashAssumptions, DashCopies, DashDatabase DEF SystemInit
<1>5. DNSInside = {}
  BY <1>1 DEF DNSInside
<1>6. WebInside = {}
  <2>1. request = [r \in HTTPRequests |-> WebP!NoRequest] /\ WebP!NoRequest.pc = "idle"
    BY WebCopies DEF SystemInit, WebP!HTTPInit, WebP!NoRequest
  <2>2. \A r \in HTTPRequests : ~WebP!IsAdmitted(r)
    BY <2>1 DEF WebP!IsAdmitted
  <2> QED BY <2>2 DEF WebInside
<1>7. SMTPInside = {}
  <2>1. /\ connection = [c \in Connections |-> SMTPP!NewSession]
        /\ SMTPP!NewSession.pc = "command"
    BY SMTPCopies DEF SystemInit, SMTPP!SMTPInit, SMTPP!NewSession
  <2>2. \A c \in Connections : ~SMTPP!IsAdmitted(c)
    BY <2>1 DEF SMTPP!IsAdmitted
  <2> QED BY <2>2 DEF SMTPInside
<1>8. UserInside = {}
  <2>1. session = [s \in Sessions |-> DashP!NoSession] /\ DashP!NoSession.pc = "idle"
    BY DashCopies DEF SystemInit, DashP!DashboardInit, DashP!NoSession
  <2>2. \A s \in Sessions : ~DashP!IsAdmitted(s)
    BY <2>1 DEF DashP!IsAdmitted
  <2> QED BY <2>2 DEF UserInside
<1>9. Inside = {}
  BY <1>5, <1>6, <1>7, <1>8, InsideParts
<1>10. \A t \in TestIDs : Entries(t) = {}
  BY InitialDatabase DEF Entries
<1>11. /\ \A t \in TestIDs : test[t].stopped = NULL /\ Stage(t) \in {"absent", "running"}
       /\ clock \in Nat
  BY InitialDatabase DEF Stage, DBTypeOK
<1>12. Log!Init
  BY <1>9, <1>10, <1>11 DEF Log!Init
<1> QED BY <1>1, <1>2, <1>3, <1>4, <1>12 DEF SystemInv

(* The invariant holds in every state. *)
LEMMA InvHolds == SystemSpec => []SystemInv
<1>1. SystemInit => SystemInv
  BY SystemBegins
<1>2. SystemInv /\ [SystemNext]_systemVars => SystemInv'
  BY SystemStep
<1> QED BY <1>1, <1>2, PTL DEF SystemSpec

(* Every variable has its type in every state of the program, in which all *)
(* servers, the dashboard and the cleanup share the tables.                *)
THEOREM SystemTypeCorrect == SystemSpec => []SystemTypeOK
<1>1. SystemInv => SystemTypeOK
  BY DNSCopies, WebCopies, SMTPCopies, DashCopies
     DEF SystemInv, SystemTypeOK, DNSP!ServerInv, DNSP!TypeInv, WebP!ServerInv, WebP!HTTPInv,
         SMTPP!CountedInv, SMTPP!SMTPInv, DashP!DashboardInv
<1> QED BY <1>1, InvHolds, PTL

(* The program implements the log of a test, although its servers, its     *)
(* dashboard and its cleanup commit one statement at a time (dns.go:97,    *)
(* http.go:116, smtp.go:110, dashboard.go:381): a stop is final, and the   *)
(* time of the first of several is kept; no row is lost or entered twice,  *)
(* and whoever enters a row or makes a change found the test running       *)
(* before.                                                                 *)
THEOREM ImplementsTestLogHolds == SystemSpec => ImplementsTestLog
<1>1. SystemInit => Log!Init
  BY SystemBegins
<1>2. SystemInv /\ [SystemNext]_systemVars => [Log!Next]_(Log!testVars)
  BY SystemStep
<1> QED BY <1>1, <1>2, InvHolds, PTL DEF SystemSpec, ImplementsTestLog, Log!Spec

-----------------------------------------------------------------------------
(* What every step of the system does to rows, responses and pages.        *)

(* Rows are added only, and those that are added tell whether their test   *)
(* runs.                                                                   *)
Grows(old, new) ==
  /\ old \subseteq new
  /\ \A row \in new \ old : row.live = isRunningTest(row.test)

TablesGrow ==
  /\ Grows(dns_request, dns_request')
  /\ Grows(http_request, http_request')
  /\ Grows(smtp_request, smtp_request')

(* A response is final. *)
ResponsesStay ==
  \A r \in HTTPRequests : request[r].status = 200 => request'[r] = request[r]

PagesTurn == \A s \in Sessions : session'[s] = session[s] \/ DashP!TurnsPage(s)

(* One row is inserted, or none. *)
LEMMA Insertion ==
  /\ \A t, q : InsertDNSRequest(t, q) => Grows(dns_request, dns_request')
  /\ \A t, r : InsertHTTPRequest(t, r) => Grows(http_request, http_request')
  /\ \A t, m : InsertSMTPRequest(t, m) => Grows(smtp_request, smtp_request')
  /\ \A rows : Grows(rows, rows)
  BY DEF InsertDNSRequest, InsertHTTPRequest, InsertSMTPRequest, RowFor, Grows

(* That is what every step does. *)
LEMMA StepEffects ==
  ASSUME SystemInv, [SystemNext]_systemVars
  PROVE  TablesGrow /\ ResponsesStay /\ PagesTurn /\ StopsAreFinal
<1> DEFINE Goal == TablesGrow /\ ResponsesStay /\ PagesTurn /\ StopsAreFinal
<1>1. CASE DNSStep
  <2>1. PICK q \in DNSQueries : DNS!serveDNS(q) \/ DNS!ServeQuery(q)
    BY <1>1 DEF DNSStep
  <2>2. DNSP!ServesTest(q)
    BY <2>1, DNSP!ServerStep, DNSAssumptions, DNSCopies DEF SystemInv
  <2>3. /\ UNCHANGED <<test, http_request, smtp_request>>
        /\ UNCHANGED dns_request \/ \E t : InsertDNSRequest(t, q)
    BY <2>2, DNSDatabase DEF DNSP!ServesTest
  <2>4. UNCHANGED <<request, session>>
    BY <1>1 DEF DNSStep
  <2> QED BY <2>3, <2>4, TestUnchanged, Insertion DEF TablesGrow, ResponsesStay, PagesTurn
<1>2. CASE WebStep
  <2>1. PICK r \in HTTPRequests : Web!serveHTTP(r) \/ Web!ServeRequest(r) \/ Web!Cancel(r)
    BY <1>2 DEF WebStep
  <2>2. WebP!ServesTest(r) /\ request[r].status # 200
    BY <2>1, WebP!ServerStep, WebAssumptions, WebCopies DEF SystemInv
  <2>3. /\ UNCHANGED <<test, dns_request, smtp_request>>
        /\ UNCHANGED http_request \/ \E t : InsertHTTPRequest(t, r)
        /\ \A p \in HTTPRequests \ {r} : request'[p] = request[p]
    BY <2>2, WebDatabase DEF WebP!ServesTest
  <2>4. UNCHANGED session
    BY <1>2 DEF WebStep
  <2> QED BY <2>2, <2>3, <2>4, TestUnchanged, Insertion
          DEF TablesGrow, ResponsesStay, PagesTurn
<1>3. CASE SMTPStep
  <2>1. PICK c \in Connections :
          \/ \E m \in Mails : SMTP!Mail(c, m)
          \/ \E addr \in Addresses : SMTP!Rcpt(c, addr)
          \/ SMTP!Abandon(c) \/ SMTP!DataUnreadable(c) \/ SMTP!Data(c)
          \/ SMTP!RecordMail(c)
    BY <1>3 DEF SMTPStep
  <2>2. SMTPP!ServesTest(c)
    BY <2>1, SMTPP!ServerStep, SMTPAssumptions, SMTPCopies DEF SystemInv
  <2>3. /\ UNCHANGED <<test, dns_request, http_request>>
        /\ UNCHANGED smtp_request \/ \E t, m : InsertSMTPRequest(t, m)
    BY <2>2, SMTPDatabase DEF SMTPP!ServesTest
  <2>4. UNCHANGED <<request, session>>
    BY <1>3 DEF SMTPStep
  <2> QED BY <2>3, <2>4, TestUnchanged, Insertion DEF TablesGrow, ResponsesStay, PagesTurn
<1>4. CASE DashboardStep
  <2>1. PICK s \in Sessions : Dash!serveDashboard(s) \/ Dash!startTest(s) \/ Dash!serveTest(s)
    BY <1>4 DEF DashboardStep
  <2>2. DashP!KeepsOthers /\ DashP!ServesTest(s)
    BY <2>1, DashP!DashboardStep, DashAssumptions, DashCopies DEF SystemInv
  <2>3. DashP!TurnsPage(s)
    BY <2>1, DashP!PageStep, DashAssumptions, DashCopies DEF SystemInv
  <2>4. StopsAreFinal /\ UNCHANGED <<dns_request, http_request, smtp_request>>
    BY <2>2, DashDatabase DEF DashP!KeepsOthers
  <2>5. PagesTurn
    BY <2>2, <2>3 DEF DashP!ServesTest, DashP!OthersStay, PagesTurn
  <2>6. UNCHANGED request
    BY <1>4 DEF DashboardStep
  <2> QED BY <2>4, <2>5, <2>6, Insertion DEF TablesGrow, ResponsesStay
<1>5. CASE (cleanupTests \/ Tick) /\ UNCHANGED componentVars
  <2>1. StopsAreFinal /\ UNCHANGED <<dns_request, http_request, smtp_request>>
    BY <1>5, DatabaseType, TestStatements DEF SystemInv
  <2> QED BY <1>5, <2>1, Insertion DEF componentVars, TablesGrow, ResponsesStay, PagesTurn
<1>6. CASE SystemCrash
  <2>1. UNCHANGED dbVars
    BY <1>6 DEF SystemCrash
  <2>2. StopsAreFinal /\ TablesGrow
    BY <2>1, TestUnchanged, Insertion DEF dbVars, TablesGrow
  <2>3. ResponsesStay
    <3>1. CASE Web!HTTPCrash
      BY <2>1, <3>1, WebP!CrashKeeps, WebAssumptions, WebCopies, WebDatabase
         DEF SystemInv, ResponsesStay
    <3> QED BY <1>6, <3>1 DEF SystemCrash, ResponsesStay
  <2>4. PagesTurn
    <3>1. CASE Dash!DashboardCrash
      BY <3>1, DashP!CrashTurnsPages, DashAssumptions, DashCopies
         DEF PagesTurn, DashP!TurnsPage
    <3> QED BY <1>6, <3>1 DEF SystemCrash, PagesTurn
  <2> QED BY <2>2, <2>3, <2>4
<1>7. CASE UNCHANGED systemVars
  <2>1. UNCHANGED <<dbVars, request, session>>
    BY <1>7 DEF systemVars, componentVars
  <2> QED BY <2>1, TestUnchanged, Insertion DEF dbVars, TablesGrow, ResponsesStay, PagesTurn
<1> QED BY <1>1, <1>2, <1>3, <1>4, <1>5, <1>6, <1>7 DEF SystemNext

-----------------------------------------------------------------------------
(* The pages.                                                              *)

TestOnPage(s) == session[s].form.test

(* A page that says that the test is stopped has every live row of the     *)
(* tables that were read: after the stop, none are added.                  *)
StoppedPage(s) ==
  LET page == session[s].page
      Live(rows) == {row \in rows : row.test = TestOnPage(s) /\ row.live}
  IN page.test = "stopped" =>
       /\ TestOnPage(s) \in TestIDs /\ Stage(TestOnPage(s)) = "stopped"
       /\ session[s].loaded >= 2 => Live(dns_request) \subseteq page.dns_request
       /\ session[s].loaded >= 4 => Live(http_request) \subseteq page.http_request
       /\ session[s].loaded >= 6 => Live(smtp_request) \subseteq page.smtp_request

(* What was served before the user came is still answered so. *)
BeforeWasServed(s) ==
  \A r \in before[s] \cap HTTPRequests : request[r].status = 200

(* It is on his page, once the table was read. *)
ServedOnPage(s) ==
  session[s].page.test # "absent" /\ session[s].loaded >= 4 =>
    \A r \in before[s] \cap HTTPRequests :
      Web!HostTest(r) = TestOnPage(s) =>
        \E row \in session[s].page.http_request : row.req = r

PagesInv ==
  /\ before \in [DNSQueries \cup Sessions -> SUBSET (HTTPRequests \cup Sessions)]
  /\ \A s \in Sessions : StoppedPage(s) /\ BeforeWasServed(s) /\ ServedOnPage(s)

(* The live rows of a stopped test are fixed. *)
LEMMA StoppedRows ==
  ASSUME TablesGrow, StopsAreFinal, NEW t \in TestIDs, Stage(t) = "stopped"
  PROVE  /\ Stage(t)' = "stopped"
         /\ \A row \in dns_request' : row.test = t /\ row.live => row \in dns_request
         /\ \A row \in http_request' : row.test = t /\ row.live => row \in http_request
         /\ \A row \in smtp_request' : row.test = t /\ row.live => row \in smtp_request
<1>1. ~isRunningTest(t)
  BY DEF Stage, isRunningTest, Exists
<1> QED BY <1>1 DEF TablesGrow, Grows, StopsAreFinal

(* A page that is left alone stays complete. *)
LEMMA PageStays ==
  ASSUME TablesGrow, StopsAreFinal, NEW s \in Sessions, StoppedPage(s),
         session'[s].form = session[s].form, session'[s].page = session[s].page,
         session'[s].loaded = session[s].loaded
  PROVE  StoppedPage(s)'
  BY StoppedRows DEF StoppedPage, TestOnPage

(* A table that is read is complete. *)
LEMMA PageFills ==
  ASSUME NEW s \in Sessions, StoppedPage(s), session'[s].form = session[s].form,
         TestOnPage(s) \in TestIDs, UNCHANGED dbVars, NEW n \in 1..6,
         n = session[s].loaded + 1, session[s].loaded \in Nat, session'[s].loaded = n,
         DashP!FillsPage(s, n)
  PROVE  StoppedPage(s)'
<1> DEFINE t == TestOnPage(s)
           old == session[s].page
           new == session'[s].page
<1>1. /\ new.test = IF n = 1 THEN Stage(t) ELSE old.test
      /\ new.dns_request = IF n = 2 THEN {row \in dns_request : row.test = t}
                                    ELSE old.dns_request
      /\ new.http_request = IF n = 4 THEN {row \in http_request : row.test = t}
                                     ELSE old.http_request
      /\ new.smtp_request = IF n = 6 THEN {row \in smtp_request : row.test = t}
                                     ELSE old.smtp_request
  BY DashDatabase DEF DashP!FillsPage, DashP!RowsOf, DashP!Form, TestOnPage
<1>2. /\ UNCHANGED <<test, dns_request, http_request, smtp_request>>
      /\ t' = t /\ Stage(t)' = Stage(t)
  BY TestUnchanged DEF dbVars, TestOnPage
<1>3. CASE n = 1
  BY <1>1, <1>2, <1>3 DEF StoppedPage
<1>4. CASE n \in {2, 3}
  BY <1>1, <1>2, <1>4 DEF StoppedPage
<1>5. CASE n \in {4, 5}
  BY <1>1, <1>2, <1>5 DEF StoppedPage
<1>6. CASE n = 6
  BY <1>1, <1>2, <1>6 DEF StoppedPage
<1> QED BY <1>3, <1>4, <1>5, <1>6

(* Only somebody who arrives finds that more was done before. *)
LEMMA BeforeStep ==
  ASSUME PagesInv, SystemNext
  PROVE  /\ before' \in [DNSQueries \cup Sessions -> SUBSET (HTTPRequests \cup Sessions)]
         /\ \A a \in DNSQueries \cup Sessions :
              before'[a] = IF Arrives(a) THEN Done ELSE before[a]
<1>1. Done \subseteq HTTPRequests \cup Sessions
  BY DEF Done
<1>2. /\ before' = [a \in DOMAIN before |-> IF Arrives(a) THEN Done ELSE before[a]]
      /\ DOMAIN before = DNSQueries \cup Sessions
  BY DEF PagesInv, SystemNext
<1> HIDE DEF Done
<1> QED BY <1>1, <1>2 DEF PagesInv

(* Every step keeps the pages as they should be. *)
LEMMA PagesStep ==
  ASSUME SystemInv, PagesInv, [SystemNext]_systemVars
  PROVE  PagesInv'
<1>1. TablesGrow /\ ResponsesStay /\ PagesTurn /\ StopsAreFinal
  BY StepEffects
<1>2. CASE UNCHANGED systemVars
  <2>1. UNCHANGED <<dbVars, request, session, before>>
    BY <1>2 DEF systemVars, componentVars
  <2>2. \A s \in Sessions : StoppedPage(s)' /\ BeforeWasServed(s)' /\ ServedOnPage(s)'
    BY <1>1, <2>1, PageStays
       DEF PagesInv, BeforeWasServed, ServedOnPage, TestOnPage, Web!HostTest, Web!HostTarget
  <2> QED BY <2>1, <2>2 DEF PagesInv
<1>3. CASE SystemNext
  <2>1. /\ before' \in [DNSQueries \cup Sessions -> SUBSET (HTTPRequests \cup Sessions)]
        /\ \A a \in DNSQueries \cup Sessions :
             before'[a] = IF Arrives(a) THEN Done ELSE before[a]
    BY <1>3, BeforeStep
  <2>2. ASSUME NEW s \in Sessions
        PROVE  StoppedPage(s)' /\ BeforeWasServed(s)' /\ ServedOnPage(s)'
    <3>1. StoppedPage(s) /\ BeforeWasServed(s) /\ ServedOnPage(s)
      BY DEF PagesInv
    <3>2. BeforeWasServed(s)'
      <4>1. \A r \in Done \cap HTTPRequests : request[r].status = 200
        BY SystemAssumption DEF Done
      <4>2. \A r \in before'[s] \cap HTTPRequests : request[r].status = 200
        BY <2>1, <3>1, <4>1 DEF BeforeWasServed
      <4> QED BY <1>1, <4>2 DEF ResponsesStay, BeforeWasServed
    <3>3. ~Arrives(s) => /\ before'[s] = before[s]
                         /\ \A r \in before[s] \cap HTTPRequests :
                              Web!HostTest(r)' = Web!HostTest(r)
      BY <1>1, <2>1, <3>1 DEF BeforeWasServed, ResponsesStay, Web!HostTest, Web!HostTarget
    <3>4. CASE session'[s].page = DashP!BlankPage
      <4>1. session'[s].page.test = "absent"
        BY <3>4 DEF DashP!BlankPage
      <4> QED BY <3>2, <4>1 DEF StoppedPage, ServedOnPage
    <3>5. CASE /\ session'[s].form = session[s].form
               /\ session'[s].page = session[s].page
               /\ session'[s].loaded = session[s].loaded
               /\ ~Arrives(s)
      <4>1. StoppedPage(s)'
        BY <1>1, <3>1, <3>5, PageStays
      <4>2. ServedOnPage(s)'
        BY <3>1, <3>3, <3>5 DEF ServedOnPage, TestOnPage
      <4> QED BY <3>2, <4>1, <4>2
    <3>6. ASSUME NEW n, n = session[s].loaded + 1, session[s].pc = "load",
                 session'[s].form = session[s].form,
                 TestOnPage(s) \in TestIDs, UNCHANGED dbVars, n \in 1..6,
                 session'[s].loaded = n, DashP!FillsPage(s, n)
          PROVE  StoppedPage(s)' /\ ServedOnPage(s)'
      <4>1. session[s].loaded \in Nat
        BY DEF SystemInv, DashP!DashboardInv, DashP!DashboardTypeOK, DashP!Session
      <4>2. StoppedPage(s)'
        BY <3>1, <3>6, <4>1, PageFills
      <4>3. ~Arrives(s)
        BY <3>6, SystemAssumption DEF Arrives
      <4>4. ASSUME n = 4
            PROVE  ServedOnPage(s)'
        <5>1. session'[s].page.http_request = {row \in http_request : row.test = TestOnPage(s)}
          BY <3>6, <4>4 DEF DashP!FillsPage, DashP!RowsOf, DashP!Form, TestOnPage
        <5>2. ASSUME NEW r \in before[s] \cap HTTPRequests, Web!HostTest(r) = TestOnPage(s)
              PROVE  \E row \in session'[s].page.http_request : row.req = r
          <6>1. \E row \in http_request : row.req = r /\ row.test = WebP!HostTest(r)
            BY <3>1, WebP!ServedHasRow, WebAssumptions DEF SystemInv, BeforeWasServed
          <6> QED BY <5>1, <5>2, <6>1, WebCopies
        <5>3. TestOnPage(s)' = TestOnPage(s)
          BY <3>6 DEF TestOnPage
        <5>4. \A r \in before'[s] \cap HTTPRequests :
                Web!HostTest(r)' = TestOnPage(s)' =>
                  \E row \in session'[s].page.http_request : row.req = r
          BY <3>3, <4>3, <5>2, <5>3
        <5> QED BY <5>4 DEF ServedOnPage
      <4>5. ASSUME n # 4
            PROVE  ServedOnPage(s)'
        <5>1. /\ session'[s].page.http_request = session[s].page.http_request
              /\ n >= 4 => session'[s].page.test = session[s].page.test
              /\ TestOnPage(s)' = TestOnPage(s)
              /\ n >= 4 => session[s].loaded >= 4
          BY <3>6, <4>1, <4>5 DEF DashP!FillsPage, TestOnPage
        <5>2. ASSUME session'[s].page.test # "absent", session'[s].loaded >= 4
              PROVE  \A r \in before'[s] \cap HTTPRequests :
                       Web!HostTest(r)' = TestOnPage(s)' =>
                         \E row \in session'[s].page.http_request : row.req = r
          <6>1. session[s].page.test # "absent" /\ session[s].loaded >= 4
            BY <3>6, <5>1, <5>2
          <6>2. \A r \in before[s] \cap HTTPRequests :
                  Web!HostTest(r) = TestOnPage(s) =>
                    \E row \in session[s].page.http_request : row.req = r
            BY <3>1, <6>1 DEF ServedOnPage
          <6> QED BY <3>3, <4>3, <5>1, <6>2
        <5> QED BY <5>2 DEF ServedOnPage
      <4> QED BY <4>2, <4>4, <4>5
    <3>7. CASE session'[s] = session[s]
      BY <3>5, <3>7, SystemAssumption DEF Arrives
    <3>8. CASE DashP!TurnsPage(s)
      <4>1. session[s].pc # "idle" => ~Arrives(s)
        BY SystemAssumption DEF Arrives
      <4> QED BY <3>2, <3>4, <3>5, <3>6, <3>8, <4>1 DEF DashP!TurnsPage, DashP!Form, TestOnPage,
                 DashP!dbVars, dbVars
    <3> QED BY <1>1, <3>7, <3>8 DEF PagesTurn
  <2> QED BY <2>1, <2>2 DEF PagesInv
<1> QED BY <1>2, <1>3

(* At first every page is blank. *)
LEMMA PagesBegin ==
  ASSUME SystemInit
  PROVE  PagesInv
<1>1. \A s \in Sessions : session[s].page.test = "absent"
  <2>1. /\ session = [s \in Sessions |-> DashP!NoSession]
        /\ DashP!NoSession.page.test = "absent"
    BY DashCopies DEF SystemInit, DashP!DashboardInit, DashP!NoSession, DashP!BlankPage
  <2> QED BY <2>1
<1>2. before = [a \in DNSQueries \cup Sessions |-> {}]
  BY DEF SystemInit
<1> QED BY <1>1, <1>2 DEF PagesInv, StoppedPage, BeforeWasServed, ServedOnPage

(* So they always are. *)
LEMMA PagesHold == SystemSpec => [](SystemInv /\ PagesInv)
<1>1. SystemInit => SystemInv /\ PagesInv
  BY SystemBegins, PagesBegin
<1>2. SystemInv /\ PagesInv /\ [SystemNext]_systemVars => SystemInv' /\ PagesInv'
  BY SystemStep, PagesStep
<1> QED BY <1>1, <1>2, PTL DEF SystemSpec

(* A user sees whole pages only. *)
LEMMA ShownIsLoaded ==
  ASSUME SystemInv, NEW s \in Sessions, session[s].status = 200,
         session[s].page.test # "absent"
  PROVE  session[s].loaded = 6
  BY DEF SystemInv, DashP!DashboardInv, DashP!SessionInv, DashP!PageIsWhole, DashP!LoadOrder

(* A page that says that the test is stopped shows every request that was  *)
(* recorded while it was running, although its tables are read one after   *)
(* the other, without a transaction (dashboard.go:229-246).                *)
THEOREM ResultsPageCompleteHolds == SystemSpec => []ResultsPageComplete
<1>1. SystemInv /\ PagesInv => ResultsPageComplete
  <2> SUFFICES ASSUME SystemInv, PagesInv, NEW s \in Sessions,
                      session[s].status = 200, session[s].page.test = "stopped",
                      NEW table \in {"dns_request", "http_request", "smtp_request"},
                      NEW row \in Dash!RowsOf(session[s].form.test)[table], row.live
               PROVE  row \in session[s].page[table]
    BY DEF ResultsPageComplete
  <2>1. session[s].loaded = 6
    BY ShownIsLoaded
  <2>2. StoppedPage(s)
    BY DEF PagesInv
  <2>3. CASE table = "dns_request"
    BY <2>1, <2>2, <2>3 DEF StoppedPage, TestOnPage, Dash!RowsOf
  <2>4. CASE table = "http_request"
    BY <2>1, <2>2, <2>4 DEF StoppedPage, TestOnPage, Dash!RowsOf
  <2>5. CASE table = "smtp_request"
    BY <2>1, <2>2, <2>5 DEF StoppedPage, TestOnPage, Dash!RowsOf
  <2> QED BY <2>3, <2>4, <2>5
<1> QED BY <1>1, PagesHold, PTL

(* A user sees every request that the program answered with status 200     *)
(* before he opened the page: its row is there before the response is      *)
(* written (http.go:124-128), and stays.                                   *)
THEOREM ServedIsShownHolds == SystemSpec => []ServedIsShown
<1>1. SystemInv /\ PagesInv => ServedIsShown
  BY ShownIsLoaded DEF PagesInv, ServedOnPage, TestOnPage, ServedIsShown
<1> QED BY <1>1, PagesHold, PTL

-----------------------------------------------------------------------------
(* The published records, from the form to the answer.                     *)

(* The fields of a form, and the statement, as the dashboard has them. *)
LEMMA FormCopies ==
  /\ \A labels : LowerWords(labels) = DashP!LowerWords(labels)
  /\ \A r : DataOf(r) = DashP!DataOf(r)
  /\ \A r : IsValidRecord(r) = DashP!IsValidRecord(r)
  /\ \A t, sub, type, data :
       InsertRecord(t, sub, type, data) = DashP!InsertRecord(t, sub, type, data)
  /\ TestForms = DashP!TestForms
  /\ PostedRecord = DashP!PostedRecord
  BY DEF LowerWords, DashP!LowerWords, DataOf, DashP!DataOf, IsValidRecord,
         DashP!IsValidRecord, InsertRecord, DashP!InsertRecord, TestForms,
         DashP!TestForms, PostedRecord, DashP!PostedRecord, Target, DashP!Target,
         Normalized, DashP!Normalized, TextLimit, DashP!TextLimit, FlagLimit,
         DashP!FlagLimit, validateCAATag, DashP!validateCAATag, IsCNAMETarget,
         DashP!IsCNAMETarget, Exists, DashP!Exists, IsNextID, DashP!IsNextID,
         PostedFile, DashP!PostedFile, Label, DashP!Label, Text, DashP!Text,
         Hostname, DashP!Hostname, AnyWord, DashP!AnyWord, ToLower, DashP!ToLower,
         IsDomainName, DashP!IsDomainName, IsAuthorized, DashP!IsAuthorized,
         Schemes, DashP!Schemes, Path, DashP!Path, LowerLabel, DashP!LowerLabel,
         authorizedCNAMETargetDomains, DashP!authorizedCNAMETargetDomains,
         IsBeneath, DashP!IsBeneath

(* The names of the queries, as the DNS server has them. *)
LEMMA QueryCopies ==
  /\ DNS!refused = DNSP!refused
  /\ \A q : DNS!TargetOf(q) = DNSP!TargetOf(q)
  BY DEF DNS!refused, DNSP!refused, DNS!TargetOf, DNSP!TargetOf, DNS!parseHostname,
         DNSP!parseHostname, DNS!LowerLabel, DNSP!LowerLabel

(* A name in lower case. *)
LowerLabels(labels) == [i \in 1..Len(labels) |-> LowerLabel(labels[i].word)]

LEMMA LowerName ==
  ASSUME NEW name \in Hostname
  PROVE  ToLower(name) = [labels |-> LowerLabels(name.labels), dot |-> name.dot]
<1>1. ToLower(name) = [name EXCEPT !.labels = LowerLabels(name.labels)]
  BY DEF ToLower, LowerLabels
<1>2. DOMAIN name = {"labels", "dot"} /\ name = [x \in {"labels", "dot"} |-> name[x]]
  BY DEF Hostname
<1> QED BY <1>1, <1>2

(* Its last dot does not matter to its labels. *)
LEMMA WithDot ==
  ASSUME NEW labels, NEW old, NEW new
  PROVE  [[labels |-> labels, dot |-> old] EXCEPT !.dot = new] = [labels |-> labels, dot |-> new]
  BY Z3

(* The target that is stored for a CNAME that was found valid is in lower  *)
(* case and absolute.                                                      *)
LEMMA TargetsLeadToCAs ==
  ASSUME NEW r \in PostedRecord, IsValidRecord(r), r.type = "CNAME"
  PROVE  LeadsToCA(DataOf(r).Target)
<1> DEFINE words == LowerLabels(r.target.labels)
           name == [labels |-> words, dot |-> TRUE]
<1>1. r.target \in Hostname /\ IsAuthorized(Normalized(r.target))
  BY DEF PostedRecord, IsValidRecord, IsCNAMETarget
<1>2. r.target.labels \in Seq(Label)
  BY <1>1 DEF Hostname
<1>3. Normalized(r.target) = name
  <2>1. ToLower(r.target) = [labels |-> words, dot |-> r.target.dot]
    BY <1>1, LowerName
  <2> HIDE DEF words
  <2>2. [[labels |-> words, dot |-> r.target.dot] EXCEPT !.dot = TRUE] = name
    BY WithDot, Zenon
  <2> QED BY <2>1, <2>2 DEF Normalized
<1>4. words \in Seq(Label) /\ Len(words) = Len(r.target.labels)
  <2>1. \A i \in 1..Len(r.target.labels) : LowerLabel(r.target.labels[i].word) \in Label
    <3>1. \A i \in 1..Len(r.target.labels) : r.target.labels[i] \in Label
      BY <1>2
    <3>2. \A label \in Label : LowerLabel(label.word) \in Label
      BY DEF LowerLabel, Label
    <3> QED BY <3>1, <3>2
  <2> QED BY <1>2, <2>1 DEF LowerLabels
<1>5. LowerLabels(words) = words
  BY <1>4 DEF LowerLabels, LowerLabel
<1> HIDE DEF words
<1>6. name \in Hostname
  BY <1>4 DEF Hostname
<1>7. ToLower(name) = name
  BY <1>5, <1>6, LowerName
<1>8. DataOf(r).Target = Normalized(r.target)
  BY DEF DataOf
<1> QED BY <1>1, <1>3, <1>7, <1>8 DEF LeadsToCA

(* Somebody deleted a record. *)
Deleted ==
  \E s \in Sessions : /\ session[s].pc = "done" /\ session[s].form \in Posted
                      /\ session[s].form.op = "rm_dns_record"

(* The record of a form is in the table. *)
IsPublished(form) ==
  /\ form.test \in TestIDs /\ Stage(form.test) # "absent"
  /\ Deleted \/ \E row \in dns_record :
                  /\ row.test = form.test /\ row.sub = LowerWords(form.record.sub)
                  /\ row.type = form.record.type /\ row.data = DataOf(form.record)

ToldIsPublished == \A s \in Sessions : DashP!Told(s) => IsPublished(session[s].form)

TargetsInv ==
  /\ \A row \in dns_record : row.type = "CNAME" => LeadsToCA(row.data.Target)
  /\ CNAMEsLeadToCAs

(* What every step does to queries, sessions and records.                  *)
QueriesTurn == \A q \in DNSQueries : query'[q] = query[q] \/ DNSP!TurnsQuery(q)

DoneStays == \A s \in Sessions : session[s].pc = "done" => session'[s] = session[s]

ToldNow ==
  \A s \in Sessions : DashP!Told(s)' => \/ session'[s] = session[s]
                                       \/ IsPublished(session[s].form)'

RecordsStay ==
  /\ dns_record \subseteq dns_record' \/ Deleted'
  /\ \A row \in dns_record' :
       row \in dns_record \/ (row.type = "CNAME" => LeadsToCA(row.data.Target))

(* A step that leaves the records and the sessions alone. *)
LEMMA RecordsUndisturbed ==
  ASSUME UNCHANGED <<dns_record, session>>
  PROVE  DoneStays /\ ToldNow /\ RecordsStay
  BY DEF DoneStays, ToldNow, RecordsStay

(* A step of a session. *)
LEMMA EditEffects ==
  ASSUME SystemInv, NEW s \in Sessions, DashP!EditsRecords(s),
         \A p \in Sessions \ {s} : session'[p] = session[p]
  PROVE  DoneStays /\ ToldNow /\ RecordsStay
<1> DEFINE form == session[s].form
           Goal == DoneStays /\ ToldNow /\ RecordsStay
<1>1. DoneStays
  BY DEF DoneStays, DashP!EditsRecords
<1>2. CASE UNCHANGED dns_record /\ ~DashP!Told(s)'
  BY <1>1, <1>2 DEF ToldNow, RecordsStay
<1>3. CASE /\ form \in Posted /\ form.op = "rm_dns_record"
           /\ session'[s].pc = "done" /\ session'[s].form = form
           /\ dns_record' \subseteq dns_record
  <2>1. ~DashP!Told(s)'
    BY <1>3 DEF DashP!Told, DashP!Form
  <2>2. Deleted'
    BY <1>3 DEF Deleted
  <2> QED BY <1>1, <1>3, <2>1, <2>2 DEF ToldNow, RecordsStay
<1>4. CASE /\ form \in TestForms /\ form.op = "add_dns_record" /\ session'[s].form = form
           /\ IsValidRecord(form.record)
           /\ InsertRecord(form.test, LowerWords(form.record.sub), form.record.type,
                           DataOf(form.record))
  <2> DEFINE Row(id) == [id |-> id, test |-> form.test, sub |-> LowerWords(form.record.sub),
                         type |-> form.record.type, data |-> DataOf(form.record)]
  <2>1. form.test \in TestIDs /\ form.record \in PostedRecord
    BY <1>4 DEF TestForms
  <2>2. PICK id \in 1..MaxRows : dns_record' = dns_record \cup {Row(id)}
    BY <1>4 DEF InsertRecord
  <2>3. Exists(form.test) /\ UNCHANGED test
    BY <1>4 DEF InsertRecord
  <2>4. Stage(form.test) # "absent"
    BY <2>3 DEF Stage
  <2>5. Stage(form.test)' # "absent"
    BY <1>4, <2>3, <2>4, TestUnchanged
  <2>6. IsPublished(session[s].form)'
    <3>1. Row(id) \in dns_record'
      BY <2>2
    <3>2. /\ Row(id).test = form.test /\ Row(id).sub = LowerWords(form.record.sub)
          /\ Row(id).type = form.record.type /\ Row(id).data = DataOf(form.record)
      OBVIOUS
    <3> HIDE DEF Row
    <3>3. \E row \in dns_record' :
             /\ row.test = form.test /\ row.sub = LowerWords(form.record.sub)
             /\ row.type = form.record.type /\ row.data = DataOf(form.record)
      BY <3>1, <3>2
    <3> QED BY <1>4, <2>1, <2>5, <3>3 DEF IsPublished
  <2>7. form.record.type = "CNAME" => LeadsToCA(DataOf(form.record).Target)
    BY <1>4, <2>1, TargetsLeadToCAs
  <2>8. RecordsStay
    BY <2>2, <2>7 DEF RecordsStay
  <2> QED BY <1>1, <2>6, <2>8 DEF ToldNow
<1> QED BY <1>2, <1>3, <1>4, FormCopies DEF DashP!EditsRecords, DashP!Form

(* That is what every step does. *)
LEMMA RecordEffects ==
  ASSUME SystemInv, [SystemNext]_systemVars
  PROVE  QueriesTurn /\ DoneStays /\ ToldNow /\ RecordsStay
<1> DEFINE Goal == QueriesTurn /\ DoneStays /\ ToldNow /\ RecordsStay
<1>1. CASE DNSStep
  <2>1. PICK q \in DNSQueries : DNS!serveDNS(q) \/ DNS!ServeQuery(q)
    BY <1>1 DEF DNSStep
  <2>2. DNSP!ServesTest(q) /\ DNSP!TurnsQuery(q) /\ \A p \in DNSQueries \ {q} : query'[p] = query[p]
    BY <2>1, DNSP!ServerStep, DNSP!QueryStep, DNSAssumptions, DNSCopies
       DEF SystemInv, DNSP!ServerInv
  <2>3. UNCHANGED <<dns_record, session>>
    BY <1>1, <2>2 DEF DNSStep, DNSP!ServesTest
  <2> QED BY <2>2, <2>3, RecordsUndisturbed DEF QueriesTurn
<1>2. CASE WebStep
  <2>1. PICK r \in HTTPRequests : Web!serveHTTP(r) \/ Web!ServeRequest(r) \/ Web!Cancel(r)
    BY <1>2 DEF WebStep
  <2>2. WebP!ServesTest(r)
    BY <2>1, WebP!ServerStep, WebAssumptions, WebCopies DEF SystemInv
  <2>3. UNCHANGED <<dns_record, session, query>>
    BY <1>2, <2>2 DEF WebStep, WebP!ServesTest
  <2> QED BY <2>3, RecordsUndisturbed DEF QueriesTurn
<1>3. CASE SMTPStep
  <2>1. PICK c \in Connections :
          \/ \E m \in Mails : SMTP!Mail(c, m)
          \/ \E addr \in Addresses : SMTP!Rcpt(c, addr)
          \/ SMTP!Abandon(c) \/ SMTP!DataUnreadable(c) \/ SMTP!Data(c)
          \/ SMTP!RecordMail(c)
    BY <1>3 DEF SMTPStep
  <2>2. SMTPP!ServesTest(c)
    BY <2>1, SMTPP!ServerStep, SMTPAssumptions, SMTPCopies DEF SystemInv
  <2>3. UNCHANGED <<dns_record, session, query>>
    BY <1>3, <2>2 DEF SMTPStep, SMTPP!ServesTest
  <2> QED BY <2>3, RecordsUndisturbed DEF QueriesTurn
<1>4. CASE DashboardStep
  <2>1. PICK s \in Sessions : Dash!serveDashboard(s) \/ Dash!startTest(s) \/ Dash!serveTest(s)
    BY <1>4 DEF DashboardStep
  <2>2. DashP!ServesTest(s) /\ DashP!EditsRecords(s)
    BY <2>1, DashP!DashboardStep, DashP!RecordsStep, DashAssumptions, DashCopies DEF SystemInv
  <2>3. \A p \in Sessions \ {s} : session'[p] = session[p]
    BY <2>2 DEF DashP!ServesTest, DashP!OthersStay
  <2> QED BY <1>4, <2>2, <2>3, EditEffects DEF DashboardStep, QueriesTurn
<1>5. CASE (cleanupTests \/ Tick) /\ UNCHANGED componentVars
  <2>1. UNCHANGED <<dns_record, session, query>>
    BY <1>5 DEF cleanupTests, Tick, componentVars
  <2> QED BY <2>1, RecordsUndisturbed DEF QueriesTurn
<1>6. CASE SystemCrash
  <2>1. UNCHANGED dns_record
    BY <1>6 DEF SystemCrash, dbVars
  <2>2. QueriesTurn
    <3>1. CASE DNS!DNSCrash
      BY <3>1, DNSP!CrashTurnsQueries, DNSAssumptions, DNSCopies
         DEF SystemInv, DNSP!ServerInv, QueriesTurn
    <3> QED BY <1>6, <3>1 DEF SystemCrash, QueriesTurn
  <2>3. CASE Dash!DashboardCrash
    <3>1. \A s \in Sessions : /\ session[s].pc = "done" => session'[s] = session[s]
                              /\ session'[s] = session[s] \/ ~DashP!Told(s)'
      BY <2>3, DashP!CrashTellsNobody, DashAssumptions, DashCopies
    <3> QED BY <2>1, <2>2, <3>1 DEF DoneStays, ToldNow, RecordsStay
  <2>4. CASE UNCHANGED session
    BY <2>1, <2>2, <2>4, RecordsUndisturbed
  <2> QED BY <1>6, <2>3, <2>4 DEF SystemCrash
<1>7. CASE UNCHANGED systemVars
  <2>1. UNCHANGED <<dns_record, session, query>>
    BY <1>7 DEF systemVars, dbVars, componentVars
  <2> QED BY <2>1, RecordsUndisturbed DEF QueriesTurn
<1> QED BY <1>1, <1>2, <1>3, <1>4, <1>5, <1>6, <1>7 DEF SystemNext

(* Every CNAME was checked, in the table and among the answers. *)
LEMMA TargetsStep ==
  ASSUME SystemInv, TargetsInv, [SystemNext]_systemVars
  PROVE  TargetsInv'
<1>1. QueriesTurn /\ RecordsStay
  BY RecordEffects
<1>2. ASSUME NEW row \in dns_record', row.type = "CNAME"
      PROVE  LeadsToCA(row.data.Target)
  BY <1>1, <1>2 DEF TargetsInv, RecordsStay
<1>3. ASSUME NEW q \in DNSQueries, NEW rr \in query'[q].answers, rr.type = "CNAME"
      PROVE  LeadsToCA(rr.data.Target)
  <2>1. CASE rr \in query[q].answers
    BY <1>3, <2>1 DEF TargetsInv, CNAMEsLeadToCAs
  <2>2. ASSUME NEW t, NEW sub, NEW qtype, rr \in DNSP!lookupDNSRecords(t, sub, qtype, query[q].answers)
        PROVE  LeadsToCA(rr.data.Target)
    <3>1. rr \in query[q].answers \/ \E row \in dns_record : rr = [type |-> row.type, data |-> row.data]
      BY <2>2, DNSP!LookupOnly, DNSAssumptions
    <3> QED BY <1>3, <2>1, <3>1 DEF TargetsInv
  <2>3. CASE rr.type \in DNSP!BuiltInTypes
    BY <1>3, <2>3 DEF DNSP!BuiltInTypes
  <2>4. \/ rr \in query[q].answers
        \/ rr.type \in DNSP!BuiltInTypes
        \/ \E t, sub, qtype : rr \in DNSP!lookupDNSRecords(t, sub, qtype, query[q].answers)
    <3>1. CASE query'[q] = query[q]
      BY <1>3, <3>1
    <3>2. CASE query[q].pc = "idle" /\ \A other \in query'[q].answers : other.type \in DNSP!BuiltInTypes
      BY <1>3, <3>2
    <3>3. CASE query'[q].answers = query[q].answers
      BY <1>3, <3>3
    <3>4. CASE query'[q].answers = DNSP!lookupDNSRecords(DNSP!TestOf(q), DNSP!TargetOf(q).sub,
                                                      query[q].qtype, query[q].answers)
      BY <1>3, <3>4
    <3>5. query'[q] = query[q] \/ DNSP!TurnsQuery(q)
      BY <1>1 DEF QueriesTurn
    <3> QED BY <3>1, <3>2, <3>3, <3>4, <3>5 DEF DNSP!TurnsQuery
  <2> QED BY <2>1, <2>2, <2>3, <2>4
<1> QED BY <1>2, <1>3 DEF TargetsInv, CNAMEsLeadToCAs

(* The records of before the start were checked then. *)
LEMMA TargetsBegin ==
  ASSUME SystemInit
  PROVE  TargetsInv
<1>1. PICK running \in SUBSET TestIDs, scene \in Scenes :
        dns_record \in {{}} \cup {{r} : r \in Earlier(running, scene.published)}
  BY DEF SystemInit
<1>2. \A r \in Earlier(running, scene.published) : r.type = "CNAME" => LeadsToCA(r.data.Target)
  BY SystemAssumption DEF Earlier
<1>3. \A row \in dns_record : row.type = "CNAME" => LeadsToCA(row.data.Target)
  BY <1>1, <1>2
<1>4. query = [q \in DNSQueries |-> DNSP!NoQuery] /\ DNSP!NoQuery.answers = {}
  BY DNSCopies DEF SystemInit, DNSP!DNSInit, DNSP!NoQuery
<1> QED BY <1>3, <1>4 DEF TargetsInv, CNAMEsLeadToCAs

(* A CNAME that the DNS server answers leads to a name of a certificate    *)
(* authority (cname.go, dashboard.go:339), whatever was posted.            *)
THEOREM CNAMEsLeadToCAsHolds == SystemSpec => []CNAMEsLeadToCAs
<1>1. SystemInit => SystemInv /\ TargetsInv
  BY SystemBegins, TargetsBegin
<1>2. SystemInv /\ TargetsInv /\ [SystemNext]_systemVars => SystemInv' /\ TargetsInv'
  BY SystemStep, TargetsStep
<1>3. TargetsInv => CNAMEsLeadToCAs
  BY DEF TargetsInv
<1> QED BY <1>1, <1>2, <1>3, PTL DEF SystemSpec

-----------------------------------------------------------------------------
(* The records that were published before a query came.                    *)

(* The query asks for the record of a form. *)
AsksFor(q, form) ==
  /\ form.op = "add_dns_record" /\ form.test = DNSP!TestOf(q)
  /\ LowerWords(form.record.sub) = DNSP!TargetOf(q).sub
  /\ query[q].qtype \in {form.record.type, "ANY"}

(* The record of the form is among the answers, or a CNAME in its place. *)
HasRecord(q, form) ==
  DNSP!IsAnswered(query[q].answers, [type |-> form.record.type, data |-> DataOf(form.record)])

BeforeIsDone(q) ==
  \A s \in before[q] \cap Sessions : session[s].pc = "done" /\ session[s].status = 303

(* The lookup is over, and nothing excuses a record that is missing. *)
OwesRecords(q) ==
  /\ query[q].pc \in {"record", "reply"} \/ query[q].reply \notin {NULL, DNSP!refused}
  /\ ~query[q].failed
  /\ DNSP!TargetOf(q).ok /\ isRunningTest(DNSP!TestOf(q))
  /\ ~Deleted

PaysRecords(q) ==
  OwesRecords(q) =>
    \A s \in before[q] \cap Sessions : AsksFor(q, session[s].form) => HasRecord(q, session[s].form)

PublishedInv ==
  /\ ToldIsPublished
  /\ \A q \in DNSQueries : BeforeIsDone(q) /\ DNSP!ReplyHasAnswers(q) /\ PaysRecords(q)

(* What somebody was told stays true. *)
LEMMA ToldStep ==
  ASSUME ToldIsPublished, DoneStays, ToldNow, RecordsStay, StopsAreFinal
  PROVE  ToldIsPublished'
<1>1. Deleted => Deleted'
  BY DEF Deleted, DoneStays
<1> SUFFICES ASSUME NEW s \in Sessions, DashP!Told(s)'
             PROVE  IsPublished(session[s].form)'
  BY DEF ToldIsPublished
<1>2. CASE session'[s] = session[s]
  <2> DEFINE form == session[s].form
  <2>1. IsPublished(form)
    BY <1>2 DEF ToldIsPublished, DashP!Told, DashP!Form
  <2>2. form.test \in TestIDs /\ Stage(form.test)' # "absent"
    <3>1. form.test \in TestIDs /\ Stage(form.test) # "absent" /\ form' = form
      BY <1>2, <2>1 DEF IsPublished
    <3> HIDE DEF form
    <3> QED BY <3>1 DEF StopsAreFinal
  <2>3. dns_record \subseteq dns_record' \/ Deleted'
    BY DEF RecordsStay
  <2> QED BY <1>1, <1>2, <2>1, <2>2, <2>3 DEF IsPublished
<1> QED BY <1>2 DEF ToldNow

(* A query that was there before the step finds what it asks for. *)
LEMMA PaysStep ==
  ASSUME SystemInv, PublishedInv, NEW q \in DNSQueries,
         query'[q] = query[q] \/ DNSP!TurnsQuery(q),
         query[q].pc # "idle" \/ query'[q] = query[q],
         DoneStays, StopsAreFinal, before'[q] = before[q]
  PROVE  PaysRecords(q)'
<1> SUFFICES ASSUME OwesRecords(q)', NEW s \in before[q] \cap Sessions,
                    AsksFor(q, session[s].form)'
             PROVE  HasRecord(q, session[s].form)'
  BY DEF PaysRecords
<1> DEFINE form == session[s].form
           t == form.test
<1>1. /\ ToldIsPublished /\ BeforeIsDone(q) /\ DNSP!ReplyHasAnswers(q) /\ PaysRecords(q)
      /\ query[q].pc \in DNSP!QueryLocations /\ DBTypeOK
  BY DNSDatabase DEF PublishedInv, SystemInv, DNSP!ServerInv, DNSP!TypeInv, DNSP!DNSTypeOK, DNSP!Query
<1>2. session'[s] = session[s] /\ session[s].status = 303
  BY <1>1 DEF BeforeIsDone, DoneStays
<1>3. /\ DNSP!TestOf(q)' = DNSP!TestOf(q) /\ DNSP!TargetOf(q)' = DNSP!TargetOf(q)
      /\ query'[q].qtype = query[q].qtype
  <2>1. query'[q].name = query[q].name /\ query'[q].qtype = query[q].qtype
    BY DEF DNSP!TurnsQuery
  <2> QED BY <2>1 DEF DNSP!TestOf, DNSP!TargetOf
<1>4. AsksFor(q, form) /\ form.op = "add_dns_record" /\ t = DNSP!TestOf(q)
  BY <1>2, <1>3 DEF AsksFor
<1>5. ~Deleted
  BY DEF Deleted, DoneStays, OwesRecords
<1>6. IsPublished(form)
  BY <1>1, <1>2, <1>4 DEF ToldIsPublished, DashP!Told, DashP!Form
<1>7. isRunningTest(t)
  <2>1. t \in TestIDs /\ Stage(t) # "absent"
    BY <1>6 DEF IsPublished
  <2>2. isRunningTest(DNSP!TestOf(q))'
    BY DEF OwesRecords
  <2>3. t' = t /\ (DNSP!TestOf(q))' = t
    BY <1>2, <1>3, <1>4
  <2>4. Stage(t) # "stopped"
    <3> HIDE DEF t
    <3> QED BY <2>1, <2>2, <2>3 DEF StopsAreFinal, Stage, isRunningTest, Exists
  <2> QED BY <2>1, <2>4 DEF Stage, isRunningTest
<1>8. ~query'[q].failed /\ DNSP!TargetOf(q).ok
  BY <1>3 DEF OwesRecords
<1>9. /\ ~query[q].failed
      /\ query'[q].pc \in {"record", "reply"} \/ query'[q].reply \notin {NULL, DNSP!refused}
  BY <1>8 DEF DNSP!TurnsQuery, OwesRecords
<1>10. ASSUME query'[q].answers = query[q].answers, OwesRecords(q)
       PROVE  HasRecord(q, session[s].form)'
  BY <1>1, <1>2, <1>4, <1>10 DEF PaysRecords, HasRecord
<1>11. ASSUME query[q].pc \in {"record", "reply"} \/ query[q].reply \notin {NULL, DNSP!refused}
       PROVE  OwesRecords(q)
  BY <1>4, <1>5, <1>7, <1>8, <1>9, <1>11 DEF OwesRecords
<1>12. CASE query'[q] = query[q]
  BY <1>9, <1>10, <1>11, <1>12
<1>13. CASE query[q].pc = "lookup" /\ query'[q].pc = "record" /\ DNSP!TurnsQuery(q)
  <2>1. query'[q].answers = DNSP!lookupDNSRecords(DNSP!TestOf(q), DNSP!TargetOf(q).sub,
                                                  query[q].qtype, query[q].answers)
    BY <1>8, <1>13 DEF DNSP!TurnsQuery
  <2>2. PICK row \in dns_record : /\ row.test = t /\ row.sub = LowerWords(form.record.sub)
                                  /\ row.type = form.record.type
                                  /\ row.data = DataOf(form.record)
    BY <1>5, <1>6 DEF IsPublished
  <2>3. /\ row.test = DNSP!TestOf(q) /\ row.sub = DNSP!TargetOf(q).sub
        /\ query[q].qtype \in {row.type, "ANY"}
    BY <1>4, <2>2 DEF AsksFor
  <2>4. DNSP!IsAnswered(DNSP!lookupDNSRecords(row.test, row.sub, query[q].qtype, query[q].answers),
                        [type |-> row.type, data |-> row.data])
    BY <1>1, <2>3, DNSP!LookupFinds, DNSAssumptions, DNSDatabase
  <2> QED BY <1>2, <2>1, <2>2, <2>3, <2>4 DEF HasRecord
<1>14. CASE DNSP!TurnsQuery(q) /\ query[q].pc # "idle"
  <2>1. CASE query[q].pc = "check"
    <3>1. query'[q].reply = NULL /\ query'[q].pc \in {"lookup", "reply", "lost"}
      BY <1>1, <1>14, <2>1 DEF DNSP!TurnsQuery, DNSP!ReplyHasAnswers
    <3>2. query'[q].pc = "reply" => ~isRunningTest(DNSP!TestOf(q))
      BY <1>8, <1>14, <2>1, DNSDatabase DEF DNSP!TurnsQuery
    <3> QED BY <1>4, <1>7, <1>9, <3>1, <3>2
  <2>2. CASE query[q].pc \in {"record", "reply"}
    <3>1. query'[q].answers = query[q].answers
      BY <1>14, <2>2 DEF DNSP!TurnsQuery
    <3> QED BY <1>10, <1>11, <2>2, <3>1
  <2>3. CASE query[q].pc = "lookup" /\ query'[q].pc # "record"
    <3>1. query'[q].pc = "lost" /\ query'[q].reply = NULL
      BY <1>1, <1>14, <2>3 DEF DNSP!TurnsQuery, DNSP!ReplyHasAnswers
    <3> QED BY <1>9, <3>1
  <2>4. CASE query[q].pc \in {"done", "lost"}
    BY <1>14, <2>4 DEF DNSP!TurnsQuery
  <2> QED BY <1>1, <1>13, <1>14, <2>1, <2>2, <2>3, <2>4 DEF DNSP!QueryLocations
<1> QED BY <1>12, <1>14

(* A query that has just come owes nothing yet. *)
LEMMA ArrivalOwesNothing ==
  ASSUME NEW q \in DNSQueries, DNSP!TurnsQuery(q), query[q].pc = "idle"
  PROVE  PaysRecords(q)'
<1>1. \/ query'[q].pc = "check" /\ query'[q].reply = NULL
      \/ query'[q].pc = "reply" /\ query'[q].reply = NULL /\ ~DNSP!TargetOf(q).ok'
      \/ query'[q].pc = "done" /\ query'[q].reply = DNSP!refused
  BY DEF DNSP!TurnsQuery
<1> QED BY <1>1 DEF PaysRecords, OwesRecords

(* Every step keeps the promise to those who published. *)
LEMMA PublishedStep ==
  ASSUME SystemInv, PagesInv, PublishedInv, [SystemNext]_systemVars
  PROVE  PublishedInv'
<1>1. QueriesTurn /\ DoneStays /\ ToldNow /\ RecordsStay /\ StopsAreFinal
  BY RecordEffects, StepEffects
<1>2. ToldIsPublished'
  BY <1>1, ToldStep DEF PublishedInv
<1>3. ASSUME NEW q \in DNSQueries
      PROVE  BeforeIsDone(q)' /\ DNSP!ReplyHasAnswers(q)' /\ PaysRecords(q)'
  <2>1. query'[q] = query[q] \/ DNSP!TurnsQuery(q)
    BY <1>1 DEF QueriesTurn
  <2>2. BeforeIsDone(q) /\ DNSP!ReplyHasAnswers(q)
    BY DEF PublishedInv
  <2>3. DNSP!ReplyHasAnswers(q)'
    BY <2>1, <2>2, DNSP!ReplyTurns, DNSAssumptions
  <2>4. before'[q] = before[q] \/ (Arrives(q) /\ before'[q] = Done)
    <3>1. CASE SystemNext
      BY <3>1, BeforeStep
    <3>2. CASE UNCHANGED systemVars
      BY <3>2 DEF systemVars
    <3> QED BY <3>1, <3>2
  <2>5. \A s \in Done \cap Sessions : session[s].pc = "done" /\ session[s].status = 303
    BY SystemAssumption DEF Done
  <2>6. \A s \in before'[q] \cap Sessions : session[s].pc = "done" /\ session[s].status = 303
    BY <2>2, <2>4, <2>5 DEF BeforeIsDone
  <2>7. BeforeIsDone(q)'
    BY <1>1, <2>6 DEF BeforeIsDone, DoneStays
  <2>8. CASE query[q].pc = "idle" /\ DNSP!TurnsQuery(q)
    BY <2>3, <2>7, <2>8, ArrivalOwesNothing
  <2>9. CASE query[q].pc # "idle" \/ query'[q] = query[q]
    <3>1. ~Arrives(q)
      BY <2>9, SystemAssumption DEF Arrives
    <3> QED BY <1>1, <2>1, <2>3, <2>4, <2>7, <2>9, <3>1, PaysStep
  <2> QED BY <2>1, <2>8, <2>9
<1> QED BY <1>2, <1>3 DEF PublishedInv

(* At first nobody was told anything. *)
LEMMA PublishedBegins ==
  ASSUME SystemInit
  PROVE  PublishedInv
<1>1. session = [s \in Sessions |-> DashP!NoSession] /\ DashP!NoSession.status = NULL
  BY DashCopies DEF SystemInit, DashP!DashboardInit, DashP!NoSession
<1>2. ToldIsPublished
  BY <1>1, DatabaseAssumption DEF ToldIsPublished, DashP!Told
<1>3. /\ query = [q \in DNSQueries |-> DNSP!NoQuery]
      /\ DNSP!NoQuery.reply = NULL /\ DNSP!NoQuery.pc = "idle"
  BY DNSCopies DEF SystemInit, DNSP!DNSInit, DNSP!NoQuery
<1>4. before = [a \in DNSQueries \cup Sessions |-> {}]
  BY DEF SystemInit
<1>5. ASSUME NEW q \in DNSQueries
      PROVE  BeforeIsDone(q) /\ DNSP!ReplyHasAnswers(q) /\ PaysRecords(q)
  BY <1>3, <1>4 DEF BeforeIsDone, DNSP!ReplyHasAnswers, PaysRecords
<1> QED BY <1>2, <1>5 DEF PublishedInv

(* Once a user was told that his record is published (dashboard.go:406),   *)
(* the reply to every later query for it has the record, or a CNAME in its *)
(* place: what the dashboard committed, the lookup of the DNS server finds *)
(* (dns.go:104), however their statements interleave with those of the     *)
(* others.                                                                 *)
THEOREM PublishedIsAnsweredHolds == SystemSpec => []PublishedIsAnswered
<1>1. SystemInit => SystemInv /\ PagesInv /\ PublishedInv
  BY SystemBegins, PagesBegin, PublishedBegins
<1>2. SystemInv /\ PagesInv /\ PublishedInv /\ [SystemNext]_systemVars
        => SystemInv' /\ PagesInv' /\ PublishedInv'
  BY SystemStep, PagesStep, PublishedStep
<1>3. PublishedInv => PublishedIsAnswered
  <2> SUFFICES ASSUME PublishedInv, NEW q \in DNSQueries,
                      query[q].reply \notin {NULL, DNS!refused}, ~query[q].failed,
                      DNS!TargetOf(q).ok, isRunningTest(DNS!TestOf(q)),
                      \A s \in Sessions : session[s].form # NULL => session[s].form.op # "rm_dns_record",
                      NEW s \in before[q] \cap Sessions,
                      session[s].form.op = "add_dns_record",
                      session[s].form.test = DNS!TestOf(q),
                      LowerWords(session[s].form.record.sub) = DNS!TargetOf(q).sub,
                      query[q].qtype \in {session[s].form.record.type, "ANY"}
               PROVE  \E rr \in query[q].reply.answer :
                        \/ rr.type = "CNAME"
                        \/ rr = [type |-> session[s].form.record.type,
                                 data |-> DataOf(session[s].form.record)]
    BY DEF PublishedIsAnswered
  <2>1. /\ DNS!TestOf(q) = DNSP!TestOf(q) /\ DNS!TargetOf(q) = DNSP!TargetOf(q)
        /\ DNS!refused = DNSP!refused
    BY DNSCopies, QueryCopies
  <2>2. ~Deleted
    BY ComponentsAssumption DEF Deleted, Dash!DashboardAssumption
  <2>3. OwesRecords(q)
    BY <2>1, <2>2 DEF OwesRecords
  <2>4. AsksFor(q, session[s].form)
    BY <2>1 DEF AsksFor
  <2>5. HasRecord(q, session[s].form) /\ query[q].reply.answer = query[q].answers
    BY <2>1, <2>3, <2>4 DEF PublishedInv, PaysRecords, DNSP!ReplyHasAnswers
  <2> QED BY <2>5 DEF HasRecord, DNSP!IsAnswered
<1> QED BY <1>1, <1>2, <1>3, PTL DEF SystemSpec

=============================================================================
