------------------------------ MODULE Dashboard ------------------------------
(***************************************************************************)
(* The dashboard of dashboard.go: users start and stop tests, publish and  *)
(* delete DNS records and HTTP files, and read the results.  A session is  *)
(* one request to serveDashboard, in a goroutine of its own.  serveTest    *)
(* first loads the whole page, with one statement for every table, and     *)
(* then acts on what the first of them said about the test:                *)
(*                                                                         *)
(*   idle -> start ------------------> done                                *)
(*        -> load (6 times) -> edit -> done                                *)
(*                                                                         *)
(* The loads, and the edit, of different sessions interleave.              *)
(***************************************************************************)
EXTENDS Forms

CONSTANTS
  Sessions,                 \* the requests to the dashboard
  Posted,                   \* what they ask for
  redirectDashboardToHTTPS  \* see module Startup

ASSUME DashboardAssumption ==
  /\ Posted \subseteq TestForms \cup OtherForms
  /\ NULL \notin Posted
  /\ redirectDashboardToHTTPS \in BOOLEAN
  /\ \A f \in Posted : f.op = "add_dns_record" /\ IsValidRecord(f.record) =>
       <<f.record.type, DataOf(f.record)>> \in RecordData
  /\ \A f \in Posted : f.op = "add_http_file" /\ IsValidFile(f.file) =>
       f.file.path \in Paths /\ f.file.content \in Contents

VARIABLE session  \* the goroutine of every session: its locals and its response

dashboardVars == <<dbVars, session>>

(* The statements of loadTestDashboard, in order. *)
LoadOrderTestLast ==   \* a bug
  <<"dns_request", "dns_record", "http_request", "http_file", "smtp_request", "test">>

LoadOrder ==
  <<"test", "dns_request", "dns_record", "http_request", "http_file", "smtp_request">>

(* A page: the stage of the test, and its rows of the other tables.        *)
Page == [test         : Stages,
         dns_request  : SUBSET RequestRow(DNSQueries),
         dns_record   : SUBSET DNSRecord,
         http_request : SUBSET RequestRow(HTTPRequests),
         http_file    : SUBSET HTTPFile,
         smtp_request : SUBSET RequestRow(Mails)]

BlankPage == [test |-> "absent", dns_request |-> {}, dns_record |-> {},
              http_request |-> {}, http_file |-> {}, smtp_request |-> {}]

(* loaded counts the statements of the load.  status is what the program   *)
(* writes, and NULL before that.  A session that is done with status NULL  *)
(* had its context cancelled: serveHTTP wrote nothing (http.go:95-98), and *)
(* net/http ended it with an empty 200, which shows no page.  arrived is   *)
(* history: the stage of the test when the request arrived.                *)
Session == [pc      : {"idle", "start", "load", "edit", "done", "lost"},
            form    : Posted \cup {NULL},
            loaded  : 0..Len(LoadOrder),
            page    : Page,
            status  : {200, 303, 308, 400, 404, 500, NULL},
            arrived : Stages]

NoSession == [pc |-> "idle", form |-> NULL, loaded |-> 0, page |-> BlankPage,
              status |-> NULL, arrived |-> "absent"]

DashboardTypeOK ==
  /\ DBTypeOK
  /\ session \in [Sessions -> Session]

DashboardInit == session = [s \in Sessions |-> NoSession]

Form(s) == session[s].form

IsEdit(form) == form \in TestForms /\ form.op \notin {"view", "ctsearch"}

-----------------------------------------------------------------------------
(* serveDashboard, up to the first statement.                              *)

Arrive(s, form, pc, status) ==
  session' = [session EXCEPT ![s] =
    [NoSession EXCEPT
       !.pc = pc, !.form = form, !.status = status,
       !.arrived = IF form \in TestForms THEN Stage(form.test) ELSE "absent"]]

(* The certificate is looked up in the Certificate Search API, in the      *)
(* context of the request.                                                 *)
serveViewIssuance == {303, 500, NULL}

(* What needs no statement: the redirect to HTTPS, the home page, its      *)
(* assets, other paths, and view_issuance.                                 *)
StatusOf(form, scheme) ==
  IF redirectDashboardToHTTPS /\ scheme = "http" THEN {308}
  ELSE CASE form.op \in {"home", "assets"} -> {200}
         [] form.op = "unrecognized" -> {400}
         [] form.op = "view_issuance" -> serveViewIssuance
         [] OTHER -> {}

serveDashboard(s) ==
  /\ session[s].pc = "idle"
  /\ \E form \in Posted, scheme \in Schemes :
       \/ \E status \in StatusOf(form, scheme) : Arrive(s, form, "done", status)
       \/ /\ StatusOf(form, scheme) = {}
          /\ Arrive(s, form, IF form.op = "start" THEN "start" ELSE "load", NULL)
  /\ UNCHANGED dbVars

(* The response; the page is kept only if it is what the user gets to see. *)
Answer(s, status) ==
  session' = [session EXCEPT
    ![s].pc = "done", ![s].status = status,
    ![s].page = IF status = 200 THEN @ ELSE BlankPage]

(* A bug: the error is logged, and the user goes on to the page.           *)
AnswerFailureLogged(s) == Answer(s, 303) \/ Answer(s, NULL)

(* A statement fails: status 500, or nothing is written if the context of  *)
(* the request was cancelled (see HTTPServer).                             *)
AnswerFailure(s) == Answer(s, 500) \/ Answer(s, NULL)

(* startTest *)
startTest(s) ==
  /\ session[s].pc = "start"
  /\ \/ \E t \in TestIDs : InsertTest(t) /\ (Answer(s, 303) \/ Answer(s, NULL))
     \/ AnswerFailure(s) /\ UNCHANGED dbVars

-----------------------------------------------------------------------------
(* loadTestDashboard.                                                      *)

RowsOf(t) ==
  [test         |-> Stage(t),
   dns_request  |-> {r \in dns_request : r.test = t},
   dns_record   |-> {r \in dns_record : r.test = t},
   http_request |-> {r \in http_request : r.test = t},
   http_file    |-> {f \in http_file : f.test = t},
   smtp_request |-> {r \in smtp_request : r.test = t}]

(* The next statement reads one table; a test that does not exist has no   *)
(* page.                                                                   *)
loadTestDashboard(s) ==
  LET t == Form(s).test
      n == session[s].loaded + 1
      rows == RowsOf(t)
      missing == LoadOrder[n] = "test" /\ ~Exists(t)
  IN /\ session[s].pc = "load"
     /\ \/ missing /\ Answer(s, 404)
        \/ /\ ~missing
           /\ session' = [session EXCEPT
                ![s].pc = IF n = Len(LoadOrder) THEN "edit" ELSE "load",
                ![s].loaded = n,
                ![s].page[LoadOrder[n]] = rows[LoadOrder[n]]]
        \/ AnswerFailure(s)
     /\ UNCHANGED dbVars

-----------------------------------------------------------------------------
(* The rest of serveTest.  The test may have been stopped, and its records *)
(* and files changed, since the page was loaded.                           *)

(* A bug: every POST request is an edit, of a stopped test as well.        *)
MayEditAlways(s) == IsEdit(Form(s))

MayEdit(s) == IsEdit(Form(s)) /\ session[s].page.test = "running"

IsInvalid(form) ==
  \/ form.op = "add_dns_record" /\ ~IsValidRecord(form.record)
  \/ form.op = "add_http_file" /\ ~IsValidFile(form.file)

RejectForm(s) ==
  /\ session[s].pc = "edit" /\ MayEdit(s)
  /\ IsInvalid(Form(s))
  /\ Answer(s, 400)
  /\ UNCHANGED dbVars

(* The files at the place of a posted one. *)
FilesInPlace(f) == FileAt(f.test, f.file.scheme, LowerWords(f.file.sub), f.file.path)

(* The statement of the form; a form without a recognized button has none. *)
Statement(f) ==
  \/ f.op = "stop" /\ StopTest(f.test)
  \/ /\ f.op = "add_dns_record"
     /\ InsertRecord(f.test, LowerWords(f.record.sub), f.record.type, DataOf(f.record))
  \/ /\ f.op = "add_http_file"
     /\ InsertFile(f.test, f.file.scheme, LowerWords(f.file.sub), f.file.path, f.file.content)
  \/ f.op = "rm_dns_record" /\ DeleteRecord(f.test, f.id)
  \/ f.op = "rm_http_file" /\ DeleteFile(f.test, f.id)
  \/ f.op = "none" /\ UNCHANGED dbVars

(* A bug: the number of rows that the statement inserted is not looked at. *)
OutcomeUnchecked(f) == 303

(* A file that is there already is left as it is, and the user is told.    *)
Outcome(f) ==
  IF f.op = "add_http_file" /\ FilesInPlace(f) # {} THEN 400 ELSE 303

(* If the context is cancelled, the statement may be complete and still be *)
(* reported as cancelled: the user reads an empty 200 after his edit.      *)
ApplyEdit(s) ==
  /\ session[s].pc = "edit" /\ MayEdit(s)
  /\ ~IsInvalid(Form(s))
  /\ Statement(Form(s))
  /\ Answer(s, Outcome(Form(s))) \/ Answer(s, NULL)

FailEdit(s) ==
  /\ session[s].pc = "edit" /\ MayEdit(s)
  /\ ~IsInvalid(Form(s))
  /\ AnswerFailure(s)
  /\ UNCHANGED dbVars

(* Any other request gets the page as loaded, or what the search of the    *)
(* Certificate Transparency logs finds.                                    *)
ShowPage(s) ==
  /\ session[s].pc = "edit" /\ ~MayEdit(s)
  /\ \/ Answer(s, 200)
     \/ Form(s).op = "ctsearch" /\ AnswerFailure(s)
  /\ UNCHANGED dbVars

serveTest(s) ==
  loadTestDashboard(s) \/ RejectForm(s) \/ ApplyEdit(s) \/ FailEdit(s) \/ ShowPage(s)

SessionInFlight(s) == session[s].pc \in {"start", "load", "edit"}

(* The process dies and starts again. *)
DashboardCrash ==
  /\ \E s \in Sessions : SessionInFlight(s)
  /\ session' = [s \in Sessions |->
                   IF SessionInFlight(s) THEN [NoSession EXCEPT !.pc = "lost"]
                                         ELSE session[s]]

DashboardNext == \E s \in Sessions : serveDashboard(s) \/ startTest(s) \/ serveTest(s)

DashboardServerInit == DBInit /\ DashboardInit

DashboardServerNext ==
  \/ DashboardNext
  \/ OtherStatements /\ UNCHANGED session
  \/ DashboardCrash /\ UNCHANGED dbVars

DashboardSpec == DashboardServerInit /\ [][DashboardServerNext]_dashboardVars

-----------------------------------------------------------------------------
(* Properties.                                                             *)

(* A user who comes to a stopped test changes nothing any more, and is     *)
(* never told that he did; only sessions that came before the stop may     *)
(* still change its records and files.                                     *)
NoLateEdit ==
  [][\A s \in Sessions :
       session[s].arrived = "stopped" /\ session'[s] # session[s]
         => UNCHANGED dbVars /\ session'[s].status # 303]_dashboardVars

(* A user can change the records and files of the test of his form only,   *)
(* even with the id of a row of another test in a stale or altered form.   *)
OnlyOwnRows ==
  [][\A s \in Sessions : session[s].pc = "edit" /\ session'[s].pc = "done" =>
       \A t \in TestIDs \ {Form(s).test} :
         /\ {r \in dns_record : r.test = t} = {r \in dns_record' : r.test = t}
         /\ {f \in http_file : f.test = t} = {f \in http_file' : f.test = t}]_dashboardVars

(* Of several users who add a file at the same place, one succeeds, and    *)
(* nobody is redirected as if he had while another file is served there.   *)
AddedFileIsServed ==
  [][\A s \in Sessions :
       /\ session[s].pc = "edit" /\ session'[s].status = 303
       /\ Form(s).op = "add_http_file"
       => {g.content : g \in FilesInPlace(Form(s))'} = {Form(s).file.content}
    ]_dashboardVars

=============================================================================
