-------------------------- MODULE DashboardProofs --------------------------
(***************************************************************************)
(* Theorems about the dashboard, for every set of tests, sessions and      *)
(* forms: the type invariant; that a user who comes to a stopped test      *)
(* changes nothing; that he changes the records and files of the test of   *)
(* his form only; and that the file he was told is added is the one that   *)
(* is served.                                                              *)
(***************************************************************************)
EXTENDS Dashboard, DatabaseProofs

-----------------------------------------------------------------------------
(* The inductive invariant.                                                *)

(* serveTest is called with the form of a test, and startTest is not. *)
TestHasForm(s) ==
  /\ session[s].pc \in {"load", "edit"} => Form(s) \in Posted /\ Form(s) \in TestForms
  /\ session[s].pc = "start" => Form(s).op = "start"

(* There is no response before the goroutine is done. *)
NoResponseYet(s) ==
  session[s].pc \in {"idle", "start", "load", "edit"} => session[s].status = NULL

(* The load is over when all tables were read. *)
LoadGoesOn(s) ==
  /\ session[s].pc = "load" => session[s].loaded < Len(LoadOrder)
  /\ session[s].pc = "edit" => session[s].loaded = Len(LoadOrder)

(* The user gets to see a whole page, or none. *)
PageIsWhole(s) ==
  session[s].status = 200 /\ session[s].page.test # "absent" =>
    session[s].loaded = Len(LoadOrder)

(* A session that came to a stopped test never takes it for running. *)
LateSeesStop(s) ==
  session[s].arrived = "stopped" =>
    /\ Form(s) \in TestForms /\ Stage(Form(s).test) = "stopped"
    /\ session[s].page.test # "running"
    /\ session[s].pc \notin {"idle", "start"}

SessionInv(s) ==
  /\ TestHasForm(s) /\ NoResponseYet(s) /\ LoadGoesOn(s) /\ PageIsWhole(s)
  /\ LateSeesStop(s)

DashboardInv == DashboardTypeOK /\ \A s \in Sessions : SessionInv(s)

-----------------------------------------------------------------------------
(* The forms.                                                              *)

(* Which form has which fields. *)
LEMMA FormType ==
  ASSUME NEW f \in TestForms
  PROVE  /\ f.test \in TestIDs
         /\ f.op # "start"
         /\ f.op = "add_dns_record" => f.record \in PostedRecord
         /\ f.op = "add_http_file" => f.file \in PostedFile
         /\ f.op \in {"rm_dns_record", "rm_http_file"} => f.id \in 1..MaxRows
  BY DEF TestForms

(* The words of a name are words. *)
LEMMA LowerWordsType ==
  ASSUME NEW labels \in Seq(Label)
  PROVE  LowerWords(labels) \in Seq(AnyWord)
<1>1. ASSUME NEW i \in 1..Len(labels)
      PROVE  labels[i].word \in AnyWord
  <2>1. labels[i] \in Label
    OBVIOUS
  <2> QED BY <2>1 DEF Label
<1>2. DOMAIN labels = 1..Len(labels) /\ Len(labels) \in Nat
  OBVIOUS
<1> QED BY <1>1, <1>2 DEF LowerWords

(* What is inserted for a record that was found valid. *)
LEMMA ValidRecordType ==
  ASSUME NEW f \in Posted, f \in TestForms, f.op = "add_dns_record", IsValidRecord(f.record)
  PROVE  /\ LowerWords(f.record.sub) \in Seq(AnyWord)
         /\ f.record.type \in RecordTypes /\ DataOf(f.record) \in RData
<1> DEFINE r == f.record
<1>1. r \in PostedRecord
  BY FormType
<1>2. r.type # "other"
  BY DEF IsValidRecord
<1>3. r.type \in RecordTypes /\ r.sub \in Seq(Label)
  BY <1>1, <1>2 DEF PostedRecord, RecordTypes
<1>4. <<r.type, DataOf(r)>> \in RecordTypes \X RData
  BY DashboardAssumption, DatabaseAssumption
<1> QED BY <1>3, <1>4, LowerWordsType

(* What is inserted for a file that was found valid. *)
LEMMA ValidFileType ==
  ASSUME NEW f \in Posted, f \in TestForms, f.op = "add_http_file", IsValidFile(f.file)
  PROVE  /\ f.file.scheme \in Schemes /\ LowerWords(f.file.sub) \in Seq(AnyWord)
         /\ f.file.path \in Paths /\ f.file.content \in Contents
<1>1. f.file \in PostedFile
  BY FormType
<1>2. f.file.sub \in Seq(Label) /\ f.file.scheme \in Schemes
  BY <1>1 DEF PostedFile, IsValidFile
<1> QED BY <1>2, LowerWordsType, DashboardAssumption

(* What the statement of a form leaves alone. *)
RowsElsewhere(t) ==
  \A u \in TestIDs \ {t} :
    /\ {r \in dns_record : r.test = u} = {r \in dns_record' : r.test = u}
    /\ {f \in http_file : f.test = u} = {f \in http_file' : f.test = u}
    /\ test'[u] = test[u]

(* The statement of a form that is not rejected keeps the tables well      *)
(* typed, touches one test only, and at most stops it.                     *)
LEMMA StatementStep ==
  ASSUME DBTypeOK, NEW f \in Posted, f \in TestForms, ~IsInvalid(f), Statement(f)
  PROVE  /\ DBTypeOK'
         /\ StopsAreFinal
         /\ UNCHANGED <<dns_request, http_request, smtp_request>>
         /\ RowsElsewhere(f.test)
         /\ IDsUnique(dns_record) => IDsUnique(dns_record')
         /\ UNCHANGED clock /\ MayEnd(f.test)
<1> DEFINE t == f.test
           Goal == /\ DBTypeOK'
                   /\ StopsAreFinal
                   /\ UNCHANGED <<dns_request, http_request, smtp_request>>
                   /\ RowsElsewhere(t)
                   /\ IDsUnique(dns_record) => IDsUnique(dns_record')
                   /\ UNCHANGED clock /\ MayEnd(t)
<1>1. t \in TestIDs
  BY FormType
<1>2. CASE f.op = "stop" /\ StopTest(t)
  <2>1. /\ DBTypeOK' /\ StopsAreFinal
        /\ UNCHANGED <<dns_record, http_file, dns_request, http_request, smtp_request>>
    BY <1>1, <1>2, TestStatements
  <2>2. \A u \in TestIDs \ {t} : test'[u] = test[u]
    BY <1>2 DEF StopTest, DBTypeOK
  <2>3. UNCHANGED clock /\ MayEnd(t)
    BY <1>1, <1>2, StopOfTests
  <2> QED BY <2>1, <2>2, <2>3 DEF RowsElsewhere
<1>3. ASSUME \/ \E sub \in Seq(AnyWord), type \in RecordTypes, data \in RData :
                  InsertRecord(t, sub, type, data)
             \/ \E id \in 1..MaxRows : DeleteRecord(t, id)
             \/ \E scheme \in Schemes, sub \in Seq(AnyWord), path \in Paths,
                   content \in Contents : InsertFile(t, scheme, sub, path, content)
             \/ \E id \in 1..MaxRows : DeleteFile(t, id)
      PROVE  Goal
  <2>1. /\ DBTypeOK'
        /\ UNCHANGED <<clock, test, dns_request, http_request, smtp_request>>
        /\ IDsUnique(dns_record) => IDsUnique(dns_record')
    BY <1>1, <1>3, PublishStatements
  <2>2. ASSUME NEW sub, NEW type, NEW data, InsertRecord(t, sub, type, data)
        PROVE  RowsElsewhere(t)
    BY <2>1, <2>2 DEF InsertRecord, RowsElsewhere
  <2>3. ASSUME NEW id, DeleteRecord(t, id) \/ DeleteFile(t, id)
        PROVE  RowsElsewhere(t)
    BY <2>1, <2>3 DEF DeleteRecord, DeleteFile, RowIsOf, RowsElsewhere
  <2>4. ASSUME NEW scheme, NEW sub, NEW path, NEW content,
               InsertFile(t, scheme, sub, path, content)
        PROVE  RowsElsewhere(t)
    BY <2>1, <2>4 DEF InsertFile, RowsElsewhere
  <2>5. RowsElsewhere(t)
    BY <1>3, <2>2, <2>3, <2>4
  <2> QED BY <2>1, <2>5, TestUnchanged DEF MayEnd
<1>4. CASE f.op = "add_dns_record" /\
           InsertRecord(t, LowerWords(f.record.sub), f.record.type, DataOf(f.record))
  <2>1. IsValidRecord(f.record)
    BY <1>4 DEF IsInvalid
  <2> QED BY <1>3, <1>4, <2>1, ValidRecordType
<1>5. CASE f.op = "add_http_file" /\
           InsertFile(t, f.file.scheme, LowerWords(f.file.sub), f.file.path, f.file.content)
  <2>1. IsValidFile(f.file)
    BY <1>5 DEF IsInvalid
  <2> QED BY <1>3, <1>5, <2>1, ValidFileType
<1>6. CASE \/ f.op = "rm_dns_record" /\ DeleteRecord(t, f.id)
           \/ f.op = "rm_http_file" /\ DeleteFile(t, f.id)
  BY <1>3, <1>6, FormType
<1>7. CASE f.op = "none" /\ UNCHANGED dbVars
  BY <1>7, TestUnchanged DEF dbVars, DBTypeOK, RowsElsewhere, IDsUnique, MayEnd
<1> QED BY <1>2, <1>4, <1>5, <1>6, <1>7 DEF Statement

-----------------------------------------------------------------------------
(* What the steps of a session assign.                                     *)

Statuses == {200, 303, 308, 400, 404, 500, NULL}

OthersStay(s) == \A p \in Sessions \ {s} : session'[p] = session[p]

(* The page before anything is loaded. *)
LEMMA BlankPageType == BlankPage \in Page
  BY DEF BlankPage, Page, Stages

(* A request arrives. *)
LEMMA ArriveMoves ==
  ASSUME DashboardTypeOK, NEW s \in Sessions, NEW form \in Posted,
         NEW pc \in {"done", "start", "load"}, NEW status \in Statuses,
         Arrive(s, form, pc, status)
  PROVE  /\ session' \in [Sessions -> Session]
         /\ OthersStay(s)
         /\ session'[s].pc = pc /\ session'[s].form = form /\ session'[s].status = status
         /\ session'[s].loaded = 0 /\ session'[s].page = BlankPage
         /\ session'[s].arrived =
              IF form \in TestForms THEN Stage(form.test) ELSE "absent"
<1> DEFINE a == IF form \in TestForms THEN Stage(form.test) ELSE "absent"
           placed == [NoSession EXCEPT !.pc = pc]
           formed == [placed EXCEPT !.form = form]
           answered == [formed EXCEPT !.status = status]
           arrived == [answered EXCEPT !.arrived = a]
<1>1. a \in Stages
  BY DEF Stage, Stages
<1>2. session' = [session EXCEPT ![s] = arrived]
  BY DEF Arrive
<1>3. /\ NoSession \in Session /\ NoSession.loaded = 0 /\ NoSession.page = BlankPage
  BY BlankPageType DEF NoSession, Session, LoadOrder, Stages
<1> HIDE DEF a
<1>4. /\ placed \in Session /\ placed.loaded = 0 /\ placed.page = BlankPage
      /\ placed.pc = pc
  BY <1>3 DEF Session
<1> HIDE DEF placed
<1>5. /\ formed \in Session /\ formed.loaded = 0 /\ formed.page = BlankPage
      /\ formed.pc = pc /\ formed.form = form
  BY <1>4 DEF Session
<1> HIDE DEF formed
<1>6. /\ answered \in Session /\ answered.loaded = 0 /\ answered.page = BlankPage
      /\ answered.pc = pc /\ answered.form = form /\ answered.status = status
  BY <1>5 DEF Session, Statuses
<1> HIDE DEF answered
<1>7. /\ arrived \in Session /\ arrived.loaded = 0 /\ arrived.page = BlankPage
      /\ arrived.pc = pc /\ arrived.form = form /\ arrived.status = status
      /\ arrived.arrived = a
  BY <1>1, <1>6 DEF Session
<1> HIDE DEF arrived
<1> QED BY <1>2, <1>7 DEF DashboardTypeOK, OthersStay, a

(* It is answered. *)
LEMMA AnswerMoves ==
  ASSUME DashboardTypeOK, NEW s \in Sessions, NEW status \in Statuses, Answer(s, status)
  PROVE  /\ session' \in [Sessions -> Session]
         /\ OthersStay(s)
         /\ session'[s].pc = "done" /\ session'[s].status = status
         /\ session'[s].form = session[s].form /\ session'[s].loaded = session[s].loaded
         /\ session'[s].page = (IF status = 200 THEN session[s].page ELSE BlankPage)
         /\ session'[s].arrived = session[s].arrived
<1> DEFINE page == IF status = 200 THEN session[s].page ELSE BlankPage
           ended == [session[s] EXCEPT !.pc = "done"]
           answered == [ended EXCEPT !.status = status]
           shown == [answered EXCEPT !.page = page]
<1>1. page \in Page
  BY BlankPageType DEF DashboardTypeOK, Session
<1>2. session' = [session EXCEPT ![s] = shown]
  BY DEF Answer
<1> HIDE DEF page
<1>3. /\ ended \in Session /\ ended.pc = "done" /\ ended.form = session[s].form
      /\ ended.loaded = session[s].loaded /\ ended.arrived = session[s].arrived
  BY DEF DashboardTypeOK, Session
<1> HIDE DEF ended
<1>4. /\ answered \in Session /\ answered.pc = "done" /\ answered.form = session[s].form
      /\ answered.status = status
      /\ answered.loaded = session[s].loaded /\ answered.arrived = session[s].arrived
  BY <1>3 DEF Session, Statuses
<1> HIDE DEF answered
<1>5. /\ shown \in Session /\ shown.pc = "done" /\ shown.form = session[s].form
      /\ shown.status = status /\ shown.page = page
      /\ shown.loaded = session[s].loaded /\ shown.arrived = session[s].arrived
  BY <1>1, <1>4 DEF Session
<1> HIDE DEF shown
<1> QED BY <1>2, <1>5 DEF DashboardTypeOK, OthersStay, page

(* What one statement of the load reads. *)
LEMMA RowsOfType ==
  ASSUME DBTypeOK, NEW t
  PROVE  RowsOf(t) \in Page
  BY DEF RowsOf, Page, DBTypeOK, Stage, Stages

(* A statement of the load either ends the session, or fills one table of  *)
(* its page and goes on.                                                   *)
LEMMA LoadMoves ==
  ASSUME DashboardTypeOK, NEW s \in Sessions, LoadGoesOn(s), loadTestDashboard(s)
  PROVE  LET t == Form(s).test
             n == session[s].loaded + 1
         IN /\ UNCHANGED dbVars
            /\ session[s].pc = "load" /\ n \in 1..Len(LoadOrder)
            /\ \/ \E status \in {404, 500, NULL} : Answer(s, status)
               \/ /\ n = 1 => Exists(t)
                  /\ session' \in [Sessions -> Session]
                  /\ OthersStay(s)
                  /\ session'[s].pc = IF n = Len(LoadOrder) THEN "edit" ELSE "load"
                  /\ session'[s].form = session[s].form
                  /\ session'[s].status = session[s].status
                  /\ session'[s].arrived = session[s].arrived
                  /\ session'[s].loaded = n
                  /\ session'[s].page =
                       [session[s].page EXCEPT ![LoadOrder[n]] = RowsOf(t)[LoadOrder[n]]]
<1> DEFINE t == Form(s).test
           n == session[s].loaded + 1
           pc == IF n = Len(LoadOrder) THEN "edit" ELSE "load"
           table == LoadOrder[n]
           page == [session[s].page EXCEPT ![table] = RowsOf(t)[table]]
<1>1. DBTypeOK /\ session[s] \in Session /\ session[s].pc = "load"
  BY DEF DashboardTypeOK, loadTestDashboard
<1>2. n \in 1..Len(LoadOrder) /\ n \in 0..Len(LoadOrder) /\ Len(LoadOrder) = 6
  BY <1>1 DEF Session, LoadGoesOn, LoadOrder
<1>3. CASE \E status \in {404, 500, NULL} : Answer(s, status)
  BY <1>1, <1>2, <1>3 DEF loadTestDashboard
<1>4. CASE /\ ~(LoadOrder[n] = "test" /\ ~Exists(t))
           /\ session' = [session EXCEPT ![s].pc = pc, ![s].loaded = n,
                                         ![s].page[table] = RowsOf(t)[table]]
  <2>1. page \in Page
    <3> DEFINE old == session[s].page
    <3>1. old \in Page /\ RowsOf(t) \in Page
      BY <1>1, RowsOfType DEF Session
    <3>2. table \in {"test", "dns_request", "dns_record", "http_request", "http_file",
                     "smtp_request"}
      BY <1>2 DEF LoadOrder
    <3> HIDE DEF old, t, n, table
    <3>3. \A rows \in Page : [old EXCEPT ![table] = rows[table]] \in Page
      BY <3>1, <3>2 DEF Page
    <3> QED BY <3>1, <3>3 DEF old
  <2>2. n = 1 => Exists(t)
    BY <1>4 DEF LoadOrder
  <2> DEFINE moved == [session[s] EXCEPT !.pc = pc]
             counted == [moved EXCEPT !.loaded = n]
             filled == [counted EXCEPT !.page = page]
  <2>3. session' = [session EXCEPT ![s] = filled]
    BY <1>1, <1>4 DEF Session, DashboardTypeOK
  <2>4. pc \in {"load", "edit"}
    OBVIOUS
  <2> HIDE DEF pc, n, page
  <2>5. /\ moved \in Session /\ moved.pc = pc /\ moved.form = session[s].form
        /\ moved.status = session[s].status /\ moved.arrived = session[s].arrived
    BY <1>1, <2>4 DEF Session
  <2> HIDE DEF moved
  <2>6. /\ counted \in Session /\ counted.pc = pc /\ counted.form = session[s].form
        /\ counted.status = session[s].status /\ counted.arrived = session[s].arrived
        /\ counted.loaded = n
    BY <1>2, <2>5 DEF Session
  <2> HIDE DEF counted
  <2>7. /\ filled \in Session /\ filled.pc = pc /\ filled.form = session[s].form
        /\ filled.status = session[s].status /\ filled.arrived = session[s].arrived
        /\ filled.loaded = n /\ filled.page = page
    BY <2>1, <2>6 DEF Session
  <2> HIDE DEF filled
  <2>8. session' \in [Sessions -> Session] /\ session'[s] = filled /\ OthersStay(s)
    BY <2>3, <2>7 DEF DashboardTypeOK, OthersStay
  <2>9. UNCHANGED dbVars
    BY DEF loadTestDashboard
  <2> QED BY <1>1, <1>2, <2>2, <2>7, <2>8, <2>9 DEF pc, n, page
<1> QED BY <1>3, <1>4 DEF loadTestDashboard, AnswerFailure

-----------------------------------------------------------------------------
(* The steps of a session.                                                 *)

(* A session that the step is not of keeps its invariant. *)
LEMMA SessionUndisturbed ==
  ASSUME DashboardInv, NEW p \in Sessions, session'[p] = session[p], StopsAreFinal
  PROVE  SessionInv(p)'
<1>1. SessionInv(p)
  BY DEF DashboardInv
<1>2. LateSeesStop(p)'
  BY <1>1, FormType DEF SessionInv, LateSeesStop, StopsAreFinal, Form
<1> QED BY <1>1, <1>2 DEF SessionInv, TestHasForm, NoResponseYet, LoadGoesOn, PageIsWhole, Form

(* So a step need only keep that of its own. *)
LEMMA SessionStep ==
  ASSUME DashboardInv, NEW s \in Sessions, OthersStay(s), DBTypeOK', StopsAreFinal,
         session' \in [Sessions -> Session], SessionInv(s)'
  PROVE  DashboardInv'
<1>1. ASSUME NEW p \in Sessions \ {s}
      PROVE  SessionInv(p)'
  BY SessionUndisturbed DEF OthersStay
<1> QED BY <1>1 DEF DashboardInv, DashboardTypeOK

(* A response ends a session, whatever it says. *)
LEMMA AnswerKeeps ==
  ASSUME DashboardInv, NEW s \in Sessions, NEW status \in Statuses, Answer(s, status),
         status = 200 => session[s].pc = "edit", DBTypeOK', StopsAreFinal
  PROVE  DashboardInv'
<1>1. /\ session' \in [Sessions -> Session] /\ OthersStay(s)
      /\ session'[s].pc = "done" /\ session'[s].form = session[s].form
      /\ session'[s].loaded = session[s].loaded /\ session'[s].status = status
      /\ session'[s].page = (IF status = 200 THEN session[s].page ELSE BlankPage)
      /\ session'[s].arrived = session[s].arrived
  BY AnswerMoves DEF DashboardInv
<1>2. BlankPage.test = "absent"
  BY DEF BlankPage
<1>3. LateSeesStop(s)' /\ PageIsWhole(s)'
  <2>1. LateSeesStop(s) /\ LoadGoesOn(s)
    BY DEF DashboardInv, SessionInv
  <2>2. LateSeesStop(s)'
    BY <1>1, <1>2, <2>1, FormType DEF LateSeesStop, StopsAreFinal, Form
  <2>3. PageIsWhole(s)'
    BY <1>1, <1>2, <2>1 DEF PageIsWhole, LoadGoesOn
  <2> QED BY <2>2, <2>3
<1>4. SessionInv(s)'
  BY <1>1, <1>3 DEF SessionInv, TestHasForm, NoResponseYet, LoadGoesOn
<1> QED BY <1>1, <1>4, SessionStep

(* The arrival of a request. *)
LEMMA ArrivalKeeps ==
  ASSUME DashboardInv, NEW s \in Sessions, serveDashboard(s)
  PROVE  DashboardInv'
<1>1. PICK form \in Posted, scheme \in Schemes :
        \/ \E status \in StatusOf(form, scheme) : Arrive(s, form, "done", status)
        \/ /\ StatusOf(form, scheme) = {}
           /\ Arrive(s, form, IF form.op = "start" THEN "start" ELSE "load", NULL)
  BY DEF serveDashboard
<1>2. UNCHANGED dbVars /\ DashboardTypeOK /\ DBTypeOK
  BY DEF serveDashboard, DashboardInv, DashboardTypeOK
<1>3. DBTypeOK' /\ StopsAreFinal /\ \A t : Stage(t)' = Stage(t)
  BY <1>2, TestUnchanged DEF dbVars, DBTypeOK
<1>4. StatusOf(form, scheme) \subseteq Statuses
  BY DEF StatusOf, serveViewIssuance, Statuses
<1>5. StatusOf(form, scheme) = {} /\ form.op # "start" => form \in TestForms
  <2>1. form \in TestForms \/ form \in OtherForms
    BY DashboardAssumption
  <2> QED BY <2>1 DEF StatusOf, serveViewIssuance, OtherForms
<1>6. ASSUME NEW pc \in {"done", "start", "load"}, NEW status \in Statuses,
             Arrive(s, form, pc, status),
             pc = "load" => form \in TestForms,
             pc = "start" => form.op = "start",
             pc # "done" => status = NULL
      PROVE  DashboardInv'
  <2>1. /\ session' \in [Sessions -> Session] /\ OthersStay(s)
        /\ session'[s].pc = pc /\ session'[s].form = form /\ session'[s].status = status
        /\ session'[s].loaded = 0 /\ session'[s].page = BlankPage
        /\ session'[s].arrived = IF form \in TestForms THEN Stage(form.test) ELSE "absent"
    BY <1>2, <1>6, ArriveMoves
  <2>2. TestHasForm(s)' /\ NoResponseYet(s)' /\ LoadGoesOn(s)' /\ PageIsWhole(s)'
    BY <1>6, <2>1 DEF TestHasForm, NoResponseYet, LoadGoesOn, PageIsWhole, Form, LoadOrder,
                      BlankPage
  <2>3. LateSeesStop(s)'
    BY <1>3, <1>6, <2>1, FormType DEF LateSeesStop, BlankPage, Form
  <2> QED BY <1>3, <2>1, <2>2, <2>3, SessionStep DEF SessionInv
<1>7. CASE \E status \in StatusOf(form, scheme) : Arrive(s, form, "done", status)
  BY <1>4, <1>6, <1>7
<1>8. CASE /\ StatusOf(form, scheme) = {}
           /\ Arrive(s, form, IF form.op = "start" THEN "start" ELSE "load", NULL)
  <2>1. NULL \in Statuses
    BY DEF Statuses
  <2> QED BY <1>5, <1>6, <1>8, <2>1
<1> QED BY <1>1, <1>7, <1>8

(* What the steps of a session keep besides the invariant. *)
KeepsOthers ==
  /\ StopsAreFinal
  /\ UNCHANGED <<dns_request, http_request, smtp_request>>
  /\ IDsUnique(dns_record) => IDsUnique(dns_record')

(* A step that executes no statement keeps all of this. *)
LEMMA UnchangedKeeps ==
  ASSUME UNCHANGED dbVars, DBTypeOK
  PROVE  KeepsOthers /\ DBTypeOK'
  BY TestUnchanged DEF dbVars, DBTypeOK, KeepsOthers, IDsUnique

(* The start of a test. *)
LEMMA StartKeeps ==
  ASSUME DashboardInv, NEW s \in Sessions, startTest(s)
  PROVE  DashboardInv' /\ KeepsOthers
<1>1. DBTypeOK /\ {303, 500, NULL} \subseteq Statuses /\ 200 \notin {303, 500, NULL}
  BY DatabaseAssumption DEF DashboardInv, DashboardTypeOK, Statuses
<1>2. DBTypeOK' /\ KeepsOthers
  <2>1. CASE UNCHANGED dbVars
    BY <1>1, <2>1, UnchangedKeeps
  <2>2. CASE \E t \in TestIDs : InsertTest(t)
    BY <1>1, <2>2, TestStatements DEF KeepsOthers, IDsUnique
  <2> QED BY <2>1, <2>2 DEF startTest
<1> QED BY <1>1, <1>2, AnswerKeeps DEF startTest, AnswerFailure, KeepsOthers

(* A statement of the load. *)
LEMMA LoadKeeps ==
  ASSUME DashboardInv, NEW s \in Sessions, loadTestDashboard(s)
  PROVE  DashboardInv' /\ KeepsOthers
<1> DEFINE t == Form(s).test
           n == session[s].loaded + 1
<1>1. /\ DashboardTypeOK /\ DBTypeOK /\ session[s] \in Session /\ SessionInv(s)
  BY DEF DashboardInv, DashboardTypeOK
<1>2. /\ UNCHANGED dbVars /\ session[s].pc = "load" /\ n \in 1..Len(LoadOrder)
      /\ \/ \E status \in {404, 500, NULL} : Answer(s, status)
         \/ /\ session' \in [Sessions -> Session]
            /\ OthersStay(s)
            /\ session'[s].pc = IF n = Len(LoadOrder) THEN "edit" ELSE "load"
            /\ session'[s].form = session[s].form
            /\ session'[s].status = session[s].status
            /\ session'[s].arrived = session[s].arrived
            /\ session'[s].loaded = n
            /\ session'[s].page =
                 [session[s].page EXCEPT ![LoadOrder[n]] = RowsOf(t)[LoadOrder[n]]]
  BY <1>1, LoadMoves DEF SessionInv
<1>3. DBTypeOK' /\ KeepsOthers /\ \A u : Stage(u)' = Stage(u)
  BY <1>1, <1>2, UnchangedKeeps, TestUnchanged DEF dbVars
<1>4. CASE \E status \in {404, 500, NULL} : Answer(s, status)
  <2>1. {404, 500, NULL} \subseteq Statuses /\ 200 \notin {404, 500, NULL}
    BY DatabaseAssumption DEF Statuses
  <2> QED BY <1>3, <1>4, <2>1, AnswerKeeps DEF KeepsOthers
<1>5. CASE /\ session' \in [Sessions -> Session]
           /\ OthersStay(s)
           /\ session'[s].pc = IF n = Len(LoadOrder) THEN "edit" ELSE "load"
           /\ session'[s].form = session[s].form
           /\ session'[s].status = session[s].status
           /\ session'[s].arrived = session[s].arrived
           /\ session'[s].loaded = n
           /\ session'[s].page =
                [session[s].page EXCEPT ![LoadOrder[n]] = RowsOf(t)[LoadOrder[n]]]
  <2>1. Form(s) \in Posted /\ Form(s) \in TestForms /\ session[s].status = NULL
    BY <1>1, <1>2 DEF SessionInv, TestHasForm, NoResponseYet
  <2>2. TestHasForm(s)' /\ NoResponseYet(s)'
    BY <1>5, <2>1 DEF TestHasForm, NoResponseYet, Form
  <2>3. LoadGoesOn(s)' /\ PageIsWhole(s)'
    BY <1>2, <1>5, <2>1, DatabaseAssumption DEF LoadGoesOn, PageIsWhole, LoadOrder
  <2>4. LateSeesStop(s)'
    <3> SUFFICES ASSUME session[s].arrived = "stopped"
                 PROVE  session'[s].page.test # "running" /\ Stage(t) = "stopped"
      BY <1>3, <1>5, <2>1 DEF LateSeesStop, Form
    <3>1. Stage(t) = "stopped" /\ session[s].page.test # "running"
      BY <1>1 DEF SessionInv, LateSeesStop
    <3>2. session[s].page \in Page
      BY <1>1 DEF Session
    <3>3. RowsOf(t)["test"] = Stage(t)
      BY DEF RowsOf
    <3>4. CASE LoadOrder[n] = "test"
      BY <1>5, <3>1, <3>2, <3>3, <3>4 DEF Page
    <3>5. CASE LoadOrder[n] # "test"
      BY <1>5, <3>1, <3>2, <3>5 DEF Page
    <3> QED BY <3>1, <3>4, <3>5
  <2> QED BY <1>3, <1>5, <2>2, <2>3, <2>4, SessionStep DEF SessionInv, KeepsOthers
<1> QED BY <1>2, <1>3, <1>4, <1>5

(* The response to a session whose page is loaded: its form is rejected,   *)
(* applied or fails, or it gets the page.                                  *)
LEMMA EditKeeps ==
  ASSUME DashboardInv, NEW s \in Sessions,
         RejectForm(s) \/ ApplyEdit(s) \/ FailEdit(s) \/ ShowPage(s)
  PROVE  DashboardInv' /\ KeepsOthers
<1>1. /\ DBTypeOK /\ session[s].pc = "edit"
      /\ Form(s) \in Posted /\ Form(s) \in TestForms
  BY DEF DashboardInv, DashboardTypeOK, SessionInv, TestHasForm,
         RejectForm, ApplyEdit, FailEdit, ShowPage
<1>2. \E status \in Statuses : Answer(s, status)
  BY DEF RejectForm, ApplyEdit, FailEdit, ShowPage, AnswerFailure, Outcome, Statuses
<1>3. DBTypeOK' /\ KeepsOthers
  <2>1. CASE UNCHANGED dbVars
    BY <1>1, <2>1, UnchangedKeeps
  <2>2. CASE ApplyEdit(s)
    BY <1>1, <2>2, StatementStep DEF ApplyEdit, KeepsOthers
  <2> QED BY <2>1, <2>2 DEF RejectForm, FailEdit, ShowPage
<1> QED BY <1>1, <1>2, <1>3, AnswerKeeps DEF KeepsOthers

(* Every step of a session. *)
LEMMA SessionKeeps ==
  ASSUME DashboardInv, NEW s \in Sessions, serveDashboard(s) \/ startTest(s) \/ serveTest(s)
  PROVE  DashboardInv' /\ KeepsOthers
<1>1. CASE serveDashboard(s)
  <2>1. UNCHANGED dbVars /\ DBTypeOK
    BY <1>1 DEF serveDashboard, DashboardInv, DashboardTypeOK
  <2> QED BY <1>1, <2>1, ArrivalKeeps, UnchangedKeeps
<1>2. CASE startTest(s)
  BY <1>2, StartKeeps
<1>3. CASE serveTest(s)
  BY <1>3, LoadKeeps, EditKeeps DEF serveTest
<1> QED BY <1>1, <1>2, <1>3

(* A crash loses what is in flight. *)
LEMMA CrashKeeps ==
  ASSUME DashboardInv, DashboardCrash, DBTypeOK', StopsAreFinal
  PROVE  DashboardInv'
<1> DEFINE lost == [NoSession EXCEPT !.pc = "lost"]
<1>1. NoSession \in Session
  BY BlankPageType DEF NoSession, Session, LoadOrder, Stages
<1>2. /\ lost \in Session /\ lost.pc = "lost" /\ lost.arrived = "absent"
      /\ lost.status = NULL
  <2>1. NoSession.arrived = "absent" /\ NoSession.status = NULL
    BY DEF NoSession
  <2> QED BY <1>1, <2>1 DEF Session
<1>3. \A s \in Sessions : session'[s] = IF SessionInFlight(s) THEN lost ELSE session[s]
  BY DEF DashboardCrash
<1> HIDE DEF lost
<1>4. session' \in [Sessions -> Session]
  <2>1. session' = [s \in Sessions |-> session'[s]]
    BY DEF DashboardCrash
  <2> QED BY <1>2, <1>3, <2>1 DEF DashboardInv, DashboardTypeOK
<1>5. ASSUME NEW s \in Sessions
      PROVE  SessionInv(s)'
  <2>1. CASE session'[s] = lost
    BY <1>2, <2>1, DatabaseAssumption
       DEF SessionInv, TestHasForm, NoResponseYet, LoadGoesOn, PageIsWhole, LateSeesStop
  <2>2. CASE session'[s] = session[s]
    BY <2>2, SessionUndisturbed
  <2> QED BY <1>3, <2>1, <2>2
<1> QED BY <1>4, <1>5 DEF DashboardInv, DashboardTypeOK

(* Other goroutines may change the tables, but start no stopped test. *)
LEMMA EnvironmentKeeps ==
  ASSUME DashboardInv, UNCHANGED session, DBTypeOK', StopsAreFinal
  PROVE  DashboardInv'
  BY SessionUndisturbed DEF DashboardInv, DashboardTypeOK

(* The invariant holds at first. *)
LEMMA InvInit ==
  ASSUME DBTypeOK, DashboardInit
  PROVE  DashboardInv
<1>1. NoSession \in Session
  BY BlankPageType DEF NoSession, Session, LoadOrder, Stages
<1>2. \A s \in Sessions : session[s] = NoSession
  BY DEF DashboardInit
<1>3. NoSession.pc = "idle" /\ NoSession.status = NULL /\ NoSession.arrived = "absent"
  BY DEF NoSession
<1>4. DashboardTypeOK
  BY <1>1 DEF DashboardInit, DashboardTypeOK
<1>5. \A s \in Sessions : SessionInv(s)
  BY <1>2, <1>3, DatabaseAssumption
     DEF SessionInv, TestHasForm, NoResponseYet, LoadGoesOn, PageIsWhole, LateSeesStop
<1> QED BY <1>4, <1>5 DEF DashboardInv

(* Every step keeps the invariant. *)
LEMMA InvStep ==
  ASSUME DashboardInv, [DashboardServerNext]_dashboardVars
  PROVE  DashboardInv'
<1>1. DBTypeOK
  BY DEF DashboardInv, DashboardTypeOK
<1>2. CASE DashboardNext
  BY <1>2, SessionKeeps DEF DashboardNext
<1>3. CASE OtherStatements /\ UNCHANGED session
  BY <1>1, <1>3, EnvironmentStep, EnvironmentKeeps
<1>4. CASE DashboardCrash /\ UNCHANGED dbVars
  BY <1>1, <1>4, UnchangedKeeps, CrashKeeps DEF KeepsOthers
<1>5. CASE UNCHANGED dashboardVars
  BY <1>1, <1>5, UnchangedKeeps, EnvironmentKeeps DEF dashboardVars, KeepsOthers
<1> QED BY <1>2, <1>3, <1>4, <1>5 DEF DashboardServerNext

(* The invariant always holds. *)
LEMMA InvHolds == DashboardSpec => []DashboardInv
<1>1. DashboardServerInit => DashboardInv
  <2>1. DBInit => DBTypeOK
    BY DEF DBInit, DBTypeOK, TestRow
  <2> QED BY <2>1, InvInit DEF DashboardServerInit
<1>2. DashboardInv /\ [DashboardServerNext]_dashboardVars => DashboardInv'
  BY InvStep
<1> QED BY <1>1, <1>2, PTL DEF DashboardSpec

-----------------------------------------------------------------------------
(* Whose step it is.                                                       *)

(* A session that changes takes a step of its own, or is lost in a crash.  *)
LEMMA OwnStep ==
  ASSUME DashboardInv, NEW s \in Sessions, session'[s] # session[s], DashboardServerNext
  PROVE  \/ serveDashboard(s) \/ startTest(s) \/ serveTest(s)
         \/ /\ session[s].pc \in {"start", "load", "edit"} /\ UNCHANGED dbVars
            /\ session'[s].pc = "lost" /\ session'[s].status = NULL
<1>1. CASE DashboardNext
  <2>1. PICK p \in Sessions : serveDashboard(p) \/ startTest(p) \/ serveTest(p)
    BY <1>1 DEF DashboardNext
  <2>2. OthersStay(p)
    <3>1. \A form, pc, status : Arrive(p, form, pc, status) => OthersStay(p)
      BY DEF Arrive, OthersStay, DashboardInv, DashboardTypeOK
    <3>2. \A status : Answer(p, status) => OthersStay(p)
      BY DEF Answer, OthersStay, DashboardInv, DashboardTypeOK
    <3>3. CASE serveDashboard(p)
      BY <3>1, <3>3 DEF serveDashboard
    <3>4. CASE startTest(p)
      BY <3>2, <3>4 DEF startTest, AnswerFailure
    <3>5. CASE loadTestDashboard(p)
      BY <3>2, <3>5, LoadMoves DEF AnswerFailure, DashboardInv, SessionInv
    <3>6. CASE RejectForm(p) \/ ApplyEdit(p) \/ FailEdit(p) \/ ShowPage(p)
      BY <3>2, <3>6 DEF RejectForm, ApplyEdit, FailEdit, ShowPage, AnswerFailure
    <3> QED BY <2>1, <3>3, <3>4, <3>5, <3>6 DEF serveTest
  <2>3. p = s
    BY <2>2 DEF OthersStay
  <2> QED BY <2>1, <2>3
<1>2. CASE DashboardCrash /\ UNCHANGED dbVars
  <2>1. SessionInFlight(s) /\ session'[s] = [NoSession EXCEPT !.pc = "lost"]
    BY <1>2 DEF DashboardCrash
  <2> QED BY <1>2, <2>1 DEF SessionInFlight, NoSession
<1> QED BY <1>1, <1>2 DEF DashboardServerNext

(* What becomes of a session whose page is loaded. *)
LEMMA Ending ==
  ASSUME DashboardInv, NEW s \in Sessions, session'[s] # session[s],
         session[s].pc \in {"load", "edit"}, DashboardServerNext
  PROVE  \/ UNCHANGED dbVars /\ session'[s].status # 303
         \/ /\ ApplyEdit(s) /\ session[s].pc = "edit"
            /\ session'[s].form = session[s].form
            /\ session'[s].status \in {Outcome(Form(s)), NULL}
<1>1. NULL # 303
  BY DatabaseAssumption
<1>2. DashboardTypeOK /\ LoadGoesOn(s) /\ NoResponseYet(s)
  BY DEF DashboardInv, SessionInv
<1>3. ASSUME NEW status \in {200, 400, 404, 500, NULL}, Answer(s, status)
      PROVE  session'[s].status # 303
  BY <1>1, <1>2, <1>3, AnswerMoves DEF Statuses
<1>4. CASE loadTestDashboard(s)
  <2>1. session[s].status # 303
    BY <1>1, <1>2, <1>4 DEF NoResponseYet, loadTestDashboard
  <2>2. UNCHANGED dbVars
    BY <1>4 DEF loadTestDashboard
  <2>3. \/ \E status \in {404, 500, NULL} : Answer(s, status)
        \/ session'[s].status = session[s].status
    BY <1>2, <1>4, LoadMoves
  <2> QED BY <1>3, <2>1, <2>2, <2>3
<1>5. CASE RejectForm(s) \/ FailEdit(s) \/ ShowPage(s)
  BY <1>3, <1>5 DEF RejectForm, FailEdit, ShowPage, AnswerFailure
<1>6. CASE ApplyEdit(s)
  <2>1. {Outcome(Form(s)), NULL} \subseteq Statuses
    BY DEF Outcome, Statuses
  <2>2. \E status \in {Outcome(Form(s)), NULL} : Answer(s, status)
    BY <1>6 DEF ApplyEdit
  <2>3. /\ session'[s].form = session[s].form
        /\ session'[s].status \in {Outcome(Form(s)), NULL}
    BY <1>2, <2>1, <2>2, AnswerMoves
  <2> QED BY <1>6, <2>3 DEF ApplyEdit
<1>7. CASE session'[s].status = NULL /\ UNCHANGED dbVars
  BY <1>1, <1>7
<1>8. ~serveDashboard(s) /\ ~startTest(s)
  BY DEF serveDashboard, startTest
<1>9. loadTestDashboard(s) \/ RejectForm(s) \/ ApplyEdit(s) \/ FailEdit(s) \/ ShowPage(s)
        \/ (session'[s].status = NULL /\ UNCHANGED dbVars)
  BY <1>8, OwnStep DEF serveTest
<1> QED BY <1>4, <1>5, <1>6, <1>7, <1>9

-----------------------------------------------------------------------------
(* The theorems.                                                           *)

(* Every variable has its type: a page shows rows of its tables only. *)
THEOREM DashboardTypeCorrect == DashboardSpec => []DashboardTypeOK
<1>1. DashboardInv => DashboardTypeOK
  BY DEF DashboardInv
<1> QED BY <1>1, InvHolds, PTL

(* A user who comes to a stopped test changes nothing any more, and is     *)
(* never told that he did. *)
THEOREM NoLateEditHolds == DashboardSpec => NoLateEdit
<1> DEFINE Late(s) == session[s].arrived = "stopped" /\ session'[s] # session[s]
                        => UNCHANGED dbVars /\ session'[s].status # 303
<1>1. DashboardInv /\ [DashboardServerNext]_dashboardVars
        => [\A s \in Sessions : Late(s)]_dashboardVars
  <2> SUFFICES ASSUME DashboardInv, DashboardServerNext, NEW s \in Sessions,
                      session[s].arrived = "stopped", session'[s] # session[s]
               PROVE  UNCHANGED dbVars /\ session'[s].status # 303
    OBVIOUS
  <2>1. /\ session[s].pc \notin {"idle", "start"}
        /\ session[s].page.test # "running"
    BY DEF DashboardInv, SessionInv, LateSeesStop
  <2>2. ~ApplyEdit(s)
    BY <2>1 DEF ApplyEdit, MayEdit
  <2>3. session[s].pc \in {"load", "edit"}
    BY <2>1, OwnStep DEF serveDashboard, startTest, serveTest, loadTestDashboard,
                         RejectForm, ApplyEdit, FailEdit, ShowPage
  <2> QED BY <2>2, <2>3, Ending
<1> QED BY <1>1, InvHolds, PTL DEF DashboardSpec, NoLateEdit

(* A user changes the records and files of the test of his form only. *)
THEOREM OnlyOwnRowsHolds == DashboardSpec => OnlyOwnRows
<1> DEFINE Own(s) == session[s].pc = "edit" /\ session'[s].pc = "done" =>
              \A t \in TestIDs \ {Form(s).test} :
                /\ {r \in dns_record : r.test = t} = {r \in dns_record' : r.test = t}
                /\ {f \in http_file : f.test = t} = {f \in http_file' : f.test = t}
<1>1. DashboardInv /\ [DashboardServerNext]_dashboardVars
        => [\A s \in Sessions : Own(s)]_dashboardVars
  <2> SUFFICES ASSUME DashboardInv, DashboardServerNext, NEW s \in Sessions,
                      session[s].pc = "edit", session'[s].pc = "done"
               PROVE  Own(s)
    OBVIOUS
  <2>1. CASE UNCHANGED dbVars
    BY <2>1 DEF dbVars
  <2>2. CASE ApplyEdit(s)
    <3>1. DBTypeOK /\ Form(s) \in Posted /\ Form(s) \in TestForms
      BY DEF DashboardInv, DashboardTypeOK, SessionInv, TestHasForm
    <3>2. RowsElsewhere(Form(s).test)
      BY <2>2, <3>1, StatementStep DEF ApplyEdit
    <3> QED BY <3>2 DEF RowsElsewhere
  <2> QED BY <2>1, <2>2, Ending
<1> QED BY <1>1, InvHolds, PTL DEF DashboardSpec, OnlyOwnRows

(* Whoever was redirected after he added a file finds it served, and no    *)
(* other in its place. *)
THEOREM AddedFileIsServedHolds == DashboardSpec => AddedFileIsServed
<1> DEFINE Added(s) ==
             /\ session[s].pc = "edit" /\ session'[s].status = 303
             /\ Form(s).op = "add_http_file"
             => {g.content : g \in FilesInPlace(Form(s))'} = {Form(s).file.content}
<1>1. DashboardInv /\ [DashboardServerNext]_dashboardVars
        => [\A s \in Sessions : Added(s)]_dashboardVars
  <2> SUFFICES ASSUME DashboardInv, DashboardServerNext, NEW s \in Sessions,
                      session[s].pc = "edit", session'[s].status = 303,
                      Form(s).op = "add_http_file"
               PROVE  {g.content : g \in FilesInPlace(Form(s))'} = {Form(s).file.content}
    OBVIOUS
  <2>1. NULL # 303
    BY DatabaseAssumption
  <2>2. session[s].status = NULL
    BY DEF DashboardInv, SessionInv, NoResponseYet
  <2>3. ApplyEdit(s) /\ session'[s].form = session[s].form /\ Outcome(Form(s)) = 303
    BY <2>1, <2>2, Ending
  <2> DEFINE f == Form(s)
             place == <<f.test, f.file.scheme, LowerWords(f.file.sub), f.file.path>>
             Place(g) == <<g.test, g.scheme, g.sub, g.path>>
  <2>4. \A g \in http_file : Place(g) # place
    BY <2>3 DEF Outcome, FilesInPlace, FileAt
  <2>5. InsertFile(f.test, f.file.scheme, LowerWords(f.file.sub), f.file.path, f.file.content)
    BY <2>3 DEF ApplyEdit, Statement
  <2>6. PICK id : http_file' = http_file \cup
          {[id |-> id, test |-> f.test, scheme |-> f.file.scheme,
            sub |-> LowerWords(f.file.sub), path |-> f.file.path,
            content |-> f.file.content]}
    BY <2>4, <2>5 DEF InsertFile, FileAt
  <2> DEFINE new == [id |-> id, test |-> f.test, scheme |-> f.file.scheme,
                     sub |-> LowerWords(f.file.sub), path |-> f.file.path,
                     content |-> f.file.content]
  <2>7. FilesInPlace(Form(s))' = {g \in http_file' : Place(g) = place}
    BY <2>3 DEF FilesInPlace, FileAt, Form
  <2>8. {g \in http_file' : Place(g) = place} = {new}
    BY <2>4, <2>6
  <2>9. new.content = f.file.content
    OBVIOUS
  <2> HIDE DEF f, new, Place, place
  <2> QED BY <2>7, <2>8, <2>9 DEF f
<1> QED BY <1>1, InvHolds, PTL DEF DashboardSpec, AddedFileIsServed

-----------------------------------------------------------------------------
(* What the dashboard promises to the log of a test, for the composition   *)
(* with the servers (SystemProofs).                                        *)

(* The page says that the test runs, and the form is one that edits it. *)
IsAdmitted(s) == session[s].pc \in {"load", "edit"} /\ MayEdit(s)

(* A step of a session starts a test, admits the user to that of the form, *)
(* if it is running, changes that test, or does nothing that matters.      *)
ServesTest(s) ==
  /\ OthersStay(s)
  /\ UNCHANGED <<dns_request, http_request, smtp_request>>
  /\ \/ /\ UNCHANGED <<clock, test, dns_record, http_file>>
        /\ IsAdmitted(s)' => IsAdmitted(s) /\ Form(s)' = Form(s)
     \/ /\ \E t \in TestIDs : InsertTest(t)
        /\ ~IsAdmitted(s) /\ ~IsAdmitted(s)'
     \/ /\ UNCHANGED <<clock, test, dns_record, http_file>> /\ Form(s)' = Form(s)
        /\ ~IsAdmitted(s) /\ IsAdmitted(s)'
        /\ Form(s).test \in TestIDs /\ isRunningTest(Form(s).test)
     \/ /\ IsAdmitted(s) /\ ~IsAdmitted(s)'
        /\ UNCHANGED clock
        /\ \E t \in TestIDs : Form(s).test = t /\ RowsElsewhere(t) /\ MayEnd(t)

(* An answer leaves nobody admitted. *)
LEMMA AnswerAdmitsNobody ==
  ASSUME DashboardInv, NEW s \in Sessions, NEW status \in Statuses, Answer(s, status)
  PROVE  OthersStay(s) /\ ~IsAdmitted(s)'
<1>1. OthersStay(s) /\ session'[s].pc = "done"
  BY AnswerMoves DEF DashboardInv
<1> QED BY <1>1 DEF IsAdmitted

(* A statement of the load admits a user to a running test only. *)
LEMMA LoadAdmits ==
  ASSUME DashboardInv, NEW s \in Sessions, loadTestDashboard(s)
  PROVE  ServesTest(s)
<1> DEFINE t == Form(s).test
           n == session[s].loaded + 1
<1>1. /\ DashboardTypeOK /\ DBTypeOK /\ session[s] \in Session /\ SessionInv(s)
      /\ session[s].page \in Page
  BY DEF DashboardInv, DashboardTypeOK, Session
<1>2. /\ UNCHANGED dbVars /\ session[s].pc = "load" /\ n \in 1..Len(LoadOrder)
      /\ \/ \E status \in {404, 500, NULL} : Answer(s, status)
         \/ /\ n = 1 => Exists(t)
            /\ OthersStay(s)
            /\ session'[s].form = session[s].form
            /\ session'[s].page =
                 [session[s].page EXCEPT ![LoadOrder[n]] = RowsOf(t)[LoadOrder[n]]]
  BY <1>1, LoadMoves DEF SessionInv
<1>3. UNCHANGED <<clock, test, dns_record, http_file, dns_request, http_request, smtp_request>>
  BY <1>2 DEF dbVars
<1>4. CASE \E status \in {404, 500, NULL} : Answer(s, status)
  <2>1. {404, 500, NULL} \subseteq Statuses
    BY DEF Statuses
  <2> QED BY <1>3, <1>4, <2>1, AnswerAdmitsNobody DEF ServesTest
<1>5. CASE /\ n = 1 => Exists(t)
           /\ OthersStay(s)
           /\ session'[s].form = session[s].form
           /\ session'[s].page =
                [session[s].page EXCEPT ![LoadOrder[n]] = RowsOf(t)[LoadOrder[n]]]
  <2>1. Form(s)' = Form(s) /\ MayEdit(s)' = (IsEdit(Form(s)) /\ session'[s].page.test = "running")
    BY <1>5 DEF Form, MayEdit
  <2>2. CASE n = 1
    <3>1. session'[s].page.test = Stage(t)
      BY <1>1, <1>5, <2>2 DEF LoadOrder, RowsOf, Page
    <3>2. Stage(t) = "running" => isRunningTest(t)
      BY DEF Stage, isRunningTest, Exists
    <3>3. t \in TestIDs
      BY <1>1, <1>2, FormType DEF SessionInv, TestHasForm
    <3> QED BY <1>3, <1>5, <2>1, <3>1, <3>2, <3>3 DEF ServesTest, IsAdmitted
  <2>3. CASE n # 1
    <3>1. LoadOrder[n] # "test"
      BY <1>2, <2>3 DEF LoadOrder
    <3>2. session'[s].page.test = session[s].page.test
      BY <1>1, <1>5, <3>1 DEF Page
    <3>3. IsAdmitted(s)' => IsAdmitted(s)
      BY <1>2, <2>1, <3>2 DEF IsAdmitted, MayEdit
    <3> QED BY <1>3, <1>5, <2>1, <3>3 DEF ServesTest
  <2> QED BY <2>2, <2>3
<1> QED BY <1>2, <1>4, <1>5

(* That is all that the dashboard does for a session, and it keeps the     *)
(* invariant.                                                              *)
LEMMA DashboardStep ==
  ASSUME DashboardInv, NEW s \in Sessions, serveDashboard(s) \/ startTest(s) \/ serveTest(s)
  PROVE  DashboardInv' /\ KeepsOthers /\ ServesTest(s)
<1>1. DashboardInv' /\ KeepsOthers
  BY SessionKeeps
<1>2. /\ DashboardTypeOK /\ DBTypeOK /\ SessionInv(s)
      /\ UNCHANGED <<dns_request, http_request, smtp_request>>
  BY <1>1 DEF DashboardInv, DashboardTypeOK, KeepsOthers
<1>3. UNCHANGED dbVars => UNCHANGED <<clock, test, dns_record, http_file>>
  BY DEF dbVars
<1>4. ASSUME NEW status \in Statuses, Answer(s, status)
      PROVE  OthersStay(s) /\ ~IsAdmitted(s)'
  BY <1>4, AnswerAdmitsNobody
<1>5. CASE serveDashboard(s)
  <2>1. PICK form \in Posted, scheme \in Schemes :
          \/ \E status \in StatusOf(form, scheme) : Arrive(s, form, "done", status)
          \/ Arrive(s, form, IF form.op = "start" THEN "start" ELSE "load", NULL)
    BY <1>5 DEF serveDashboard
  <2>2. StatusOf(form, scheme) \subseteq Statuses /\ NULL \in Statuses
    BY DEF StatusOf, serveViewIssuance, Statuses
  <2>3. \E pc \in {"done", "start", "load"}, status \in Statuses : Arrive(s, form, pc, status)
    BY <2>1, <2>2
  <2>4. OthersStay(s) /\ session'[s].page = BlankPage
    BY <1>2, <2>3, ArriveMoves
  <2>5. ~IsAdmitted(s)'
    BY <2>4 DEF IsAdmitted, MayEdit, BlankPage
  <2> QED BY <1>1, <1>2, <1>3, <1>5, <2>4, <2>5 DEF ServesTest, serveDashboard
<1>6. CASE startTest(s)
  <2>1. /\ ~IsAdmitted(s)
        /\ \E status \in Statuses : Answer(s, status)
        /\ UNCHANGED dbVars \/ \E t \in TestIDs : InsertTest(t)
    BY <1>6 DEF startTest, AnswerFailure, Statuses, IsAdmitted
  <2>2. OthersStay(s) /\ ~IsAdmitted(s)'
    BY <1>4, <2>1
  <2> QED BY <1>1, <1>2, <1>3, <2>1, <2>2 DEF ServesTest
<1>7. CASE loadTestDashboard(s)
  BY <1>1, <1>7, LoadAdmits
<1>8. CASE RejectForm(s) \/ FailEdit(s) \/ ShowPage(s)
  <2>1. UNCHANGED dbVars /\ \E status \in Statuses : Answer(s, status)
    BY <1>8 DEF RejectForm, FailEdit, ShowPage, AnswerFailure, Statuses
  <2>2. OthersStay(s) /\ ~IsAdmitted(s)'
    BY <1>4, <2>1
  <2> QED BY <1>1, <1>2, <1>3, <2>1, <2>2 DEF ServesTest
<1>9. CASE ApplyEdit(s)
  <2>1. /\ IsAdmitted(s) /\ session[s].pc = "edit" /\ ~IsInvalid(Form(s)) /\ Statement(Form(s))
        /\ \E status \in Statuses : Answer(s, status)
    BY <1>9 DEF ApplyEdit, Outcome, Statuses, IsAdmitted
  <2>2. Form(s) \in Posted /\ Form(s) \in TestForms
    BY <1>2, <2>1 DEF SessionInv, TestHasForm
  <2>3. PICK t \in TestIDs : t = Form(s).test
    BY <2>2, FormType
  <2>4. RowsElsewhere(t) /\ UNCHANGED clock /\ MayEnd(t)
    <3> DEFINE f == Form(s)
    <3>1. f \in Posted /\ f \in TestForms /\ ~IsInvalid(f) /\ Statement(f) /\ t = f.test
      BY <2>1, <2>2, <2>3
    <3> HIDE DEF f
    <3> QED BY <1>2, <3>1, StatementStep
  <2>5. OthersStay(s) /\ ~IsAdmitted(s)'
    BY <1>4, <2>1
  <2> QED BY <1>1, <1>2, <2>1, <2>3, <2>4, <2>5 DEF ServesTest
<1> QED BY <1>1, <1>5, <1>6, <1>7, <1>8, <1>9 DEF serveTest

(* A crash admits nobody. *)
LEMMA CrashAdmitsNobody ==
  ASSUME DashboardCrash
  PROVE  \A s \in Sessions : ~IsAdmitted(s)'
  BY DEF DashboardCrash, IsAdmitted, SessionInFlight, NoSession

(* What the n-th statement of the load puts on the page of s. *)
FillsPage(s, n) ==
  LET old == session[s].page
      new == session'[s].page
      rows == RowsOf(Form(s).test)
  IN /\ new.test = IF n = 1 THEN Stage(Form(s).test) ELSE old.test
     /\ new.dns_request = IF n = 2 THEN rows.dns_request ELSE old.dns_request
     /\ new.http_request = IF n = 4 THEN rows.http_request ELSE old.http_request
     /\ new.smtp_request = IF n = 6 THEN rows.smtp_request ELSE old.smtp_request

(* A step empties the page of a session, leaves it as it is, or fills its  *)
(* next table with the rows of the test.                                   *)
TurnsPage(s) ==
  \/ session'[s].page = BlankPage
  \/ /\ session[s].pc # "idle" /\ session'[s].form = session[s].form
     /\ session'[s].page = session[s].page /\ session'[s].loaded = session[s].loaded
  \/ LET n == session[s].loaded + 1
     IN /\ session[s].pc = "load" /\ session'[s].form = session[s].form
        /\ Form(s).test \in TestIDs /\ UNCHANGED dbVars
        /\ n \in 1..6 /\ session'[s].loaded = n
        /\ FillsPage(s, n)

(* The tables in the order of the load. *)
LEMMA PageFilled ==
  ASSUME DashboardTypeOK, NEW s \in Sessions, NEW n \in 1..6,
         session'[s].page =
           [session[s].page EXCEPT ![LoadOrder[n]] = RowsOf(Form(s).test)[LoadOrder[n]]]
  PROVE  FillsPage(s, n)
<1> DEFINE old == session[s].page
           rows == RowsOf(Form(s).test)
<1>1. old \in Page /\ rows.test = Stage(Form(s).test)
  BY DEF DashboardTypeOK, Session, RowsOf
<1> HIDE DEF old, rows
<1>2. \A table \in {"test", "dns_request", "dns_record", "http_request", "http_file",
                    "smtp_request"} :
        LET new == [old EXCEPT ![table] = rows[table]]
        IN /\ new.test = IF table = "test" THEN rows.test ELSE old.test
           /\ new.dns_request =
                IF table = "dns_request" THEN rows.dns_request ELSE old.dns_request
           /\ new.http_request =
                IF table = "http_request" THEN rows.http_request ELSE old.http_request
           /\ new.smtp_request =
                IF table = "smtp_request" THEN rows.smtp_request ELSE old.smtp_request
  BY <1>1 DEF Page
<1>3. /\ LoadOrder[n] \in {"test", "dns_request", "dns_record", "http_request", "http_file",
                           "smtp_request"}
      /\ LoadOrder[n] = "test" <=> n = 1
      /\ LoadOrder[n] = "dns_request" <=> n = 2
      /\ LoadOrder[n] = "http_request" <=> n = 4
      /\ LoadOrder[n] = "smtp_request" <=> n = 6
  BY DEF LoadOrder
<1>4. session'[s].page = [old EXCEPT ![LoadOrder[n]] = rows[LoadOrder[n]]]
  BY DEF old, rows
<1> QED BY <1>1, <1>2, <1>3, <1>4 DEF FillsPage, old, rows

(* That is all that happens to a page. *)
LEMMA PageStep ==
  ASSUME DashboardInv, NEW s \in Sessions, serveDashboard(s) \/ startTest(s) \/ serveTest(s)
  PROVE  TurnsPage(s)
<1>1. DashboardTypeOK /\ SessionInv(s)
  BY DEF DashboardInv
<1>2. ASSUME NEW status \in Statuses, Answer(s, status), session[s].pc # "idle"
      PROVE  TurnsPage(s)
  BY <1>1, <1>2, AnswerMoves DEF TurnsPage
<1>3. CASE serveDashboard(s)
  <2>1. PICK form \in Posted, scheme \in Schemes :
          \/ \E status \in StatusOf(form, scheme) : Arrive(s, form, "done", status)
          \/ Arrive(s, form, IF form.op = "start" THEN "start" ELSE "load", NULL)
    BY <1>3 DEF serveDashboard
  <2>2. StatusOf(form, scheme) \subseteq Statuses /\ NULL \in Statuses
    BY DEF StatusOf, serveViewIssuance, Statuses
  <2>3. \E pc \in {"done", "start", "load"}, status \in Statuses : Arrive(s, form, pc, status)
    BY <2>1, <2>2
  <2> QED BY <1>1, <2>3, ArriveMoves DEF TurnsPage
<1>4. CASE loadTestDashboard(s)
  <2> DEFINE n == session[s].loaded + 1
             page == [session[s].page EXCEPT ![LoadOrder[n]] =
                                               RowsOf(Form(s).test)[LoadOrder[n]]]
  <2>1. {404, 500, NULL} \subseteq Statuses /\ Len(LoadOrder) = 6
    BY DEF Statuses, LoadOrder
  <2>2. /\ UNCHANGED dbVars /\ session[s].pc = "load" /\ n \in 1..6
        /\ \/ \E status \in {404, 500, NULL} : Answer(s, status)
           \/ /\ session'[s].form = session[s].form /\ session'[s].loaded = n
              /\ session'[s].page = page
    BY <1>1, <1>4, <2>1, LoadMoves DEF SessionInv
  <2>3. Form(s).test \in TestIDs
    BY <1>1, <2>2, FormType DEF SessionInv, TestHasForm
  <2>4. CASE \E status \in {404, 500, NULL} : Answer(s, status)
    BY <1>2, <2>1, <2>2, <2>4
  <2>5. CASE session'[s].form = session[s].form /\ session'[s].loaded = n
             /\ session'[s].page = page
    <3>1. FillsPage(s, n)
      BY <1>1, <2>2, <2>5, PageFilled
    <3> QED BY <2>2, <2>3, <2>5, <3>1 DEF TurnsPage
  <2> QED BY <2>2, <2>4, <2>5
<1>5. CASE startTest(s) \/ RejectForm(s) \/ ApplyEdit(s) \/ FailEdit(s) \/ ShowPage(s)
  <2>1. session[s].pc # "idle" /\ \E status \in Statuses : Answer(s, status)
    BY <1>5 DEF startTest, RejectForm, ApplyEdit, FailEdit, ShowPage, AnswerFailure, Outcome,
                Statuses
  <2> QED BY <1>2, <2>1
<1> QED BY <1>3, <1>4, <1>5 DEF serveTest

(* A crash empties the pages that it does not leave alone. *)
LEMMA CrashTurnsPages ==
  ASSUME DashboardCrash, NEW s \in Sessions
  PROVE  session'[s] = session[s] \/ session'[s].page = BlankPage
  BY DEF DashboardCrash, NoSession

(* The user was told that his record is published. *)
Told(s) == session[s].status = 303 /\ Form(s).op = "add_dns_record"

(* A step either leaves the published records alone and tells nobody that  *)
(* his is among them, or is that of a form that deletes one, or inserts    *)
(* the record of its form, which is valid.                                 *)
EditsRecords(s) ==
  /\ session[s].pc \in {"idle", "start", "load", "edit"}
  /\ \/ UNCHANGED dns_record /\ ~Told(s)'
     \/ /\ Form(s) \in Posted /\ Form(s).op = "rm_dns_record"
        /\ session'[s].pc = "done" /\ Form(s)' = Form(s)
        /\ UNCHANGED test /\ dns_record' \subseteq dns_record
     \/ /\ Form(s) \in Posted /\ Form(s) \in TestForms /\ Form(s).op = "add_dns_record"
        /\ Form(s)' = Form(s)
        /\ IsValidRecord(Form(s).record)
        /\ InsertRecord(Form(s).test, LowerWords(Form(s).record.sub), Form(s).record.type,
                        DataOf(Form(s).record))

(* That is all that the dashboard does to the records. *)
LEMMA RecordsStep ==
  ASSUME DashboardInv, NEW s \in Sessions, serveDashboard(s) \/ startTest(s) \/ serveTest(s)
  PROVE  EditsRecords(s)
<1>1. DashboardTypeOK /\ SessionInv(s) /\ NULL # 303
  BY DatabaseAssumption DEF DashboardInv
<1>2. UNCHANGED dbVars => UNCHANGED dns_record
  BY DEF dbVars
<1>3. ASSUME NEW status \in Statuses, Answer(s, status)
      PROVE  /\ session'[s].pc = "done" /\ Form(s)' = Form(s)
             /\ status # 303 => ~Told(s)'
  BY <1>1, <1>3, AnswerMoves DEF Form, Told
<1>4. CASE serveDashboard(s)
  <2>1. PICK form \in Posted, scheme \in Schemes :
          \/ \E status \in StatusOf(form, scheme) : Arrive(s, form, "done", status)
          \/ Arrive(s, form, IF form.op = "start" THEN "start" ELSE "load", NULL)
    BY <1>4 DEF serveDashboard
  <2>2. \A status \in StatusOf(form, scheme) :
          status \in Statuses /\ (status = 303 => form.op = "view_issuance")
    BY <1>1 DEF StatusOf, serveViewIssuance, Statuses
  <2>3. PICK pc \in {"done", "start", "load"}, status \in Statuses :
          Arrive(s, form, pc, status) /\ (status = 303 => form.op = "view_issuance")
    BY <1>1, <2>1, <2>2 DEF Statuses
  <2>4. session'[s].form = form /\ session'[s].status = status
    BY <1>1, <2>3, ArriveMoves
  <2>5. ~Told(s)'
    BY <2>3, <2>4 DEF Told, Form
  <2> QED BY <1>2, <1>4, <2>5 DEF serveDashboard, EditsRecords
<1>5. CASE startTest(s)
  <2>1. /\ session[s].pc = "start" /\ \E status \in Statuses : Answer(s, status)
        /\ UNCHANGED dbVars \/ \E t \in TestIDs : InsertTest(t)
    BY <1>5 DEF startTest, AnswerFailure, Statuses
  <2>2. UNCHANGED dns_record
    BY <1>2, <2>1 DEF InsertTest
  <2>3. Form(s)' = Form(s) /\ Form(s).op = "start"
    BY <1>1, <1>3, <2>1 DEF SessionInv, TestHasForm
  <2> QED BY <2>1, <2>2, <2>3 DEF EditsRecords, Told
<1>6. CASE loadTestDashboard(s)
  <2>1. /\ UNCHANGED dbVars /\ session[s].pc = "load"
        /\ \/ \E status \in {404, 500, NULL} : Answer(s, status)
           \/ session'[s].status = session[s].status
    BY <1>1, <1>6, LoadMoves DEF SessionInv
  <2>2. session[s].status = NULL /\ {404, 500, NULL} \subseteq Statuses
    BY <1>1, <2>1 DEF SessionInv, NoResponseYet, Statuses
  <2>3. ~Told(s)'
    BY <1>1, <1>3, <2>1, <2>2 DEF Told
  <2> QED BY <1>2, <2>1, <2>3 DEF EditsRecords
<1>7. CASE RejectForm(s) \/ FailEdit(s) \/ ShowPage(s)
  <2>1. /\ UNCHANGED dbVars /\ session[s].pc = "edit"
        /\ \E status \in {200, 400, 500, NULL} : Answer(s, status)
    BY <1>7 DEF RejectForm, FailEdit, ShowPage, AnswerFailure
  <2>2. {200, 400, 500, NULL} \subseteq Statuses /\ 303 \notin {200, 400, 500, NULL}
    BY <1>1 DEF Statuses
  <2> QED BY <1>2, <1>3, <2>1, <2>2 DEF EditsRecords
<1>8. CASE ApplyEdit(s)
  <2>1. /\ session[s].pc = "edit" /\ ~IsInvalid(Form(s)) /\ Statement(Form(s))
        /\ \E status \in Statuses : Answer(s, status)
    BY <1>8 DEF ApplyEdit, Outcome, Statuses
  <2>2. Form(s) \in Posted /\ Form(s) \in TestForms
    BY <1>1, <2>1 DEF SessionInv, TestHasForm
  <2>3. session'[s].pc = "done" /\ Form(s)' = Form(s)
    BY <1>3, <2>1
  <2>4. CASE Form(s).op \notin {"add_dns_record", "rm_dns_record"}
    <3>1. UNCHANGED dns_record
      BY <1>2, <2>1, <2>4 DEF Statement, StopTest, InsertFile, DeleteFile
    <3> QED BY <2>1, <2>3, <2>4, <3>1 DEF EditsRecords, Told
  <2>5. CASE Form(s).op = "rm_dns_record"
    <3>1. UNCHANGED test /\ dns_record' \subseteq dns_record
      BY <2>1, <2>5 DEF Statement, DeleteRecord
    <3> QED BY <2>1, <2>2, <2>3, <2>5, <3>1 DEF EditsRecords
  <2>6. CASE Form(s).op = "add_dns_record"
    BY <2>1, <2>2, <2>3, <2>6 DEF EditsRecords, Statement, IsInvalid
  <2> QED BY <2>4, <2>5, <2>6
<1> QED BY <1>4, <1>5, <1>6, <1>7, <1>8 DEF serveTest

(* A crash tells nobody anything. *)
LEMMA CrashTellsNobody ==
  ASSUME DashboardCrash, NEW s \in Sessions
  PROVE  /\ session[s].pc = "done" => session'[s] = session[s]
         /\ session'[s] = session[s] \/ ~Told(s)'
<1>1. CASE SessionInFlight(s)
  <2>1. session'[s].status = NULL /\ NULL # 303
    BY <1>1, DatabaseAssumption DEF DashboardCrash, NoSession
  <2> QED BY <1>1, <2>1 DEF Told, SessionInFlight
<1>2. CASE ~SessionInFlight(s)
  BY <1>2 DEF DashboardCrash
<1> QED BY <1>1, <1>2

=============================================================================
