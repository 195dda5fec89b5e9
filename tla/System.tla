-------------------------------- MODULE System --------------------------------
(***************************************************************************)
(* The servers and the dashboard together, over one database and in one    *)
(* process: what one of them commits, the others read, and a crash takes   *)
(* the goroutines of all of them at once.  Each is the module of its own;  *)
(* here nothing is left to an environment but the clock and the periodic   *)
(* cleanup, which is one statement.  A session of the dashboard stands for *)
(* the request that HTTPServer hands over in ToDashboard.                  *)
(*                                                                         *)
(* An actor is a query, a request, a mail connection or a session.         *)
(***************************************************************************)
EXTENDS Forms

CONSTANTS
  Names, QTypes, Classes,                        \* see DNSServer
  Hosts, ServerNames, SourceKinds,               \* see HTTPServer
  Connections, Addresses, MaxRecipients,         \* see SMTPServer
  Sessions, Posted, redirectDashboardToHTTPS,    \* see Dashboard
  Scenes  \* bound: which actors act together, over which records, from when on

Actors == DNSQueries \cup HTTPRequests \cup Connections \cup Sessions

(* What a CNAME may lead to: a name of a certificate authority, in lower   *)
(* case and absolute.                                                      *)
LeadsToCA(target) == IsAuthorized(target) /\ target = ToLower(target) /\ target.dot

(* What was published before the program started was checked then.         *)
ASSUME SystemAssumption ==
  /\ Sessions \cap (DNSQueries \cup HTTPRequests) = {}
  /\ Scenes \subseteq
       [crew : SUBSET Actors, published : SUBSET RecordData, clock : 0..MaxClock]
  /\ \A scene \in Scenes : \A p \in scene.published :
       p[1] = "CNAME" => LeadsToCA(p[2].Target)

VARIABLES
  query,       \* see DNSServer
  request,     \* see HTTPServer
  connection,  \* see SMTPServer, where it is called session
  mail,        \* see SMTPServer
  session,     \* see Dashboard
  crew,        \* the actors of this behaviour
  before       \* history: what was done when an actor arrived

componentVars == <<query, request, connection, mail, session>>
systemVars == <<dbVars, componentVars, crew, before>>

DNS == INSTANCE DNSServer
Web == INSTANCE HTTPServer
SMTP == INSTANCE SMTPServer WITH Sessions <- Connections, session <- connection
Dash == INSTANCE Dashboard

(* What the components assume of their constants. *)
ASSUME ComponentsAssumption ==
  DNS!DNSAssumption /\ Web!HTTPAssumption /\ SMTP!SMTPAssumption /\ Dash!DashboardAssumption

(* The requests that the program answered with a 200 (not those that       *)
(* net/http ended with an empty one, see HTTPServer), and the sessions     *)
(* whose edits were accepted.                                              *)
Done ==
  {r \in HTTPRequests : request[r].status = 200}
    \cup {s \in Sessions : session[s].pc = "done" /\ session[s].status = 303}

SystemTypeOK ==
  /\ DNS!DNSTypeOK
  /\ Web!HTTPTypeOK
  /\ SMTP!SMTPTypeOK
  /\ Dash!DashboardTypeOK

(* The records of which one may have been published before. *)
Earlier(running, published) ==
  {[id |-> 1, test |-> t, sub |-> sub, type |-> p[1], data |-> p[2]] :
     t \in running, sub \in Subdomains, p \in published}

(* The database is new, or has tests that were started before the program, *)
(* and perhaps a record of one of them.                                    *)
SystemInit ==
  /\ \E running \in SUBSET TestIDs, scene \in Scenes :
       /\ test = [t \in TestIDs |-> [started |-> IF t \in running THEN 0 ELSE NULL,
                                     stopped |-> NULL]]
       /\ dns_record \in {{}} \cup {{r} : r \in Earlier(running, scene.published)}
       /\ crew = scene.crew /\ clock = scene.clock
  /\ http_file = {}
  /\ dns_request = {} /\ http_request = {} /\ smtp_request = {}
  /\ DNS!DNSInit /\ Web!HTTPInit /\ SMTP!SMTPInit /\ Dash!DashboardInit
  /\ before = [a \in DNSQueries \cup Sessions |-> {}]

DNSStep ==
  /\ \E q \in DNSQueries \cap crew : DNS!serveDNS(q) \/ DNS!ServeQuery(q)
  /\ UNCHANGED <<request, connection, mail, session>>

WebStep ==
  /\ \E r \in HTTPRequests \cap crew : Web!serveHTTP(r) \/ Web!ServeRequest(r) \/ Web!Cancel(r)
  /\ UNCHANGED <<query, connection, mail, session>>

SMTPStep ==
  /\ \E c \in Connections \cap crew :
       \/ \E m \in Mails : SMTP!Mail(c, m)
       \/ \E addr \in Addresses : SMTP!Rcpt(c, addr)
       \/ SMTP!Abandon(c) \/ SMTP!DataUnreadable(c) \/ SMTP!Data(c)
       \/ SMTP!RecordMail(c)
  /\ UNCHANGED <<query, request, session>>

DashboardStep ==
  /\ \E s \in Sessions \cap crew :
       Dash!serveDashboard(s) \/ Dash!startTest(s) \/ Dash!serveTest(s)
  /\ UNCHANGED <<query, request, connection, mail>>

(* A crash takes what every component has in flight.                       *)
SystemCrash ==
  LET querying == \E q \in DNSQueries : DNS!QueryInFlight(q)
      serving == \E r \in HTTPRequests : Web!RequestInFlight(r)
      mailing == \E c \in Connections : connection[c].mail # NULL
      editing == \E s \in Sessions : Dash!SessionInFlight(s)
  IN /\ querying \/ serving \/ mailing \/ editing
     /\ IF querying THEN DNS!DNSCrash ELSE UNCHANGED query
     /\ IF serving THEN Web!HTTPCrash ELSE UNCHANGED request
     /\ IF mailing THEN SMTP!SMTPCrash ELSE UNCHANGED <<connection, mail>>
     /\ IF editing THEN Dash!DashboardCrash ELSE UNCHANGED session
     /\ UNCHANGED dbVars

Arrives(a) ==
  \/ a \in DNSQueries /\ query[a].pc = "idle" /\ query'[a].pc # "idle"
  \/ a \in Sessions /\ session[a].pc = "idle" /\ session'[a].pc # "idle"

SystemNext ==
  /\ \/ DNSStep \/ WebStep \/ SMTPStep \/ DashboardStep
     \/ (cleanupTests \/ Tick) /\ UNCHANGED componentVars
     \/ SystemCrash
  /\ before' = [a \in DOMAIN before |-> IF Arrives(a) THEN Done ELSE before[a]]
  /\ UNCHANGED crew

SystemSpec == SystemInit /\ [][SystemNext]_systemVars

-----------------------------------------------------------------------------
(* The components together keep the promise of TestLog.                    *)

(* Whoever has found that the test runs, and may still act on it.          *)
Inside ==
  {<<DNS!TestOf(q), <<"dns", q>>>> : q \in {q \in DNSQueries : query[q].pc \in {"lookup", "record"}}}
    \cup {<<Web!HostTest(r), <<"http", r>>>> :
            r \in {r \in HTTPRequests : request[r].pc \in {"lookup", "record"}}}
    \cup {<<SMTP!CurrentTest(c), <<"smtp", connection[c].mail>>>> :
            c \in {c \in Connections : connection[c].pc = "insert"}}
    \cup {<<session[s].form.test, <<"user", s>>>> :
            s \in {s \in Sessions : session[s].pc \in {"load", "edit"} /\ Dash!MayEdit(s)}}

Everybody ==
  ({"dns"} \X DNSQueries) \cup ({"http"} \X HTTPRequests) \cup ({"smtp"} \X Mails)
    \cup ({"user"} \X Sessions)

Entries(t) ==
  {<<"dns", row.req>> : row \in {row \in dns_request : row.test = t}}
    \cup {<<"http", row.req>> : row \in {row \in http_request : row.test = t}}
    \cup {<<"smtp", row.req>> : row \in {row \in smtp_request : row.test = t}}

Site(t) ==
  <<{r \in dns_record : r.test = t}, {f \in http_file : f.test = t}>>

Log == INSTANCE TestLog WITH
  Tests  <- TestIDs,
  Actors <- Everybody,
  Never  <- NULL,
  now    <- clock,
  ended  <- [t \in TestIDs |-> test[t].stopped],
  stage  <- [t \in TestIDs |-> Stage(t)],
  log    <- [t \in TestIDs |-> Entries(t)],
  site   <- [t \in TestIDs |-> Site(t)],
  inside <- Inside

-----------------------------------------------------------------------------
(* Properties.                                                             *)

(* Four servers, the dashboard and the cleanup share tables without        *)
(* transactions, and still every test is one log: a stop is final, and the *)
(* time of the first of several stops is kept; no row of a request is lost *)
(* or entered twice, and nothing is entered for, or changed in, a test by  *)
(* anybody who did not find it running (README.md:5, home.html:51),        *)
(* whatever fails or crashes.                                              *)
ImplementsTestLog == Log!Spec

(* A page that says that the test is stopped is complete: it shows every   *)
(* request that was recorded while the test was running, although the      *)
(* tables are read one after the other, without a transaction, while the   *)
(* servers write.                                                          *)
ResultsPageComplete ==
  \A s \in Sessions :
    session[s].status = 200 /\ session[s].page.test = "stopped" =>
      LET rows == Dash!RowsOf(session[s].form.test)
      IN \A table \in {"dns_request", "http_request", "smtp_request"} :
           \A row \in rows[table] : row.live => row \in session[s].page[table]

(* A user who opens the page of a test sees every request that the program *)
(* answered with status 200 before: what the client of the server was told *)
(* is on the page.  An empty 200 that net/http adds to a request whose     *)
(* context was cancelled tells nobody anything (http.go:95-98), and is not *)
(* meant.                                                                  *)
ServedIsShown ==
  \A s \in Sessions : session[s].status = 200 /\ session[s].page.test # "absent" =>
    \A r \in before[s] \cap HTTPRequests :
      Web!HostTest(r) = session[s].form.test =>
        \E row \in session[s].page.http_request : row.req = r

(* Once a user was told that his record is published, it is in the reply   *)
(* to every query for it that is not refused, or a CNAME is in its place,  *)
(* as long as the test runs, nothing is deleted and no statement of the    *)
(* query fails.                                                            *)
PublishedIsAnswered ==
  \A q \in DNSQueries :
    /\ query[q].reply \notin {NULL, DNS!refused} /\ ~query[q].failed
    /\ DNS!TargetOf(q).ok /\ isRunningTest(DNS!TestOf(q))
    /\ \A s \in Sessions : session[s].form # NULL => session[s].form.op # "rm_dns_record"
    => \A s \in before[q] \cap Sessions :
         LET form == session[s].form
         IN /\ form.op = "add_dns_record" /\ form.test = DNS!TestOf(q)
            /\ LowerWords(form.record.sub) = DNS!TargetOf(q).sub
            /\ query[q].qtype \in {form.record.type, "ANY"}
            => \E rr \in query[q].reply.answer :
                 \/ rr.type = "CNAME"
                 \/ rr = [type |-> form.record.type, data |-> DataOf(form.record)]

(* A CNAME that the DNS server answers leads to a name of a certificate    *)
(* authority, in lower case and absolute, whatever was posted.             *)
CNAMEsLeadToCAs ==
  \A q \in DNSQueries : \A rr \in query[q].answers :
    rr.type = "CNAME" => LeadsToCA(rr.data.Target)

=============================================================================
