----------------------------- MODULE HTTPServer -----------------------------
(***************************************************************************)
(* The HTTP and HTTPS servers of http.go.  net/http runs serveHTTP in a    *)
(* goroutine for every request.  A request for the operator's domain is    *)
(* the dashboard's (module Dashboard); one for the name of a test is       *)
(* recorded and answered with the file that a user published, if the test  *)
(* is running:                                                             *)
(*                                                                         *)
(*   idle -> check -> lookup -> record -> respond -> done                  *)
(*                                                                         *)
(* Every statement runs in the context of the request; a statement that    *)
(* fails ends the request.  net/http cancels the context when it reads an  *)
(* end or an error from the connection while the request is served: the    *)
(* client went away, or shut down its sending half only, or was silent     *)
(* until the ReadTimeout of five seconds (http.go:141), as it is while a   *)
(* statement waits for the database.  So the client may wait all the same. *)
(***************************************************************************)
EXTENDS Database

CONSTANTS
  Hosts,        \* the Host headers of requests, without a port
  ServerNames,  \* the server names of TLS handshakes
  SourceKinds   \* whether requests come from an IP address: a set of Booleans

ASSUME HTTPAssumption ==
  /\ Hosts \subseteq Hostname
  /\ ServerNames \subseteq Hostname
  /\ SourceKinds \subseteq BOOLEAN

VARIABLE request  \* the goroutine of every request: its locals and its response

httpVars == <<dbVars, request>>

RequestLocations ==
  {"idle", "check", "lookup", "record", "respond", "dashboard", "done", "lost"}

(* status is what the program writes, and NULL if it writes nothing.  If   *)
(* the handler returns without having written, net/http answers for it:    *)
(* status 200, no content type and an empty body (implicit).  content is   *)
(* NULL if no file was found, which the client sees as an empty body.      *)
(* cancelled is the state of the context.  arrived and failed are history, *)
(* as in DNSServer.                                                        *)
Request == [pc        : RequestLocations,
            host      : Hostname,
            scheme    : Schemes,
            path      : Paths \cup {NULL},
            content   : Contents \cup {NULL},
            status    : {200, 400, 404, 500, NULL},
            implicit  : BOOLEAN,
            cancelled : BOOLEAN,
            arrived   : Stages,
            failed    : BOOLEAN]

NoRequest ==
  [pc |-> "idle", host |-> [labels |-> <<>>, dot |-> FALSE], scheme |-> "http",
   path |-> NULL, content |-> NULL, status |-> NULL, implicit |-> FALSE,
   cancelled |-> FALSE, arrived |-> "absent", failed |-> FALSE]

HTTPTypeOK ==
  /\ DBTypeOK
  /\ request \in [HTTPRequests -> Request]

HTTPInit == request = [r \in HTTPRequests |-> NoRequest]

HostTarget(r) == parseHostname(request[r].host)
HostTest(r) == HostTarget(r).id

RequestInFlight(r) == request[r].pc \in {"check", "lookup", "record", "respond"}

-----------------------------------------------------------------------------
(* Which host names are served.                                            *)

IsDashboardHost(host) == host = [labels |-> <<LowerLabel("domain")>>, dot |-> FALSE]

IsTestHost(host) == parseHostname(host).ok /\ ~IsUnderscored(host)

(* getHTTPSConfig: the handshake fails for any other server name.  The     *)
(* name is compared as the client spelt it.                                *)
getHTTPSConfig(serverName) == IsDashboardHost(serverName) \/ IsTestHost(serverName)

-----------------------------------------------------------------------------
(* serveHTTP, and serveTestHTTP up to its first statement.                 *)

RequestArrival(host, scheme, path, pc, status) ==
  [pc |-> pc, host |-> host, scheme |-> scheme, path |-> path, content |-> NULL,
   status |-> status, implicit |-> FALSE, cancelled |-> FALSE, failed |-> FALSE,
   arrived |-> IF parseHostname(host).ok THEN Stage(parseHostname(host).id) ELSE "absent"]

(* host is what getHTTPHost returns; serverName matters to HTTPS only.     *)
RefuseHandshake(r, host, scheme, serverName, path) ==
  /\ request[r].pc = "idle"
  /\ scheme = "https" /\ ~getHTTPSConfig(serverName)
  /\ request' = [request EXCEPT ![r] = RequestArrival(host, scheme, path, "done", NULL)]
  /\ UNCHANGED dbVars

Received(r, scheme, serverName) ==
  /\ request[r].pc = "idle"
  /\ scheme = "https" => getHTTPSConfig(serverName)

ToDashboard(r, host, scheme, serverName, path) ==
  /\ Received(r, scheme, serverName)
  /\ IsDashboardHost(host)
  /\ request' = [request EXCEPT ![r] = RequestArrival(host, scheme, path, "dashboard", NULL)]
  /\ UNCHANGED dbVars

RejectHost(r, host, scheme, serverName, path) ==
  /\ Received(r, scheme, serverName)
  /\ ~IsDashboardHost(host) /\ ~IsTestHost(host)
  /\ request' = [request EXCEPT ![r] = RequestArrival(host, scheme, path, "done", 404)]
  /\ UNCHANGED dbVars

(* A request over a socket without an IP address cannot be recorded.       *)
RejectSource(r, host, scheme, serverName, path) ==
  /\ Received(r, scheme, serverName)
  /\ IsTestHost(host)
  /\ request' = [request EXCEPT ![r] = RequestArrival(host, scheme, path, "done", 400)]
  /\ UNCHANGED dbVars

AdmitRequest(r, host, scheme, serverName, path) ==
  /\ Received(r, scheme, serverName)
  /\ IsTestHost(host)
  /\ request' = [request EXCEPT ![r] = RequestArrival(host, scheme, path, "check", NULL)]
  /\ UNCHANGED dbVars

serveHTTP(r) ==
  \E name \in Hosts, scheme \in Schemes, serverName \in ServerNames, path \in Paths,
     fromIP \in SourceKinds :
    LET host == ToLower(name)
    IN \/ RefuseHandshake(r, host, scheme, serverName, path)
       \/ ToDashboard(r, host, scheme, serverName, path)
       \/ RejectHost(r, host, scheme, serverName, path)
       \/ ~fromIP /\ RejectSource(r, host, scheme, serverName, path)
       \/ fromIP /\ AdmitRequest(r, host, scheme, serverName, path)

-----------------------------------------------------------------------------
(* The statements of serveTestHTTP.                                        *)

Finish(r, status) ==
  request' = [request EXCEPT ![r].pc = "done", ![r].status = status]

(* A statement fails: the program answers 500, but if the context was      *)
(* cancelled it writes nothing, and leaves the answer to net/http.         *)
Fail(r) ==
  request' = [request EXCEPT ![r].pc = "done", ![r].failed = TRUE,
                             ![r].status = IF request[r].cancelled THEN NULL ELSE 500,
                             ![r].implicit = request[r].cancelled]

CheckRequest(r) ==
  /\ request[r].pc = "check"
  /\ \/ /\ isRunningTest(HostTest(r))
        /\ request' = [request EXCEPT ![r].pc = "lookup"]
     \/ ~isRunningTest(HostTest(r)) /\ Finish(r, 404)
     \/ Fail(r)
  /\ UNCHANGED dbVars

FilesFor(r) ==
  FileAt(HostTest(r), request[r].scheme, HostTarget(r).sub, request[r].path)

(* A bug: the absence of a file is the end of the request.                 *)
WithoutFileNotFound(r) == Finish(r, 404)

(* A test that has no file there answers with an empty body.               *)
WithoutFile(r) == request' = [request EXCEPT ![r].pc = "record"]

LookupFile(r) ==
  /\ request[r].pc = "lookup"
  /\ \/ \E f \in FilesFor(r) :
          request' = [request EXCEPT ![r].pc = "record", ![r].content = f.content]
     \/ FilesFor(r) = {} /\ WithoutFile(r)
     \/ Fail(r)
  /\ UNCHANGED dbVars

(* A bug: a failing insertion is logged and forgotten, as in serveDNS.     *)
recordHTTPRequestLogging(r) ==
  /\ request[r].pc = "record"
  /\ \/ InsertHTTPRequest(HostTest(r), r)
     \/ UNCHANGED dbVars
  /\ request' = [request EXCEPT ![r].pc = "respond"]

(* The insertion may be complete when the driver learns that the context   *)
(* was cancelled, and reports the cancellation.                            *)
recordHTTPRequest(r) ==
  /\ request[r].pc = "record"
  /\ \/ /\ InsertHTTPRequest(HostTest(r), r)
        /\ request' = [request EXCEPT ![r].pc = "respond"]
     \/ Fail(r) /\ UNCHANGED dbVars
     \/ request[r].cancelled /\ InsertHTTPRequest(HostTest(r), r) /\ Fail(r)

Respond(r) ==
  /\ request[r].pc = "respond"
  /\ Finish(r, 200)
  /\ UNCHANGED dbVars

ServeRequest(r) ==
  CheckRequest(r) \/ LookupFile(r) \/ recordHTTPRequest(r) \/ Respond(r)

-----------------------------------------------------------------------------
(* What the world does to a request.                                       *)

(* The context is cancelled; see above.                                    *)
Cancel(r) ==
  /\ RequestInFlight(r) /\ ~request[r].cancelled
  /\ request' = [request EXCEPT ![r].cancelled = TRUE]
  /\ UNCHANGED dbVars

(* The process dies and starts again. *)
HTTPCrash ==
  /\ \E r \in HTTPRequests : RequestInFlight(r)
  /\ request' = [r \in HTTPRequests |->
                   IF RequestInFlight(r) THEN [request[r] EXCEPT !.pc = "lost"]
                                         ELSE request[r]]

HTTPNext == \E r \in HTTPRequests : serveHTTP(r) \/ ServeRequest(r) \/ Cancel(r)

HTTPServerInit == DBInit /\ HTTPInit

HTTPServerNext ==
  \/ HTTPNext
  \/ OtherStatements /\ UNCHANGED request
  \/ HTTPCrash /\ UNCHANGED dbVars

HTTPServerSpec == HTTPServerInit /\ [][HTTPServerNext]_httpVars

-----------------------------------------------------------------------------
(* Properties.                                                             *)

RequestRows(r) == {row \in http_request : row.req = r}

(* A certificate authority to which the program wrote its 200 has left a   *)
(* trace: whatever is cancelled or fails, and even if the process dies     *)
(* right after the response, the request is in the results of its test.    *)
(* The empty 200 that net/http sends by itself is no such proof: it is     *)
(* what a client reads that waits for a cancelled request.                 *)
ServedIsRecorded ==
  \A r \in HTTPRequests :
    request[r].status = 200 => \E row \in RequestRows(r) : row.test = HostTest(r)

(* A request that arrives after its test was stopped is not recorded, and  *)
(* no published file is served to it: stopping a test ends its results     *)
(* (home.html:51) although the insertion does not look at the test.  Only  *)
(* the empty 200 of net/http may answer it, if its check was cancelled.    *)
NoLateRequest ==
  \A r \in HTTPRequests :
    request[r].arrived = "stopped" =>
      RequestRows(r) = {} /\ request[r].status # 200 /\ request[r].content = NULL

(* A request from an IP address, for a name that the servers serve (below  *)
(* a test, and not beginning with an underscore), is served if the test    *)
(* runs from its arrival to the response and no statement fails, whether   *)
(* or not there is a file for it.                                          *)
LiveRequestServed ==
  \A r \in HTTPRequests :
    /\ request[r].pc = "done" /\ request[r].status \notin {400, NULL}
    /\ IsTestHost(request[r].host)
    /\ request[r].arrived = "running" /\ isRunningTest(HostTest(r))
    /\ ~request[r].failed
    => request[r].status = 200

(* What README.md:5 says of the subdomain of a test, descendants included: *)
(* all HTTP requests to it are recorded.  Not so for a name that begins    *)
(* with an underscore, which serveHTTP answers 404 (http.go:90), even if   *)
(* the test runs, the request comes from an IP address, and nothing fails. *)
EveryRequestRecorded ==
  \A r \in HTTPRequests :
    /\ request[r].pc = "done" /\ request[r].status \notin {400, NULL}
    /\ request[r].arrived = "running" /\ isRunningTest(HostTest(r))
    /\ ~request[r].failed
    => RequestRows(r) # {}

=============================================================================
