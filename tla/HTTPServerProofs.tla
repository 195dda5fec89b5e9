-------------------------- MODULE HTTPServerProofs --------------------------
(***************************************************************************)
(* Theorems about the HTTP and HTTPS servers, for every set of tests,      *)
(* hosts, requests and files: the type invariant; that a 200 which the     *)
(* program wrote has left a row; that a request which arrives after its    *)
(* test was stopped leaves none and is served no file; and that one which  *)
(* is admitted and whose test runs all along is served, unless a statement *)
(* fails.                                                                  *)
(*                                                                         *)
(* All of them follow from one inductive invariant, a conjunction for      *)
(* every request.  A step serves at most one request: what it does to that *)
(* one is settled action by action, and that it leaves the invariant of    *)
(* the others alone is proved once (Undisturbed).                          *)
(***************************************************************************)
EXTENDS HTTPServer, DatabaseProofs

-----------------------------------------------------------------------------
(* What the steps have in common.                                          *)

Arrives(r, host, scheme, path, pc, status) ==
  /\ request[r].pc = "idle"
  /\ request' = [request EXCEPT ![r] = RequestArrival(host, scheme, path, pc, status)]
  /\ \/ pc = "check" /\ status = NULL /\ IsTestHost(host)
     \/ pc = "dashboard" /\ status = NULL
     \/ pc = "done" /\ status \in {400, NULL}
     \/ pc = "done" /\ status = 404 /\ ~IsTestHost(host)

(* A request arrives: it starts a goroutine and leaves the database alone. *)
LEMMA ArrivalStep ==
  ASSUME NEW r \in HTTPRequests, serveHTTP(r)
  PROVE  \E host \in Hostname, scheme \in Schemes, path \in Paths,
            pc \in {"check", "dashboard", "done"}, status \in {400, 404, NULL} :
           Arrives(r, host, scheme, path, pc, status) /\ UNCHANGED dbVars
<1>1. PICK name \in Hosts, scheme \in Schemes, serverName \in ServerNames, path \in Paths :
        LET host == ToLower(name)
        IN \/ RefuseHandshake(r, host, scheme, serverName, path)
           \/ ToDashboard(r, host, scheme, serverName, path)
           \/ RejectHost(r, host, scheme, serverName, path)
           \/ RejectSource(r, host, scheme, serverName, path)
           \/ AdmitRequest(r, host, scheme, serverName, path)
  BY DEF serveHTTP
<1> DEFINE host == ToLower(name)
<1>2. host \in Hostname
  BY HTTPAssumption, ToLowerType
<1> HIDE DEF host
<1>3. CASE RefuseHandshake(r, host, scheme, serverName, path)
  <2>1. Arrives(r, host, scheme, path, "done", NULL) /\ UNCHANGED dbVars
    BY <1>3 DEF RefuseHandshake, Arrives
  <2> QED BY <1>2, <2>1
<1>4. CASE ToDashboard(r, host, scheme, serverName, path)
  <2>1. Arrives(r, host, scheme, path, "dashboard", NULL) /\ UNCHANGED dbVars
    BY <1>4 DEF ToDashboard, Received, Arrives
  <2> QED BY <1>2, <2>1
<1>5. CASE RejectHost(r, host, scheme, serverName, path)
  <2>1. Arrives(r, host, scheme, path, "done", 404) /\ UNCHANGED dbVars
    BY <1>5 DEF RejectHost, Received, Arrives
  <2> QED BY <1>2, <2>1
<1>6. CASE RejectSource(r, host, scheme, serverName, path)
  <2>1. Arrives(r, host, scheme, path, "done", 400) /\ UNCHANGED dbVars
    BY <1>6 DEF RejectSource, Received, Arrives
  <2> QED BY <1>2, <2>1
<1>7. CASE AdmitRequest(r, host, scheme, serverName, path)
  <2>1. Arrives(r, host, scheme, path, "check", NULL) /\ UNCHANGED dbVars
    BY <1>7 DEF AdmitRequest, Received, Arrives
  <2> QED BY <1>2, <2>1
<1> QED BY <1>1, <1>3, <1>4, <1>5, <1>6, <1>7 DEF host

(* A step of the goroutine of r changes nothing of the other requests, and *)
(* nothing of r but where it is, its file, its response and its failure.   *)
Moves(r, pc, content, status, failed) ==
  /\ \A p \in HTTPRequests \ {r} : request'[p] = request[p]
  /\ request'[r].pc = pc
  /\ request'[r].content = content
  /\ request'[r].status = status
  /\ request'[r].failed = failed
  /\ request'[r].host = request[r].host
  /\ request'[r].arrived = request[r].arrived

(* The request ends because a statement failed. *)
Fails(r) ==
  \E status \in {500, NULL} : Moves(r, "done", request[r].content, status, TRUE)

(* Fail ends the request with status 500, or leaves it to net/http. *)
LEMMA FailMoves ==
  ASSUME HTTPTypeOK, NEW r \in HTTPRequests, Fail(r)
  PROVE  Fails(r) /\ request' \in [HTTPRequests -> Request]
<1> DEFINE status == IF request[r].cancelled THEN NULL ELSE 500
<1>1. status \in {500, NULL} /\ "done" \in RequestLocations
  BY DEF RequestLocations
<1> DEFINE silent == request[r].cancelled
<1>2. request' = [request EXCEPT ![r].pc = "done", ![r].failed = TRUE, ![r].status = status,
                                 ![r].implicit = silent]
  BY DEF Fail
<1>3. silent \in BOOLEAN
  BY DEF HTTPTypeOK, Request
<1> HIDE DEF status, silent
<1>4. Moves(r, "done", request[r].content, status, TRUE)
  BY <1>2 DEF Moves, HTTPTypeOK, Request
<1>5. request' \in [HTTPRequests -> Request]
  <2> DEFINE ended == [request EXCEPT ![r].pc = "done"]
             failed(b) == [ended EXCEPT ![r].failed = b]
  <2>1. ended \in [HTTPRequests -> Request]
    BY <1>1 DEF HTTPTypeOK, Request
  <2> HIDE DEF ended
  <2>2. \A b \in BOOLEAN : failed(b) \in [HTTPRequests -> Request]
    BY <2>1 DEF Request
  <2> DEFINE broken == failed(TRUE)
             answered == [broken EXCEPT ![r].status = status]
  <2>3. request' = [answered EXCEPT ![r].implicit = silent]
    BY <1>2 DEF ended
  <2> HIDE DEF failed
  <2>4. broken \in [HTTPRequests -> Request]
    BY <2>2
  <2> HIDE DEF broken
  <2>5. answered \in [HTTPRequests -> Request]
    BY <1>1, <2>4 DEF Request
  <2> HIDE DEF answered
  <2> QED BY <1>3, <2>3, <2>5 DEF Request
<1> QED BY <1>1, <1>4, <1>5 DEF Fails

(* Finish ends the request with a response. *)
LEMMA FinishMoves ==
  ASSUME HTTPTypeOK, NEW r \in HTTPRequests, NEW status \in {200, 404}, Finish(r, status)
  PROVE  /\ Moves(r, "done", request[r].content, status, request[r].failed)
         /\ request' \in [HTTPRequests -> Request]
<1>1. "done" \in RequestLocations
  BY DEF RequestLocations
<1>2. request' = [request EXCEPT ![r].pc = "done", ![r].status = status]
  BY DEF Finish
<1>3. Moves(r, "done", request[r].content, status, request[r].failed)
  BY <1>2 DEF Moves, HTTPTypeOK, Request
<1>4. request' \in [HTTPRequests -> Request]
  <2> DEFINE ended == [request EXCEPT ![r].pc = "done"]
  <2>1. ended \in [HTTPRequests -> Request]
    BY <1>1 DEF HTTPTypeOK, Request
  <2>2. request' = [ended EXCEPT ![r].status = status]
    BY <1>2
  <2> HIDE DEF ended
  <2> QED BY <2>1, <2>2 DEF Request
<1> QED BY <1>3, <1>4

(* A statement that only moves the request on. *)
LEMMA GoOnMoves ==
  ASSUME HTTPTypeOK, NEW r \in HTTPRequests, NEW pc \in RequestLocations,
         request' = [request EXCEPT ![r].pc = pc]
  PROVE  /\ Moves(r, pc, request[r].content, request[r].status, request[r].failed)
         /\ request' \in [HTTPRequests -> Request]
  BY DEF Moves, HTTPTypeOK, Request

(* The check goes on to the lookup, of a running test, or ends the request. *)
LEMMA CheckMoves ==
  ASSUME HTTPTypeOK, NEW r \in HTTPRequests, CheckRequest(r)
  PROVE  /\ request[r].pc = "check"
         /\ UNCHANGED dbVars
         /\ request' \in [HTTPRequests -> Request]
         /\ \/ /\ isRunningTest(HostTest(r))
               /\ Moves(r, "lookup", request[r].content, request[r].status, request[r].failed)
            \/ /\ ~isRunningTest(HostTest(r))
               /\ Moves(r, "done", request[r].content, 404, request[r].failed)
            \/ Fails(r)
<1>1. "lookup" \in RequestLocations
  BY DEF RequestLocations
<1> QED BY <1>1, GoOnMoves, FinishMoves, FailMoves DEF CheckRequest

(* The lookup goes on to the recording, with or without a file, or fails.  *)
LEMMA LookupMoves ==
  ASSUME HTTPTypeOK, NEW r \in HTTPRequests, LookupFile(r)
  PROVE  /\ request[r].pc = "lookup"
         /\ UNCHANGED dbVars
         /\ request' \in [HTTPRequests -> Request]
         /\ \/ \E content \in Contents \cup {NULL} :
                 Moves(r, "record", content, request[r].status, request[r].failed)
            \/ Fails(r)
<1>1. "record" \in RequestLocations
  BY DEF RequestLocations
<1>2. ASSUME NEW f \in FilesFor(r),
             request' = [request EXCEPT ![r].pc = "record", ![r].content = f.content]
      PROVE  /\ f.content \in Contents
             /\ Moves(r, "record", f.content, request[r].status, request[r].failed)
             /\ request' \in [HTTPRequests -> Request]
  <2>1. f.content \in Contents
    BY DEF FilesFor, FileAt, HTTPTypeOK, DBTypeOK, HTTPFile
  <2>2. Moves(r, "record", f.content, request[r].status, request[r].failed)
    BY <1>2 DEF Moves, HTTPTypeOK, Request
  <2>3. request' \in [HTTPRequests -> Request]
    <3> DEFINE moved == [request EXCEPT ![r].pc = "record"]
    <3>1. moved \in [HTTPRequests -> Request]
      BY <1>1 DEF HTTPTypeOK, Request
    <3>2. request' = [moved EXCEPT ![r].content = f.content]
      BY <1>2
    <3> HIDE DEF moved
    <3> QED BY <2>1, <3>1, <3>2 DEF Request
  <2> QED BY <2>1, <2>2, <2>3
<1>3. request[r].content \in Contents \cup {NULL}
  BY DEF HTTPTypeOK, Request
<1> QED BY <1>1, <1>2, <1>3, GoOnMoves, FailMoves DEF LookupFile, WithoutFile

(* The recording goes on to the response with a row, or fails with or      *)
(* without one.                                                            *)
LEMMA RecordMoves ==
  ASSUME HTTPTypeOK, NEW r \in HTTPRequests, recordHTTPRequest(r)
  PROVE  /\ request[r].pc = "record"
         /\ InsertHTTPRequest(HostTest(r), r) \/ UNCHANGED dbVars
         /\ request' \in [HTTPRequests -> Request]
         /\ \/ /\ InsertHTTPRequest(HostTest(r), r)
               /\ Moves(r, "respond", request[r].content, request[r].status,
                        request[r].failed)
            \/ Fails(r)
<1>1. "respond" \in RequestLocations
  BY DEF RequestLocations
<1> QED BY <1>1, GoOnMoves, FailMoves DEF recordHTTPRequest

(* The response ends the request. *)
LEMMA RespondMoves ==
  ASSUME HTTPTypeOK, NEW r \in HTTPRequests, Respond(r)
  PROVE  /\ request[r].pc = "respond"
         /\ UNCHANGED dbVars
         /\ request' \in [HTTPRequests -> Request]
         /\ Moves(r, "done", request[r].content, 200, request[r].failed)
  BY FinishMoves DEF Respond

-----------------------------------------------------------------------------
(* The inductive invariant.                                                *)

HasRow(r) == \E row \in RequestRows(r) : row.test = HostTest(r)

(* Only a request for the name of a test gets to the statements. *)
ServedBelongsToTest(r) == RequestInFlight(r) => IsTestHost(request[r].host)

(* A request that found a test finds it as long as it lives.               *)
TestStays(r) ==
  request[r].arrived # "absent" => HostTarget(r).ok /\ Stage(HostTest(r)) # "absent"

(* Before it is recorded, a request has no row. *)
NewHasNoRow(r) ==
  request[r].pc \in {"idle", "check", "lookup", "record"} => RequestRows(r) = {}

(* A request that came too late does not get past the check, because a     *)
(* stopped test stays stopped.                                             *)
LateIsTurnedAway(r) ==
  request[r].arrived = "stopped" =>
    /\ Stage(HostTest(r)) = "stopped"
    /\ request[r].pc \notin {"idle", "lookup", "record", "respond"}
    /\ RequestRows(r) = {} /\ request[r].status # 200 /\ request[r].content = NULL

(* The response comes after the row. *)
RowBeforeResponse(r) ==
  request[r].pc = "respond" \/ request[r].status = 200 => HasRow(r)

(* Nothing but a failure keeps a request from a test that still runs.      *)
LiveIsServed(r) ==
  /\ request[r].pc = "done" /\ request[r].status \notin {400, NULL}
  /\ IsTestHost(request[r].host)
  /\ request[r].arrived = "running" /\ isRunningTest(HostTest(r))
  /\ ~request[r].failed
  => request[r].status = 200

RequestInv(r) ==
  /\ ServedBelongsToTest(r)
  /\ TestStays(r)
  /\ NewHasNoRow(r)
  /\ LateIsTurnedAway(r)
  /\ RowBeforeResponse(r)
  /\ LiveIsServed(r)

HTTPInv == HTTPTypeOK /\ \A r \in HTTPRequests : RequestInv(r)

(* The test of a request that belongs to one. *)
LEMMA HostTestType ==
  ASSUME HTTPTypeOK, NEW r \in HTTPRequests, HostTarget(r).ok
  PROVE  HostTest(r) \in TestIDs
  BY TargetType DEF HostTarget, HostTest, HTTPTypeOK, Request

(* What the steps of others, a cancellation and a crash leave of a request. *)
Keeps(p) ==
  /\ request'[p].pc = request[p].pc \/ request'[p].pc = "lost"
  /\ request'[p].content = request[p].content
  /\ request'[p].status = request[p].status
  /\ request'[p].failed = request[p].failed
  /\ request'[p].host = request[p].host
  /\ request'[p].arrived = request[p].arrived

(* They leave its invariant alone, too: the one thing that others change   *)
(* and it depends on is the stage of its test, which only moves forward.   *)
LEMMA Undisturbed ==
  ASSUME HTTPTypeOK, NEW p \in HTTPRequests, RequestInv(p), Keeps(p), StopsAreFinal,
         RequestRows(p)' = RequestRows(p)
  PROVE  RequestInv(p)'
<1>1. /\ HostTarget(p)' = HostTarget(p)
      /\ HostTest(p)' = HostTest(p)
      /\ HasRow(p)' = HasRow(p)
  BY DEF Keeps, HostTarget, HostTest, HasRow
<1>2. HostTarget(p).ok => HostTest(p) \in TestIDs
  BY HostTestType
<1>3. ServedBelongsToTest(p)'
  BY DEF RequestInv, ServedBelongsToTest, RequestInFlight, Keeps
<1>4. TestStays(p)'
  BY <1>1, <1>2 DEF RequestInv, TestStays, Keeps, StopsAreFinal
<1>5. NewHasNoRow(p)'
  BY DEF RequestInv, NewHasNoRow, Keeps
<1>6. LateIsTurnedAway(p)'
  BY <1>1, <1>2 DEF RequestInv, TestStays, LateIsTurnedAway, Keeps, StopsAreFinal
<1>7. RowBeforeResponse(p)'
  BY <1>1 DEF RequestInv, RowBeforeResponse, Keeps
<1>8. LiveIsServed(p)'
  <2>1. HostTarget(p).ok /\ Stage(HostTest(p)) # "absent" /\ isRunningTest(HostTest(p))'
          => isRunningTest(HostTest(p))
    BY <1>1, <1>2 DEF StopsAreFinal, Stage, isRunningTest, Exists
  <2> QED BY <1>1, <2>1 DEF RequestInv, TestStays, LiveIsServed, Keeps
<1> QED BY <1>3, <1>4, <1>5, <1>6, <1>7, <1>8 DEF RequestInv

(* At first no request has arrived, whatever tests there are. *)
LEMMA InvInit ==
  ASSUME DBTypeOK, http_request = {}, HTTPInit
  PROVE  HTTPInv
<1>1. NoRequest \in Request
  BY DatabaseAssumption DEF NoRequest, Request, RequestLocations, Hostname, Schemes, Stages
<1>2. HTTPTypeOK
  BY <1>1 DEF HTTPInit, HTTPTypeOK
<1>3. ASSUME NEW r \in HTTPRequests
      PROVE  RequestInv(r)
  <2>1. request[r] = NoRequest /\ RequestRows(r) = {}
    BY DEF HTTPInit, RequestRows
  <2> QED BY <2>1, DatabaseAssumption
          DEF NoRequest, RequestInv, ServedBelongsToTest, RequestInFlight, TestStays,
              NewHasNoRow, LateIsTurnedAway, RowBeforeResponse, LiveIsServed
<1> QED BY <1>2, <1>3 DEF HTTPInv

(* A request that arrives satisfies the invariant: nothing was done for it. *)
LEMMA ArrivalKeeps ==
  ASSUME HTTPInv, NEW r \in HTTPRequests, serveHTTP(r)
  PROVE  HTTPTypeOK' /\ RequestInv(r)' /\ \A p \in HTTPRequests \ {r} : RequestInv(p)'
<1>1. PICK host \in Hostname, scheme \in Schemes, path \in Paths,
           pc \in {"check", "dashboard", "done"}, status \in {400, 404, NULL} :
        Arrives(r, host, scheme, path, pc, status) /\ UNCHANGED dbVars
  BY ArrivalStep
<1> DEFINE new == RequestArrival(host, scheme, path, pc, status)
<1>2. /\ new \in Request
      /\ new.pc = pc /\ new.host = host /\ new.status = status /\ new.content = NULL
      /\ new.arrived = IF parseHostname(host).ok THEN Stage(parseHostname(host).id) ELSE "absent"
  <2> DEFINE stage == IF parseHostname(host).ok THEN Stage(parseHostname(host).id) ELSE "absent"
  <2>1. new = [pc |-> pc, host |-> host, scheme |-> scheme, path |-> path, content |-> NULL,
               status |-> status, implicit |-> FALSE, cancelled |-> FALSE,
               arrived |-> stage, failed |-> FALSE]
    BY DEF RequestArrival
  <2>2. stage \in Stages
    BY DEF Stage, Stages
  <2> HIDE DEF new, stage
  <2>3. new \in Request
    BY <2>1, <2>2 DEF Request, RequestLocations
  <2> QED BY <2>1, <2>3 DEF stage
<1> HIDE DEF new
<1>3. request' = [request EXCEPT ![r] = new] /\ request \in [HTTPRequests -> Request]
  BY <1>1 DEF Arrives, new, HTTPInv, HTTPTypeOK
<1>4. HTTPTypeOK'
  BY <1>1, <1>2, <1>3 DEF HTTPInv, HTTPTypeOK, DBTypeOK, dbVars
<1>5. /\ StopsAreFinal
      /\ \A t : Stage(t)' = Stage(t) /\ isRunningTest(t)' = isRunningTest(t)
      /\ \A p : RequestRows(p)' = RequestRows(p)
  BY <1>1, TestUnchanged DEF dbVars, RequestRows
<1>6. ASSUME NEW p \in HTTPRequests \ {r}
      PROVE  RequestInv(p)'
  BY <1>3, <1>5, <1>6, Undisturbed DEF HTTPInv, Keeps
<1>7. RequestInv(r)'
  <2>1. /\ request'[r] = new
        /\ HostTarget(r)' = parseHostname(host) /\ HostTest(r)' = parseHostname(host).id
        /\ RequestRows(r)' = {}
    BY <1>1, <1>2, <1>3, <1>5
       DEF HostTarget, HostTest, Arrives, HTTPInv, RequestInv, NewHasNoRow
  <2>2. \/ pc = "check" /\ status = NULL /\ IsTestHost(host)
        \/ pc = "dashboard" /\ status = NULL
        \/ pc = "done" /\ status \in {400, NULL}
        \/ pc = "done" /\ status = 404 /\ ~IsTestHost(host)
    BY <1>1 DEF Arrives
  <2>3. status # 200 /\ pc \notin {"idle", "lookup", "record", "respond"}
    BY DatabaseAssumption
  <2>4. ServedBelongsToTest(r)'
    BY <1>2, <2>1, <2>2 DEF ServedBelongsToTest, RequestInFlight
  <2>5. TestStays(r)' /\ LateIsTurnedAway(r)'
    BY <1>2, <1>5, <2>1, <2>3 DEF TestStays, LateIsTurnedAway
  <2>6. NewHasNoRow(r)' /\ RowBeforeResponse(r)'
    BY <1>2, <2>1, <2>3 DEF NewHasNoRow, RowBeforeResponse
  <2>7. LiveIsServed(r)'
    BY <1>2, <2>1, <2>2 DEF LiveIsServed
  <2> QED BY <2>4, <2>5, <2>6, <2>7 DEF RequestInv
<1> QED BY <1>4, <1>6, <1>7

(* A step of the goroutine of r that leaves the database alone keeps the   *)
(* invariant of all, if it keeps that of r.                                *)
LEMMA ReadingStep ==
  ASSUME HTTPInv, NEW r \in HTTPRequests, NEW pc, NEW content, NEW status, NEW failed,
         Moves(r, pc, content, status, failed), UNCHANGED dbVars,
         request' \in [HTTPRequests -> Request]
  PROVE  /\ HTTPTypeOK'
         /\ \A p \in HTTPRequests \ {r} : RequestInv(p)'
         /\ TestStays(r)'
         /\ HostTest(r)' = HostTest(r)
         /\ HasRow(r)' = HasRow(r)
         /\ RequestRows(r)' = RequestRows(r)
         /\ \A t : Stage(t)' = Stage(t) /\ isRunningTest(t)' = isRunningTest(t)
<1>1. HTTPTypeOK'
  BY DEF HTTPInv, HTTPTypeOK, DBTypeOK, dbVars
<1>2. /\ StopsAreFinal
      /\ \A t : Stage(t)' = Stage(t) /\ isRunningTest(t)' = isRunningTest(t)
      /\ \A p : RequestRows(p)' = RequestRows(p)
  BY TestUnchanged DEF dbVars, RequestRows
<1>3. ASSUME NEW p \in HTTPRequests \ {r}
      PROVE  RequestInv(p)'
  BY <1>2, <1>3, Undisturbed DEF HTTPInv, Keeps, Moves
<1>4. HostTarget(r)' = HostTarget(r) /\ HostTest(r)' = HostTest(r)
  BY DEF Moves, HostTarget, HostTest
<1>5. TestStays(r)'
  BY <1>2, <1>4 DEF HTTPInv, RequestInv, TestStays, Moves
<1>6. HasRow(r)' = HasRow(r)
  BY <1>2, <1>4 DEF HasRow
<1> QED BY <1>1, <1>2, <1>3, <1>4, <1>5, <1>6

(* The parts of the invariant, for a request that ends without status 200. *)
LEMMA Ending ==
  ASSUME HTTPTypeOK, NEW r \in HTTPRequests, RequestInv(r),
         request[r].pc \in {"check", "lookup", "record"}, request'[r].pc = "done",
         request'[r].status # 200, request'[r].content = request[r].content,
         request'[r].host = request[r].host, request'[r].arrived = request[r].arrived,
         HostTest(r)' = HostTest(r), Stage(HostTest(r))' = Stage(HostTest(r)),
         request[r].arrived = "stopped" => RequestRows(r)' = {},
         request'[r].failed \/ ~isRunningTest(HostTest(r))'
  PROVE  /\ ServedBelongsToTest(r)' /\ NewHasNoRow(r)' /\ LateIsTurnedAway(r)'
         /\ RowBeforeResponse(r)' /\ LiveIsServed(r)'
<1>1. ServedBelongsToTest(r)' /\ NewHasNoRow(r)' /\ RowBeforeResponse(r)'
  BY DEF ServedBelongsToTest, RequestInFlight, NewHasNoRow, RowBeforeResponse
<1>2. LateIsTurnedAway(r)'
  BY DEF RequestInv, LateIsTurnedAway
<1>3. LiveIsServed(r)'
  BY DEF LiveIsServed
<1> QED BY <1>1, <1>2, <1>3

(* The check lets only requests to running tests pass. *)
LEMMA CheckKeeps ==
  ASSUME HTTPInv, NEW r \in HTTPRequests, CheckRequest(r)
  PROVE  HTTPTypeOK' /\ \A p \in HTTPRequests : RequestInv(p)'
<1> DEFINE Others == HTTPTypeOK' /\ \A p \in HTTPRequests \ {r} : RequestInv(p)'
<1>1. /\ HTTPTypeOK /\ RequestInv(r) /\ request[r].pc = "check" /\ UNCHANGED dbVars
      /\ request' \in [HTTPRequests -> Request]
  BY CheckMoves DEF HTTPInv
<1>2. CASE /\ isRunningTest(HostTest(r))
           /\ Moves(r, "lookup", request[r].content, request[r].status, request[r].failed)
  <2>1. /\ Others /\ TestStays(r)' /\ HostTest(r)' = HostTest(r) /\ HasRow(r)' = HasRow(r)
        /\ RequestRows(r)' = RequestRows(r)
    BY <1>1, <1>2, ReadingStep
  <2>2. ServedBelongsToTest(r)' /\ NewHasNoRow(r)' /\ RowBeforeResponse(r)' /\ LiveIsServed(r)'
    BY <1>1, <1>2, <2>1
       DEF Moves, RequestInv, ServedBelongsToTest, RequestInFlight, NewHasNoRow,
           RowBeforeResponse, LiveIsServed
  <2>3. request[r].arrived # "stopped"
    BY <1>1, <1>2, RunningStage DEF RequestInv, LateIsTurnedAway
  <2>4. LateIsTurnedAway(r)'
    BY <1>2, <2>3 DEF Moves, LateIsTurnedAway
  <2> QED BY <2>1, <2>2, <2>4 DEF RequestInv
<1>3. CASE /\ ~isRunningTest(HostTest(r))
           /\ Moves(r, "done", request[r].content, 404, request[r].failed)
  <2>1. /\ Others /\ TestStays(r)' /\ HostTest(r)' = HostTest(r)
        /\ RequestRows(r)' = RequestRows(r)
        /\ \A t : Stage(t)' = Stage(t) /\ isRunningTest(t)' = isRunningTest(t)
    BY <1>1, <1>3, ReadingStep
  <2>2. /\ Stage(HostTest(r))' = Stage(HostTest(r)) /\ ~isRunningTest(HostTest(r))'
        /\ request[r].arrived = "stopped" => RequestRows(r)' = {}
    BY <1>1, <1>3, <2>1 DEF RequestInv, LateIsTurnedAway
  <2> QED BY <1>1, <1>3, <2>1, <2>2, Ending DEF Moves, RequestInv
<1>4. CASE Fails(r)
  <2>1. PICK status \in {500, NULL} : Moves(r, "done", request[r].content, status, TRUE)
    BY <1>4 DEF Fails
  <2>2. /\ Others /\ TestStays(r)' /\ HostTest(r)' = HostTest(r)
        /\ RequestRows(r)' = RequestRows(r)
        /\ \A t : Stage(t)' = Stage(t)
    BY <1>1, <2>1, ReadingStep
  <2>3. /\ Stage(HostTest(r))' = Stage(HostTest(r)) /\ status # 200
        /\ request[r].arrived = "stopped" => RequestRows(r)' = {}
    BY <1>1, <2>2, DatabaseAssumption DEF RequestInv, LateIsTurnedAway
  <2> QED BY <1>1, <2>1, <2>2, <2>3, Ending DEF Moves, RequestInv
<1> QED BY <1>1, <1>2, <1>3, <1>4, CheckMoves

(* A request that is looked up did not come too late. *)
LEMMA LookupKeeps ==
  ASSUME HTTPInv, NEW r \in HTTPRequests, LookupFile(r)
  PROVE  HTTPTypeOK' /\ \A p \in HTTPRequests : RequestInv(p)'
<1> DEFINE Others == HTTPTypeOK' /\ \A p \in HTTPRequests \ {r} : RequestInv(p)'
<1>1. /\ HTTPTypeOK /\ RequestInv(r) /\ request[r].pc = "lookup" /\ UNCHANGED dbVars
      /\ request' \in [HTTPRequests -> Request]
  BY LookupMoves DEF HTTPInv
<1>2. request[r].arrived # "stopped"
  BY <1>1 DEF RequestInv, LateIsTurnedAway
<1>3. ASSUME NEW content \in Contents \cup {NULL},
             Moves(r, "record", content, request[r].status, request[r].failed)
      PROVE  Others /\ RequestInv(r)'
  <2>1. /\ Others /\ TestStays(r)' /\ HostTest(r)' = HostTest(r) /\ HasRow(r)' = HasRow(r)
        /\ RequestRows(r)' = RequestRows(r)
    BY <1>1, <1>3, ReadingStep
  <2>2. ServedBelongsToTest(r)' /\ NewHasNoRow(r)' /\ RowBeforeResponse(r)' /\ LiveIsServed(r)'
    BY <1>1, <1>3, <2>1
       DEF Moves, RequestInv, ServedBelongsToTest, RequestInFlight, NewHasNoRow,
           RowBeforeResponse, LiveIsServed
  <2>3. LateIsTurnedAway(r)'
    BY <1>2, <1>3 DEF Moves, LateIsTurnedAway
  <2> QED BY <2>1, <2>2, <2>3 DEF RequestInv
<1>4. CASE Fails(r)
  <2>1. PICK status \in {500, NULL} : Moves(r, "done", request[r].content, status, TRUE)
    BY <1>4 DEF Fails
  <2>2. /\ Others /\ TestStays(r)' /\ HostTest(r)' = HostTest(r)
        /\ \A t : Stage(t)' = Stage(t)
    BY <1>1, <2>1, ReadingStep
  <2>3. Stage(HostTest(r))' = Stage(HostTest(r)) /\ status # 200
    BY <2>2, DatabaseAssumption
  <2> QED BY <1>1, <1>2, <2>1, <2>2, <2>3, Ending DEF Moves, RequestInv
<1> QED BY <1>1, <1>3, <1>4, LookupMoves

(* A request that is recorded did not come too late, and its row is there  *)
(* before it goes on to its response.                                      *)
LEMMA RecordKeeps ==
  ASSUME HTTPInv, NEW r \in HTTPRequests, recordHTTPRequest(r)
  PROVE  HTTPTypeOK' /\ \A p \in HTTPRequests : RequestInv(p)'
<1> DEFINE t == HostTest(r)
<1>1. /\ HTTPTypeOK /\ RequestInv(r) /\ request[r].pc = "record"
      /\ InsertHTTPRequest(t, r) \/ UNCHANGED dbVars
      /\ request' \in [HTTPRequests -> Request]
  BY RecordMoves DEF HTTPInv
<1>2. request[r].arrived # "stopped" /\ t \in TestIDs
  BY <1>1, HostTestType
     DEF RequestInv, LateIsTurnedAway, ServedBelongsToTest, RequestInFlight, IsTestHost,
         HostTarget
<1>3. /\ DBTypeOK' /\ UNCHANGED test
      /\ \A row \in RequestRows(r) : row \in RequestRows(r)'
      /\ \A p \in HTTPRequests \ {r} : RequestRows(p)' = RequestRows(p)
  <2>1. CASE InsertHTTPRequest(t, r)
    <3>1. DBTypeOK' /\ UNCHANGED test
      BY <1>1, <1>2, <2>1, RequestStatements DEF HTTPTypeOK
    <3>2. http_request' = http_request \cup {RowFor(t, r)} /\ RowFor(t, r).req = r
      BY <2>1 DEF InsertHTTPRequest, RowFor
    <3> QED BY <3>1, <3>2 DEF RequestRows
  <2>2. CASE UNCHANGED dbVars
    BY <1>1, <2>2 DEF dbVars, DBTypeOK, HTTPTypeOK, RequestRows
  <2> QED BY <1>1, <2>1, <2>2
<1>4. HTTPTypeOK'
  BY <1>1, <1>3 DEF HTTPTypeOK
<1>5. StopsAreFinal /\ \A u : Stage(u)' = Stage(u)
  BY <1>3, TestUnchanged
<1>6. PICK pc, status, failed : Moves(r, pc, request[r].content, status, failed)
  BY RecordMoves DEF HTTPInv, Fails
<1>7. ASSUME NEW p \in HTTPRequests \ {r}
      PROVE  RequestInv(p)'
  BY <1>1, <1>3, <1>5, <1>6, Undisturbed DEF HTTPInv, Keeps, Moves
<1>8. /\ HostTarget(r)' = HostTarget(r) /\ t' = t
      /\ TestStays(r)'
  BY <1>1, <1>5, <1>6 DEF Moves, HostTarget, HostTest, RequestInv, TestStays
<1>9. CASE /\ InsertHTTPRequest(t, r)
           /\ Moves(r, "respond", request[r].content, request[r].status, request[r].failed)
  <2>1. HasRow(r)'
    <3>1. RowFor(t, r) \in http_request' /\ RowFor(t, r).req = r /\ RowFor(t, r).test = t
      BY <1>9 DEF InsertHTTPRequest, RowFor
    <3> QED BY <1>8, <3>1 DEF HasRow, RequestRows
  <2>2. RowBeforeResponse(r)' /\ NewHasNoRow(r)' /\ LiveIsServed(r)'
    BY <1>9, <2>1 DEF Moves, RowBeforeResponse, NewHasNoRow, LiveIsServed
  <2>3. ServedBelongsToTest(r)' /\ LateIsTurnedAway(r)'
    BY <1>1, <1>2, <1>9
       DEF Moves, RequestInv, ServedBelongsToTest, RequestInFlight, LateIsTurnedAway
  <2> QED BY <1>4, <1>7, <1>8, <2>2, <2>3 DEF RequestInv
<1>10. CASE Fails(r)
  <2>1. PICK end \in {500, NULL} : Moves(r, "done", request[r].content, end, TRUE)
    BY <1>10 DEF Fails
  <2>2. Stage(t)' = Stage(t) /\ end # 200
    BY <1>5, <1>8, DatabaseAssumption
  <2>3. /\ ServedBelongsToTest(r)' /\ NewHasNoRow(r)' /\ LateIsTurnedAway(r)'
        /\ RowBeforeResponse(r)' /\ LiveIsServed(r)'
    BY <1>1, <1>2, <1>8, <2>1, <2>2, Ending DEF Moves
  <2> QED BY <1>4, <1>7, <1>8, <2>3 DEF RequestInv
<1> QED BY <1>9, <1>10, RecordMoves DEF HTTPInv

(* The response is sent for a request that has its row. *)
LEMMA RespondKeeps ==
  ASSUME HTTPInv, NEW r \in HTTPRequests, Respond(r)
  PROVE  HTTPTypeOK' /\ \A p \in HTTPRequests : RequestInv(p)'
<1>1. /\ HTTPTypeOK /\ RequestInv(r) /\ request[r].pc = "respond" /\ UNCHANGED dbVars
      /\ request' \in [HTTPRequests -> Request]
      /\ Moves(r, "done", request[r].content, 200, request[r].failed)
  BY RespondMoves DEF HTTPInv
<1>2. /\ HTTPTypeOK' /\ \A p \in HTTPRequests \ {r} : RequestInv(p)'
      /\ TestStays(r)' /\ HasRow(r)' = HasRow(r)
  BY <1>1, ReadingStep
<1>3. HasRow(r) /\ request[r].arrived # "stopped"
  BY <1>1 DEF RequestInv, RowBeforeResponse, LateIsTurnedAway
<1>4. /\ ServedBelongsToTest(r)' /\ NewHasNoRow(r)' /\ LateIsTurnedAway(r)'
      /\ RowBeforeResponse(r)' /\ LiveIsServed(r)'
  BY <1>1, <1>2, <1>3
     DEF Moves, ServedBelongsToTest, RequestInFlight, NewHasNoRow, LateIsTurnedAway,
         RowBeforeResponse, LiveIsServed
<1> QED BY <1>2, <1>4 DEF RequestInv

(* A cancellation or a crash touches no row and no response. *)
LEMMA InterruptionKeeps ==
  ASSUME HTTPInv, \/ \E r \in HTTPRequests : Cancel(r)
                  \/ HTTPCrash /\ UNCHANGED dbVars
  PROVE  HTTPTypeOK' /\ \A p \in HTTPRequests : RequestInv(p)'
<1>1. /\ request' \in [HTTPRequests -> Request]
      /\ \A p \in HTTPRequests : Keeps(p)
      /\ UNCHANGED dbVars
  <2>1. ASSUME NEW r \in HTTPRequests, Cancel(r)
        PROVE  /\ request' \in [HTTPRequests -> Request]
               /\ \A p \in HTTPRequests : Keeps(p)
    <3> DEFINE cancel(b) == [request EXCEPT ![r].cancelled = b]
    <3>1. \A b \in BOOLEAN : cancel(b) \in [HTTPRequests -> Request]
      BY DEF HTTPInv, HTTPTypeOK, Request
    <3>2. request' = cancel(TRUE)
      BY <2>1 DEF Cancel
    <3>3. \A p \in HTTPRequests : Keeps(p)
      BY <3>2 DEF HTTPInv, HTTPTypeOK, Request, Keeps
    <3> HIDE DEF cancel
    <3> QED BY <3>1, <3>2, <3>3
  <2>2. ASSUME HTTPCrash
        PROVE  /\ request' \in [HTTPRequests -> Request]
               /\ \A p \in HTTPRequests : Keeps(p)
    <3> USE DEF HTTPInv, HTTPTypeOK, Request, RequestLocations
    <3>1. request' \in [HTTPRequests -> Request]
      BY <2>2 DEF HTTPCrash
    <3>2. \A p \in HTTPRequests : Keeps(p)
      BY <2>2 DEF HTTPCrash, Keeps
    <3> QED BY <3>1, <3>2
  <2> QED BY <2>1, <2>2 DEF Cancel
<1>2. HTTPTypeOK'
  BY <1>1 DEF HTTPInv, HTTPTypeOK, DBTypeOK, dbVars
<1>3. StopsAreFinal /\ \A p : RequestRows(p)' = RequestRows(p)
  BY <1>1, TestUnchanged DEF dbVars, RequestRows
<1> QED BY <1>1, <1>2, <1>3, Undisturbed DEF HTTPInv

(* The statements of other goroutines touch no row of a request.           *)
LEMMA EnvironmentKeeps ==
  ASSUME HTTPInv, OtherStatements, UNCHANGED request
  PROVE  HTTPTypeOK' /\ \A p \in HTTPRequests : RequestInv(p)'
<1>1. DBTypeOK' /\ StopsAreFinal /\ UNCHANGED http_request
  BY EnvironmentStep DEF HTTPInv, HTTPTypeOK
<1>2. HTTPTypeOK'
  BY <1>1 DEF HTTPInv, HTTPTypeOK
<1> QED BY <1>1, <1>2, Undisturbed DEF HTTPInv, Keeps, RequestRows

(* Every step keeps the invariant. *)
LEMMA InvStep ==
  ASSUME HTTPInv, [HTTPServerNext]_httpVars
  PROVE  HTTPInv'
<1>1. ASSUME NEW r \in HTTPRequests, serveHTTP(r)
      PROVE  HTTPInv'
  BY <1>1, ArrivalKeeps DEF HTTPInv
<1>2. ASSUME NEW r \in HTTPRequests, CheckRequest(r)
      PROVE  HTTPInv'
  BY <1>2, CheckKeeps DEF HTTPInv
<1>3. ASSUME NEW r \in HTTPRequests, LookupFile(r)
      PROVE  HTTPInv'
  BY <1>3, LookupKeeps DEF HTTPInv
<1>4. ASSUME NEW r \in HTTPRequests, recordHTTPRequest(r)
      PROVE  HTTPInv'
  BY <1>4, RecordKeeps DEF HTTPInv
<1>5. ASSUME NEW r \in HTTPRequests, Respond(r)
      PROVE  HTTPInv'
  BY <1>5, RespondKeeps DEF HTTPInv
<1>6. CASE (\E r \in HTTPRequests : Cancel(r)) \/ (HTTPCrash /\ UNCHANGED dbVars)
  BY <1>6, InterruptionKeeps DEF HTTPInv
<1>7. CASE OtherStatements /\ UNCHANGED request
  BY <1>7, EnvironmentKeeps DEF HTTPInv
<1>8. CASE UNCHANGED httpVars
  <2>1. HTTPTypeOK' /\ StopsAreFinal /\ \A p : RequestRows(p)' = RequestRows(p)
    BY <1>8, TestUnchanged
       DEF httpVars, dbVars, HTTPInv, HTTPTypeOK, DBTypeOK, RequestRows
  <2>2. \A p \in HTTPRequests : Keeps(p)
    BY <1>8 DEF httpVars, Keeps
  <2> QED BY <2>1, <2>2, Undisturbed DEF HTTPInv
<1> QED BY <1>1, <1>2, <1>3, <1>4, <1>5, <1>6, <1>7, <1>8
        DEF HTTPServerNext, HTTPNext, ServeRequest

(* The inductive invariant holds of every behaviour. *)
LEMMA InvHolds == HTTPServerSpec => []HTTPInv
<1>1. HTTPServerInit => HTTPInv
  <2>1. HTTPServerInit => DBTypeOK /\ http_request = {} /\ HTTPInit
    BY EmptyDatabase DEF HTTPServerInit, DBInit
  <2> QED BY <2>1, InvInit
<1>2. HTTPInv /\ [HTTPServerNext]_httpVars => HTTPInv'
  BY InvStep
<1> QED BY <1>1, <1>2, PTL DEF HTTPServerSpec

-----------------------------------------------------------------------------
(* The theorems.                                                           *)

(* The tables and the goroutines of the requests are always well typed.    *)
THEOREM HTTPTypeCorrect == HTTPServerSpec => []HTTPTypeOK
<1>1. HTTPInv => HTTPTypeOK
  BY DEF HTTPInv
<1> QED BY InvHolds, <1>1, PTL

(* What the program answered with status 200 (http.go:136) is in the       *)
(* results of its test, whatever is cancelled or fails, and whenever the   *)
(* process dies.  Of the empty 200 that net/http sends after a cancelled   *)
(* statement it says nothing.                                              *)
THEOREM ServedIsRecordedHolds == HTTPServerSpec => []ServedIsRecorded
<1>1. HTTPInv => ServedIsRecorded
  BY DEF HTTPInv, RequestInv, RowBeforeResponse, HasRow, ServedIsRecorded
<1> QED BY InvHolds, <1>1, PTL

(* A request that arrives after its test was stopped leaves no row, is     *)
(* served no file, and gets no status 200 from the program.                *)
THEOREM NoLateRequestHolds == HTTPServerSpec => []NoLateRequest
<1>1. HTTPInv => NoLateRequest
  BY DEF HTTPInv, RequestInv, LateIsTurnedAway, NoLateRequest
<1> QED BY InvHolds, <1>1, PTL

(* A request from an IP address for a name that serveHTTP takes for a      *)
(* test's (http.go:90) is served if the test runs from its arrival to its  *)
(* end, unless a statement fails.                                          *)
THEOREM LiveRequestServedHolds == HTTPServerSpec => []LiveRequestServed
<1>1. HTTPInv => LiveRequestServed
  BY DEF HTTPInv, RequestInv, LiveIsServed, LiveRequestServed
<1> QED BY InvHolds, <1>1, PTL

-----------------------------------------------------------------------------
(* What the server promises to the log of a test, for the composition with *)
(* the other servers and the dashboard (SystemProofs).                     *)

(* The request was found to belong to a running test. *)
IsAdmitted(r) == request[r].pc \in {"lookup", "record"}

(* A step of the goroutine of r admits it to its test, if that is running, *)
(* leaves its row there, or does nothing that matters to the test.         *)
ServesTest(r) ==
  /\ \A p \in HTTPRequests \ {r} : request'[p] = request[p]
  /\ UNCHANGED <<clock, test, dns_record, http_file, dns_request, smtp_request>>
  /\ \/ /\ UNCHANGED http_request
        /\ IsAdmitted(r)' => IsAdmitted(r) /\ HostTest(r)' = HostTest(r)
     \/ /\ UNCHANGED http_request /\ HostTest(r)' = HostTest(r)
        /\ HostTest(r) \in TestIDs /\ isRunningTest(HostTest(r)) /\ ~IsAdmitted(r)
        /\ IsAdmitted(r)'
        /\ \A row \in http_request : row.req # r
     \/ /\ IsAdmitted(r) /\ ~IsAdmitted(r)'
        /\ HostTest(r) \in TestIDs /\ InsertHTTPRequest(HostTest(r), r)

(* Status 200 is the end of a request. *)
NotServedYet(r) ==
  request[r].pc \in {"idle", "check", "lookup", "record", "respond"} =>
    request[r].status # 200

ServerInv == HTTPInv /\ \A r \in HTTPRequests : NotServedYet(r)

(* So a request that was served takes no step any more. *)
LEMMA ServedIsDone ==
  ASSUME ServerInv, NEW r \in HTTPRequests, serveHTTP(r) \/ ServeRequest(r) \/ Cancel(r)
  PROVE  request[r].status # 200 /\ \A p \in HTTPRequests : NotServedYet(p)'
<1>1. HTTPTypeOK /\ \A p \in HTTPRequests : NotServedYet(p)
  BY DEF ServerInv, HTTPInv
<1>2. request[r].pc \in {"idle", "check", "lookup", "record", "respond"}
  BY DEF serveHTTP, RefuseHandshake, Received, ToDashboard, RejectHost, RejectSource,
         AdmitRequest, ServeRequest, CheckRequest, LookupFile, recordHTTPRequest, Respond,
         Cancel, RequestInFlight
<1>3. request[r].status # 200
  BY <1>1, <1>2 DEF NotServedYet
<1>4. ASSUME NEW pc, NEW content, NEW status, NEW failed, Moves(r, pc, content, status, failed),
             pc = "done" \/ status = request[r].status
      PROVE  \A p \in HTTPRequests : NotServedYet(p)'
  BY <1>1, <1>3, <1>4 DEF Moves, NotServedYet
<1>5. Fails(r) => \A p \in HTTPRequests : NotServedYet(p)'
  BY <1>4 DEF Fails
<1>6. CASE serveHTTP(r)
  <2>1. PICK host \in Hostname, scheme \in Schemes, path \in Paths,
             pc \in {"check", "dashboard", "done"}, status \in {400, 404, NULL} :
          Arrives(r, host, scheme, path, pc, status)
    BY <1>6, ArrivalStep
  <2>2. /\ request'[r].status = status
        /\ \A p \in HTTPRequests \ {r} : request'[p] = request[p]
    BY <1>1, <2>1 DEF Arrives, RequestArrival, HTTPTypeOK
  <2>3. status # 200
    BY DatabaseAssumption
  <2> QED BY <1>1, <1>3, <2>2, <2>3 DEF NotServedYet
<1>7. CASE CheckRequest(r)
  BY <1>1, <1>3, <1>4, <1>5, <1>7, CheckMoves
<1>8. CASE LookupFile(r)
  BY <1>1, <1>3, <1>4, <1>5, <1>8, LookupMoves
<1>9. CASE recordHTTPRequest(r)
  BY <1>1, <1>3, <1>4, <1>5, <1>9, RecordMoves
<1>10. CASE Respond(r)
  BY <1>1, <1>3, <1>4, <1>10, RespondMoves
<1>11. CASE Cancel(r)
  <2>1. /\ \A p \in HTTPRequests \ {r} : request'[p] = request[p]
        /\ request'[r].status = request[r].status
    BY <1>1, <1>11 DEF Cancel, HTTPTypeOK, Request
  <2> QED BY <1>1, <1>3, <2>1 DEF NotServedYet
<1> QED BY <1>3, <1>6, <1>7, <1>8, <1>9, <1>10, <1>11 DEF ServeRequest

(* That is all that the server does for a request, and it keeps the        *)
(* invariant.                                                              *)
LEMMA ServerStep ==
  ASSUME ServerInv, NEW r \in HTTPRequests, serveHTTP(r) \/ ServeRequest(r) \/ Cancel(r)
  PROVE  ServerInv' /\ ServesTest(r) /\ request[r].status # 200
<1> USE DEF ServerInv
<1>1. ServerInv' /\ HTTPInv /\ request[r].status # 200
  BY InvStep, ServedIsDone DEF HTTPServerNext, HTTPNext
<1>2. /\ HTTPTypeOK /\ request \in [HTTPRequests -> Request] /\ RequestInv(r)
      /\ RequestInFlight(r) => HostTest(r) \in TestIDs
  BY HostTestType
     DEF HTTPInv, HTTPTypeOK, RequestInv, ServedBelongsToTest, IsTestHost, HostTarget
<1> USE DEF IsAdmitted, ServesTest
<1>3. UNCHANGED dbVars =>
        UNCHANGED <<clock, test, dns_record, http_file, dns_request, http_request, smtp_request>>
  BY DEF dbVars
<1>4. CASE serveHTTP(r)
  <2>1. PICK host \in Hostname, scheme \in Schemes, path \in Paths,
             pc \in {"check", "dashboard", "done"}, status \in {400, 404, NULL} :
          Arrives(r, host, scheme, path, pc, status) /\ UNCHANGED dbVars
    BY <1>4, ArrivalStep
  <2>2. /\ request'[r].pc = pc
        /\ \A p \in HTTPRequests \ {r} : request'[p] = request[p]
    BY <1>2, <2>1 DEF Arrives, RequestArrival
  <2> QED BY <1>1, <1>3, <2>1, <2>2
<1>5. ASSUME NEW pc, NEW content, NEW status, NEW failed, Moves(r, pc, content, status, failed)
      PROVE  /\ \A p \in HTTPRequests \ {r} : request'[p] = request[p]
             /\ request'[r].pc = pc /\ HostTest(r)' = HostTest(r)
  BY <1>5 DEF Moves, HostTest, HostTarget
<1>6. Fails(r) => /\ \A p \in HTTPRequests \ {r} : request'[p] = request[p]
                  /\ request'[r].pc = "done" /\ HostTest(r)' = HostTest(r)
  BY <1>5 DEF Fails, Moves, HostTest, HostTarget
<1>7. CASE CheckRequest(r)
  <2>1. /\ request[r].pc = "check" /\ UNCHANGED dbVars
        /\ \A p \in HTTPRequests \ {r} : request'[p] = request[p]
        /\ HostTest(r)' = HostTest(r)
        /\ \/ request'[r].pc = "lookup" /\ isRunningTest(HostTest(r))
           \/ request'[r].pc = "done"
    BY <1>2, <1>5, <1>6, <1>7, CheckMoves
  <2>2. HostTest(r) \in TestIDs /\ \A row \in http_request : row.req # r
    BY <1>2, <2>1 DEF RequestInFlight, RequestInv, NewHasNoRow, RequestRows
  <2> QED BY <1>1, <1>3, <2>1, <2>2
<1>8. CASE LookupFile(r)
  <2>1. /\ request[r].pc = "lookup" /\ UNCHANGED dbVars
        /\ \A p \in HTTPRequests \ {r} : request'[p] = request[p]
        /\ HostTest(r)' = HostTest(r)
    BY <1>2, <1>5, <1>6, <1>8, LookupMoves
  <2> QED BY <1>1, <1>3, <2>1
<1>9. CASE recordHTTPRequest(r)
  <2>1. /\ request[r].pc = "record"
        /\ InsertHTTPRequest(HostTest(r), r) \/ UNCHANGED dbVars
        /\ \A p \in HTTPRequests \ {r} : request'[p] = request[p]
        /\ request'[r].pc \in {"respond", "done"}
    BY <1>2, <1>5, <1>6, <1>9, RecordMoves
  <2>2. HostTest(r) \in TestIDs
    BY <1>2, <2>1 DEF RequestInFlight
  <2>3. InsertHTTPRequest(HostTest(r), r) =>
          UNCHANGED <<clock, test, dns_record, http_file, dns_request, smtp_request>>
    BY DEF InsertHTTPRequest
  <2> QED BY <1>1, <1>3, <2>1, <2>2, <2>3
<1>10. CASE Respond(r)
  <2>1. /\ request[r].pc = "respond" /\ UNCHANGED dbVars
        /\ \A p \in HTTPRequests \ {r} : request'[p] = request[p]
        /\ request'[r].pc = "done"
    BY <1>2, <1>5, <1>10, RespondMoves
  <2> QED BY <1>1, <1>3, <2>1
<1>11. CASE Cancel(r)
  <2>1. /\ request' = [request EXCEPT ![r].cancelled = TRUE] /\ UNCHANGED dbVars
    BY <1>11 DEF Cancel
  <2>2. /\ \A p \in HTTPRequests \ {r} : request'[p] = request[p]
        /\ request'[r].pc = request[r].pc /\ request'[r].host = request[r].host
    BY <1>2, <2>1 DEF Request
  <2>3. HostTest(r)' = HostTest(r)
    BY <2>2 DEF HostTest, HostTarget
  <2> QED BY <1>1, <1>3, <2>1, <2>2, <2>3
<1> QED BY <1>4, <1>7, <1>8, <1>9, <1>10, <1>11 DEF ServeRequest

(* Others leave the goroutines and the rows of the requests alone, and     *)
(* start no stopped test again.                                            *)
LEMMA OthersKeep ==
  ASSUME ServerInv, DBTypeOK', StopsAreFinal, UNCHANGED <<request, http_request>>
  PROVE  ServerInv'
<1>1. HTTPTypeOK'
  BY DEF ServerInv, HTTPInv, HTTPTypeOK
<1>2. HTTPInv'
  BY <1>1, Undisturbed DEF ServerInv, HTTPInv, Keeps, RequestRows
<1> QED BY <1>2 DEF ServerInv, NotServedYet

(* A crash admits nobody, and takes no response back. *)
LEMMA CrashKeeps ==
  ASSUME ServerInv, HTTPCrash, UNCHANGED dbVars
  PROVE  /\ ServerInv'
         /\ \A r \in HTTPRequests :
              /\ IsAdmitted(r)' => IsAdmitted(r) /\ HostTest(r)' = HostTest(r)
              /\ request[r].status = 200 => request'[r] = request[r]
<1>1. HTTPInv'
  BY InterruptionKeeps DEF ServerInv, HTTPInv
<1>2. request \in [HTTPRequests -> Request]
  BY DEF ServerInv, HTTPInv, HTTPTypeOK
<1>3. ASSUME NEW r \in HTTPRequests
      PROVE  /\ IsAdmitted(r)' => IsAdmitted(r) /\ HostTest(r)' = HostTest(r)
             /\ request[r].status = 200 => request'[r] = request[r]
             /\ NotServedYet(r)'
  BY <1>2 DEF HTTPCrash, IsAdmitted, HostTest, HostTarget, Request, RequestInFlight,
              ServerInv, NotServedYet
<1> QED BY <1>1, <1>3 DEF ServerInv

(* At first nothing was served. *)
LEMMA ServerBegins ==
  ASSUME DBTypeOK, http_request = {}, HTTPInit
  PROVE  ServerInv
<1>1. \A r \in HTTPRequests : request[r].status # 200
  BY DatabaseAssumption DEF HTTPInit, NoRequest
<1> QED BY <1>1, InvInit DEF ServerInv, NotServedYet

(* What was served is in the results of its test. *)
LEMMA ServedHasRow ==
  ASSUME ServerInv, NEW r \in HTTPRequests, request[r].status = 200
  PROVE  \E row \in http_request : row.req = r /\ row.test = HostTest(r)
  BY DEF ServerInv, HTTPInv, RequestInv, RowBeforeResponse, HasRow, RequestRows

=============================================================================
