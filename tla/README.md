# A TLA+ model of dcv-inspector

dcv-inspector lets its users watch how certificate authorities validate the
control of a domain.  A user starts a *test*, which owns the subdomain
`<id>.test.<domain>`; the program answers DNS queries, HTTP(S) requests and mail
for it, publishes the DNS records and HTTP files that the user asks for, records
everything that arrives, and shows it on a results page.  A test ends when a user
stops it, or after six hours.

The modules here model the Go code (and the one script) of the repository.  Paths
such as `dns.go:97` are relative to the source tree.

## 1. The parts of the system

All servers are goroutines of one process.  They share one SQLite database and
nothing else: there is no in-memory state between requests, except the tables of
address data and the certificate.  The program opens no transaction of its own, so
the *statement* is the unit of atomicity, and every handler is a sequence of
statements with anything in between.

| Part | State | Operations | What is hard | What makes it correct |
|---|---|---|---|---|
| Host names, `test_id.go` | none | `parseHostname`, `makeHostname`, `parseTestID`, `generateTestID` | upper case, trailing dots, underscores, names of the wrong depth | a name made for a test is parsed as that test |
| Database, `schema/*.sql` and the statements of all files | seven tables | insert and stop a test; insert and delete records and files; insert requests | ids of deleted rows are used again; text comparison of times | one end per test; deletions stay within a test; places are unique |
| DNS server, `dns.go` | the locals of a query's goroutine | check the test, look records up, record the query, reply | the test stops between two statements; any statement fails and the code goes on; CNAMEs | queries of running tests are recorded, queries after the stop neither recorded nor answered; a CNAME is alone |
| HTTP servers, `http.go` | the locals of a request's goroutine | route by host, check the test, read the file, record, respond | the same window; a cancelled context fails a statement, and net/http answers in its place | what the program serves is recorded, what comes too late is neither |
| SMTP server, `smtp.go` | the session: recipients' tests | RCPT, DATA, RSET, and one record for each test of a message | sessions carry several messages; several recipients; one test's failure in the middle | each message once for each of its own running tests |
| Dashboard, `dashboard.go` | the page loaded by six statements | start, view, stop, add and delete | edits act on a page that is old by then; the page is no snapshot | no edit after the stop; a stopped test's page is complete |
| Periodic cleanup, `main.go` | ticker, loop | stop old tests | dropped ticks, failures, restarts, time zones | tests are stopped, and not much after their time |
| Certificate search, `ctsearch.go`, `assets/ctsearch.js` | the table in the browser, the cursor | fetch page after page | certificates are logged and expire meanwhile; fetches fail; a second click | complete, nothing twice, every page a step to the end |
| Address data, `bgp.go`, `dtp.go`, `cidr.go` | tables under a mutex | three refresh loops, lookups | downloads fail half way; two loops feed one lookup | whole and consistent tables, never forgotten, fresh |
| Form validation, `dashboard.go` | none | `validateCAATag`, `normalizeAndValidateCNAMETarget`, `decodePostedDNSRecord` | limits; upper case and trailing dots of targets | what is checked is what is stored and answered |
| Certificates, `cert.go` | the key, its `sync.Once` | sign with a key that is generated once | many handshakes wait for one generation; a failure is final | all handshakes of a process end, and end alike |
| Startup, UDP sockets, `main.go`, `udp.go` | listeners, sockets, `redirectDashboardToHTTPS` | open everything, start the servers one by one | errors at every step; address families; servers that work before others are started | a whole service or none; nobody is redirected to nowhere |
| Migrations, templates, assets | | | | |

The interactions: the dashboard writes `test`, `dns_record` and `http_file`, which
the three servers read; the servers write the request tables, which the dashboard
reads; the cleanup writes `test`; the DNS answers send clients to the HTTP and SMTP
servers; the results page asks the address data and, through the script, the
certificate search.  PROJECT.json lists every hazard met while reading, at its line.

## 2. The modules

    Hostnames --- Database --+-- DNSServer ------- MCDNSServer
                             +-- HTTPServer ------ MCHTTPServer
                             +-- SMTPServer ------ MCSMTPServer
                             +-- Forms --+-- Dashboard -- MCDashboard
                             |           +-- System ----- MCSystem
                             +-- Cleanup --------- MCCleanup
    SelfSigned --- Startup --- MCStartup
    CTSearch --- MCCTSearch        IPData --- MCIPData

  A line is EXTENDS.  Besides, System has INSTANCEs of the three servers, of the
  dashboard and of TestLog, the abstract specification.  The theorems are in modules of
  their own:

    Database --- DatabaseProofs --+-- DNSServerProofs, HTTPServerProofs,
                                  |   SMTPServerProofs, DashboardProofs, CleanupProofs
                                  +-- SystemProofs (System)
    Startup, IPData, CTSearch --- PeripheryProofs

  Each of the first row EXTENDS its component, too; SystemProofs has INSTANCEs of
  the proofs about its components.

* **Hostnames**: a host name is a sequence of labels and a flag for the trailing
  dot; a label is a word and a flag for upper case.  The apex is the two labels
  `test` and `domain`.
* **Database**: the tables as variables, each SQL statement that changes one as an
  action.  `test` maps every possible ID to its times; a test that was never started
  has NULL for both.  A request row names the request it was made from, so that
  properties can relate the two, and has one history field, `live`.
  `OtherStatements` is the most general environment: any statement by which another
  goroutine changes what the servers read, at any time.
* **DNSServer**, **HTTPServer**, **SMTPServer**: a record of locals with a `pc` for
  every query, request or session.  There is one action for the part before the first
  statement (split by its early returns: `Refuse`, `AnswerApex`, `DenyName`,
  `AdmitQuery`), one for every statement, with a disjunct for its success and one
  for its failure, and one for the reply.  A crash loses what is in flight and
  leaves the tables.  The fields `arrived` and `failed` are history.  An HTTP request may
  be *cancelled* at any moment (`Cancel`): its context ends when the client closes its half
  of the connection, or when `ReadTimeout` (`http.go:141`) is over, for example while a
  statement waits for the lock.  A statement that then fails ends the handler without a
  response (`http.go:96`), and net/http answers for it with an empty 200.  `Fail` keeps
  the two apart: `status` is what the program writes, and `implicit` says that net/http
  has answered.
* **Forms**: what may be posted, and the checks of every field.  A text is its
  identity and its length, a CNAME target is a host name.
* **Dashboard**: a session is one request, to any path; `loadTestDashboard` is one action for each
  of the six statements, in the order of `LoadOrder`; what the session does then is
  decided by the page, not by the database, as in `serveTest`.
* **Cleanup**: `cleanupTestsPeriodically` with a ticker whose channel holds one
  tick.  `Expired` compares texts as SQLite does: `started_at` is in UTC, the cutoff
  a local time with its offset appended, so a server outside UTC ends tests earlier
  or later by its offset (see `ZoneOffset`).
* **TestLog** and **System**: see section 3.
* **SelfSigned**: a handshake is one call of `getSelfSignedCert`.  `sync.Once` is modelled by
  what it promises: one caller runs the function, the others wait until it returned.
  The key is known by who generated it.
* **Startup**: `pc` is the place of `main`; each step succeeds or ends the process
  (`Exit`).  A UDP socket is the set of endpoints it occupies, one of each family on the
  network `udp`, so that conflicts are intersections.  `Spawn` starts one
  goroutine at a time, and whatever runs already is asked meanwhile: handshakes (it
  EXTENDS SelfSigned) and visits of the dashboard.
* **CTSearch**: what the script does between two awaits is one step; the API
  answers with the first `PageSize` certificates after the cursor: a relation between
  page and cursor (`IsPageAfter`), so that it can be reasoned about.
* **IPData**: a table is represented by the version of the feed it was made from;
  the mutexes, the two assignments of `refreshPrefixes` and the two reads of a
  lookup are separate steps.  `prefixes`, `names` and `google` have the
  same loop, the first two under one mutex.

Operators named as bugs (`...Returning`, `...Unchecked` and so on) belong to no
specification: each is a plausible error in the definition that follows it, and
PROJECT.json says which property notices it.

## 3. The runs

| Run | Question | Bounds |
|---|---|---|
| `dns_server` | is a query recorded and answered as its test's life demands? | one query, one test, the five kinds of names, four types, two classes, two records |
| `dns_refused` | README.md:5, all DNS queries are recorded (violated) | as `dns_server` |
| `http_server` | is what is served recorded, and nothing else? | one request, one test, three files, with and without TLS |
| `http_underscored` | README.md:5, all HTTP requests are recorded (violated) | as `http_server` |
| `smtp_server` | is each message recorded once for each of its tests? | one session of two messages, two recipients each, two tests |
| `smtp_shouted` | README.md:5, for mail to an upper case domain (violated) | as `smtp_server` |
| `dashboard` | edits on an old page, with ids of rows that belong to another test or are used again; the paths without state | one session, two tests, one row in each table, with the redirect to HTTPS |
| `system` | do the parts together keep the promise of TestLog, and each other's word? | one test, crews of two or three actors, two rows, two moments |
| `startup` | a whole service or none? does everybody get an answer? | six configurations, one other program, two handshakes, one visitor, two starts |
| `cleanup` | are tests stopped, and soon after their time? | two tests, lifetime 3, period 2, zone offset 1, clock to 10, two failures, one crash |
| `ctsearch` | is the search complete, free of repetitions, and does it get on? | five certificates, pages of two, two clicks |
| `ip_data` | is the address data consistent and fresh? | three feeds, one lookup at a time, failures and versions by feed |

**Why one query, request or session is enough.**  A handler shares nothing with
another of its kind but the database.  Its environment, `OtherStatements`, may execute every
statement that changes what it reads, at any moment and any number of times within
the bounds on rows, so it includes what further handlers, users and the cleanup
would do.  The proofs of section 5 drop this bound, and all the others.
In `system` there is no such environment: the actors are each other's.  A `Scene`
names those that act in one behaviour, in every order and with every failure and
crash: a user with a query, a request, a mail connection, or another user; and a
query, a request and a connection together.  In the first of these scenes a record
may have been published before, so that there are two records of one name.

**The other bounds.**  `MaxRows` bounds row ids: one row reaches the reuse of an id
and a place that is taken, two reach a CNAME beside another record.  `MaxClock` bounds
the clock; it is 0 where no property speaks of time.  In `system` there are two moments, and
the scene of two users begins at the first, so that a second stop may come later than
the first one; the other scenes begin at the second.  In `Cleanup` no test starts so
late that it is not old before the clock stops (a guard of `UserStartsOrStops`), for
else `EventuallyStopped` would be refuted by the bound.  `MaxFailures` and `MaxCrashes`
bound what else would be repeated for ever: a cleanup that always fails stops
nothing, and a feed that always fails brings no news.  In `IPData` the failures are
counted from the last success, so there may be any number in all.  `MaxVersion` and
`MaxIssuances` bound the world's news; five certificates give two full pages and a
part of one.  With `MaxIssuances` no behaviour of the run logs certificates for ever, which
in truth would keep the script busy for ever: `SearchEnds` therefore says that the search ends
*or* certificates never cease, and `SearchAdvances`, which needs no bound and is
proved for every value of it, says what each request is worth.  `MaxRecipients` is the number that makes both orders of two tests,
and a repeated one, possible.  The configurations of `startup` are one with everything
and the sockets `0.0.0.0` and `::` on one port, one without HTTPS, and one for each way
in which a UDP socket may fail; two starts show what a new process inherits (nothing).
In `ip_data` the feeds have different intervals, so that their downloads overlap in
every way.

**Deadlock.**  The runs do not check it: a handler that has replied stops.  That none stops
before is said by `MailAnswered`, `HandshakeEnds`, `SearchEnds` and `NewsArrives` for the
parts that loop or wait.  The handlers of queries, requests and sessions are straight
lines of statements, for which it would say no more than their fairness.

**Fairness.**  Weak fairness on the steps of a goroutine that has work to do: the Go
runtime schedules every goroutine, and a statement ends, with an error at the
latest after the busy timeout.  Nothing is assumed of users, clients, crashes
or restarts, but that a browser follows a redirect (`startup`).  In `Cleanup` and `IPData`
time passes.  `IPData` has strong fairness
for taking the mutex, as `sync.Mutex` hands itself over to a waiter that starves;
`SelfSigned` needs weak fairness only, as a `sync.Once` that is done stays done.
In `CTSearch` a request ends, as the server bounds each by 15 seconds
(`http.go:142`).

### The abstract specification

`TestLog` knows tests, actors and the time.  A test is started, runs and is stopped, once each,
and the time of its stop is noted for good; an actor is *admitted* while the test runs, and may then, also after the stop, leave one
entry in its log, or make one change to what it publishes, or leave without a trace.
Nobody else can, and nothing is ever removed from a log.  `ImplementsTestLog` says that
`System` implements it under this mapping:

| TestLog | System |
|---|---|
| `stage` | the columns `started_at` and `stopped_at` |
| `now`, `ended` | the clock, and `stopped_at` itself |
| `log` | the rows of the three request tables, by the request they were made from |
| `site` | the rows of `dns_record` and `http_file` |
| `inside` | queries and requests past their check, mail connections at their insertion, and sessions whose page says that the test runs |

So the check of a server, and the first statement of a page's load, are `Admit`; the
insertions are `Enter`; the edits are `Change` (a stop by a user is one, the cleanup is
`End`); errors and crashes are `Leave`; all other steps stutter.  A check that is
forgotten, a stop that is undone or noted a second time, a row that is deleted or entered by two steps, or an
edit decided by anything but the page would be a step that TestLog does not have.

### What the properties say

* *The window between check and insertion.*  The three servers check that the test
  runs and insert the row later, and the insertion does not look at the test.
  `NoLateQuery`, `NoLateRequest`, `NoLateMail`: what arrives after the stop is never
  recorded.  `LiveQueryRecorded`, `LiveRequestServed`, `LiveMailRecorded`: what
  arrives and ends while the test runs is recorded, unless its own statement fails (for a
  request: from an IP address, and to a name that does not begin with an underscore).
  Something that arrives before the stop may be recorded after it.
* *Answers.*  `NoLateAnswer`: a stop withdraws all records.  `CNAMEAlone`.
  `AddressSurvivesFaults`: a name keeps its addresses while the database fails.
  `ServedIsRecorded`: the program writes no 200 for a test without a row, whatever is
  cancelled.  It is about the 200s that the program writes, and so is `ServedIsShown`.  The
  empty 200 of net/http after a cancellation may reach a client that still waits, with no
  row, or although the test was stopped; `NoLateRequest` says what is true of that too: no row
  and no published file after the stop.
* *Mail.*  `RecordedForRecipients`: nothing leaks from one message of a session to the
  next.  `RecordedOnce`: nothing twice.
* *Dashboard.*  `NoLateEdit`, `OnlyOwnRows`, `AddedFileIsServed`.
* *The whole.*  `ImplementsTestLog`; and what one part says, the others keep:
  `ServedIsShown` (a 200 that the program wrote is followed by a row on the page), `PublishedIsAnswered` (a
  redirect after an edit is followed by the record in the answers), `CNAMEsLeadToCAs` (what
  the form checks is what the DNS server answers), and `ResultsPageComplete`, which holds
  because the table `test` is read first (its mutant reads it last).
* *Startup.*  `NoHalfService`, `NoSpuriousConflict` (`0.0.0.0` and `::` are two sockets),
  `RedirectLeadsSomewhere`, and for the certificates `HandshakesAgree` (nobody is refused
  because he came during the key generation) and `HandshakeEnds`.
* *Cleanup.*  `NoOverdueTest`, `EventuallyStopped`.  The lifetime they speak of is the one that
  the comparison makes: six hours only on a server in UTC, less in the east, and nothing six
  zones east, where a test is stopped by the next cleanup.  That a test is not stopped too early
  would be the guard of `Expired` once more, and is no property.
* *Search.*  `NoRowTwice`, `SearchComplete`, `SearchAdvances`, `SearchEnds`; and `EndIsVisible`, for a
  run that returns.  A run that breaks (`BodyCut`) shows nothing but "Searching...".
* *Address data.*  `LookupIsSnapshot`, `FamiliesAgree`, `NeverForgets`, `FreshEnough`,
  `NewsArrives`.  A download succeeds or fails as a whole; what they say is about what is
  done with the result.

## 4. What was found

* `dns_refused`: README.md:5 says that all DNS queries to a test's subdomain are
  recorded; zone transfers, and queries of another class than IN, are refused before
  anything is recorded (`dns.go:43`).
* `http_underscored`: README.md:5, and templates/home.html:46, say that all HTTP requests to
  the subdomain and its descendants are recorded; a request for a name that begins with an
  underscore is answered 404 by `serveHTTP`, before anything is recorded (`http.go:90`).
* `smtp_shouted`: README.md:5 says that emails are recorded; a recipient whose
  domain is spelt in upper case is refused, since `smtp.go:142`, unlike `dns.go:49` and
  `http.go:76`, does not lower the name before `parseHostname`.

Behaviour that a reader should know, and about which we found nothing in the documents
of the repository: a client that waits for a request whose context was cancelled reads an empty
200 from net/http, although nothing was recorded; a body that breaks off leaves "Searching..." in the browser for ever (action
`BodyCut`); the Delete button of a page that is not fresh may delete another row of
the same test, since row ids are used again; tests live longer or shorter by the
server's zone offset, and six zones east of UTC only until the next cleanup; the redirect to HTTPS keeps the port of the Host header; after
a failed key generation every TLS handshake fails until the next start; a name with an
underscore and records of another type is
answered NXDOMAIN.

## 5. What is proved

Every safety property of the runs of section 3 is a theorem: TLAPS has checked it for
any set of tests, words, queries, requests, mails, sessions, records and files, any
number of actors, and every value of the bounds.  The refinement of TestLog is among
them.  All theorems are about the specifications without fairness.

| Module | Theorems (each `...Holds` is about the property it is named for) |
|---|---|
| DatabaseProofs | `RoundTrip`: `parseHostname` undoes `makeHostname`, with or without trailing dot |
| DNSServerProofs | `DNSTypeCorrect`, `NoLateQueryHolds`, `NoLateAnswerHolds`, `CNAMEAloneHolds`, `LiveQueryRecordedHolds`, `AddressSurvivesFaultsHolds` |
| HTTPServerProofs | `HTTPTypeCorrect`, `ServedIsRecordedHolds`, `NoLateRequestHolds`, `LiveRequestServedHolds` |
| SMTPServerProofs | `SMTPTypeCorrect`, `RecordedForRecipientsHolds`, `RecordedOnceHolds`, `NoLateMailHolds`, `LiveMailRecordedHolds` |
| DashboardProofs | `DashboardTypeCorrect`, `NoLateEditHolds`, `OnlyOwnRowsHolds`, `AddedFileIsServedHolds` |
| SystemProofs | `SystemTypeCorrect`, `ImplementsTestLogHolds`, `ResultsPageCompleteHolds`, `ServedIsShownHolds`, `CNAMEsLeadToCAsHolds`, `PublishedIsAnsweredHolds` |
| CleanupProofs | `CleanupTypeCorrect`, `NoOverdueTestHolds` |
| PeripheryProofs | `StartupTypeCorrect`, `NoHalfServiceHolds`, `NoSpuriousConflictHolds`, `HandshakesAgreeHolds`; `IPTypeCorrect`, `FamiliesAgreeHolds`, `FreshEnoughHolds`, `LookupIsSnapshotHolds`, `NeverForgetsHolds`; `SearchTypeCorrect`, `NoRowTwiceHolds`, `SearchCompleteHolds`, `EndIsVisibleHolds`, `SearchAdvancesHolds` |

### The assumptions

They are the named ASSUMEs of the modules, evaluated by TLC in the runs.

* `HostnamesAssumption`: words and test IDs are disjoint.  A test ID is 32 hexadecimal
  digits; a subdomain that looks like one is out of the model.
* `DatabaseAssumption`, `DNSAssumption`, `HTTPAssumption`, `SMTPAssumption`,
  `IPDataAssumption`, `CTSearchAssumption`, `SelfSignedAssumption`: the constants have
  their types, the place-holders NULL and NONE are none of the values they stand
  beside, and a goroutine of `bgp.go` or `dtp.go` is not a lookup.
* `DashboardAssumption`: what a form may add and passes the validation is among the
  records and files of the database.
* `CleanupAssumption`: the period of the ticker is positive, and the bounds are numbers.  Nothing
  is assumed of the zone.
* `StartupAssumption`: an inherited descriptor is named once.
* `SystemAssumption`: the records that are published when a behaviour begins went through
  the form.  `ComponentsAssumption`: the assumptions of the components, for the instances.

### The arguments

*Statements.*  `TestStatements`, `PublishStatements` and `RequestStatements` say once what each
statement of Database keeps: the types, that a stop is final (`StopsAreFinal`), that rows
of the request tables stay.  The `...Moves` lemmas say what each step changes of its own
query, request, session, mail or run, and that it leaves the others alone.  Each proof that
a step keeps an invariant has one step for every action.

*DNS.*  `DNSTypeOK` is not inductive: a step after the check uses the test of the query's
name, so `ServedBelongsToTest` is added: a query past its admission has a name that belongs
to a test.  `LateInv`: a query that arrived at a stopped test is not past the check, has
built-in answers only, and its test is still stopped.  `CNAMEInv`: row ids are unique (or
two rows could both be the first CNAME), and no query has a CNAME before its lookup.
`RecordInv` follows a query of a running test through the locations: past the insertion it
has its row, or a failed statement, or a test that no longer runs.

*HTTP.*  `RequestInv` says the same of a request, in parts: who may have a row by now
(`NewHasNoRow`, `RowBeforeResponse`), who was turned away (`LateIsTurnedAway`), and what a
request of a running test has by now (`LiveIsServed`).  A cancelled statement ends without a
`status`, whatever net/http then sends.

*SMTP.*  `SMTPInv` has two sides.  A session knows how far the loop of its Data has come:
each test before the index is settled, and the one at the index is new
(`SeenIsSettled`, `IndexIsNew`), which is why nothing is recorded twice although a test may be
the recipient of a mail several times.  A mail belongs to one session (`MailsAreOwned`),
without which another session could record it again.

*Dashboard.*  `PageIsWhole` and `LateSeesStop`: a user who comes to a stopped test has a page
that says so from the first statement on, and it is the page that decides about an edit.

*System.*  The inductive invariant is the conjunction of those of the components.  Each
component's module proves it under steps of an environment that leaves its variables and
its own table alone and starts no stopped test again (`OthersKeep`); SystemProofs shows
that every component is such an environment of the others.  For the refinement, each
component's steps are summed up as what they do to one test (`ServesTest`: admit,
enter, change or leave), and each of these is a step of TestLog under the mapping.
One query, request and connection is one actor there, so the proofs need that each
leaves one entry at the most (`NotServedYet`, `RowsAreCounted`).  `MayEnd` says what a stop or
a cleanup does to the times of a test: it leaves them, or stops a running test at the present
time; so the column `stopped_at` moves as `ended` does.
For the pages, `StoppedPage` says of a page that is being filled that, once its `test` is
"stopped", the tables it has read have every live row: live rows of a stopped test are fixed.
`ServedOnPage` says the same of what was served before the session arrived.
`TargetsInv` carries what the form has checked through the table into the answers.
`PublishedInv` has three links: who was told so has his record in the table
(`ToldIsPublished`), a query that comes later still owes it (`OwesRecords`), and has it from
its lookup on (`PaysRecords`).

*Cleanup.*  `NoOverdueTest` is not inductive.  `AgesInv`: while the loop waits after a success,
no tick in the channel, a running test is older than the age of stopping by no more than has
passed of the period: the ticker goes on while the statement runs, which is why the
bound is one period and not two.  Where the zone leaves nothing of the lifetime, the age is
that of a test since the last cleanup.

*Startup and certificates.*  `OpenedInv` follows `main`: before its place, everything is open
that its flags name.  `CertInv`: handshakes are in flight only in the present process and once
servers are spawned, and those of it that ended have the key that is there now.

*Address data.*  `MutexInv` (who is in a critical section holds its mutex) gives `SnapshotInv`
(what a lookup has found is what is there until it has the names) and `FamiliesInv` (the two
families differ only between the two assignments).  `VersionsInv`: no table is newer than
what is about to replace it.  `FreshInv`: age and the rest of a sleep together are within the bound.

*Search.*  `OneSearch`: a run clears away the only button, and nothing brings it back, so there
is one.  `RowsInv`: the rows are in the order of their ids and end at the cursor, and the page
that is to be shown begins after it.  `CompleteInv`: what was asked for is in the table, on
the page, or after the end of it; nothing is after an empty page, as a page that leaves
something out is full.  `SearchAdvances` follows from `RowsInv` at once: a page is not empty if the
run goes on, and its last row is after the cursor.

Two things were found by proving.  `PublishedIsAnswered` did not exclude queries of
another class than IN, which are refused before any lookup; the run had none of them, and
the property now says so.  And the page of the API was the result of a sort; the proof
needs only what `IsPageAfter` says of it.

### What is only model-checked

The liveness properties: `MailAnswered`, `EventuallyStopped`, `SearchEnds`, `NewsArrives`,
`HandshakeEnds` and `RedirectLeadsSomewhere`, since TLAPS does not treat fairness and
ENABLED.  The three runs that expect a violation are counterexamples.

## 6. What is not modelled, and why

The bytes of messages, headers and rows, truncation of UDP answers, the parsing of
feeds and the prefix trees are data: `cidr.go` chooses the tree of an address's family
and leaves the rest to a library.  A download is one step: that a body which breaks off is
an error, and not a short table, is up to `bufio.Scanner` and net/http.  Texts of forms are known by length and identity,
paths by their directory.  The subdomain of a form is not checked by the code, and not
by Forms.  A redirect's port and the home page's contents are left out.  In `Startup` an address
other than the unspecified ones would be an endpoint of its own.  Log filtering and layout say nothing
about behaviour.  The protocol engines of the DNS, HTTP, TLS and SMTP libraries, `sync.Once`,
`sync.Mutex` and go-listener are modelled by what the code relies on.  Migrations run before
the servers start, and are one step of `main` that succeeds or ends the process.

`PublishedIsAnswered` is checked with one user
at a time beside the query; with two the state space is too large for a run.  It is proved
for any number of them.

## 7. Plan

Every component with state of its own is modelled, and every safety property that a run
checks is proved.  What is left:

1. Abstract specifications with proofs beside TestLog: the address data as tables that are
   replaced and read in one step, and the search as one answer that only lacks what was
   logged later; so far two invariants say this of each.
2. Measures for the liveness properties, as far as they go without fairness: that every step
   of the search, of the loop of a mail session, and of a handshake comes nearer to its end.
3. The limits of Forms (255, 512 and what is just within them) as lemmas about what is stored.
