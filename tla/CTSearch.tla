------------------------------ MODULE CTSearch ------------------------------
(***************************************************************************)
(* The search for certificates of the results page: the script             *)
(* assets/ctsearch.js in the browser asks the server for the certificates  *)
(* of the test page by page, and the server (ctsearch.go, and the ctsearch *)
(* branch of serveTest) passes each request on to the Certificate Search   *)
(* API.  Certificates are logged and expire meanwhile.                     *)
(*                                                                         *)
(* A script runs until it awaits something, so what it does between two    *)
(* awaits is one step.  Nothing prevents a second run of ctsearch() but    *)
(* that the button which starts it is gone from the table.                 *)
(***************************************************************************)
EXTENDS Integers, Sequences, FiniteSets, SequencesExt

CONSTANTS
  Runs,          \* the runs of ctsearch() in one browser window
  PageSize,      \* the most issuances that the API returns at once
  MaxIssuances   \* bound of the issuances

ASSUME CTSearchAssumption ==
  /\ PageSize \in Nat \ {0}
  /\ MaxIssuances \in Nat

VARIABLES
  logged,  \* the issuances that the API knows, by id
  newest,  \* the largest id given so far
  tbody,   \* the rows of the table that the user sees
  run      \* the locals of every run of ctsearch()

searchVars == <<logged, newest, tbody, run>>

IDs == 1..MaxIssuances

(* A row of the table: an issuance, or a message in its place. *)
TableRow == [kind : {"issuance"}, id : IDs]
              \cup [kind : {"button", "searching", "none", "error"}]

Button == [kind |-> "button"]
Searching == [kind |-> "searching"]
NoneFound == [kind |-> "none"]
ErrorRow == [kind |-> "error"]
IssuanceRow(id) == [kind |-> "issuance", id |-> id]

(* page is the response that the run awaits the body of; asked is history: *)
(* the issuances that there were when the run began.                       *)
Run == [pc    : {"idle", "fetch", "page", "ended", "broken"},
        once  : BOOLEAN,
        after : 0..MaxIssuances,
        page  : Seq(IDs),
        asked : SUBSET IDs]

SearchTypeOK ==
  /\ logged \subseteq 1..newest
  /\ newest \in 0..MaxIssuances
  /\ tbody \in Seq(TableRow)
  /\ run \in [Runs -> Run]

SearchInit ==
  /\ logged = {} /\ newest = 0
  /\ tbody = <<Button>>
  /\ run = [r \in Runs |->
              [pc |-> "idle", once |-> FALSE, after |-> 0, page |-> <<>>, asked |-> {}]]

-----------------------------------------------------------------------------
(* The API: a request is answered with the first issuances after an id.    *)

Issue ==
  /\ newest < MaxIssuances
  /\ newest' = newest + 1
  /\ logged' = logged \cup {newest + 1}
  /\ UNCHANGED <<tbody, run>>

Expire ==
  /\ \E id \in logged : logged' = logged \ {id}
  /\ UNCHANGED <<newest, tbody, run>>

Later(after) == {id \in logged : id > after}

Pages == UNION {[1..n -> IDs] : n \in 0..PageSize}

(* The first of them, in their order, and as many as there are, up to the  *)
(* size of a page.                                                         *)
IsPageAfter(page, after) ==
  /\ Range(page) \subseteq Later(after)
  /\ \A i, j \in DOMAIN page : i < j => page[i] < page[j]
  /\ \A id \in Later(after) \ Range(page) : Len(page) = PageSize /\ Last(page) < id

-----------------------------------------------------------------------------
(* The script.                                                             *)

(* A bug: the button stays while the search runs. *)
TableAtStartKeeping == <<Button, Searching>>

(* The table is cleared, the button with it. *)
TableAtStart == <<Searching>>

Click(r) ==
  /\ run[r].pc = "idle" /\ Contains(tbody, Button)
  /\ tbody' = TableAtStart
  /\ run' = [run EXCEPT ![r].pc = "fetch", ![r].asked = logged]
  /\ UNCHANGED <<logged, newest>>

(* The status of a response arrives: 200, with a page in its body.         *)
FetchPage(r) ==
  /\ run[r].pc = "fetch"
  /\ \E page \in Pages :
       /\ IsPageAfter(page, run[r].after)
       /\ run' = [run EXCEPT ![r].pc = "page", ![r].page = page]
  /\ UNCHANGED <<logged, newest, tbody>>

(* A bug: every page, and every error, takes the place of what was there.  *)
KeptReplacing(r) == <<>>

(* A bug: the message is not cleared away. *)
KeptAlways(r) == tbody

(* What stays of the table when a response is shown.                       *)
Kept(r) == IF run[r].once THEN tbody ELSE <<>>

(* The fetch fails, or its status is an error: of the API, of the          *)
(* database, or because no API key is configured.                          *)
FetchFails(r) ==
  /\ run[r].pc = "fetch"
  /\ tbody' = Append(Kept(r), ErrorRow)
  /\ run' = [run EXCEPT ![r].pc = "ended"]
  /\ UNCHANGED <<logged, newest>>

(* The rows of the page are appended, and the last is the cursor.          *)
ShowPage(r) ==
  /\ run[r].pc = "page" /\ run[r].page # <<>>
  /\ tbody' = Kept(r) \o [i \in DOMAIN run[r].page |-> IssuanceRow(run[r].page[i])]
  /\ run' = [run EXCEPT ![r].pc = "fetch", ![r].once = TRUE,
                        ![r].after = Last(run[r].page), ![r].page = <<>>]
  /\ UNCHANGED <<logged, newest>>

(* A bug: an empty page is asked for again. *)
AfterEmptyPagePolling == "fetch"

(* An empty page is the last. *)
AfterEmptyPage == "ended"

EndSearch(r) ==
  /\ run[r].pc = "page" /\ run[r].page = <<>>
  /\ tbody' = IF run[r].once THEN tbody ELSE <<NoneFound>>
  /\ run' = [run EXCEPT ![r].pc = AfterEmptyPage]
  /\ UNCHANGED <<logged, newest>>

(* The body of the response is cut off: response.json() rejects outside of *)
(* the try, and the run ends without a word.                               *)
BodyCut(r) ==
  /\ run[r].pc = "page"
  /\ run' = [run EXCEPT ![r].pc = "broken", ![r].page = <<>>]
  /\ UNCHANGED <<logged, newest, tbody>>

(* The body of an error is cut off, and response.text() rejects after the  *)
(* table was cleared.                                                      *)
ErrorCut(r) ==
  /\ run[r].pc = "fetch"
  /\ tbody' = Kept(r)
  /\ run' = [run EXCEPT ![r].pc = "broken"]
  /\ UNCHANGED <<logged, newest>>

Continue(r) ==
  FetchPage(r) \/ FetchFails(r) \/ ShowPage(r) \/ EndSearch(r) \/ BodyCut(r) \/ ErrorCut(r)

SearchNext ==
  \/ Issue \/ Expire
  \/ \E r \in Runs : Click(r) \/ Continue(r)

SearchSpec == SearchInit /\ [][SearchNext]_searchVars

(* Requests end: the server gives each 15 seconds (http.go:142).           *)
FairSearchSpec == SearchSpec /\ \A r \in Runs : WF_searchVars(Continue(r))

-----------------------------------------------------------------------------
(* Properties.                                                             *)

Shown == {tbody[i].id : i \in {i \in DOMAIN tbody : tbody[i].kind = "issuance"}}

(* No certificate is shown twice, however the pages fall, whatever is      *)
(* logged or expires meanwhile, and however often the user clicks.         *)
NoRowTwice ==
  \A i, j \in DOMAIN tbody :
    tbody[i].kind = "issuance" /\ tbody[i] = tbody[j] => i = j

(* A search that ends without an error has shown every certificate that    *)
(* there was when it began and that has not expired.                       *)
SearchComplete ==
  \A r \in Runs :
    run[r].pc = "ended" /\ ~Contains(tbody, ErrorRow)
      => run[r].asked \cap logged \subseteq Shown

(* A search that ends tells so: "Searching..." is gone, and there is a     *)
(* result or a message in its place.  (A run that broke says nothing.)     *)
EndIsVisible ==
  \A r \in Runs :
    run[r].pc = "ended" => tbody # <<>> /\ ~Contains(tbody, Searching)

(* A run asks for another page only if the last one took it further: to a  *)
(* certificate newer than all that it has asked after, which the table now *)
(* shows.  So it makes no more requests than there are certificates, and   *)
(* one.                                                                    *)
SearchAdvances ==
  [][\A r \in Runs : run[r].pc = "page" /\ run'[r].pc = "fetch" =>
       run'[r].after > run[r].after /\ run'[r].after \in Shown']_searchVars

(* Every search ends if certificates are not logged for ever.  (If one is  *)
(* logged before every request, no page is empty and the script goes on;   *)
(* MaxIssuances lets no behaviour of a run of TLC do so, and that is why   *)
(* the assumption is written down here.)                                   *)
SearchEnds ==
  \/ []<><<Issue>>_searchVars
  \/ \A r \in Runs : run[r].pc = "fetch" ~> run[r].pc \in {"ended", "broken"}

=============================================================================
