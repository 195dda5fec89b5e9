----------------------------- MODULE SMTPServer -----------------------------
(***************************************************************************)
(* The SMTP server of smtp.go.  A client opens a session, names the        *)
(* recipients of a message one by one, and sends the message; Data then    *)
(* records it once for every test among the recipients:                    *)
(*                                                                         *)
(*   command -> (check -> insert)* -> reply -> command                     *)
(*                                                                         *)
(* The commands are read by the library go-smtp, which runs every session  *)
(* in a goroutine of its own and calls Mail, Rcpt, Data and Reset.  It is  *)
(* modelled by what smtp.go relies on: Rcpt follows a Mail, Data follows   *)
(* an accepted Rcpt, at most MaxRecipients recipients are accepted, and    *)
(* Reset is called after Data, whatever it returns, and for RSET.  A       *)
(* transaction lasts from the first Mail to the Reset; a second Mail in it *)
(* changes only the sender, which is not modelled.                         *)
(***************************************************************************)
EXTENDS Database, FiniteSetsExt

CONSTANTS
  Sessions,      \* the sessions that are open at the same time
  Addresses,     \* what follows the last "@" of an address; NULL if nothing does
  MaxRecipients  \* server.MaxRecipients

ASSUME SMTPAssumption ==
  /\ Mails \subseteq Nat
  /\ Addresses \subseteq Hostname \cup {NULL}
  /\ MaxRecipients \in Nat

VARIABLES
  session,  \* the smtpSession of every connection, and the locals of its Data
  mail      \* history of every mail transaction

smtpVars == <<dbVars, session, mail>>

(* next is the index, in testIDs, of the test that Data is recording for.  *)
Session == [pc      : {"command", "check", "insert", "reply"},
            mail    : Mails \cup {NULL},
            testIDs : Seq(TestIDs),
            next    : Nat]

(* recipients are the tests of the addresses accepted, refused the         *)
(* addresses that were not; begun tells how the tests were when Data was   *)
(* called, failed for which tests a statement failed, inserted how many    *)
(* rows were inserted for each.                                            *)
MailHistory == [stage      : {"new", "open", "sent", "done", "error", "dropped", "lost"},
                recipients : SUBSET TestIDs,
                refused    : SUBSET Addresses,
                begun      : [TestIDs -> Stages],
                failed     : SUBSET TestIDs,
                inserted   : [TestIDs -> Nat]]

SMTPTypeOK ==
  /\ DBTypeOK
  /\ session \in [Sessions -> Session]
  /\ mail \in [Mails -> MailHistory]

NewSession == [pc |-> "command", mail |-> NULL, testIDs |-> <<>>, next |-> 0]

SMTPInit ==
  /\ session = [s \in Sessions |-> NewSession]
  /\ mail = [m \in Mails |->
               [stage |-> "new", recipients |-> {}, refused |-> {},
                begun |-> [t \in TestIDs |-> "absent"], failed |-> {},
                inserted |-> [t \in TestIDs |-> 0]]]

-----------------------------------------------------------------------------
(* The commands.                                                           *)

(* parseEmailAddress: the domain goes to parseHostname as it was spelt.    *)
parseEmailAddress(addr) == IF addr = NULL THEN [ok |-> FALSE] ELSE parseHostname(addr)

(* Transactions are numbered in the order in which they begin.             *)
Mail(s, m) ==
  /\ session[s].pc = "command" /\ session[s].mail = NULL
  /\ {k \in Mails : mail[k].stage = "new"} \cap 0..m = {m}
  /\ session' = [session EXCEPT ![s].mail = m]
  /\ mail' = [mail EXCEPT ![m].stage = "open"]
  /\ UNCHANGED dbVars

InTransaction(s) == session[s].pc = "command" /\ session[s].mail # NULL

Rcpt(s, addr) ==
  /\ InTransaction(s) /\ Len(session[s].testIDs) < MaxRecipients
  /\ LET target == parseEmailAddress(addr)
         m == session[s].mail
     IN \/ /\ target.ok
           /\ session' = [session EXCEPT ![s].testIDs = Append(@, target.id)]
           /\ mail' = [mail EXCEPT ![m].recipients = @ \cup {target.id}]
        \/ /\ ~target.ok
           /\ session' = session
           /\ mail' = [mail EXCEPT ![m].refused = @ \cup {addr}]
  /\ UNCHANGED dbVars

(* A bug: the tests of one message stay for the next.                      *)
ResetKeepingTests(s) == [NewSession EXCEPT !.testIDs = session[s].testIDs]

(* What Reset leaves of a session: as much as a new connection starts with.*)
Reset(s) == NewSession

(* RSET, or the connection ends and another takes its place.               *)
Abandon(s) ==
  /\ InTransaction(s)
  /\ session' = [session EXCEPT ![s] = Reset(s)]
  /\ mail' = [mail EXCEPT ![session[s].mail].stage = "dropped"]
  /\ UNCHANGED dbVars

-----------------------------------------------------------------------------
(* Data.                                                                   *)

(* A bug: the loop does not ask whether it has seen the test.              *)
NextIndexRepeating(testIDs, i) == i + 1

(* The next index of the loop: the first test that is not among those seen.*)
NextIndex(testIDs, i) ==
  LET seen == {testIDs[k] : k \in 1..i}
      unseen == {j \in 1..Len(testIDs) : testIDs[j] \notin seen}
  IN Min(unseen \cup {Len(testIDs) + 1})

(* The session goes on with the next test, or to the reply.                *)
Advance(s) ==
  LET i == NextIndex(session[s].testIDs, session[s].next)
  IN [session EXCEPT ![s].next = i,
                     ![s].pc = IF i > Len(session[s].testIDs) THEN "reply" ELSE "check"]

(* The message, or the address of the client, cannot be read: the client   *)
(* went away, was too slow, or sent too much.                              *)
DataUnreadable(s) ==
  /\ InTransaction(s) /\ session[s].testIDs # <<>>
  /\ session' = [session EXCEPT ![s] = Reset(s)]
  /\ mail' = [mail EXCEPT ![session[s].mail].stage = "error"]
  /\ UNCHANGED dbVars

Data(s) ==
  /\ InTransaction(s) /\ session[s].testIDs # <<>>
  /\ session' = Advance(s)
  /\ mail' = [mail EXCEPT ![session[s].mail].stage = "sent",
                          ![session[s].mail].begun = [t \in TestIDs |-> Stage(t)]]
  /\ UNCHANGED dbVars

CurrentTest(s) == session[s].testIDs[session[s].next]

(* A bug: the first error is returned, as an error of Data.                *)
FailTestReturning(s) ==
  /\ session' = [session EXCEPT ![s].pc = "reply"]
  /\ mail' = [mail EXCEPT ![session[s].mail].failed = @ \cup {CurrentTest(s)}]

(* A statement fails: it is logged, and the loop goes on.                  *)
FailTest(s) ==
  /\ session' = Advance(s)
  /\ mail' = [mail EXCEPT ![session[s].mail].failed = @ \cup {CurrentTest(s)}]

CheckMail(s) ==
  /\ session[s].pc = "check"
  /\ \/ /\ isRunningTest(CurrentTest(s))
        /\ session' = [session EXCEPT ![s].pc = "insert"] /\ mail' = mail
     \/ ~isRunningTest(CurrentTest(s)) /\ session' = Advance(s) /\ mail' = mail
     \/ FailTest(s)
  /\ UNCHANGED dbVars

recordSMTPRequest(s) ==
  /\ session[s].pc = "insert"
  /\ \/ /\ InsertSMTPRequest(CurrentTest(s), session[s].mail)
        /\ session' = Advance(s)
        /\ mail' = [mail EXCEPT ![session[s].mail].inserted[CurrentTest(s)] = @ + 1]
     \/ FailTest(s) /\ UNCHANGED dbVars

(* A bug: the reply waits for what could not be recorded.                  *)
ReplyIfRecorded(s) ==
  /\ session[s].pc = "reply" /\ mail[session[s].mail].failed = {}
  /\ session' = [session EXCEPT ![s] = Reset(s)]
  /\ mail' = [mail EXCEPT ![session[s].mail].stage = "done"]
  /\ UNCHANGED dbVars

(* Data returns nil, the library replies 250 and calls Reset.              *)
Reply(s) ==
  /\ session[s].pc = "reply"
  /\ session' = [session EXCEPT ![s] = Reset(s)]
  /\ mail' = [mail EXCEPT ![session[s].mail].stage = "done"]
  /\ UNCHANGED dbVars

RecordMail(s) == CheckMail(s) \/ recordSMTPRequest(s) \/ Reply(s)

(* The process dies and starts again; no session survives.                 *)
SMTPCrash ==
  /\ \E s \in Sessions : session[s].mail # NULL
  /\ session' = [s \in Sessions |-> NewSession]
  /\ mail' = [m \in Mails |->
                IF mail[m].stage \in {"open", "sent"}
                  THEN [mail[m] EXCEPT !.stage = "lost"] ELSE mail[m]]

SMTPNext ==
  \E s \in Sessions :
    \/ \E m \in Mails : Mail(s, m)
    \/ \E addr \in Addresses : Rcpt(s, addr)
    \/ Abandon(s) \/ DataUnreadable(s) \/ Data(s)
    \/ RecordMail(s)

SMTPServerInit == DBInit /\ SMTPInit

SMTPServerNext ==
  \/ SMTPNext
  \/ OtherStatements /\ UNCHANGED <<session, mail>>
  \/ SMTPCrash /\ UNCHANGED dbVars

SMTPServerSpec == SMTPServerInit /\ [][SMTPServerNext]_smtpVars

(* Data never waits for the client after it has read the message.          *)
FairSMTPServerSpec ==
  SMTPServerSpec /\ \A s \in Sessions : WF_smtpVars(RecordMail(s))

-----------------------------------------------------------------------------
(* Properties.                                                             *)

(* A session is used for many messages, and shares nothing among them but  *)
(* what Reset clears (smtp.go:57): a message is recorded only for tests    *)
(* that were recipients of that message, and only after all of it came.    *)
RecordedForRecipients ==
  \A row \in smtp_request :
    /\ row.test \in mail[row.req].recipients
    /\ mail[row.req].stage \in {"sent", "done", "lost"}

(* However often a test is named by the recipients of a message, and       *)
(* whichever statements fail, the message is inserted once for the test    *)
(* (smtp.go:98).                                                           *)
RecordedOnce == \A m \in Mails, t \in TestIDs : mail[m].inserted[t] <= 1

(* A message that comes after its test was stopped is not recorded for it, *)
(* although it may be recorded for other tests (smtp.go:110).              *)
NoLateMail ==
  \A row \in smtp_request : mail[row.req].begun[row.test] # "stopped"

(* A message is recorded for every recipient whose test runs from Data to  *)
(* the reply and whose statements succeed: neither a test that is stopped  *)
(* nor a statement that fails for one recipient keeps it from the others.  *)
LiveMailRecorded ==
  \A m \in Mails : mail[m].stage = "done" =>
    \A t \in mail[m].recipients \ mail[m].failed :
      mail[m].begun[t] = "running" /\ isRunningTest(t) =>
        \E row \in smtp_request : row.req = m /\ row.test = t

(* Every message that was read is answered, or lost in a crash.            *)
MailAnswered ==
  \A m \in Mails : mail[m].stage = "sent" ~> mail[m].stage \in {"done", "lost"}

(* README.md:5 promises that all emails to the subdomain of a test are     *)
(* recorded.  Domains are the same in either case, and the DNS and HTTP    *)
(* servers lower theirs (dns.go:49, http.go:76), but parseEmailAddress     *)
(* does not: the recipient is refused (smtp.go:142).                       *)
EveryAddressAccepted ==
  \A m \in Mails : \A addr \in mail[m].refused :
    addr # NULL => ~parseHostname(ToLower(addr)).ok

=============================================================================
