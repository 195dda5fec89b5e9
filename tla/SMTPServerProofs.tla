-------------------------- MODULE SMTPServerProofs --------------------------
(***************************************************************************)
(* Theorems about the SMTP server, for every set of tests, sessions, mails *)
(* and addresses and every limit of recipients: the type invariant; that a *)
(* mail is recorded only for its recipients, once for each, and for none   *)
(* whose test was stopped before; and that it is recorded for every        *)
(* recipient whose test runs all along, unless a statement fails.          *)
(*                                                                         *)
(* They follow from one inductive invariant.  It says of a session which   *)
(* mail it owns, alone, and how far the loop of its Data has come: every   *)
(* test before the index is settled, and the one at the index is new.      *)
(***************************************************************************)
EXTENDS SMTPServer, DatabaseProofs

-----------------------------------------------------------------------------
(* The inductive invariant.                                                *)

TestsUpTo(ids, i) == {ids[k] : k \in 1..i}

(* The server owes the mail m nothing for t: a statement failed, the test  *)
(* was not running at first or is not any more, or there is a row.         *)
Settled(m, t) ==
  \/ t \in mail[m].failed
  \/ mail[m].begun[t] # "running" \/ ~isRunningTest(t)
  \/ \E row \in smtp_request : row.req = m /\ row.test = t

(* A session without a mail is as good as new. *)
IdleIsNew(s) == session[s].mail = NULL => session[s] = NewSession

(* A session with a mail is in the transaction of that mail. *)
InStage(s) ==
  /\ session[s].pc # "command" => session[s].mail # NULL
  /\ session[s].mail # NULL =>
       mail[session[s].mail].stage = IF session[s].pc = "command" THEN "open" ELSE "sent"

(* The tests of the session are the recipients of its mail. *)
TestsAreRecipients(s) ==
  session[s].mail # NULL =>
    mail[session[s].mail].recipients = TestsUpTo(session[s].testIDs, Len(session[s].testIDs))

(* The loop has not seen the test at its index. *)
IndexIsNew(s) ==
  /\ session[s].pc = "command" => session[s].next = 0
  /\ session[s].pc \in {"check", "insert"} =>
       /\ session[s].next \in 1..Len(session[s].testIDs)
       /\ CurrentTest(s) \notin TestsUpTo(session[s].testIDs, session[s].next - 1)
  /\ session[s].pc = "reply" => session[s].next = Len(session[s].testIDs) + 1

(* It has inserted rows for tests that it has seen, and for no other. *)
InsertedIsSeen(s) ==
  session[s].pc # "command" =>
    \A t \in TestIDs :
      \/ mail[session[s].mail].inserted[t] = 0
      \/ t \in TestsUpTo(session[s].testIDs, session[s].next - 1)

(* It is done with the tests that it has seen. *)
SeenIsSettled(s) ==
  session[s].pc # "command" =>
    \A t \in TestsUpTo(session[s].testIDs, session[s].next - 1) :
      Settled(session[s].mail, t)

(* It inserts for tests only that were not stopped when Data was called. *)
InsertsInTime(s) ==
  session[s].pc = "insert" => mail[session[s].mail].begun[CurrentTest(s)] # "stopped"

SessionInv(s) ==
  /\ IdleIsNew(s)
  /\ InStage(s)
  /\ TestsAreRecipients(s)
  /\ IndexIsNew(s)
  /\ InsertedIsSeen(s)
  /\ SeenIsSettled(s)
  /\ InsertsInTime(s)

(* What Data found out about a test at its call is not undone. *)
BegunStays(m) ==
  \A t \in TestIDs :
    /\ mail[m].begun[t] = "stopped" => Stage(t) = "stopped"
    /\ mail[m].begun[t] = "running" => Stage(t) # "absent"

InsertedOnce(m) == \A t \in TestIDs : mail[m].inserted[t] <= 1

NothingInsertedBefore(m) ==
  mail[m].stage \in {"new", "open"} => \A t \in TestIDs : mail[m].inserted[t] = 0

NewIsEmpty(m) == mail[m].stage = "new" => mail[m].recipients = {}

DoneIsSettled(m) == mail[m].stage = "done" => \A t \in mail[m].recipients : Settled(m, t)

MailInv(m) ==
  /\ BegunStays(m)
  /\ InsertedOnce(m)
  /\ NothingInsertedBefore(m)
  /\ NewIsEmpty(m)
  /\ DoneIsSettled(m)

(* No two sessions are in the transaction of the same mail. *)
MailsAreOwned ==
  \A s, p \in Sessions :
    session[s].mail # NULL /\ session[s].mail = session[p].mail => s = p

SMTPInv ==
  /\ SMTPTypeOK
  /\ \A s \in Sessions : SessionInv(s)
  /\ \A m \in Mails : MailInv(m)
  /\ MailsAreOwned
  /\ RecordedForRecipients
  /\ NoLateMail

-----------------------------------------------------------------------------
(* The loop of Data.                                                       *)

(* Min picks a smallest member. *)
LEMMA MinOfNat ==
  ASSUME NEW T, T \subseteq Nat, T # {}
  PROVE  Min(T) \in T /\ \A y \in T : Min(T) <= y
  BY SmallestOfNat DEF Min

(* NextIndex goes to a test that is new, over tests that are not. *)
LEMMA NextIndexIsNew ==
  ASSUME NEW ids \in Seq(TestIDs), NEW i \in 0..Len(ids)
  PROVE  LET j == NextIndex(ids, i)
         IN /\ j \in (i + 1)..(Len(ids) + 1)
            /\ TestsUpTo(ids, j - 1) = TestsUpTo(ids, i)
            /\ j <= Len(ids) => ids[j] \notin TestsUpTo(ids, i)
<1> DEFINE seen == TestsUpTo(ids, i)
           unseen == {k \in 1..Len(ids) : ids[k] \notin seen}
           j == NextIndex(ids, i)
<1>1. Len(ids) \in Nat /\ i \in Nat
  OBVIOUS
<1>2. j = Min(unseen \cup {Len(ids) + 1})
  BY DEF NextIndex, TestsUpTo
<1>3. /\ j \in unseen \cup {Len(ids) + 1}
      /\ \A k \in unseen \cup {Len(ids) + 1} : j <= k
  <2> HIDE DEF j
  <2>1. unseen \cup {Len(ids) + 1} \subseteq Nat
    BY <1>1
  <2> QED BY <1>2, <2>1, MinOfNat
<1> HIDE DEF j
<1>4. \A k \in 1..i : ids[k] \in seen
  BY DEF TestsUpTo
<1>5. j \in (i + 1)..(Len(ids) + 1)
  BY <1>1, <1>3, <1>4
<1>6. \A k \in 1..(j - 1) : ids[k] \in seen
  BY <1>1, <1>3, <1>5
<1>7. TestsUpTo(ids, j - 1) = seen
  BY <1>1, <1>5, <1>6 DEF TestsUpTo
<1> QED BY <1>3, <1>5, <1>7 DEF j

(* What Advance assigns. *)
LEMMA AdvanceMoves ==
  ASSUME SMTPTypeOK, NEW s \in Sessions, session' = Advance(s),
         session[s].next \in 0..Len(session[s].testIDs)
  PROVE  LET j == NextIndex(session[s].testIDs, session[s].next)
         IN /\ session' \in [Sessions -> Session]
            /\ \A p \in Sessions \ {s} : session'[p] = session[p]
            /\ session'[s].mail = session[s].mail
            /\ session'[s].testIDs = session[s].testIDs
            /\ session'[s].next = j
            /\ session'[s].pc = IF j > Len(session[s].testIDs) THEN "reply" ELSE "check"
<1> DEFINE j == NextIndex(session[s].testIDs, session[s].next)
           pc == IF j > Len(session[s].testIDs) THEN "reply" ELSE "check"
<1>1. session[s].testIDs \in Seq(TestIDs)
  BY DEF SMTPTypeOK, Session
<1>2. j \in Nat
  BY <1>1, NextIndexIsNew
<1>3. session' = [session EXCEPT ![s].next = j, ![s].pc = pc]
  BY DEF Advance
<1>4. pc \in {"check", "reply"}
  OBVIOUS
<1> HIDE DEF j, pc
<1>5. session' \in [Sessions -> Session]
  BY <1>2, <1>3, <1>4 DEF SMTPTypeOK, Session
<1>6. /\ \A p \in Sessions \ {s} : session'[p] = session[p]
      /\ session'[s].mail = session[s].mail
      /\ session'[s].testIDs = session[s].testIDs
      /\ session'[s].next = j
      /\ session'[s].pc = pc
  BY <1>3 DEF SMTPTypeOK, Session
<1> QED BY <1>5, <1>6 DEF j, pc

(* The loop keeps the invariant of its session when it goes on from a test *)
(* that is settled.                                                        *)
LEMMA AdvanceKeeps ==
  ASSUME SMTPTypeOK, NEW s \in Sessions, NEW m \in Mails, session[s].mail = m,
         session' = Advance(s), session[s].next \in 0..Len(session[s].testIDs),
         mail'[m].stage = "sent", TestsAreRecipients(s),
         mail'[m].recipients = mail[m].recipients,
         \A t \in TestsUpTo(session[s].testIDs, session[s].next) : Settled(m, t)',
         \A t \in TestIDs : \/ mail'[m].inserted[t] = 0
                            \/ t \in TestsUpTo(session[s].testIDs, session[s].next)
  PROVE  SessionInv(s)'
<1> DEFINE ids == session[s].testIDs
           i == session[s].next
           j == NextIndex(ids, i)
<1>1. /\ session'[s].mail = m /\ session'[s].testIDs = ids /\ session'[s].next = j
      /\ session'[s].pc = IF j > Len(ids) THEN "reply" ELSE "check"
  BY AdvanceMoves
<1>2. ids \in Seq(TestIDs) /\ Len(ids) \in Nat
  BY DEF SMTPTypeOK, Session
<1>3. /\ j \in (i + 1)..(Len(ids) + 1)
      /\ TestsUpTo(ids, j - 1) = TestsUpTo(ids, i)
      /\ j <= Len(ids) => ids[j] \notin TestsUpTo(ids, i)
  BY <1>2, NextIndexIsNew
<1> HIDE DEF j
<1>4. m # NULL
  BY SMTPAssumption, DatabaseAssumption
<1>5. IdleIsNew(s)' /\ InStage(s)'
  BY <1>1, <1>4 DEF IdleIsNew, InStage
<1>6. TestsAreRecipients(s)'
  BY <1>1, <1>4 DEF TestsAreRecipients, TestsUpTo
<1>7. IndexIsNew(s)'
  <2>1. CASE j > Len(ids)
    BY <1>1, <1>2, <1>3, <2>1 DEF IndexIsNew
  <2>2. CASE ~(j > Len(ids))
    <3>1. j \in 1..Len(ids) /\ ids[j] \notin TestsUpTo(ids, j - 1)
      BY <1>2, <1>3, <2>2
    <3> QED BY <1>1, <2>2, <3>1 DEF IndexIsNew, CurrentTest, TestsUpTo
  <2> QED BY <2>1, <2>2
<1>8. InsertedIsSeen(s)'
  BY <1>1, <1>3 DEF InsertedIsSeen, TestsUpTo
<1>9. SeenIsSettled(s)'
  <2>1. TestsUpTo(session[s].testIDs, session[s].next - 1)' = TestsUpTo(ids, i)
    <3>1. TestsUpTo(session[s].testIDs, session[s].next - 1)' = TestsUpTo(ids, j - 1)
      BY <1>1 DEF TestsUpTo
    <3> QED BY <1>3, <3>1
  <2>2. \A t \in TestsUpTo(ids, i) : Settled(session[s].mail, t)'
    BY <1>1 DEF Settled
  <2> QED BY <2>1, <2>2 DEF SeenIsSettled
<1>10. InsertsInTime(s)'
  BY <1>1 DEF InsertsInTime
<1> QED BY <1>5, <1>6, <1>7, <1>8, <1>9, <1>10 DEF SessionInv

-----------------------------------------------------------------------------
(* What a step leaves alone.                                               *)

(* A step that deletes no row and starts no stopped test again settles     *)
(* things for good.                                                        *)
LEMMA SettledStays ==
  ASSUME NEW m \in Mails, NEW t \in TestIDs, Settled(m, t), BegunStays(m),
         StopsAreFinal, smtp_request \subseteq smtp_request',
         mail'[m].begun = mail[m].begun, mail[m].failed \subseteq mail'[m].failed
  PROVE  Settled(m, t)'
<1>1. mail[m].begun[t] = "running" /\ isRunningTest(t)' => isRunningTest(t)
  BY DEF BegunStays, StopsAreFinal, Stage, isRunningTest, Exists
<1> QED BY <1>1 DEF Settled

(* A session that the step is not of keeps its invariant. *)
LEMMA SessionUndisturbed ==
  ASSUME SMTPTypeOK, NEW p \in Sessions, SessionInv(p), \A m \in Mails : MailInv(m),
         session'[p] = session[p],
         session[p].mail # NULL => mail'[session[p].mail] = mail[session[p].mail],
         StopsAreFinal, smtp_request \subseteq smtp_request'
  PROVE  SessionInv(p)'
<1> DEFINE m == session[p].mail
           ids == session[p].testIDs
<1>1. /\ m \in Mails \cup {NULL} /\ ids \in Seq(TestIDs)
      /\ session[p].next \in Nat /\ Len(ids) \in Nat
      /\ session[p].pc # "command" => m # NULL
  BY DEF SMTPTypeOK, Session, SessionInv, InStage
<1>2. IdleIsNew(p)' /\ InStage(p)' /\ TestsAreRecipients(p)' /\ InsertedIsSeen(p)'
  BY <1>1 DEF SessionInv, IdleIsNew, InStage, TestsAreRecipients, InsertedIsSeen, TestsUpTo,
              NewSession
<1>3. IndexIsNew(p)' /\ InsertsInTime(p)'
  BY <1>1 DEF SessionInv, IndexIsNew, InsertsInTime, CurrentTest, TestsUpTo
<1>4. SeenIsSettled(p)'
  <2> SUFFICES ASSUME session[p].pc # "command",
                      NEW t \in TestsUpTo(ids, session[p].next - 1)
               PROVE  Settled(m, t)'
    BY DEF SeenIsSettled, TestsUpTo, Settled
  <2>1. t \in TestIDs
    <3>1. session[p].next - 1 <= Len(ids)
      BY <1>1 DEF SessionInv, IndexIsNew, SMTPTypeOK, Session
    <3> QED BY <1>1, <3>1 DEF TestsUpTo
  <2>2. m \in Mails /\ Settled(m, t) /\ BegunStays(m) /\ mail'[m] = mail[m]
    BY <1>1 DEF SessionInv, SeenIsSettled, MailInv
  <2> QED BY <2>1, <2>2, SettledStays
<1> QED BY <1>2, <1>3, <1>4 DEF SessionInv

(* So does a mail that it is not about. *)
LEMMA MailUndisturbed ==
  ASSUME SMTPTypeOK, NEW m \in Mails, MailInv(m), mail'[m] = mail[m],
         StopsAreFinal, smtp_request \subseteq smtp_request'
  PROVE  MailInv(m)'
<1>1. BegunStays(m)'
  BY DEF MailInv, BegunStays, StopsAreFinal
<1>2. InsertedOnce(m)' /\ NothingInsertedBefore(m)' /\ NewIsEmpty(m)'
  BY DEF MailInv, InsertedOnce, NothingInsertedBefore, NewIsEmpty
<1>3. DoneIsSettled(m)'
  <2>1. mail[m].recipients \subseteq TestIDs
    BY DEF SMTPTypeOK, MailHistory
  <2> QED BY <2>1, SettledStays DEF MailInv, DoneIsSettled
<1> QED BY <1>1, <1>2, <1>3 DEF MailInv

(* What a step that inserts nothing leaves of the rows' mails. *)
KeepsRecorded(m) ==
  /\ mail[m].recipients \subseteq mail'[m].recipients
  /\ mail[m].stage \in {"sent", "done", "lost"} =>
       /\ mail'[m].stage \in {"sent", "done", "lost"}
       /\ mail'[m].begun = mail[m].begun

(* Rows that were right stay right. *)
LEMMA RowsUndisturbed ==
  ASSUME SMTPTypeOK, RecordedForRecipients, NoLateMail, UNCHANGED smtp_request,
         \A m \in Mails : KeepsRecorded(m)
  PROVE  RecordedForRecipients' /\ NoLateMail'
<1>1. \A row \in smtp_request : row.req \in Mails
  BY DEF SMTPTypeOK, DBTypeOK, RequestRow
<1>2. RecordedForRecipients'
  BY <1>1 DEF RecordedForRecipients, KeepsRecorded
<1>3. NoLateMail'
  BY <1>1 DEF NoLateMail, RecordedForRecipients, KeepsRecorded
<1> QED BY <1>2, <1>3

(* A session that keeps its mail, or gives it up, takes nobody else's. *)
LEMMA OwnershipStays ==
  ASSUME MailsAreOwned, NEW s \in Sessions,
         \A p \in Sessions \ {s} : session'[p] = session[p],
         session'[s].mail \in {session[s].mail, NULL}
  PROVE  MailsAreOwned'
  BY DEF MailsAreOwned

(* A step of the session s that is about the mail m, which is its mail or  *)
(* becomes it, keeps the invariant if it keeps that of s and of m.         *)
LEMMA SessionStep ==
  ASSUME SMTPInv, NEW s \in Sessions, NEW m \in Mails,
         \/ session[s].mail = m
         \/ session[s].mail = NULL /\ mail[m].stage = "new",
         SMTPTypeOK', SessionInv(s)', MailInv(m)', MailsAreOwned',
         RecordedForRecipients', NoLateMail',
         \A p \in Sessions \ {s} : session'[p] = session[p],
         \A k \in Mails \ {m} : mail'[k] = mail[k],
         StopsAreFinal, smtp_request \subseteq smtp_request'
  PROVE  SMTPInv'
<1>1. ASSUME NEW p \in Sessions \ {s}
      PROVE  SessionInv(p)'
  <2>1. session[p].mail \in Mails \cup {NULL}
    BY DEF SMTPInv, SMTPTypeOK, Session
  <2>2. m # NULL
    BY SMTPAssumption, DatabaseAssumption
  <2>3. session[p].mail # m
    BY <2>2 DEF SMTPInv, MailsAreOwned, SessionInv, InStage
  <2> QED BY <2>1, <2>3, SessionUndisturbed DEF SMTPInv
<1>2. ASSUME NEW k \in Mails \ {m}
      PROVE  MailInv(k)'
  BY MailUndisturbed DEF SMTPInv
<1> QED BY <1>1, <1>2 DEF SMTPInv

-----------------------------------------------------------------------------
(* The commands.                                                           *)

(* An address that is accepted belongs to a test. *)
LEMMA AddressType ==
  ASSUME NEW addr \in Addresses, parseEmailAddress(addr).ok
  PROVE  parseEmailAddress(addr).id \in TestIDs
  BY SMTPAssumption, TargetType DEF parseEmailAddress

(* A transaction begins with a mail that nobody has. *)
LEMMA MailKeeps ==
  ASSUME SMTPInv, NEW s \in Sessions, NEW m \in Mails, Mail(s, m)
  PROVE  SMTPInv'
<1>1. /\ SMTPTypeOK /\ session[s] = NewSession /\ mail[m].stage = "new"
      /\ session' = [session EXCEPT ![s].mail = m]
      /\ mail' = [mail EXCEPT ![m].stage = "open"]
      /\ UNCHANGED dbVars
  BY DEF Mail, SMTPInv, SessionInv, IdleIsNew
<1>2. SMTPTypeOK'
  <2>1. session' \in [Sessions -> Session]
    BY <1>1 DEF SMTPTypeOK, Session
  <2>2. mail' \in [Mails -> MailHistory]
    BY <1>1 DEF SMTPTypeOK, MailHistory
  <2> QED BY <1>1, <2>1, <2>2 DEF SMTPTypeOK, DBTypeOK, dbVars
<1>3. /\ StopsAreFinal /\ \A t : Stage(t)' = Stage(t) /\ UNCHANGED smtp_request
  BY <1>1, TestUnchanged DEF dbVars
<1>4. /\ session'[s] = [NewSession EXCEPT !.mail = m]
      /\ \A p \in Sessions \ {s} : session'[p] = session[p]
      /\ \A k \in Mails \ {m} : mail'[k] = mail[k]
      /\ mail'[m].stage = "open" /\ mail'[m].recipients = mail[m].recipients
      /\ mail'[m].begun = mail[m].begun /\ mail'[m].inserted = mail[m].inserted
  BY <1>1 DEF SMTPTypeOK, MailHistory
<1>5. m # NULL
  BY SMTPAssumption, DatabaseAssumption
<1>6. SessionInv(s)'
  <2>1. /\ session'[s].pc = "command" /\ session'[s].mail = m /\ session'[s].testIDs = <<>>
        /\ session'[s].next = 0
    BY <1>4 DEF NewSession
  <2>2. TestsUpTo(<<>>, 0) = {} /\ mail[m].recipients = {}
    BY <1>1 DEF SMTPInv, MailInv, NewIsEmpty, TestsUpTo
  <2>3. TestsAreRecipients(s)'
    BY <1>4, <2>1, <2>2 DEF TestsAreRecipients, TestsUpTo
  <2> QED BY <1>4, <1>5, <2>1, <2>3
          DEF SessionInv, IdleIsNew, InStage, IndexIsNew, InsertedIsSeen, SeenIsSettled,
              InsertsInTime
<1>7. MailInv(m)'
  BY <1>1, <1>3, <1>4
     DEF SMTPInv, MailInv, BegunStays, InsertedOnce, NothingInsertedBefore, NewIsEmpty,
         DoneIsSettled
<1>8. MailsAreOwned'
  BY <1>1, <1>4, <1>5 DEF SMTPInv, MailsAreOwned, SessionInv, InStage
<1>9. RecordedForRecipients' /\ NoLateMail'
  BY <1>1, <1>3, <1>4, RowsUndisturbed DEF SMTPInv, KeepsRecorded
<1> QED BY <1>1, <1>2, <1>3, <1>4, <1>6, <1>7, <1>8, <1>9, SessionStep DEF NewSession

(* What Rcpt assigns, if it accepts the address and if it refuses it. *)
LEMMA RcptMoves ==
  ASSUME SMTPTypeOK, NEW s \in Sessions, NEW m \in Mails, session[s].mail = m,
         NEW addr \in Addresses, Rcpt(s, addr)
  PROVE  /\ session' \in [Sessions -> Session] /\ mail' \in [Mails -> MailHistory]
         /\ \A p \in Sessions \ {s} : session'[p] = session[p]
         /\ \A k \in Mails \ {m} : mail'[k] = mail[k]
         /\ session'[s].pc = "command" /\ session'[s].mail = m
         /\ session'[s].next = session[s].next
         /\ mail'[m].stage = mail[m].stage /\ mail'[m].begun = mail[m].begun
         /\ mail'[m].inserted = mail[m].inserted /\ mail'[m].failed = mail[m].failed
         /\ \/ \E t \in TestIDs :
                 /\ session'[s].testIDs = Append(session[s].testIDs, t)
                 /\ mail'[m].recipients = mail[m].recipients \cup {t}
            \/ /\ session'[s].testIDs = session[s].testIDs
               /\ mail'[m].recipients = mail[m].recipients
<1>1. ASSUME NEW t \in TestIDs,
             session' = [session EXCEPT ![s].testIDs = Append(@, t)],
             mail' = [mail EXCEPT ![m].recipients = @ \cup {t}]
      PROVE  /\ session' \in [Sessions -> Session] /\ mail' \in [Mails -> MailHistory]
             /\ session'[s].testIDs = Append(session[s].testIDs, t)
             /\ mail'[m].recipients = mail[m].recipients \cup {t}
  <2>1. session' \in [Sessions -> Session]
    <3> DEFINE ids == Append(session[s].testIDs, t)
    <3>1. ids \in Seq(TestIDs)
      BY DEF SMTPTypeOK, Session
    <3>2. session' = [session EXCEPT ![s].testIDs = ids]
      BY <1>1
    <3> HIDE DEF ids
    <3> QED BY <3>1, <3>2 DEF SMTPTypeOK, Session
  <2>2. mail' \in [Mails -> MailHistory]
    <3> DEFINE tests == mail[m].recipients \cup {t}
    <3>1. tests \in SUBSET TestIDs /\ mail[m] \in MailHistory
      BY DEF SMTPTypeOK, MailHistory
    <3>2. mail' = [mail EXCEPT ![m] = [mail[m] EXCEPT !.recipients = tests]]
      BY <1>1
    <3> HIDE DEF tests
    <3>3. [mail[m] EXCEPT !.recipients = tests] \in MailHistory
      BY <3>1 DEF MailHistory
    <3> QED BY <3>2, <3>3 DEF SMTPTypeOK
  <2>3. session'[s].testIDs = Append(session[s].testIDs, t)
    BY <1>1 DEF SMTPTypeOK, Session
  <2>4. mail'[m].recipients = mail[m].recipients \cup {t}
    BY <1>1 DEF SMTPTypeOK, MailHistory
  <2> QED BY <2>1, <2>2, <2>3, <2>4
<1>2. ASSUME session' = session, mail' = [mail EXCEPT ![m].refused = @ \cup {addr}]
      PROVE  /\ session' \in [Sessions -> Session] /\ mail' \in [Mails -> MailHistory]
             /\ mail'[m].recipients = mail[m].recipients
  <2>1. mail' \in [Mails -> MailHistory]
    <3> DEFINE addrs == mail[m].refused \cup {addr}
    <3>1. addrs \in SUBSET Addresses /\ mail[m] \in MailHistory
      BY DEF SMTPTypeOK, MailHistory
    <3>2. mail' = [mail EXCEPT ![m] = [mail[m] EXCEPT !.refused = addrs]]
      BY <1>2
    <3> HIDE DEF addrs
    <3>3. [mail[m] EXCEPT !.refused = addrs] \in MailHistory
      BY <3>1 DEF MailHistory
    <3> QED BY <3>2, <3>3 DEF SMTPTypeOK
  <2>2. mail'[m].recipients = mail[m].recipients
    BY <1>2 DEF SMTPTypeOK, MailHistory
  <2> QED BY <1>2, <2>1, <2>2 DEF SMTPTypeOK
<1>3. /\ \A p \in Sessions \ {s} : session'[p] = session[p]
      /\ \A k \in Mails \ {m} : mail'[k] = mail[k]
  BY DEF Rcpt, SMTPTypeOK
<1>4. /\ session'[s].pc = "command" /\ session'[s].mail = m
      /\ session'[s].next = session[s].next
  BY DEF Rcpt, InTransaction, SMTPTypeOK, Session
<1>5. /\ mail'[m].stage = mail[m].stage /\ mail'[m].begun = mail[m].begun
      /\ mail'[m].inserted = mail[m].inserted /\ mail'[m].failed = mail[m].failed
  BY DEF Rcpt, SMTPTypeOK, MailHistory
<1> QED BY <1>1, <1>2, <1>3, <1>4, <1>5, AddressType DEF Rcpt

(* A recipient belongs to the mail and to the session, or is refused. *)
LEMMA RcptKeeps ==
  ASSUME SMTPInv, NEW s \in Sessions, NEW addr \in Addresses, Rcpt(s, addr)
  PROVE  SMTPInv'
<1>1. PICK m \in Mails : session[s].mail = m
  BY DEF Rcpt, InTransaction, SMTPInv, SMTPTypeOK, Session
<1> DEFINE ids == session[s].testIDs
<1>2. /\ SMTPTypeOK /\ SessionInv(s) /\ MailInv(m) /\ session[s].pc = "command"
      /\ ids \in Seq(TestIDs) /\ UNCHANGED dbVars /\ m # NULL
  BY <1>1, SMTPAssumption, DatabaseAssumption
     DEF Rcpt, InTransaction, SMTPInv, SMTPTypeOK, Session
<1>3. mail[m].stage = "open" /\ mail[m].recipients = TestsUpTo(ids, Len(ids))
  BY <1>1, <1>2 DEF SessionInv, InStage, TestsAreRecipients
<1>4. /\ StopsAreFinal /\ \A t : Stage(t)' = Stage(t) /\ UNCHANGED smtp_request
  BY <1>2, TestUnchanged DEF dbVars
<1>5. /\ session' \in [Sessions -> Session] /\ mail' \in [Mails -> MailHistory]
      /\ \A p \in Sessions \ {s} : session'[p] = session[p]
      /\ \A k \in Mails \ {m} : mail'[k] = mail[k]
      /\ session'[s].pc = "command" /\ session'[s].mail = m
      /\ session'[s].next = session[s].next
      /\ mail'[m].stage = mail[m].stage /\ mail'[m].begun = mail[m].begun
      /\ mail'[m].inserted = mail[m].inserted /\ mail'[m].failed = mail[m].failed
      /\ \/ \E t \in TestIDs : /\ session'[s].testIDs = Append(ids, t)
                               /\ mail'[m].recipients = mail[m].recipients \cup {t}
         \/ session'[s].testIDs = ids /\ mail'[m].recipients = mail[m].recipients
  BY <1>1, <1>2, RcptMoves
<1>6. SMTPTypeOK'
  BY <1>2, <1>5 DEF SMTPTypeOK, DBTypeOK, dbVars
<1>7. TestsAreRecipients(s)'
  <2>1. ASSUME NEW t \in TestIDs
        PROVE  TestsUpTo(Append(ids, t), Len(Append(ids, t)))
                 = TestsUpTo(ids, Len(ids)) \cup {t}
    <3>1. /\ Append(ids, t)[Len(ids) + 1] = t
          /\ \A k \in 1..Len(ids) : Append(ids, t)[k] = ids[k]
          /\ 1..(Len(ids) + 1) = 1..Len(ids) \cup {Len(ids) + 1}
          /\ Len(Append(ids, t)) = Len(ids) + 1
      BY <1>2
    <3> HIDE DEF ids
    <3> QED BY <3>1 DEF TestsUpTo
  <2>2. mail'[m].recipients = TestsUpTo(session'[s].testIDs, Len(session'[s].testIDs))
    BY <1>3, <1>5, <2>1
  <2> QED BY <1>5, <2>2 DEF TestsAreRecipients, TestsUpTo
<1>8. SessionInv(s)'
  BY <1>2, <1>3, <1>5, <1>7
     DEF SessionInv, IdleIsNew, InStage, IndexIsNew, InsertedIsSeen, SeenIsSettled,
         InsertsInTime
<1>9. MailInv(m)'
  BY <1>2, <1>3, <1>4, <1>5
     DEF MailInv, BegunStays, InsertedOnce, NothingInsertedBefore, NewIsEmpty, DoneIsSettled
<1>10. MailsAreOwned'
  BY <1>1, <1>5, OwnershipStays DEF SMTPInv
<1>11. RecordedForRecipients' /\ NoLateMail'
  BY <1>3, <1>4, <1>5, RowsUndisturbed DEF SMTPInv, KeepsRecorded
<1> QED BY <1>1, <1>4, <1>5, <1>6, <1>8, <1>9, <1>10, <1>11, SessionStep

(* A transaction ends, with a reply of Data only when all its tests are    *)
(* settled.                                                                *)
LEMMA EndKeeps ==
  ASSUME SMTPInv, NEW s \in Sessions, NEW m \in Mails, session[s].mail = m,
         NEW stage \in {"dropped", "error", "done"},
         session[s].pc = IF stage = "done" THEN "reply" ELSE "command",
         session' = [session EXCEPT ![s] = NewSession],
         mail' = [mail EXCEPT ![m].stage = stage], UNCHANGED dbVars
  PROVE  SMTPInv'
<1>1. /\ SMTPTypeOK /\ SessionInv(s) /\ MailInv(m)
  BY DEF SMTPInv
<1>2. m # NULL
  BY SMTPAssumption, DatabaseAssumption
<1>3. /\ StopsAreFinal /\ \A t : Stage(t)' = Stage(t) /\ UNCHANGED smtp_request
  BY TestUnchanged DEF dbVars
<1>4. /\ NewSession \in Session
      /\ session' \in [Sessions -> Session] /\ session'[s] = NewSession
      /\ \A p \in Sessions \ {s} : session'[p] = session[p]
  <2>1. NewSession \in Session
    BY DEF NewSession, Session
  <2> HIDE DEF NewSession
  <2> QED BY <1>1, <2>1 DEF SMTPTypeOK
<1>5. /\ mail' \in [Mails -> MailHistory]
      /\ \A k \in Mails \ {m} : mail'[k] = mail[k]
      /\ mail'[m].stage = stage /\ mail'[m].recipients = mail[m].recipients
      /\ mail'[m].begun = mail[m].begun /\ mail'[m].inserted = mail[m].inserted
      /\ mail'[m].failed = mail[m].failed
  <2> DEFINE ended == [mail[m] EXCEPT !.stage = stage]
  <2>1. /\ ended \in MailHistory /\ ended.stage = stage
        /\ ended.recipients = mail[m].recipients /\ ended.begun = mail[m].begun
        /\ ended.inserted = mail[m].inserted /\ ended.failed = mail[m].failed
    BY <1>1 DEF SMTPTypeOK, MailHistory
  <2>2. mail' = [mail EXCEPT ![m] = ended]
    OBVIOUS
  <2> HIDE DEF ended
  <2> QED BY <1>1, <2>1, <2>2 DEF SMTPTypeOK
<1>6. SMTPTypeOK'
  BY <1>1, <1>4, <1>5 DEF SMTPTypeOK, DBTypeOK, dbVars
<1>7. SessionInv(s)'
  <2>1. /\ session'[s].pc = "command" /\ session'[s].mail = NULL /\ session'[s].next = 0
    BY <1>4 DEF NewSession
  <2> QED BY <1>4, <2>1
          DEF SessionInv, IdleIsNew, InStage, TestsAreRecipients, IndexIsNew, InsertedIsSeen,
              SeenIsSettled, InsertsInTime, NewSession
<1>8. MailInv(m)'
  <2>1. BegunStays(m)' /\ InsertedOnce(m)' /\ NothingInsertedBefore(m)' /\ NewIsEmpty(m)'
    BY <1>1, <1>3, <1>5
       DEF MailInv, BegunStays, InsertedOnce, NothingInsertedBefore, NewIsEmpty
  <2>2. DoneIsSettled(m)'
    <3> SUFFICES ASSUME stage = "done", NEW t \in mail[m].recipients
                 PROVE  Settled(m, t)'
      BY <1>5 DEF DoneIsSettled
    <3> DEFINE ids == session[s].testIDs
    <3>1. Len(ids) \in Nat /\ t \in TestIDs
      BY <1>1 DEF SMTPTypeOK, Session, MailHistory
    <3>2. session[s].pc = "reply" /\ session[s].next - 1 = Len(ids)
      BY <1>1, <3>1 DEF SessionInv, IndexIsNew
    <3>3. t \in TestsUpTo(ids, session[s].next - 1)
      BY <1>1, <1>2, <3>2 DEF SessionInv, TestsAreRecipients
    <3>4. Settled(m, t)
      BY <1>1, <3>2, <3>3 DEF SessionInv, SeenIsSettled
    <3> QED BY <1>1, <1>3, <1>5, <3>1, <3>4, SettledStays DEF MailInv
  <2> QED BY <2>1, <2>2 DEF MailInv
<1>9. MailsAreOwned'
  BY <1>4, OwnershipStays DEF SMTPInv, NewSession
<1>10. RecordedForRecipients' /\ NoLateMail'
  <2>1. mail[m].stage = IF stage = "done" THEN "sent" ELSE "open"
    BY <1>1, <1>2 DEF SessionInv, InStage
  <2>2. \A k \in Mails : KeepsRecorded(k)
    BY <1>5, <2>1 DEF KeepsRecorded
  <2> QED BY <1>3, <2>2, RowsUndisturbed DEF SMTPInv
<1> QED BY <1>3, <1>4, <1>5, <1>6, <1>7, <1>8, <1>9, <1>10, SessionStep

-----------------------------------------------------------------------------
(* Data.                                                                   *)

(* The call of Data finds out how the tests are and begins the loop. *)
LEMMA DataKeeps ==
  ASSUME SMTPInv, NEW s \in Sessions, Data(s)
  PROVE  SMTPInv'
<1>1. PICK m \in Mails : session[s].mail = m
  BY DEF Data, InTransaction, SMTPInv, SMTPTypeOK, Session
<1>2. /\ SMTPTypeOK /\ SessionInv(s) /\ MailInv(m) /\ session[s].pc = "command"
      /\ session' = Advance(s) /\ UNCHANGED dbVars /\ m # NULL
      /\ session[s].next = 0 /\ session[s].testIDs \in Seq(TestIDs)
      /\ mail[m].stage = "open"
  BY <1>1, SMTPAssumption, DatabaseAssumption
     DEF Data, InTransaction, SMTPInv, SMTPTypeOK, Session, SessionInv, IndexIsNew, InStage
<1>3. /\ StopsAreFinal /\ \A t : Stage(t)' = Stage(t) /\ UNCHANGED smtp_request
  BY <1>2, TestUnchanged DEF dbVars
<1>4. /\ session' \in [Sessions -> Session] /\ session'[s].mail = m
      /\ \A p \in Sessions \ {s} : session'[p] = session[p]
  BY <1>1, <1>2, AdvanceMoves
<1>5. /\ mail' \in [Mails -> MailHistory]
      /\ \A k \in Mails \ {m} : mail'[k] = mail[k]
      /\ mail'[m].stage = "sent" /\ mail'[m].recipients = mail[m].recipients
      /\ mail'[m].begun = [t \in TestIDs |-> Stage(t)]
      /\ mail'[m].inserted = mail[m].inserted /\ mail'[m].failed = mail[m].failed
  <2> DEFINE stages == [t \in TestIDs |-> Stage(t)]
             sent == [mail[m] EXCEPT !.stage = "sent"]
  <2>1. stages \in [TestIDs -> Stages]
    BY DEF Stage, Stages
  <2>2. mail' = [mail EXCEPT ![m] = [sent EXCEPT !.begun = stages]]
    BY <1>1 DEF Data
  <2> HIDE DEF stages
  <2>3. sent \in MailHistory /\ sent.stage = "sent" /\ sent.recipients = mail[m].recipients
        /\ sent.inserted = mail[m].inserted /\ sent.failed = mail[m].failed
    BY <1>2 DEF SMTPTypeOK, MailHistory
  <2> HIDE DEF sent
  <2>4. [sent EXCEPT !.begun = stages] \in MailHistory
    BY <2>1, <2>3 DEF MailHistory
  <2>5. mail' \in [Mails -> MailHistory] /\ mail'[m] = [sent EXCEPT !.begun = stages]
        /\ \A k \in Mails \ {m} : mail'[k] = mail[k]
    BY <1>2, <2>2, <2>4 DEF SMTPTypeOK
  <2>6. [sent EXCEPT !.begun = stages].begun = stages
    BY <2>3 DEF MailHistory
  <2>7. /\ [sent EXCEPT !.begun = stages].stage = "sent"
        /\ [sent EXCEPT !.begun = stages].recipients = mail[m].recipients
        /\ [sent EXCEPT !.begun = stages].inserted = mail[m].inserted
        /\ [sent EXCEPT !.begun = stages].failed = mail[m].failed
    BY <2>3 DEF MailHistory
  <2> QED BY <2>5, <2>6, <2>7 DEF stages
<1>6. SMTPTypeOK'
  BY <1>2, <1>4, <1>5 DEF SMTPTypeOK, DBTypeOK, dbVars
<1>7. SessionInv(s)'
  <2>1. \A t \in TestIDs : mail'[m].inserted[t] = 0
    BY <1>2, <1>5 DEF MailInv, NothingInsertedBefore
  <2>2. TestsUpTo(session[s].testIDs, session[s].next) = {}
    BY <1>2 DEF TestsUpTo
  <2>3. session[s].next \in 0..Len(session[s].testIDs)
    BY <1>2
  <2>4. TestsAreRecipients(s)
    BY <1>2 DEF SessionInv
  <2> QED BY <1>1, <1>2, <1>5, <2>1, <2>2, <2>3, <2>4, AdvanceKeeps
<1>8. MailInv(m)'
  <2>1. BegunStays(m)'
    BY <1>3, <1>5 DEF BegunStays
  <2> QED BY <1>2, <1>5, <2>1
          DEF MailInv, InsertedOnce, NothingInsertedBefore, NewIsEmpty, DoneIsSettled
<1>9. MailsAreOwned'
  BY <1>1, <1>4, OwnershipStays DEF SMTPInv
<1>10. RecordedForRecipients' /\ NoLateMail'
  BY <1>2, <1>3, <1>5, RowsUndisturbed DEF SMTPInv, KeepsRecorded
<1> QED BY <1>1, <1>3, <1>4, <1>5, <1>6, <1>7, <1>8, <1>9, <1>10, SessionStep

-----------------------------------------------------------------------------
(* The loop of Data, at the test that it is recording for.                 *)

(* What is known of a session that is at a test. *)
LEMMA AtTest ==
  ASSUME SMTPInv, NEW s \in Sessions, session[s].pc \in {"check", "insert"}
  PROVE  LET ids == session[s].testIDs
             i == session[s].next
         IN /\ session[s].mail \in Mails
            /\ mail[session[s].mail].stage = "sent"
            /\ ids \in Seq(TestIDs) /\ i \in 1..Len(ids)
            /\ CurrentTest(s) \in TestIDs
            /\ CurrentTest(s) \in mail[session[s].mail].recipients
            /\ CurrentTest(s) \notin TestsUpTo(ids, i - 1)
            /\ TestsUpTo(ids, i) = TestsUpTo(ids, i - 1) \cup {CurrentTest(s)}
            /\ TestsUpTo(ids, i) \subseteq TestIDs
<1> DEFINE ids == session[s].testIDs
           i == session[s].next
<1>1. /\ SMTPTypeOK /\ SessionInv(s)
      /\ session[s].mail \in Mails /\ ids \in Seq(TestIDs) /\ Len(ids) \in Nat
      /\ session[s].mail # NULL
  BY SMTPAssumption, DatabaseAssumption
     DEF SMTPInv, SMTPTypeOK, Session, SessionInv, InStage
<1>2. mail[session[s].mail].stage = "sent"
  BY <1>1 DEF SessionInv, InStage
<1>3. i \in 1..Len(ids) /\ CurrentTest(s) \notin TestsUpTo(ids, i - 1)
  BY <1>1 DEF SessionInv, IndexIsNew
<1>4. CurrentTest(s) = ids[i] /\ ids[i] \in TestIDs
  BY <1>1, <1>3 DEF CurrentTest
<1>5. CurrentTest(s) \in mail[session[s].mail].recipients
  BY <1>1, <1>3, <1>4 DEF SessionInv, TestsAreRecipients, TestsUpTo
<1>6. TestsUpTo(ids, i) = TestsUpTo(ids, i - 1) \cup {CurrentTest(s)}
  <2>1. i \in Nat /\ 1..i = 1..(i - 1) \cup {i}
    BY <1>1, <1>3
  <2> QED BY <1>4, <2>1 DEF TestsUpTo
<1>7. TestsUpTo(ids, i) \subseteq TestIDs
  BY <1>1, <1>3 DEF TestsUpTo
<1> QED BY <1>1, <1>2, <1>3, <1>4, <1>5, <1>6, <1>7

(* The loop goes on from a test that the step has settled, while the step  *)
(* inserts at most one row, for that test.                                 *)
LEMMA GoesOn ==
  ASSUME SMTPInv, NEW s \in Sessions, NEW m \in Mails, session[s].mail = m,
         session[s].pc \in {"check", "insert"}, session' = Advance(s),
         NEW current \in TestIDs, current = CurrentTest(s), UNCHANGED test, DBTypeOK', smtp_request \subseteq smtp_request',
         mail' \in [Mails -> MailHistory],
         \A k \in Mails \ {m} : mail'[k] = mail[k],
         mail'[m].stage = mail[m].stage, mail'[m].recipients = mail[m].recipients,
         mail'[m].begun = mail[m].begun, mail[m].failed \subseteq mail'[m].failed,
         \A t \in TestIDs \ {current} : mail'[m].inserted[t] = mail[m].inserted[t],
         mail'[m].inserted[current] \in
           {mail[m].inserted[current], mail[m].inserted[current] + 1},
         Settled(m, current)', RecordedForRecipients', NoLateMail'
  PROVE  SMTPInv'
<1> DEFINE ids == session[s].testIDs
           i == session[s].next
<1>1. /\ SMTPTypeOK /\ SessionInv(s) /\ MailInv(m)
  BY DEF SMTPInv
<1>2. /\ mail[m].stage = "sent" /\ ids \in Seq(TestIDs) /\ i \in 1..Len(ids)
      /\ current \notin TestsUpTo(ids, i - 1)
      /\ TestsUpTo(ids, i) = TestsUpTo(ids, i - 1) \cup {current}
      /\ TestsUpTo(ids, i) \subseteq TestIDs
  BY AtTest
<1>3. Len(ids) \in Nat /\ i \in 0..Len(ids)
  BY <1>2
<1>4. StopsAreFinal /\ \A t : Stage(t)' = Stage(t)
  BY TestUnchanged
<1>5. /\ session' \in [Sessions -> Session] /\ session'[s].mail = m
      /\ \A p \in Sessions \ {s} : session'[p] = session[p]
  BY <1>1, <1>3, AdvanceMoves
<1>6. SMTPTypeOK'
  BY <1>5 DEF SMTPTypeOK
<1>7. \A t \in TestsUpTo(ids, i) : Settled(m, t)'
  <2> SUFFICES ASSUME NEW t \in TestsUpTo(ids, i - 1)
               PROVE  Settled(m, t)'
    BY <1>2
  <2>1. Settled(m, t) /\ t \in TestIDs
    BY <1>1, <1>2 DEF SessionInv, SeenIsSettled
  <2> QED BY <1>1, <1>4, <2>1, SettledStays DEF MailInv
<1>8. mail[m].inserted[current] = 0
  BY <1>1, <1>2 DEF SessionInv, InsertedIsSeen
<1>9. \A t \in TestIDs : mail'[m].inserted[t] = 0 \/ t \in TestsUpTo(ids, i)
  BY <1>1, <1>2 DEF SessionInv, InsertedIsSeen
<1>10. SessionInv(s)'
  <2>1. TestsAreRecipients(s)
    BY <1>1 DEF SessionInv
  <2> QED BY <1>1, <1>2, <1>3, <1>7, <1>9, <2>1, AdvanceKeeps
<1>11. MailInv(m)'
  <2>1. BegunStays(m)'
    BY <1>1, <1>4 DEF MailInv, BegunStays
  <2>2. InsertedOnce(m)'
    BY <1>1, <1>8 DEF MailInv, InsertedOnce
  <2> QED BY <1>2, <2>1, <2>2 DEF MailInv, NothingInsertedBefore, NewIsEmpty, DoneIsSettled
<1>12. MailsAreOwned'
  BY <1>5, OwnershipStays DEF SMTPInv
<1> QED BY <1>4, <1>5, <1>6, <1>10, <1>11, <1>12, SessionStep

(* A failed statement settles the test, and the loop goes on. *)
LEMMA FailKeeps ==
  ASSUME SMTPInv, NEW s \in Sessions, session[s].pc \in {"check", "insert"},
         FailTest(s), UNCHANGED dbVars
  PROVE  SMTPInv'
<1>1. PICK m \in Mails : session[s].mail = m
  BY AtTest
<1>2. PICK t \in TestIDs : t = CurrentTest(s)
  BY AtTest
<1>3. SMTPTypeOK /\ mail[m].stage = "sent" /\ session' = Advance(s)
  BY <1>1, AtTest DEF SMTPInv, FailTest
<1>4. /\ mail' \in [Mails -> MailHistory]
      /\ \A k \in Mails \ {m} : mail'[k] = mail[k]
      /\ mail'[m].stage = mail[m].stage /\ mail'[m].recipients = mail[m].recipients
      /\ mail'[m].begun = mail[m].begun /\ mail'[m].inserted = mail[m].inserted
      /\ mail'[m].failed = mail[m].failed \cup {t}
  <2> DEFINE tests == mail[m].failed \cup {t}
             failed == [mail[m] EXCEPT !.failed = tests]
  <2>1. tests \in SUBSET TestIDs /\ mail[m] \in MailHistory
    BY <1>3 DEF SMTPTypeOK, MailHistory
  <2>2. mail' = [mail EXCEPT ![m] = failed]
    BY <1>1, <1>2 DEF FailTest
  <2> HIDE DEF tests
  <2>3. /\ failed \in MailHistory /\ failed.stage = mail[m].stage
        /\ failed.recipients = mail[m].recipients /\ failed.begun = mail[m].begun
        /\ failed.inserted = mail[m].inserted
    BY <2>1 DEF MailHistory
  <2>4. failed.failed = tests
    BY <2>1 DEF MailHistory
  <2> HIDE DEF failed
  <2> QED BY <1>3, <2>2, <2>3, <2>4 DEF SMTPTypeOK, tests
<1>5. UNCHANGED <<test, smtp_request>> /\ DBTypeOK'
  BY <1>3 DEF SMTPTypeOK, DBTypeOK, dbVars
<1>6. Settled(m, t)'
  BY <1>4 DEF Settled
<1>7. RecordedForRecipients' /\ NoLateMail'
  <2>1. \A k \in Mails : KeepsRecorded(k)
    BY <1>4 DEF KeepsRecorded
  <2> QED BY <1>3, <1>5, <2>1, RowsUndisturbed DEF SMTPInv
<1> QED BY <1>1, <1>2, <1>3, <1>4, <1>5, <1>6, <1>7, GoesOn DEF MailHistory

(* isRunningTest of a test of the loop. *)
LEMMA CheckKeeps ==
  ASSUME SMTPInv, NEW s \in Sessions, CheckMail(s)
  PROVE  SMTPInv'
<1>1. PICK m \in Mails : session[s].mail = m
  BY AtTest DEF CheckMail
<1>2. PICK t \in TestIDs : t = CurrentTest(s)
  BY AtTest DEF CheckMail
<1>3. /\ SMTPTypeOK /\ SessionInv(s) /\ MailInv(m) /\ session[s].pc = "check"
      /\ UNCHANGED dbVars /\ mail[m].stage = "sent" /\ m # NULL
  BY <1>1, AtTest, SMTPAssumption, DatabaseAssumption DEF CheckMail, SMTPInv
<1>4. UNCHANGED <<test, smtp_request>> /\ DBTypeOK'
  BY <1>3 DEF SMTPTypeOK, DBTypeOK, dbVars
<1>5. StopsAreFinal /\ \A k : Stage(k)' = Stage(k) /\ isRunningTest(k)' = isRunningTest(k)
  BY <1>4, TestUnchanged
<1>6. UNCHANGED mail => RecordedForRecipients' /\ NoLateMail'
  BY <1>3, <1>4, RowsUndisturbed DEF SMTPInv, KeepsRecorded
<1>7. CASE isRunningTest(t) /\ session' = [session EXCEPT ![s].pc = "insert"] /\ mail' = mail
  <2>1. /\ session' \in [Sessions -> Session]
        /\ \A p \in Sessions \ {s} : session'[p] = session[p]
        /\ session'[s].pc = "insert" /\ session'[s].mail = m
        /\ session'[s].testIDs = session[s].testIDs /\ session'[s].next = session[s].next
    BY <1>1, <1>3, <1>7 DEF SMTPTypeOK, Session
  <2>2. SMTPTypeOK'
    BY <1>3, <1>4, <1>7, <2>1 DEF SMTPTypeOK
  <2>3. mail[m].begun[t] # "stopped"
    BY <1>3, <1>7, RunningStage DEF MailInv, BegunStays
  <2>4. CurrentTest(s)' = t
    BY <1>2, <2>1 DEF CurrentTest
  <2>5. IdleIsNew(s)' /\ InStage(s)' /\ TestsAreRecipients(s)'
    BY <1>1, <1>3, <1>7, <2>1
       DEF SessionInv, IdleIsNew, InStage, TestsAreRecipients, TestsUpTo
  <2>6. IndexIsNew(s)'
    BY <1>2, <1>3, <2>1, <2>4 DEF SessionInv, IndexIsNew, TestsUpTo
  <2>7. InsertedIsSeen(s)'
    BY <1>1, <1>3, <1>7, <2>1 DEF SessionInv, InsertedIsSeen, TestsUpTo
  <2>8. SeenIsSettled(s)'
    <3>1. \A k \in TestsUpTo(session[s].testIDs, session[s].next - 1) : Settled(m, k)
      BY <1>1, <1>3 DEF SessionInv, SeenIsSettled
    <3>2. \A k : Settled(m, k) => Settled(m, k)'
      BY <1>4, <1>5, <1>7 DEF Settled
    <3>3. \A k \in TestsUpTo(session[s].testIDs, session[s].next - 1) : Settled(m, k)'
      BY <3>1, <3>2
    <3> QED BY <2>1, <3>3 DEF SeenIsSettled, TestsUpTo, Settled
  <2>9. InsertsInTime(s)'
    BY <1>7, <2>1, <2>3, <2>4 DEF InsertsInTime
  <2>10. SessionInv(s)'
    BY <2>5, <2>6, <2>7, <2>8, <2>9 DEF SessionInv
  <2>11. MailInv(m)'
    BY <1>3, <1>4, <1>5, <1>7, MailUndisturbed
  <2>12. MailsAreOwned'
    BY <1>1, <2>1, OwnershipStays DEF SMTPInv
  <2> QED BY <1>1, <1>4, <1>5, <1>6, <1>7, <2>1, <2>2, <2>10, <2>11, <2>12, SessionStep
<1>8. CASE ~isRunningTest(t) /\ session' = Advance(s) /\ mail' = mail
  <2>1. Settled(m, t)'
    BY <1>5, <1>8 DEF Settled
  <2>2. mail' \in [Mails -> MailHistory]
    BY <1>3, <1>8 DEF SMTPTypeOK
  <2> QED BY <1>1, <1>2, <1>3, <1>4, <1>6, <1>8, <2>1, <2>2, GoesOn
<1>9. CASE FailTest(s)
  BY <1>3, <1>9, FailKeeps
<1> QED BY <1>2, <1>7, <1>8, <1>9 DEF CheckMail

(* The insertion, if it does not fail: the row is one of a recipient, the  *)
(* first of the mail for that test, and the test was not stopped before.   *)
LEMMA InsertKeeps ==
  ASSUME SMTPInv, NEW s \in Sessions, recordSMTPRequest(s)
  PROVE  SMTPInv'
<1>1. PICK m \in Mails : session[s].mail = m
  BY AtTest DEF recordSMTPRequest
<1>2. PICK t \in TestIDs : t = CurrentTest(s)
  BY AtTest DEF recordSMTPRequest
<1>3. /\ SMTPTypeOK /\ SessionInv(s) /\ session[s].pc = "insert"
      /\ mail[m].stage = "sent" /\ t \in mail[m].recipients
  BY <1>1, <1>2, AtTest DEF recordSMTPRequest, SMTPInv
<1>4. CASE FailTest(s) /\ UNCHANGED dbVars
  BY <1>3, <1>4, FailKeeps
<1>5. CASE /\ InsertSMTPRequest(t, m) /\ session' = Advance(s)
           /\ mail' = [mail EXCEPT ![m].inserted[t] = @ + 1]
  <2>1. DBTypeOK' /\ UNCHANGED test
    BY <1>3, <1>5, RequestStatements DEF SMTPTypeOK
  <2>2. smtp_request' = smtp_request \cup {RowFor(t, m)}
    BY <1>5 DEF InsertSMTPRequest
  <2>3. /\ mail' \in [Mails -> MailHistory]
        /\ \A k \in Mails \ {m} : mail'[k] = mail[k]
        /\ mail'[m].stage = mail[m].stage /\ mail'[m].recipients = mail[m].recipients
        /\ mail'[m].begun = mail[m].begun /\ mail'[m].failed = mail[m].failed
        /\ mail'[m].inserted = [mail[m].inserted EXCEPT ![t] = @ + 1]
    <3> DEFINE counts == [mail[m].inserted EXCEPT ![t] = @ + 1]
               counted == [mail[m] EXCEPT !.inserted = counts]
    <3>1. counts \in [TestIDs -> Nat] /\ mail[m] \in MailHistory
      BY <1>3 DEF SMTPTypeOK, MailHistory
    <3>2. mail' = [mail EXCEPT ![m] = counted]
      BY <1>5
    <3> HIDE DEF counts
    <3>3. /\ counted \in MailHistory /\ counted.stage = mail[m].stage
          /\ counted.recipients = mail[m].recipients /\ counted.begun = mail[m].begun
          /\ counted.failed = mail[m].failed
      BY <3>1 DEF MailHistory
    <3>4. counted.inserted = counts
      BY <3>1 DEF MailHistory
    <3> HIDE DEF counted
    <3> QED BY <1>3, <3>2, <3>3, <3>4 DEF SMTPTypeOK, counts
  <2>4. /\ \A k \in TestIDs \ {t} : mail'[m].inserted[k] = mail[m].inserted[k]
        /\ mail'[m].inserted[t] = mail[m].inserted[t] + 1
    BY <1>3, <2>3 DEF SMTPTypeOK, MailHistory
  <2>5. /\ RowFor(t, m).req = m /\ RowFor(t, m).test = t
    BY DEF RowFor
  <2>6. Settled(m, t)'
    BY <2>2, <2>5 DEF Settled
  <2>7. \A row \in smtp_request : row.req \in Mails
    BY <1>3 DEF SMTPTypeOK, DBTypeOK, RequestRow
  <2>8. RecordedForRecipients'
    BY <1>3, <2>2, <2>3, <2>5, <2>7 DEF SMTPInv, RecordedForRecipients
  <2>9. NoLateMail'
    <3>1. mail[m].begun[t] # "stopped"
      BY <1>1, <1>2, <1>3 DEF SessionInv, InsertsInTime
    <3> QED BY <2>2, <2>3, <2>5, <2>7, <3>1 DEF SMTPInv, NoLateMail
  <2> QED BY <1>1, <1>2, <1>3, <1>5, <2>1, <2>2, <2>3, <2>4, <2>6, <2>8, <2>9, GoesOn
<1> QED BY <1>1, <1>2, <1>4, <1>5 DEF recordSMTPRequest

-----------------------------------------------------------------------------
(* Crashes and the other goroutines.                                       *)

(* A mail that was open or sent is lost in a crash, and is empty or has    *)
(* its rows for ever.                                                      *)
LEMMA CrashKeeps ==
  ASSUME SMTPInv, SMTPCrash, UNCHANGED dbVars
  PROVE  SMTPInv'
<1>1. SMTPTypeOK /\ UNCHANGED <<test, smtp_request>> /\ DBTypeOK'
  BY DEF SMTPInv, SMTPTypeOK, DBTypeOK, dbVars
<1>2. StopsAreFinal /\ \A t : Stage(t)' = Stage(t)
  BY <1>1, TestUnchanged
<1>3. NewSession \in Session
  BY DEF NewSession, Session
<1>4. \A s \in Sessions : session'[s] = NewSession
  BY DEF SMTPCrash
<1>5. session' \in [Sessions -> Session]
  BY <1>3 DEF SMTPCrash
<1>6. ASSUME NEW m \in Mails
      PROVE  /\ mail'[m] \in MailHistory
             /\ mail'[m].recipients = mail[m].recipients
             /\ mail'[m].begun = mail[m].begun
             /\ mail'[m].inserted = mail[m].inserted
             /\ mail'[m].stage = IF mail[m].stage \in {"open", "sent"}
                                   THEN "lost" ELSE mail[m].stage
             /\ mail'[m].stage = "done" => mail'[m] = mail[m]
  <2>1. mail[m] \in MailHistory
    BY <1>1 DEF SMTPTypeOK
  <2>2. mail'[m] = IF mail[m].stage \in {"open", "sent"}
                     THEN [mail[m] EXCEPT !.stage = "lost"] ELSE mail[m]
    BY DEF SMTPCrash
  <2> QED BY <2>1, <2>2 DEF MailHistory
<1>7. mail' \in [Mails -> MailHistory]
  <2>1. mail' = [m \in Mails |-> mail'[m]]
    BY DEF SMTPCrash
  <2> QED BY <1>6, <2>1
<1>8. SMTPTypeOK'
  BY <1>1, <1>5, <1>7 DEF SMTPTypeOK
<1>9. ASSUME NEW s \in Sessions
      PROVE  SessionInv(s)'
  <2>1. /\ session'[s].pc = "command" /\ session'[s].mail = NULL /\ session'[s].next = 0
    BY <1>4 DEF NewSession
  <2> QED BY <1>4, <2>1
          DEF SessionInv, IdleIsNew, InStage, TestsAreRecipients, IndexIsNew, InsertedIsSeen,
              SeenIsSettled, InsertsInTime, NewSession
<1>10. ASSUME NEW m \in Mails
       PROVE  MailInv(m)'
  <2>1. MailInv(m)
    BY DEF SMTPInv
  <2>2. BegunStays(m)' /\ InsertedOnce(m)'
    BY <1>2, <1>6, <2>1 DEF MailInv, BegunStays, InsertedOnce
  <2>3. NothingInsertedBefore(m)' /\ NewIsEmpty(m)'
    BY <1>6, <2>1 DEF MailInv, NothingInsertedBefore, NewIsEmpty
  <2>4. DoneIsSettled(m)'
    <3> SUFFICES ASSUME mail'[m].stage = "done"
                 PROVE  DoneIsSettled(m)'
      BY DEF DoneIsSettled
    <3>1. MailInv(m)'
      BY <1>1, <1>2, <1>6, <2>1, MailUndisturbed
    <3> QED BY <3>1 DEF MailInv
  <2> QED BY <2>2, <2>3, <2>4 DEF MailInv
<1>11. MailsAreOwned'
  BY <1>4 DEF MailsAreOwned, NewSession
<1>12. RecordedForRecipients' /\ NoLateMail'
  <2>1. \A m \in Mails : KeepsRecorded(m)
    BY <1>6 DEF KeepsRecorded
  <2> QED BY <1>1, <2>1, RowsUndisturbed DEF SMTPInv
<1> QED BY <1>8, <1>9, <1>10, <1>11, <1>12 DEF SMTPInv

(* Others leave the sessions and the rows of the mails alone, and start no *)
(* stopped test again.                                                     *)
LEMMA OthersKeep ==
  ASSUME SMTPInv, DBTypeOK', StopsAreFinal, UNCHANGED <<session, mail, smtp_request>>
  PROVE  SMTPInv'
<1>1. SMTPTypeOK
  BY DEF SMTPInv
<1>2. SMTPTypeOK'
  BY <1>1 DEF SMTPTypeOK
<1>3. \A s \in Sessions : SessionInv(s)'
  BY <1>1, SessionUndisturbed DEF SMTPInv
<1>4. \A m \in Mails : MailInv(m)'
  BY <1>1, MailUndisturbed DEF SMTPInv
<1>5. MailsAreOwned'
  BY DEF SMTPInv, MailsAreOwned
<1>6. RecordedForRecipients' /\ NoLateMail'
  BY <1>1, RowsUndisturbed DEF SMTPInv, KeepsRecorded
<1> QED BY <1>2, <1>3, <1>4, <1>5, <1>6 DEF SMTPInv

-----------------------------------------------------------------------------
(* The invariant.                                                          *)

LEMMA InvInit ==
  ASSUME DBTypeOK, smtp_request = {}, SMTPInit
  PROVE  SMTPInv
<1>1. NewSession \in Session
  BY DEF NewSession, Session
<1>2. /\ session \in [Sessions -> Session]
      /\ \A s \in Sessions : session[s] = NewSession
  BY <1>1 DEF SMTPInit
<1>3. ASSUME NEW m \in Mails
      PROVE  /\ mail[m] \in MailHistory /\ mail[m].stage = "new"
             /\ mail[m].recipients = {}
             /\ \A t \in TestIDs : mail[m].begun[t] = "absent" /\ mail[m].inserted[t] = 0
  <2> DEFINE begun == [t \in TestIDs |-> "absent"]
             inserted == [t \in TestIDs |-> 0]
  <2>1. begun \in [TestIDs -> Stages] /\ inserted \in [TestIDs -> Nat]
    BY DEF Stages
  <2>2. /\ \A t \in TestIDs : begun[t] = "absent" /\ inserted[t] = 0
    OBVIOUS
  <2>3. mail[m] = [stage |-> "new", recipients |-> {}, refused |-> {}, begun |-> begun,
                   failed |-> {}, inserted |-> inserted]
    BY DEF SMTPInit
  <2> HIDE DEF begun, inserted
  <2> QED BY <2>1, <2>2, <2>3 DEF MailHistory
<1>4. mail \in [Mails -> MailHistory]
  <2>1. mail = [m \in Mails |-> mail[m]]
    BY DEF SMTPInit
  <2> QED BY <1>3, <2>1
<1>5. SMTPTypeOK
  BY <1>2, <1>4 DEF SMTPTypeOK
<1>6. ASSUME NEW s \in Sessions
      PROVE  SessionInv(s)
  <2>1. /\ session[s].pc = "command" /\ session[s].mail = NULL /\ session[s].next = 0
    BY <1>2 DEF NewSession
  <2> QED BY <1>2, <2>1
          DEF SessionInv, IdleIsNew, InStage, TestsAreRecipients, IndexIsNew, InsertedIsSeen,
              SeenIsSettled, InsertsInTime, NewSession
<1>7. \A m \in Mails : MailInv(m)
  BY <1>3
     DEF MailInv, BegunStays, InsertedOnce, NothingInsertedBefore, NewIsEmpty, DoneIsSettled
<1>8. MailsAreOwned /\ RecordedForRecipients /\ NoLateMail
  BY <1>2 DEF MailsAreOwned, RecordedForRecipients, NoLateMail, NewSession
<1> QED BY <1>5, <1>6, <1>7, <1>8 DEF SMTPInv

(* Abandon, DataUnreadable and Reply end the transaction of the session. *)
LEMMA EndingsKeep ==
  ASSUME SMTPInv, NEW s \in Sessions, Abandon(s) \/ DataUnreadable(s) \/ Reply(s)
  PROVE  SMTPInv'
<1>1. PICK m \in Mails : session[s].mail = m
  BY DEF Abandon, DataUnreadable, Reply, InTransaction, SMTPInv, SMTPTypeOK, Session,
         SessionInv, InStage
<1>2. CASE Abandon(s)
  BY <1>1, <1>2, EndKeeps DEF Abandon, InTransaction, Reset
<1>3. CASE DataUnreadable(s)
  BY <1>1, <1>3, EndKeeps DEF DataUnreadable, InTransaction, Reset
<1>4. CASE Reply(s)
  BY <1>1, <1>4, EndKeeps DEF Reply, Reset
<1> QED BY <1>2, <1>3, <1>4

(* Every step of a session, of the others, and a crash keep the invariant. *)
LEMMA InvStep ==
  ASSUME SMTPInv, [SMTPServerNext]_smtpVars
  PROVE  SMTPInv'
<1>1. CASE SMTPNext
  <2> PICK s \in Sessions :
        \/ \E m \in Mails : Mail(s, m)
        \/ \E addr \in Addresses : Rcpt(s, addr)
        \/ Abandon(s) \/ DataUnreadable(s) \/ Data(s)
        \/ RecordMail(s)
    BY <1>1 DEF SMTPNext
  <2>1. CASE \E m \in Mails : Mail(s, m)
    BY <2>1, MailKeeps
  <2>2. CASE \E addr \in Addresses : Rcpt(s, addr)
    BY <2>2, RcptKeeps
  <2>3. CASE Abandon(s) \/ DataUnreadable(s) \/ Reply(s)
    BY <2>3, EndingsKeep
  <2>4. CASE Data(s)
    BY <2>4, DataKeeps
  <2>5. CASE CheckMail(s)
    BY <2>5, CheckKeeps
  <2>6. CASE recordSMTPRequest(s)
    BY <2>6, InsertKeeps
  <2> QED BY <2>1, <2>2, <2>3, <2>4, <2>5, <2>6 DEF RecordMail
<1>2. CASE OtherStatements /\ UNCHANGED <<session, mail>>
  <2>1. DBTypeOK' /\ StopsAreFinal /\ UNCHANGED smtp_request
    BY <1>2, EnvironmentStep DEF SMTPInv, SMTPTypeOK
  <2> QED BY <1>2, <2>1, OthersKeep
<1>3. CASE SMTPCrash /\ UNCHANGED dbVars
  BY <1>3, CrashKeeps
<1>4. CASE UNCHANGED smtpVars
  <2>1. DBTypeOK' /\ StopsAreFinal
    BY <1>4, TestUnchanged DEF smtpVars, dbVars, SMTPInv, SMTPTypeOK, DBTypeOK
  <2> QED BY <1>4, <2>1, OthersKeep DEF smtpVars, dbVars
<1> QED BY <1>1, <1>2, <1>3, <1>4 DEF SMTPServerNext

(* The invariant always holds. *)
LEMMA InvHolds == SMTPServerSpec => []SMTPInv
<1>1. SMTPServerInit => SMTPInv
  <2>1. SMTPServerInit => DBTypeOK /\ smtp_request = {} /\ SMTPInit
    BY EmptyDatabase DEF SMTPServerInit, DBInit
  <2> QED BY <2>1, InvInit
<1>2. SMTPInv /\ [SMTPServerNext]_smtpVars => SMTPInv'
  BY InvStep
<1> QED BY <1>1, <1>2, PTL DEF SMTPServerSpec

-----------------------------------------------------------------------------
(* The theorems.                                                           *)

(* Every variable has its type: no list of recipients, and no set of tests *)
(* that failed, holds anything but tests. *)
THEOREM SMTPTypeCorrect == SMTPServerSpec => []SMTPTypeOK
<1>1. SMTPInv => SMTPTypeOK
  BY DEF SMTPInv
<1> QED BY <1>1, InvHolds, PTL

(* A mail is recorded for its own recipients only, never for those of an   *)
(* earlier mail of the session, and only after all of it came. *)
THEOREM RecordedForRecipientsHolds == SMTPServerSpec => []RecordedForRecipients
<1>1. SMTPInv => RecordedForRecipients
  BY DEF SMTPInv
<1> QED BY <1>1, InvHolds, PTL

(* A mail is inserted once for a test, however often the test is named and *)
(* whichever statements fail. *)
THEOREM RecordedOnceHolds == SMTPServerSpec => []RecordedOnce
<1>1. SMTPInv => RecordedOnce
  BY DEF SMTPInv, MailInv, InsertedOnce, RecordedOnce
<1> QED BY <1>1, InvHolds, PTL

(* No mail is recorded for a test that was stopped before Data was called. *)
THEOREM NoLateMailHolds == SMTPServerSpec => []NoLateMail
<1>1. SMTPInv => NoLateMail
  BY DEF SMTPInv
<1> QED BY <1>1, InvHolds, PTL

(* A mail is recorded for every recipient whose test runs from Data to the *)
(* reply and whose statements succeed. *)
THEOREM LiveMailRecordedHolds == SMTPServerSpec => []LiveMailRecorded
<1>1. SMTPInv => LiveMailRecorded
  BY DEF SMTPInv, MailInv, DoneIsSettled, Settled, LiveMailRecorded
<1> QED BY <1>1, InvHolds, PTL

-----------------------------------------------------------------------------
(* What the server promises to the log of a test, for the composition with *)
(* the other servers and the dashboard (SystemProofs).                     *)

(* A row was counted at its insertion, so a test that the loop of Data is  *)
(* at, for which it has counted none, has none.                            *)
RowsAreCounted == \A row \in smtp_request : mail[row.req].inserted[row.test] # 0

CountedInv == SMTPInv /\ RowsAreCounted

(* The test at the index of the session was found running. *)
IsAdmitted(s) == session[s].pc = "insert"

(* A step of a session admits its mail to the test at the index, if that   *)
(* is running, leaves the row of the mail there, or does nothing that      *)
(* matters to a test.                                                      *)
ServesTest(s) ==
  /\ \A p \in Sessions \ {s} : session'[p] = session[p]
  /\ UNCHANGED <<clock, test, dns_record, http_file, dns_request, http_request>>
  /\ \/ UNCHANGED smtp_request /\ ~IsAdmitted(s)'
     \/ /\ UNCHANGED smtp_request /\ ~IsAdmitted(s) /\ IsAdmitted(s)'
        /\ CurrentTest(s)' = CurrentTest(s) /\ session'[s].mail = session[s].mail
        /\ session[s].mail \in Mails
        /\ CurrentTest(s) \in TestIDs /\ isRunningTest(CurrentTest(s))
        /\ \A row \in smtp_request :
             ~(row.req = session[s].mail /\ row.test = CurrentTest(s))
     \/ /\ IsAdmitted(s) /\ ~IsAdmitted(s)'
        /\ session[s].mail \in Mails /\ CurrentTest(s) \in TestIDs
        /\ InsertSMTPRequest(CurrentTest(s), session[s].mail)

(* The counts never go down, and every other step inserts nothing. *)
LEMMA CountsStay ==
  ASSUME SMTPTypeOK, RowsAreCounted, UNCHANGED smtp_request,
         \A m \in Mails : mail'[m].inserted = mail[m].inserted
  PROVE  RowsAreCounted'
<1>1. \A row \in smtp_request : row.req \in Mails
  BY DEF SMTPTypeOK, DBTypeOK, RequestRow
<1> QED BY <1>1 DEF RowsAreCounted

(* What Advance never does is to admit the session. *)
LEMMA AdvanceLeaves ==
  ASSUME SMTPTypeOK, NEW s \in Sessions, session' = Advance(s)
  PROVE  ~IsAdmitted(s)' /\ \A p \in Sessions \ {s} : session'[p] = session[p]
<1> DEFINE j == NextIndex(session[s].testIDs, session[s].next)
           pc == IF j > Len(session[s].testIDs) THEN "reply" ELSE "check"
<1>1. session' = [session EXCEPT ![s].next = j, ![s].pc = pc]
  BY DEF Advance
<1>2. pc # "insert"
  OBVIOUS
<1> HIDE DEF j, pc
<1>3. session'[s].pc = pc /\ \A p \in Sessions \ {s} : session'[p] = session[p]
  BY <1>1 DEF SMTPTypeOK, Session
<1> QED BY <1>2, <1>3 DEF IsAdmitted

(* A session whose step inserts no row. *)
LEMMA QuietStep ==
  ASSUME SMTPInv, RowsAreCounted, NEW s \in Sessions,
         \/ \E m \in Mails : Mail(s, m)
         \/ \E addr \in Addresses : Rcpt(s, addr)
         \/ Abandon(s) \/ DataUnreadable(s) \/ Data(s) \/ Reply(s)
  PROVE  RowsAreCounted' /\ ServesTest(s)
<1>1. SMTPTypeOK /\ UNCHANGED dbVars
  BY DEF SMTPInv, Mail, Rcpt, Abandon, DataUnreadable, Data, Reply
<1>2. \A m \in Mails : mail'[m].inserted = mail[m].inserted
  <2>1. ASSUME NEW m \in Mails, NEW k \in Mails, NEW stage,
               mail' = [mail EXCEPT ![k].stage = stage]
        PROVE  mail'[m].inserted = mail[m].inserted
    BY <1>1, <2>1 DEF SMTPTypeOK, MailHistory
  <2>2. ASSUME NEW m \in Mails, NEW k \in Mails, NEW begun,
               mail' = [mail EXCEPT ![k].stage = "sent", ![k].begun = begun]
        PROVE  mail'[m].inserted = mail[m].inserted
    BY <1>1, <2>2 DEF SMTPTypeOK, MailHistory
  <2>3. InTransaction(s) \/ session[s].pc # "command" => session[s].mail \in Mails
    BY DEF SMTPInv, SMTPTypeOK, Session, InTransaction, SessionInv, InStage
  <2>4. CASE \E addr \in Addresses : Rcpt(s, addr)
    BY <1>1, <2>3, <2>4, RcptMoves DEF Rcpt
  <2>5. CASE Abandon(s) \/ DataUnreadable(s) \/ Reply(s)
    BY <2>1, <2>3, <2>5 DEF Abandon, DataUnreadable, Reply
  <2>6. CASE Data(s)
    BY <2>2, <2>3, <2>6 DEF Data
  <2>7. CASE \E m \in Mails : Mail(s, m)
    BY <2>1, <2>7 DEF Mail
  <2> QED BY <2>4, <2>5, <2>6, <2>7
<1>3. ~IsAdmitted(s)' /\ \A p \in Sessions \ {s} : session'[p] = session[p]
  <2>1. CASE Data(s)
    BY <1>1, <2>1, AdvanceLeaves DEF Data
  <2>2. CASE \E m \in Mails : Mail(s, m)
    BY <1>1, <2>2 DEF Mail, IsAdmitted, SMTPTypeOK, Session
  <2>3. CASE \E addr \in Addresses : Rcpt(s, addr)
    BY <1>1, <2>3 DEF Rcpt, InTransaction, IsAdmitted, SMTPTypeOK, Session
  <2>4. CASE Abandon(s) \/ DataUnreadable(s) \/ Reply(s)
    BY <1>1, <2>4
       DEF Abandon, DataUnreadable, Reply, Reset, NewSession, IsAdmitted, SMTPTypeOK
  <2> QED BY <2>1, <2>2, <2>3, <2>4
<1> QED BY <1>1, <1>2, <1>3, CountsStay DEF dbVars, ServesTest

(* A statement that fails inserts no row. *)
LEMMA FailedStep ==
  ASSUME SMTPTypeOK, RowsAreCounted, NEW s \in Sessions, FailTest(s), UNCHANGED dbVars
  PROVE  RowsAreCounted' /\ ServesTest(s)
<1>1. \A m \in Mails : mail'[m].inserted = mail[m].inserted
  BY DEF SMTPTypeOK, MailHistory, FailTest
<1>2. ~IsAdmitted(s)' /\ \A p \in Sessions \ {s} : session'[p] = session[p]
  BY AdvanceLeaves DEF FailTest
<1> QED BY <1>1, <1>2, CountsStay DEF dbVars, ServesTest

(* The check admits the mail to a test that has no row of it. *)
LEMMA CheckStep ==
  ASSUME SMTPInv, RowsAreCounted, NEW s \in Sessions, CheckMail(s)
  PROVE  RowsAreCounted' /\ ServesTest(s)
<1>1. /\ SMTPTypeOK /\ SessionInv(s) /\ session[s].pc = "check" /\ UNCHANGED dbVars
  BY DEF SMTPInv, CheckMail
<1>2. CASE FailTest(s)
  BY <1>1, <1>2, FailedStep
<1>3. CASE session' = Advance(s) /\ mail' = mail
  BY <1>1, <1>3, AdvanceLeaves, CountsStay DEF dbVars, ServesTest
<1>4. CASE /\ isRunningTest(CurrentTest(s)) /\ mail' = mail
           /\ session' = [session EXCEPT ![s].pc = "insert"]
  <2>1. /\ \A p \in Sessions \ {s} : session'[p] = session[p]
        /\ session'[s].pc = "insert" /\ session'[s].mail = session[s].mail
        /\ session'[s].testIDs = session[s].testIDs /\ session'[s].next = session[s].next
    BY <1>1, <1>4 DEF SMTPTypeOK, Session
  <2>2. CurrentTest(s)' = CurrentTest(s)
    BY <2>1 DEF CurrentTest
  <2>3. /\ session[s].mail \in Mails /\ CurrentTest(s) \in TestIDs
        /\ mail[session[s].mail].inserted[CurrentTest(s)] = 0
    BY <1>1, AtTest DEF SessionInv, InsertedIsSeen
  <2>4. \A row \in smtp_request :
          ~(row.req = session[s].mail /\ row.test = CurrentTest(s))
    BY <2>3 DEF RowsAreCounted
  <2> QED BY <1>1, <1>4, <2>1, <2>2, <2>3, <2>4, CountsStay DEF dbVars, ServesTest, IsAdmitted
<1> QED BY <1>2, <1>3, <1>4 DEF CheckMail

(* The insertion is counted. *)
LEMMA RecordStep ==
  ASSUME SMTPInv, RowsAreCounted, NEW s \in Sessions, recordSMTPRequest(s)
  PROVE  RowsAreCounted' /\ ServesTest(s)
<1>1. /\ SMTPTypeOK /\ IsAdmitted(s)
      /\ session[s].mail \in Mails /\ CurrentTest(s) \in TestIDs
  BY AtTest DEF SMTPInv, recordSMTPRequest, IsAdmitted
<1>2. CASE FailTest(s) /\ UNCHANGED dbVars
  BY <1>1, <1>2, FailedStep
<1>3. CASE /\ InsertSMTPRequest(CurrentTest(s), session[s].mail) /\ session' = Advance(s)
           /\ mail' = [mail EXCEPT ![session[s].mail].inserted[CurrentTest(s)] = @ + 1]
  <2>1. ~IsAdmitted(s)' /\ \A p \in Sessions \ {s} : session'[p] = session[p]
    BY <1>1, <1>3, AdvanceLeaves
  <2>2. ServesTest(s)
    BY <1>1, <1>3, <2>1 DEF InsertSMTPRequest, ServesTest
  <2>3. PICK m \in Mails, t \in TestIDs : m = session[s].mail /\ t = CurrentTest(s)
    BY <1>1
  <2>4. /\ \A k \in Mails \ {m} : mail'[k] = mail[k]
        /\ mail'[m].inserted = [mail[m].inserted EXCEPT ![t] = @ + 1]
        /\ mail[m].inserted \in [TestIDs -> Nat]
    BY <1>1, <1>3, <2>3 DEF SMTPTypeOK, MailHistory
  <2>5. /\ mail'[m].inserted[t] # 0
        /\ \A k \in TestIDs \ {t} : mail'[m].inserted[k] = mail[m].inserted[k]
    BY <2>4
  <2>6. /\ smtp_request' = smtp_request \cup {RowFor(t, m)}
        /\ RowFor(t, m).req = m /\ RowFor(t, m).test = t
        /\ \A row \in smtp_request : row.req \in Mails /\ row.test \in TestIDs
    BY <1>1, <1>3, <2>3 DEF InsertSMTPRequest, RowFor, SMTPTypeOK, DBTypeOK, RequestRow
  <2>7. RowsAreCounted'
    BY <2>4, <2>5, <2>6 DEF RowsAreCounted
  <2> QED BY <2>2, <2>7
<1> QED BY <1>2, <1>3 DEF recordSMTPRequest

(* That is all that the server does for a session, and it keeps the        *)
(* invariant.                                                              *)
LEMMA ServerStep ==
  ASSUME CountedInv, NEW s \in Sessions,
         \/ \E m \in Mails : Mail(s, m)
         \/ \E addr \in Addresses : Rcpt(s, addr)
         \/ Abandon(s) \/ DataUnreadable(s) \/ Data(s)
         \/ RecordMail(s)
  PROVE  CountedInv' /\ ServesTest(s)
<1>1. SMTPInv'
  BY InvStep DEF CountedInv, SMTPServerNext, SMTPNext
<1>2. RowsAreCounted' /\ ServesTest(s)
  BY QuietStep, CheckStep, RecordStep DEF CountedInv, RecordMail
<1> QED BY <1>1, <1>2 DEF CountedInv

(* Others keep the invariant. *)
LEMMA OthersKeepCounted ==
  ASSUME CountedInv, DBTypeOK', StopsAreFinal, UNCHANGED <<session, mail, smtp_request>>
  PROVE  CountedInv'
  BY OthersKeep DEF CountedInv, RowsAreCounted

(* A crash admits nobody. *)
LEMMA CrashAdmitsNobody ==
  ASSUME CountedInv, SMTPCrash, UNCHANGED dbVars
  PROVE  CountedInv' /\ \A s \in Sessions : ~IsAdmitted(s)'
<1>1. SMTPInv /\ SMTPInv'
  BY CrashKeeps DEF CountedInv
<1>2. \A m \in Mails : mail'[m].inserted = mail[m].inserted
  BY <1>1 DEF SMTPInv, SMTPTypeOK, MailHistory, SMTPCrash
<1>3. RowsAreCounted'
  BY <1>1, <1>2, CountsStay DEF CountedInv, SMTPInv, dbVars
<1> QED BY <1>1, <1>3 DEF CountedInv, SMTPCrash, IsAdmitted, NewSession

(* The first state. *)
LEMMA ServerBegins ==
  ASSUME DBTypeOK, smtp_request = {}, SMTPInit
  PROVE  CountedInv
  BY InvInit DEF CountedInv, RowsAreCounted

=============================================================================
