--------------------------- MODULE CleanupProofs ---------------------------
(***************************************************************************)
(* Theorems about the periodic cleanup, for every period, lifetime and     *)
(* time zone, and for any number of tests, failures and crashes: while its *)
(* goroutine waits after a success, no running test is overdue by a whole  *)
(* period.                                                                 *)
(*                                                                         *)
(* That is not inductive: what a wait may add to the age of a test         *)
(* is what has passed of the period of the ticker, which goes on from      *)
(* before the cleanup, and was there a tick in the channel, then the       *)
(* goroutine does not wait (AgesInv).                                      *)
(***************************************************************************)
EXTENDS Cleanup, DatabaseProofs

(* The variables of the loop, and the bounds of its counters. *)
LoopTypeOK ==
  /\ cleaner \in {"run", "wait", "down"}
  /\ ticker \in BOOLEAN
  /\ remaining \in 1..Period
  /\ failed \in BOOLEAN
  /\ failures \in 0..MaxFailures
  /\ crashes \in 0..MaxCrashes

(* The age at which the cleanup stops a test. *)
Due == TestLifetime - ZoneOffset

(* Since the last success, which left no running test that was due, no     *)
(* more time has passed than is gone of the period of the ticker.  A test  *)
(* that was started since is no older than that.                           *)
Recent(t) ==
  Age(t) <= Period - remaining \/ Age(t) < Due + Period - remaining

AgesInv ==
  cleaner = "wait" /\ ~ticker /\ ~failed =>
    \A t \in TestIDs : isRunningTest(t) => Recent(t)

CleanupInv == DBTypeOK /\ LoopTypeOK /\ AgesInv

(* The time of a test that runs. *)
LEMMA RunningStarted ==
  ASSUME DBTypeOK, NEW t \in TestIDs, isRunningTest(t)
  PROVE  test[t].started \in Nat /\ Age(t) \in Int /\ Due \in Int
  BY CleanupAssumption, DatabaseAssumption
     DEF DBTypeOK, TestRow, isRunningTest, Exists, Age, Due

(* A test runs after the cleanup if, and only if, it ran and was not due. *)
LEMMA CleanedUp ==
  ASSUME DBTypeOK, cleanupTests, NEW t \in TestIDs
  PROVE  /\ isRunningTest(t)' <=> isRunningTest(t) /\ Age(t) < Due
         /\ test'[t].started = test[t].started /\ clock' = clock
<1>1. /\ test'[t] = IF isRunningTest(t) /\ Expired(t)
                      THEN [test[t] EXCEPT !.stopped = clock]
                      ELSE test[t]
      /\ clock' = clock /\ clock \in Nat /\ clock # NULL
  BY DatabaseAssumption DEF cleanupTests, DBTypeOK
<1>2. test[t] \in TestRow
  BY DEF DBTypeOK
<1>3. test'[t].started = test[t].started
  BY <1>1, <1>2 DEF TestRow
<1>4. CASE ~isRunningTest(t)
  BY <1>1, <1>3, <1>4 DEF isRunningTest, Exists
<1>5. CASE isRunningTest(t)
  <2>1. Expired(t) <=> ~(Age(t) < Due)
    <3>1. /\ test[t].started \in Int /\ clock \in Int
          /\ ZoneOffset \in Int /\ TestLifetime \in Int
      BY <1>1, <1>5, RunningStarted, DatabaseAssumption
    <3> QED BY <3>1 DEF Expired, Age, Due
  <2>2. CASE Expired(t)
    <3>1. test'[t].stopped = clock
      BY <1>1, <1>2, <1>5, <2>2 DEF TestRow
    <3> QED BY <1>1, <1>3, <2>1, <2>2, <3>1 DEF isRunningTest
  <2>3. CASE ~Expired(t)
    BY <1>1, <1>3, <1>5, <2>1, <2>3 DEF isRunningTest, Exists
  <2> QED BY <2>2, <2>3
<1> QED BY <1>1, <1>3, <1>4, <1>5

(* A step that leaves the loop and the tests alone. *)
LEMMA AgesStay ==
  ASSUME AgesInv, UNCHANGED <<test, clock>>, UNCHANGED <<cleaner, ticker, failed, remaining>>
  PROVE  AgesInv'
  BY DEF AgesInv, Recent, isRunningTest, Exists, Age, Due

(* The initial state has no test, and the loop is about to clean up. *)
LEMMA CleanupBegins == CleanupServerInit => CleanupInv
<1> SUFFICES ASSUME CleanupServerInit
             PROVE  CleanupInv
  OBVIOUS
<1>1. DBTypeOK
  BY EmptyDatabase DEF CleanupServerInit
<1>2. /\ cleaner = "run" /\ ticker = FALSE /\ remaining = Period /\ failed = FALSE
      /\ failures = 0 /\ crashes = 0
  BY DEF CleanupServerInit, CleanupInit, Begin
<1>3. LoopTypeOK
  <2>1. remaining \in 1..Period /\ failures \in 0..MaxFailures /\ crashes \in 0..MaxCrashes
    BY <1>2, CleanupAssumption
  <2>2. ticker \in BOOLEAN /\ failed \in BOOLEAN
    BY <1>2
  <2> QED BY <1>2, <2>1, <2>2 DEF LoopTypeOK
<1>4. AgesInv
  BY <1>2 DEF AgesInv
<1> QED BY <1>1, <1>3, <1>4 DEF CleanupInv

(* Every step keeps the invariant. *)
LEMMA CleanupStep ==
  ASSUME CleanupInv, [CleanupServerNext]_cleanupVars
  PROVE  CleanupInv'
<1> DEFINE Goal == DBTypeOK' /\ LoopTypeOK' /\ AgesInv'
<1>0. DBTypeOK /\ LoopTypeOK /\ AgesInv /\ Period \in Nat \ {0}
  BY CleanupAssumption DEF CleanupInv
<1>1. UNCHANGED dbVars => DBTypeOK' /\ UNCHANGED <<test, clock>>
  BY <1>0 DEF dbVars, DBTypeOK
<1>2. ASSUME CleanUp
      PROVE  Goal
  <2>1. CASE cleanupTests /\ failed' = FALSE /\ cleaner' = "wait" /\ UNCHANGED failures
    <3>1. DBTypeOK'
      BY <1>0, <2>1, TestStatements
    <3>2. LoopTypeOK'
      BY <1>0, <1>2, <2>1 DEF CleanUp, LoopTypeOK
    <3>3. ASSUME NEW t \in TestIDs, isRunningTest(t)'
          PROVE  Recent(t)'
      <4>1. isRunningTest(t) /\ Age(t) < Due /\ Age(t)' = Age(t)
        BY <1>0, <2>1, <3>3, CleanedUp DEF Age
      <4>2. Age(t) \in Int /\ Due \in Int /\ remaining \in 1..Period /\ remaining' = remaining
        BY <1>0, <1>2, <4>1, RunningStarted DEF CleanUp, LoopTypeOK
      <4>3. Age(t)' < Due + Period - remaining'
        BY <1>0, <4>1, <4>2
      <4> QED BY <4>3 DEF Recent, Due
    <3>4. AgesInv'
      BY <3>3 DEF AgesInv
    <3> QED BY <3>1, <3>2, <3>4
  <2>2. CASE /\ failures < MaxFailures /\ failures' = failures + 1
             /\ failed' = TRUE /\ cleaner' = AfterError /\ UNCHANGED dbVars
    <3>1. LoopTypeOK'
      BY <1>0, <1>2, <2>2, CleanupAssumption DEF CleanUp, AfterError, LoopTypeOK
    <3>2. AgesInv'
      BY <2>2 DEF AgesInv
    <3> QED BY <1>1, <2>2, <3>1, <3>2
  <2> QED BY <1>2, <2>1, <2>2 DEF CleanUp
<1>3. ASSUME WakeUp
      PROVE  Goal
  <2>1. LoopTypeOK' /\ AgesInv'
    BY <1>0, <1>3 DEF WakeUp, LoopTypeOK, AgesInv
  <2> QED BY <1>1, <1>3, <2>1 DEF WakeUp
<1>4. ASSUME PassTime
      PROVE  Goal
  <2>1. DBTypeOK' /\ UNCHANGED test /\ clock' \in {clock, clock + 1}
    <3>1. CASE Tick
      BY <1>0, <3>1, TestStatements DEF Tick
    <3> QED BY <1>1, <1>4, <3>1 DEF PassTime
  <2>2. LoopTypeOK'
    BY <1>0, <1>4 DEF PassTime, LoopTypeOK
  <2>3. ASSUME cleaner' = "wait", ~ticker', ~failed', NEW t \in TestIDs, isRunningTest(t)'
        PROVE  Recent(t)'
    <3>1. cleaner = "wait" /\ ~ticker /\ ~failed /\ remaining # 1 /\ remaining' = remaining - 1
      BY <1>0, <1>4, <2>3 DEF PassTime, LoopTypeOK
    <3>2. isRunningTest(t)
      BY <2>1, <2>3 DEF isRunningTest, Exists
    <3>3. Age(t) <= Period - remaining \/ Age(t) < Due + Period - remaining
      BY <1>0, <3>1, <3>2 DEF AgesInv, Recent
    <3>4. Age(t)' <= Age(t) + 1 /\ Age(t)' \in Int
      BY <1>0, <2>1, <3>2, RunningStarted DEF Age, DBTypeOK
    <3>5. Age(t) \in Int /\ Due \in Int /\ remaining \in Int
      BY <1>0, <3>2, RunningStarted DEF LoopTypeOK
    <3>6. Age(t)' <= Period - remaining' \/ Age(t)' < Due + Period - remaining'
      BY <1>0, <3>1, <3>3, <3>4, <3>5
    <3> QED BY <3>6 DEF Recent, Due
  <2>4. AgesInv'
    BY <2>3 DEF AgesInv
  <2> QED BY <2>1, <2>2, <2>4
<1>5. ASSUME CleanupCrash \/ Restart
      PROVE  Goal
  <2>1. cleaner' \in {"down", "run"}
    BY <1>5 DEF CleanupCrash, Restart, Begin
  <2>2. AgesInv'
    BY <2>1 DEF AgesInv
  <2>3. CASE CleanupCrash
    <3>1. crashes' \in 0..MaxCrashes /\ remaining' \in 1..Period /\ failures' \in 0..MaxFailures
      BY <1>0, <2>3, CleanupAssumption DEF CleanupCrash, LoopTypeOK
    <3>2. ticker' \in BOOLEAN /\ failed' \in BOOLEAN
      BY <1>0, <2>3 DEF CleanupCrash, LoopTypeOK
    <3> QED BY <1>1, <2>1, <2>2, <2>3, <3>1, <3>2 DEF CleanupCrash, LoopTypeOK
  <2>4. CASE Restart
    <3>1. remaining' \in 1..Period /\ failures' \in 0..MaxFailures /\ crashes' \in 0..MaxCrashes
      BY <1>0, <2>4, CleanupAssumption DEF Restart, LoopTypeOK
    <3>2. ticker' \in BOOLEAN /\ failed' \in BOOLEAN
      BY <1>0, <2>4 DEF Restart, LoopTypeOK
    <3> QED BY <1>1, <2>1, <2>2, <2>4, <3>1, <3>2 DEF Restart, LoopTypeOK
  <2> QED BY <1>5, <2>3, <2>4
<1>6. ASSUME UserStartsOrStops
      PROVE  Goal
  <2>1. PICK t \in TestIDs : InsertTest(t) \/ StopTest(t)
    BY <1>6 DEF UserStartsOrStops
  <2>2. DBTypeOK' /\ clock' = clock
    BY <1>0, <2>1, TestStatements DEF InsertTest, StopTest
  <2>3. LoopTypeOK' /\ UNCHANGED <<cleaner, ticker, failed, remaining>>
    BY <1>0, <1>6 DEF UserStartsOrStops, loopVars, LoopTypeOK
  <2>4. ASSUME cleaner = "wait", ~ticker, ~failed, NEW u \in TestIDs, isRunningTest(u)'
        PROVE  Recent(u)'
    <3>1. CASE isRunningTest(u) /\ test'[u] = test[u]
      BY <1>0, <2>2, <2>3, <2>4, <3>1 DEF AgesInv, Recent, Age, Due
    <3>2. CASE InsertTest(t) /\ u = t
      <4>1. test'[t].started = clock /\ clock \in Nat
        BY <1>0, <3>2 DEF InsertTest, DBTypeOK
      <4>2. Age(u)' = 0
        BY <2>2, <3>2, <4>1 DEF Age
      <4>3. remaining \in 1..Period /\ remaining' = remaining
        BY <1>0, <2>3 DEF LoopTypeOK
      <4>4. Age(u)' <= Period - remaining'
        BY <1>0, <4>2, <4>3
      <4> QED BY <4>4 DEF Recent
    <3>3. CASE test'[u] = test[u]
      BY <2>4, <3>1, <3>3 DEF isRunningTest, Exists
    <3>4. CASE StopTest(t) /\ isRunningTest(t) /\ u = t
      <4>1. test'[t].stopped = clock /\ clock # NULL
        BY <1>0, <3>4, DatabaseAssumption DEF StopTest, DBTypeOK, TestRow
      <4> QED BY <2>4, <3>4, <4>1 DEF isRunningTest
    <3> QED BY <1>0, <2>1, <3>2, <3>3, <3>4 DEF InsertTest, StopTest, DBTypeOK
  <2>5. AgesInv'
    BY <2>3, <2>4 DEF AgesInv
  <2> QED BY <2>2, <2>3, <2>5
<1>7. ASSUME UNCHANGED cleanupVars
      PROVE  Goal
  <2>1. UNCHANGED dbVars /\ UNCHANGED loopVars
    BY <1>7 DEF cleanupVars
  <2>2. LoopTypeOK' /\ UNCHANGED <<cleaner, ticker, failed, remaining>>
    BY <1>0, <2>1 DEF loopVars, LoopTypeOK
  <2> QED BY <1>0, <1>1, <2>1, <2>2, AgesStay
<1> QED BY <1>2, <1>3, <1>4, <1>5, <1>6, <1>7 DEF CleanupServerNext, CleanupInv

(* So it always holds. *)
LEMMA CleanupInvHolds == CleanupSpec => []CleanupInv
<1>1. CleanupInv /\ [CleanupServerNext]_cleanupVars => CleanupInv'
  BY CleanupStep
<1> QED BY <1>1, CleanupBegins, PTL DEF CleanupSpec

(* Every variable of the cleanup has its type, and the counters their      *)
(* bounds.                                                                 *)
THEOREM CleanupTypeCorrect == CleanupSpec => []CleanupTypeOK
<1>1. CleanupInv => CleanupTypeOK
  BY DEF CleanupInv, LoopTypeOK, CleanupTypeOK
<1> QED BY <1>1, CleanupInvHolds, PTL

(* While cleanupTestsPeriodically waits for its ticker (main.go:186) after  *)
(* a success, no running test is overdue by a period, although the ticker  *)
(* drops ticks and goes on while a cleanup is late.                        *)
THEOREM NoOverdueTestHolds == CleanupSpec => []NoOverdueTest
<1>1. CleanupInv => NoOverdueTest
  <2> SUFFICES ASSUME CleanupInv, cleaner = "wait", ~ticker, ~failed,
                      NEW t \in TestIDs, isRunningTest(t)
               PROVE  Age(t) < Period \/ Age(t) < TestLifetime - ZoneOffset + Period
    BY DEF NoOverdueTest
  <2>1. Age(t) <= Period - remaining \/ Age(t) < Due + Period - remaining
    BY DEF CleanupInv, AgesInv, Recent
  <2>2. Age(t) \in Int /\ Due \in Int /\ remaining \in 1..Period /\ Period \in Nat
    BY RunningStarted, CleanupAssumption DEF CleanupInv, LoopTypeOK
  <2>3. Age(t) < Period \/ Age(t) < Due + Period
    BY <2>1, <2>2
  <2> QED BY <2>3 DEF Due
<1> QED BY <1>1, CleanupInvHolds, PTL

=============================================================================
