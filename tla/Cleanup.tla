------------------------------- MODULE Cleanup -------------------------------
(***************************************************************************)
(* The periodic cleanup of main.go: a goroutine that stops the tests older *)
(* than six hours, when the program starts and then every hour.  The hour  *)
(* is measured by a time.Ticker, whose channel holds one tick: a tick that *)
(* finds the channel full is dropped.                                      *)
(*                                                                         *)
(* The clock stops at MaxClock while the ticker goes on, so that a finite  *)
(* state space has infinite behaviours; no test starts so late that it is  *)
(* not old by then.                                                        *)
(***************************************************************************)
EXTENDS Database

CONSTANTS
  Period,       \* the period of the ticker (one hour)
  MaxFailures,  \* bound of the statements that fail
  MaxCrashes    \* bound of the crashes

ASSUME CleanupAssumption ==
  /\ Period \in Nat \ {0}
  /\ MaxFailures \in Nat
  /\ MaxCrashes \in Nat

VARIABLES
  cleaner,    \* the goroutine: about to run the statement, waiting, or not there
  ticker,     \* whether there is a tick in the channel
  remaining,  \* the time to the next tick
  failed,     \* history: whether the last statement failed
  failures,   \* history: the number of failures
  crashes     \* history: the number of crashes

loopVars == <<cleaner, ticker, remaining, failed, failures, crashes>>
cleanupVars == <<dbVars, loopVars>>

CleanupTypeOK ==
  /\ DBTypeOK
  /\ cleaner \in {"run", "wait", "down"}
  /\ ticker \in BOOLEAN
  /\ remaining \in 1..Period
  /\ failed \in BOOLEAN
  /\ failures \in 0..MaxFailures
  /\ crashes \in 0..MaxCrashes

(* A bug: the loop waits for a tick before it first cleans up. *)
BeginWaiting == "wait"

(* The loop cleans up before it first waits for a tick. *)
Begin == "run"

CleanupInit ==
  /\ cleaner = Begin
  /\ ticker = FALSE
  /\ remaining = Period
  /\ failed = FALSE
  /\ failures = 0
  /\ crashes = 0

-----------------------------------------------------------------------------
(* The loop of cleanupTestsPeriodically.                                   *)

(* A bug: the first error ends the loop. *)
AfterErrorReturning == "ended"

(* An error is logged, and the statement is tried again after the next     *)
(* tick.                                                                   *)
AfterError == "wait"

CleanUp ==
  /\ cleaner = "run"
  /\ \/ /\ cleanupTests
        /\ failed' = FALSE
        /\ cleaner' = "wait"
        /\ UNCHANGED failures
     \/ /\ failures < MaxFailures
        /\ failures' = failures + 1
        /\ failed' = TRUE
        /\ cleaner' = AfterError
        /\ UNCHANGED dbVars
  /\ UNCHANGED <<ticker, remaining, crashes>>

WakeUp ==
  /\ cleaner = "wait" /\ ticker
  /\ cleaner' = "run"
  /\ ticker' = FALSE
  /\ UNCHANGED <<dbVars, remaining, failed, failures, crashes>>

(* Time passes: the clock goes on, and the ticker fires when it is due.    *)
PassTime ==
  /\ \/ Tick
     \/ clock = MaxClock /\ UNCHANGED dbVars
  /\ remaining' = IF remaining = 1 THEN Period ELSE remaining - 1
  /\ ticker' = (cleaner # "down" /\ (ticker \/ remaining = 1))
  /\ UNCHANGED <<cleaner, failed, failures, crashes>>

-----------------------------------------------------------------------------
(* Crashes, and the other goroutines.                                      *)

CleanupCrash ==
  /\ cleaner # "down" /\ crashes < MaxCrashes
  /\ cleaner' = "down"
  /\ ticker' = FALSE
  /\ crashes' = crashes + 1
  /\ UNCHANGED <<dbVars, remaining, failed, failures>>

(* main starts the goroutine, which makes its own ticker and cleans up. *)
Restart ==
  /\ cleaner = "down"
  /\ cleaner' = Begin
  /\ ticker' = FALSE
  /\ remaining' = Period
  /\ UNCHANGED <<dbVars, failed, failures, crashes>>

UserStartsOrStops ==
  /\ cleaner # "down"
  /\ \E t \in TestIDs :
       \/ clock + TestLifetime - ZoneOffset <= MaxClock /\ InsertTest(t)
       \/ StopTest(t)
  /\ UNCHANGED loopVars

CleanupServerInit == DBInit /\ CleanupInit

CleanupServerNext ==
  CleanUp \/ WakeUp \/ PassTime \/ CleanupCrash \/ Restart \/ UserStartsOrStops

CleanupSpec == CleanupServerInit /\ [][CleanupServerNext]_cleanupVars

(* The runtime schedules the goroutine, and time passes.  Nothing promises *)
(* that anybody stops a test, or starts the program again.                 *)
FairCleanupSpec ==
  /\ CleanupSpec
  /\ WF_cleanupVars(CleanUp)
  /\ WF_cleanupVars(WakeUp)
  /\ WF_cleanupVars(PassTime)

-----------------------------------------------------------------------------
(* Properties.                                                             *)

Age(t) == clock - test[t].started

(* While the goroutine waits after a successful cleanup, no running test   *)
(* is older than its lifetime by a whole period, even if ticks were        *)
(* dropped, cleanups were late, or the program was down for long.  Its     *)
(* lifetime is six hours only on a server in UTC: elsewhere the comparison *)
(* is off by the zone, and so far in the east that nothing is left of the  *)
(* six hours, a test may still run until the next cleanup.                 *)
NoOverdueTest ==
  cleaner = "wait" /\ ~ticker /\ ~failed =>
    \A t \in TestIDs :
      isRunningTest(t) =>
        Age(t) < Period \/ Age(t) < TestLifetime - ZoneOffset + Period

(* Every test ends, also if its user forgets it and some statements fail,  *)
(* unless the program stops.                                               *)
EventuallyStopped ==
  \A t \in TestIDs :
    isRunningTest(t) ~> ~isRunningTest(t) \/ cleaner = "down"

=============================================================================
