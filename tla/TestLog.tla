------------------------------- MODULE TestLog -------------------------------
(***************************************************************************)
(* What the program promises about a test, without its servers, tables and *)
(* goroutines: a test is started, runs and is stopped, once each.  Actors  *)
(* (queries, requests, messages, users) are admitted to it while it runs.  *)
(* An actor that was admitted may then, also after the stop, leave one     *)
(* entry in the log of the test or make one change to what it publishes,   *)
(* or go without a trace; nobody else can.  So nothing is lost from a log, *)
(* nothing is entered twice, and a test that was stopped and has nobody    *)
(* left inside never changes again.  The time of its stop is noted then,   *)
(* and for good.                                                           *)
(***************************************************************************)
EXTENDS Integers

CONSTANTS
  Tests,   \* the tests
  Actors,  \* whoever acts on them
  Never    \* no time

VARIABLES
  now,     \* the time
  stage,   \* absent, running or stopped, for each test
  ended,   \* when each test was stopped, and Never until then
  log,     \* the actors that left an entry, for each test
  site,    \* what each test publishes
  inside   \* who was admitted to which test, and is there still

testVars == <<now, stage, ended, log, site, inside>>

Init ==
  /\ now \in Nat
  /\ stage \in [Tests -> {"absent", "running"}]
  /\ ended = [t \in Tests |-> Never]
  /\ log = [t \in Tests |-> {}]
  /\ site = [t \in Tests |-> site[t]]
  /\ inside = {}

Pass ==
  /\ now' > now
  /\ UNCHANGED <<stage, ended, log, site, inside>>

Start(t) ==
  /\ stage[t] = "absent"
  /\ stage' = [stage EXCEPT ![t] = "running"]
  /\ UNCHANGED <<now, ended, log, site, inside>>

(* Several tests may end at once. *)
End ==
  /\ \E over \in SUBSET {t \in Tests : stage[t] = "running"} :
       /\ stage' = [t \in Tests |-> IF t \in over THEN "stopped" ELSE stage[t]]
       /\ ended' = [t \in Tests |-> IF t \in over THEN now ELSE ended[t]]
  /\ UNCHANGED <<now, log, site, inside>>

Admit(t, a) ==
  /\ stage[t] = "running"
  /\ a \notin log[t] /\ <<t, a>> \notin inside
  /\ inside' = inside \cup {<<t, a>>}
  /\ UNCHANGED <<now, stage, ended, log, site>>

Enter(t, a) ==
  /\ <<t, a>> \in inside
  /\ log' = [log EXCEPT ![t] = @ \cup {a}]
  /\ inside' = inside \ {<<t, a>>}
  /\ UNCHANGED <<now, stage, ended, site>>

(* A change of what the test publishes, or its end. *)
Change(t, a) ==
  /\ <<t, a>> \in inside
  /\ \/ UNCHANGED <<stage, ended>>
     \/ /\ stage[t] = "running" /\ stage' = [stage EXCEPT ![t] = "stopped"]
        /\ ended' = [ended EXCEPT ![t] = now]
  /\ site' = [site EXCEPT ![t] = site'[t]]
  /\ inside' = inside \ {<<t, a>>}
  /\ UNCHANGED <<now, log>>

(* Errors, and crashes that reach everybody at once. *)
Leave ==
  /\ \E gone \in SUBSET inside : inside' = inside \ gone
  /\ UNCHANGED <<now, stage, ended, log, site>>

Next ==
  \/ \E t \in Tests :
       \/ Start(t)
       \/ \E a \in Actors : Admit(t, a) \/ Enter(t, a) \/ Change(t, a)
  \/ End \/ Leave \/ Pass

Spec == Init /\ [][Next]_testVars

=============================================================================
