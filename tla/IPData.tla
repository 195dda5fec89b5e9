------------------------------- MODULE IPData -------------------------------
(***************************************************************************)
(* The data about IP addresses of bgp.go and dtp.go: the prefixes of       *)
(* autonomous systems, their names, and the addresses of Google Public     *)
(* DNS.  One goroutine for each of these feeds downloads it again and      *)
(* again; the results page looks addresses up in the tables.  bgpData.mu   *)
(* guards the tables of prefixes and names, dtpData.mu those of Google.    *)
(*                                                                         *)
(* A table is modelled by the version of the feed that it was made from.   *)
(* Time goes on while all goroutines of the feeds sleep: the 30 seconds    *)
(* that a download may take count as nothing beside the sleeps.            *)
(***************************************************************************)
EXTENDS Integers, FiniteSets

CONSTANTS
  Feeds,        \* the feeds that are refreshed
  Interval,     \* the sleep after a download, for each feed
  RetryAfter,   \* the sleep after a failure, for each feed
  Lookups,      \* the goroutines that look an address up
  NONE,         \* nil: there is no table yet
  MaxVersion,   \* bound of the versions of each feed
  MaxFailures   \* bound of the failures of each feed one after the other

AllFeeds == {"prefixes", "names", "google"}

ASSUME IPDataAssumption ==
  /\ Feeds \subseteq AllFeeds
  /\ Interval \in [Feeds -> Nat \ {0}]
  /\ RetryAfter \in [Feeds -> Nat \ {0}]
  /\ MaxVersion \in [Feeds -> Nat]
  /\ MaxFailures \in [Feeds -> Nat]
  /\ NONE \notin Nat \cup Feeds \cup Lookups
  /\ Feeds \cap Lookups = {}

VARIABLES
  remote,    \* the version that each feed's server has
  refresher, \* the goroutine of every feed
  table,     \* the shared tables: bgpData and dtpData
  holder,    \* who holds each mutex
  lookup,    \* the goroutines that look addresses up
  age,       \* history: the time since the table of each feed was downloaded
  failures   \* history: the failures since then

ipVars == <<remote, refresher, table, holder, lookup, age, failures>>

Tables == {"v4prefixes", "v6prefixes", "asNames", "googlePublicDNS"}

(* A bug: the prefixes are guarded by the other mutex. *)
MutexWrong(feed) == IF feed = "names" THEN "bgp" ELSE "dtp"

Mutex(feed) == IF feed = "google" THEN "dtp" ELSE "bgp"

Refresher == [pc    : {"download", "lock", "store4", "store6", "store", "sleep"},
              got   : Nat \cup {NONE},
              timer : Nat]

(* The table that a lookup begins with: the prefixes of the family of its  *)
(* address, or the addresses of Google.                                    *)
LookupTables == {"v4prefixes", "v6prefixes", "googlePublicDNS"}

Guard(t) == IF t = "googlePublicDNS" THEN "dtp" ELSE "bgp"

(* found and names are what a lookup has read. *)
Lookup == [pc    : {"idle", "lock", "find", "names", "done"},
           table : LookupTables,
           found : Nat \cup {NONE},
           names : Nat \cup {NONE}]

NoLookup == [pc |-> "idle", table |-> "v4prefixes", found |-> NONE, names |-> NONE]

IPTypeOK ==
  /\ remote \in [Feeds -> Nat]
  /\ refresher \in [Feeds -> Refresher]
  /\ table \in [Tables -> Nat \cup {NONE}]
  /\ holder \in [{"bgp", "dtp"} -> Feeds \cup Lookups \cup {NONE}]
  /\ lookup \in [Lookups -> Lookup]
  /\ age \in [Feeds -> Nat]
  /\ failures \in [Feeds -> Nat] /\ \A f \in Feeds : failures[f] <= MaxFailures[f]
  /\ \A f \in Feeds : refresher[f].got = NONE <=> refresher[f].pc \in {"download", "sleep"}

IPInit ==
  /\ remote = [f \in Feeds |-> 0]
  /\ refresher = [f \in Feeds |-> [pc |-> "download", got |-> NONE, timer |-> 0]]
  /\ table = [t \in Tables |-> NONE]
  /\ holder = [m \in {"bgp", "dtp"} |-> NONE]
  /\ lookup = [l \in Lookups |-> NoLookup]
  /\ age = [f \in Feeds |-> 0]
  /\ failures = [f \in Feeds |-> 0]

-----------------------------------------------------------------------------
(* The goroutines of the feeds.                                            *)

(* The next location of a refresher, and how it sleeps. *)
Goto(f, pc) == [refresher EXCEPT ![f].pc = pc]
Sleep(f, time) == [refresher EXCEPT ![f] = [pc |-> "sleep", got |-> NONE, timer |-> time]]

(* A bug: the mutex is not released. *)
UnlockedNot(m) == holder

(* The mutexes after one of them was released. *)
Unlocked(m) == [holder EXCEPT ![m] = NONE]

(* The whole of a version is read, or nothing.  The server may have a      *)
(* newer one by the time of the end.                                       *)
Download(f) ==
  /\ refresher[f].pc = "download"
  /\ refresher' = [refresher EXCEPT ![f].pc = "lock", ![f].got = remote[f]]
  /\ UNCHANGED <<remote, table, holder, lookup, age, failures>>

(* A bug: what was read before the failure is published. *)
AfterFailurePublishing(f) ==
  [refresher EXCEPT ![f].pc = "lock", ![f].got = NONE]

(* A bug: a failure is followed by the sleep of a success. *)
AfterFailurePatient(f) == Sleep(f, Interval[f])

AfterFailure(f) == Sleep(f, RetryAfter[f])

(* The server cannot be reached or answers with an error, the connection   *)
(* breaks in the middle, or a record cannot be parsed.                     *)
DownloadFails(f) ==
  /\ refresher[f].pc = "download"
  /\ failures[f] < MaxFailures[f]
  /\ failures' = [failures EXCEPT ![f] = @ + 1]
  /\ refresher' = AfterFailure(f)
  /\ UNCHANGED <<remote, table, holder, lookup, age>>

LockForStore(f) ==
  /\ refresher[f].pc = "lock" /\ holder[Mutex(f)] = NONE
  /\ holder' = [holder EXCEPT ![Mutex(f)] = f]
  /\ refresher' = Goto(f, IF f = "prefixes" THEN "store4" ELSE "store")
  /\ UNCHANGED <<remote, table, lookup, age, failures>>

Store4(f) ==
  /\ refresher[f].pc = "store4"
  /\ table' = [table EXCEPT !["v4prefixes"] = refresher[f].got]
  /\ refresher' = Goto(f, "store6")
  /\ UNCHANGED <<remote, holder, lookup, age, failures>>

(* The last assignment, the end of the critical section, and the sleep.    *)
Published(f, name) ==
  /\ table' = [table EXCEPT ![name] = refresher[f].got]
  /\ holder' = Unlocked(Mutex(f))
  /\ refresher' = Sleep(f, Interval[f])
  /\ age' = [age EXCEPT ![f] = 0]
  /\ failures' = [failures EXCEPT ![f] = 0]
  /\ UNCHANGED <<remote, lookup>>

Store6(f) == refresher[f].pc = "store6" /\ Published(f, "v6prefixes")

Store(f) ==
  /\ refresher[f].pc = "store"
  /\ Published(f, IF f = "names" THEN "asNames" ELSE "googlePublicDNS")

Wake(f) ==
  /\ refresher[f].pc = "sleep" /\ refresher[f].timer = 0
  /\ refresher' = Goto(f, "download")
  /\ UNCHANGED <<remote, table, holder, lookup, age, failures>>

Refresh(f) ==
  Download(f) \/ DownloadFails(f) \/ LockForStore(f) \/ Store4(f) \/ Store6(f)
    \/ Store(f) \/ Wake(f)

-----------------------------------------------------------------------------
(* The lookups of one address of a page: getAutonomousSystemsForAddr reads *)
(* two tables under one mutex, getDNSDelegatedThirdPartyForAddress one     *)
(* under the other.  A table that is not there finds nothing.              *)

LookUp(l, t) ==
  /\ lookup[l].pc = "idle"
  /\ lookup' = [lookup EXCEPT ![l].pc = "lock", ![l].table = t]
  /\ UNCHANGED <<remote, refresher, table, holder, age, failures>>

LockForLookup(l) ==
  LET m == Guard(lookup[l].table)
  IN /\ lookup[l].pc = "lock" /\ holder[m] = NONE
     /\ holder' = [holder EXCEPT ![m] = l]
     /\ lookup' = [lookup EXCEPT ![l].pc = "find"]
     /\ UNCHANGED <<remote, refresher, table, age, failures>>

FindPrefixes(l) ==
  /\ lookup[l].pc = "find" /\ lookup[l].table # "googlePublicDNS"
  /\ lookup' = [lookup EXCEPT ![l].pc = "names", ![l].found = table[lookup[l].table]]
  /\ UNCHANGED <<remote, refresher, table, holder, age, failures>>

ReadNames(l) ==
  /\ lookup[l].pc = "names"
  /\ lookup' = [lookup EXCEPT ![l].pc = "done", ![l].names = table["asNames"]]
  /\ holder' = Unlocked("bgp")
  /\ UNCHANGED <<remote, refresher, table, age, failures>>

FindGoogle(l) ==
  /\ lookup[l].pc = "find" /\ lookup[l].table = "googlePublicDNS"
  /\ lookup' = [lookup EXCEPT ![l].pc = "done", ![l].found = table["googlePublicDNS"]]
  /\ holder' = Unlocked("dtp")
  /\ UNCHANGED <<remote, refresher, table, age, failures>>

Find(l) == FindPrefixes(l) \/ ReadNames(l) \/ FindGoogle(l)

(* The goroutine goes on to its next address. *)
NextLookup(l) ==
  /\ lookup[l].pc = "done"
  /\ lookup' = [lookup EXCEPT ![l] = NoLookup]
  /\ UNCHANGED <<remote, refresher, table, holder, age, failures>>

-----------------------------------------------------------------------------
(* The world.                                                              *)

NewVersion(f) ==
  /\ remote[f] < MaxVersion[f]
  /\ remote' = [remote EXCEPT ![f] = @ + 1]
  /\ UNCHANGED <<refresher, table, holder, lookup, age, failures>>

PassTime ==
  /\ \A f \in Feeds : refresher[f].pc = "sleep" /\ refresher[f].timer > 0
  /\ refresher' = [f \in Feeds |-> [refresher[f] EXCEPT !.timer = @ - 1]]
  /\ age' = [f \in Feeds |-> age[f] + 1]
  /\ UNCHANGED <<remote, table, holder, lookup, failures>>

IPNext ==
  \/ \E f \in Feeds : Refresh(f) \/ NewVersion(f)
  \/ \E l \in Lookups :
       \/ \E t \in LookupTables : LookUp(l, t)
       \/ LockForLookup(l) \/ Find(l) \/ NextLookup(l)
  \/ PassTime

IPSpec == IPInit /\ [][IPNext]_ipVars

(* The runtime schedules every goroutine; a goroutine that waits for a     *)
(* mutex gets it in time, although others take it again and again          *)
(* (sync.Mutex hands it over to a waiter that starves); time passes.       *)
FairIPSpec ==
  /\ IPSpec
  /\ \A f \in Feeds : WF_ipVars(Refresh(f)) /\ SF_ipVars(LockForStore(f))
  /\ \A l \in Lookups : WF_ipVars(Find(l))
  /\ WF_ipVars(PassTime)

-----------------------------------------------------------------------------
(* Properties.                                                             *)

TablesOf(feed) ==
  IF feed = "prefixes" THEN {"v4prefixes", "v6prefixes"}
  ELSE IF feed = "names" THEN {"asNames"} ELSE {"googlePublicDNS"}

(* A lookup combines prefixes and names that were the current ones at one  *)
(* moment, although two goroutines replace them meanwhile (bgp.go:88).     *)
LookupIsSnapshot ==
  [][\A l \in Lookups :
       lookup[l].pc = "names" /\ lookup'[l].pc = "done"
         => lookup'[l].found = table[lookup[l].table]]_ipVars

(* What is known is never forgotten: a table, once there, is only replaced *)
(* by the same or a newer version, whatever downloads fail.                *)
NeverForgets ==
  [][\A t \in Tables :
       table[t] # NONE => table'[t] # NONE /\ table'[t] >= table[t]]_ipVars

(* Whoever can take the mutex finds the prefixes of both families from one *)
(* download.                                                               *)
FamiliesAgree == holder["bgp"] = NONE => table["v4prefixes"] = table["v6prefixes"]

(* The data is as fresh as the failures allow: never older than a sleep    *)
(* after a success and one after each failure since.  Before the first     *)
(* success there are only failures.                                        *)
FreshEnough ==
  \A f \in Feeds :
    LET slept == failures[f] * RetryAfter[f]
    IN age[f] <= IF \A t \in TablesOf(f) : table[t] = NONE THEN slept
                                                          ELSE Interval[f] + slept

(* Every version of a feed reaches its tables in the end, or a newer one   *)
(* does, unless downloads fail for ever.                                   *)
NewsArrives ==
  \A f \in Feeds : \A v \in 0..MaxVersion[f] :
    remote[f] = v ~> \A t \in TablesOf(f) : table[t] # NONE /\ table[t] >= v

=============================================================================
