--------------------------- MODULE PeripheryProofs ---------------------------
(***************************************************************************)
(* Theorems about what surrounds the servers and the dashboard, for every  *)
(* number of handshakes, sockets, starts, lookups, versions and pages: the *)
(* startup of the process (Startup) and its certificates (SelfSigned), the *)
(* data about IP addresses (IPData), and the search for certificates       *)
(* (CTSearch).  Each has an inductive invariant of its own.                *)
(*                                                                         *)
(* The startup: main has opened what its flags name before the place it    *)
(* has come to (OpenedInv); no handshake is in flight unless a server is   *)
(* spawned, and those that ended in this process have the key that it has  *)
(* now (CertInv).                                                          *)
(*                                                                         *)
(* The tables of IP data: whoever is in a critical section holds its mutex *)
(* (MutexInv), so what a lookup has read stays as it is (SnapshotInv); the *)
(* tables are older than what is about to replace them (VersionsInv); and  *)
(* the rest of a sleep is within the bound of the age (FreshInv).          *)
(*                                                                         *)
(* The search: there is one at a time (OneSearch); the table is in order   *)
(* and ends at the cursor (RowsInv); and everything that was asked for is  *)
(* in the table, in the page that is about to be shown, or after the end   *)
(* of it (CompleteInv).                                                    *)
(***************************************************************************)
EXTENDS Startup, IPData, CTSearch, TLAPS

-----------------------------------------------------------------------------
(* The startup of the process.                                             *)

MainLocations == {"exited", "select"} \cup DOMAIN After

ServiceNames == {"http", "https", "smtp", "dns"}

(* Where main is once all listeners are open. *)
Late == {"udp", "redirect", "spawn", "select"}

UDPSocket == SUBSET ({"udp4", "udp6", "fd"} \X Nat)

MainTypeOK ==
  /\ pc \in MainLocations
  /\ flags \in Configurations
  /\ DOMAIN listeners = ServiceNames
  /\ sockets \in Seq(UDPSocket)
  /\ spawned \in Nat
  /\ starts \in Nat
  /\ others \subseteq SUBSET ({"udp4", "udp6"} \X Ports)

(* What main has opened is what its flags name, in their order.            *)
OpenedInv ==
  /\ pc \in {"https", "smtp", "dns"} \cup Late => listeners["http"] = flags["http"]
  /\ pc \in {"smtp", "dns"} \cup Late => listeners["https"] = flags["https"]
  /\ pc \in {"dns"} \cup Late => listeners["smtp"] = flags["smtp"]
  /\ pc \in Late => listeners["dns"] = flags["dns"]
  /\ Len(sockets) <= Len(flags.udp)
  /\ pc \in {"redirect", "spawn", "select"} => Len(sockets) = Len(flags.udp)
  /\ pc \notin Late => sockets = <<>>
  /\ \A i \in 1..Len(sockets) : /\ WellFormed(flags.udp[i])
                                /\ sockets[i] = SocketFor(flags.udp[i])
  /\ spawned > 0 => pc \in {"spawn", "select"}

(* The certificate that a handshake gets as things are. *)
KeyResult == IF selfSignedKey = NULL THEN "refused" ELSE selfSignedKey

(* A handshake is in flight only in the process that it began in, the      *)
(* present one, which has ended no other without a key or with another.    *)
CertInv ==
  /\ \A h \in Handshakes :
       /\ handshake[h].process <= starts
       /\ HandshakeInFlight(h) => handshake[h].process = starts /\ pc \in {"spawn", "select"}
       /\ handshake[h].pc # "ended" => handshake[h].result = NULL
       /\ handshake[h].pc = "generate" => selfSignedKeyGen = "running"
       /\ handshake[h].pc = "sign" => selfSignedKeyGen = "done"
       /\ handshake[h].process = starts /\ handshake[h].result \notin {"failed", NULL} =>
            selfSignedKeyGen = "done" /\ handshake[h].result = KeyResult
  /\ \A h, k \in Handshakes :
       handshake[h].pc = "generate" /\ handshake[k].pc = "generate" => h = k
  /\ HandshakesAgree

(* Who finds a port in use: see NoSpuriousConflict. *)
StartupInv == MainTypeOK /\ OpenedInv /\ CertTypeOK /\ CertInv /\ NoSpuriousConflict

(* The services by name. *)
LEMMA ServiceSet == Range(Services) = ServiceNames
  BY DEF Range, Services, ServiceNames

(* Where main goes. *)
LEMMA AfterIs ==
  /\ DOMAIN After = {"ip4", "ip6", "database", "schema", "http", "https", "smtp", "dns",
                     "udp", "redirect", "spawn"}
  /\ After["ip4"] = "ip6" /\ After["ip6"] = "database" /\ After["database"] = "schema"
  /\ After["schema"] = "http" /\ After["http"] = "https" /\ After["https"] = "smtp"
  /\ After["smtp"] = "dns" /\ After["dns"] = "udp" /\ After["udp"] = "redirect"
  /\ After["redirect"] = "spawn" /\ After["spawn"] = "select"
  BY DEF After

(* What a socket that can be opened occupies. *)
LEMMA SocketIs ==
  ASSUME NEW spec \in UDPSpec, WellFormed(spec)
  PROVE  /\ SocketFor(spec) \in UDPSocket /\ SocketFor(spec) # {}
         /\ spec.kind = "fd" => \A e \in SocketFor(spec) : e = <<"fd", spec.fd>>
         /\ spec.kind # "fd" =>
              /\ spec.kind = "udp"
              /\ \A e \in SocketFor(spec) :
                   /\ e[2] = spec.port /\ e[1] \in {"udp4", "udp6"}
                   /\ e[1] = "udp4" => spec.ip \in {"none", "0.0.0.0"}
                   /\ e[1] = "udp6" => spec.ip \in {"none", "::"}
<1>1. CASE spec.kind = "fd"
  <2>1. SocketFor(spec) = {<<"fd", spec.fd>>}
    BY <1>1 DEF SocketFor
  <2>2. spec.fd \in Nat
    BY <1>1, StartupAssumption DEF WellFormed
  <2> QED BY <1>1, <2>1, <2>2 DEF UDPSocket
<1>2. CASE spec.kind # "fd"
  <2> DEFINE nets == IF spec.ip = "none" THEN {"udp4", "udp6"}
                     ELSE IF spec.ip = "0.0.0.0" THEN {"udp4"} ELSE {"udp6"}
  <2>1. spec.kind = "udp" /\ spec.ip \in {"none", "0.0.0.0", "::"} /\ spec.port \in Nat
    BY <1>2 DEF WellFormed, UDPSpec, Ports
  <2>2. SocketFor(spec) = nets \X {spec.port}
    BY <2>1 DEF SocketFor, Endpoints, network
  <2>3. \A e \in SocketFor(spec) :
          /\ e \in {"udp4", "udp6", "fd"} \X Nat
          /\ e[2] = spec.port /\ e[1] \in nets
    BY <2>1, <2>2
  <2>4. SocketFor(spec) # {}
    <3>1. \E net \in nets : <<net, spec.port>> \in SocketFor(spec)
      BY <2>2
    <3> QED BY <3>1
  <2> QED BY <1>2, <2>1, <2>3, <2>4 DEF UDPSocket
<1> QED BY <1>1, <1>2

(* A server runs only once main spawns goroutines. *)
LEMMA RunningIs ==
  ASSUME NEW s, Running(s), spawned \in Nat
  PROVE  spawned > 0
  BY DEF Running

(* The flags. *)
LEMMA FlagsType ==
  ASSUME MainTypeOK
  PROVE  /\ flags.udp \in Seq(UDPSpec)
         /\ \A i, j \in 1..Len(flags.udp) :
              i # j /\ flags.udp[i].kind = "fd" => flags.udp[i] # flags.udp[j]
  BY StartupAssumption DEF MainTypeOK, Flags

(* Somebody else uses the port of a flag, or two flags name the same one.  *)
Conflict ==
  \/ \E i \in DOMAIN flags.udp :
       flags.udp[i].kind = "udp" /\ \E s \in others : \E e \in s : e[2] = flags.udp[i].port
  \/ \E i, j \in DOMAIN flags.udp :
       /\ i # j /\ flags.udp[i].kind = "udp" /\ flags.udp[j].kind = "udp"
       /\ flags.udp[i].port = flags.udp[j].port
       /\ flags.udp[i].ip = "none" \/ flags.udp[i].ip = flags.udp[j].ip

(* A socket that is occupied is one of somebody else, or of another flag.  *)
LEMMA ConflictFound ==
  ASSUME MainTypeOK, OpenedInv, Len(sockets) < Len(flags.udp), WellFormed(NextSpec),
         SocketFor(NextSpec) \cap Occupied # {}
  PROVE  Conflict
<1> DEFINE n == Len(sockets) + 1
<1>1. /\ flags.udp \in Seq(UDPSpec) /\ n \in 1..Len(flags.udp) /\ NextSpec = flags.udp[n]
      /\ NextSpec \in UDPSpec /\ sockets \in Seq(UDPSocket)
  BY FlagsType DEF NextSpec, MainTypeOK
<1>2. PICK e \in SocketFor(NextSpec) : e \in Occupied
  OBVIOUS
<1>3. CASE e \in UNION others
  <2>1. PICK s \in others : e \in s
    BY <1>3
  <2>2. e[1] \in {"udp4", "udp6"}
    BY <2>1 DEF MainTypeOK
  <2>3. NextSpec.kind = "udp" /\ e[2] = NextSpec.port
    BY <1>1, <1>2, <2>2, SocketIs
  <2> QED BY <1>1, <2>1, <2>3 DEF Conflict
<1>4. CASE e \in UNION Range(sockets)
  <2>1. PICK i \in 1..Len(sockets) : e \in sockets[i]
    BY <1>1, <1>4 DEF Range
  <2>2. /\ i \in 1..Len(flags.udp) /\ i # n /\ flags.udp[i] \in UDPSpec
        /\ WellFormed(flags.udp[i]) /\ e \in SocketFor(flags.udp[i])
    BY <1>1, <2>1 DEF OpenedInv
  <2>3. CASE NextSpec.kind = "fd"
    <3>1. e = <<"fd", NextSpec.fd>>
      BY <1>1, <1>2, <2>3, SocketIs
    <3>2. flags.udp[i].kind = "fd" /\ flags.udp[i].fd = NextSpec.fd
      BY <2>2, <3>1, SocketIs
    <3>3. flags.udp[i] = NextSpec
      <4>1. \A spec \in UDPSpec : spec.kind = "fd" => spec = [kind |-> "fd", fd |-> spec.fd]
        BY DEF UDPSpec
      <4> QED BY <1>1, <2>2, <2>3, <3>2, <4>1
    <3> QED BY <1>1, <2>2, <3>2, <3>3, FlagsType
  <2>4. CASE NextSpec.kind # "fd"
    <3>1. /\ NextSpec.kind = "udp" /\ e[2] = NextSpec.port /\ e[1] \in {"udp4", "udp6"}
          /\ e[1] = "udp4" => NextSpec.ip \in {"none", "0.0.0.0"}
          /\ e[1] = "udp6" => NextSpec.ip \in {"none", "::"}
      BY <1>1, <1>2, <2>4, SocketIs
    <3>2. flags.udp[i].kind # "fd"
      BY <2>2, <3>1, SocketIs
    <3>3. /\ flags.udp[i].kind = "udp" /\ e[2] = flags.udp[i].port
          /\ e[1] = "udp4" => flags.udp[i].ip \in {"none", "0.0.0.0"}
          /\ e[1] = "udp6" => flags.udp[i].ip \in {"none", "::"}
      BY <2>2, <3>2, SocketIs
    <3>4. \/ flags.udp[i].ip = "none" \/ flags.udp[i].ip = flags.udp[n].ip
          \/ flags.udp[n].ip = "none"
      BY <1>1, <3>1, <3>3
    <3>5. /\ i \in DOMAIN flags.udp /\ n \in DOMAIN flags.udp /\ i # n
          /\ flags.udp[i].kind = "udp" /\ flags.udp[n].kind = "udp"
          /\ flags.udp[i].port = flags.udp[n].port
      BY <1>1, <2>2, <3>1, <3>3
    <3> HIDE DEF n
    <3> QED BY <3>4, <3>5 DEF Conflict
  <2> QED BY <2>3, <2>4
<1> QED BY <1>2, <1>3, <1>4 DEF Occupied

(* What main has done, and who is in flight, in the initial state. *)
LEMMA StartupBegins ==
  ASSUME StartupInit
  PROVE  StartupInv
<1>1. MainTypeOK
  BY ServiceSet, StartupAssumption
     DEF StartupInit, MainTypeOK, MainLocations, NoListeners, ServiceNames
<1>2. OpenedInv
  <2>1. flags.udp \in Seq(UDPSpec)
    BY <1>1, FlagsType
  <2> QED BY <2>1 DEF StartupInit, OpenedInv, Late
<1>3. CertTypeOK /\ CertInv
  BY DEF StartupInit, CertInit, CertTypeOK, Handshake, CertInv, HandshakesAgree, HandshakeInFlight
<1>4. NoSpuriousConflict
  BY DEF StartupInit, NoSpuriousConflict
<1> QED BY <1>1, <1>2, <1>3, <1>4 DEF StartupInv

(* A step of main leaves the certificates alone.                           *)
LEMMA CertStays ==
  ASSUME CertTypeOK, CertInv, UNCHANGED certVars, starts' = starts,
         pc \in {"spawn", "select"} => pc' \in {"spawn", "select"}
  PROVE  CertTypeOK' /\ CertInv'
  BY DEF certVars, CertTypeOK, CertInv, HandshakesAgree, HandshakeInFlight, KeyResult

(* Nothing of a process is left after its end. *)
LEMMA ExitKeeps ==
  ASSUME StartupInv, NEW reason, Exit(reason), NoSpuriousConflict'
  PROVE  StartupInv'
<1>1. /\ pc' = "exited" /\ cause' = reason /\ spawned' = 0 /\ sockets' = <<>>
      /\ listeners' = NoListeners
      /\ UNCHANGED <<flags, others, starts, selfSignedKey, selfSignedKeyGen>>
      /\ LoseHandshakes
  BY DEF Exit
<1>a. sockets' = <<>>
  BY <1>1
<1>b. pc' = "exited"
  BY <1>1
<1>c. spawned' = 0
  BY <1>1
<1>2. MainTypeOK'
  <2>1. DOMAIN NoListeners = ServiceNames
    BY ServiceSet DEF NoListeners
  <2>2. sockets' \in Seq(UDPSocket)
    BY <1>a
  <2>3. pc' \in MainLocations
    BY <1>b DEF MainLocations
  <2>4. spawned' \in Nat
    BY <1>c
  <2>5. flags' \in Configurations /\ starts' \in Nat
    BY <1>1 DEF StartupInv, MainTypeOK
  <2>6. others' \subseteq SUBSET ({"udp4", "udp6"} \X Ports)
    BY <1>1 DEF StartupInv, MainTypeOK
  <2> QED BY <1>1, <2>1, <2>2, <2>3, <2>4, <2>5, <2>6 DEF MainTypeOK
<1>3. OpenedInv'
  <2>1. flags'.udp \in Seq(UDPSpec)
    BY <1>1, FlagsType DEF StartupInv
  <2>2. Len(sockets') = 0
    BY <1>a
  <2>3. Len(sockets') <= Len(flags'.udp)
    BY <2>1, <2>2
  <2>4. \A i \in 1..Len(sockets') : FALSE
    BY <2>2
  <2>5. ~(spawned' > 0)
    BY <1>c
  <2> QED BY <1>a, <1>b, <2>3, <2>4, <2>5 DEF OpenedInv, Late
<1>4. ASSUME NEW h \in Handshakes
      PROVE  /\ handshake'[h] \in Handshake
             /\ handshake'[h].process = handshake[h].process
             /\ handshake'[h].result = handshake[h].result
             /\ ~HandshakeInFlight(h)'
             /\ handshake'[h].pc # "ended" => handshake[h].pc # "ended"
  <2>1. handshake[h] \in Handshake
    BY DEF StartupInv, CertTypeOK
  <2>2. CASE HandshakeInFlight(h)
    <3>1. handshake'[h] = [handshake[h] EXCEPT !.pc = "lost"]
      BY <1>1, <2>2 DEF LoseHandshakes
    <3> QED BY <2>1, <2>2, <3>1 DEF Handshake, HandshakeInFlight
  <2>3. CASE ~HandshakeInFlight(h)
    BY <1>1, <2>1, <2>3 DEF LoseHandshakes, HandshakeInFlight
  <2> QED BY <2>2, <2>3
<1>5. CertTypeOK'
  <2>1. handshake' \in [Handshakes -> Handshake]
    BY <1>1, <1>4 DEF LoseHandshakes
  <2> QED BY <1>1, <2>1 DEF StartupInv, CertTypeOK
<1>6. CertInv'
  <2>1. KeyResult' = KeyResult
    BY <1>1 DEF KeyResult
  <2>2. HandshakesAgree'
    <3>1. HandshakesAgree
      BY DEF StartupInv, CertInv
    <3>2. \A h \in Handshakes : /\ handshake'[h].process = handshake[h].process
                                /\ handshake'[h].result = handshake[h].result
      BY <1>4
    <3> QED BY <3>1, <3>2 DEF HandshakesAgree
  <2>3. ASSUME NEW h \in Handshakes
        PROVE  /\ handshake'[h].process <= starts'
               /\ handshake'[h].pc \notin {"once", "generate", "sign"}
               /\ handshake'[h].pc # "ended" => handshake'[h].result = NULL
               /\ handshake'[h].process = starts' /\ handshake'[h].result \notin {"failed", NULL} =>
                    selfSignedKeyGen' = "done" /\ handshake'[h].result = KeyResult'
    <3> HIDE DEF KeyResult
    <3> QED BY <1>1, <1>4, <2>1 DEF StartupInv, CertInv, HandshakeInFlight
  <2> QED BY <2>2, <2>3 DEF CertInv, HandshakeInFlight
<1> QED BY <1>2, <1>3, <1>5, <1>6 DEF StartupInv


(* A step of main that is not its end leaves the certificates alone, and   *)
(* why an earlier process ended.                                           *)
LEMMA OthersStay ==
  ASSUME StartupInv, UNCHANGED <<flags, others, starts, cause, certVars>>,
         pc \in {"spawn", "select"} => pc' \in {"spawn", "select"}
  PROVE  CertTypeOK' /\ CertInv' /\ NoSpuriousConflict'
<1>1. NoSpuriousConflict'
  BY DEF StartupInv, NoSpuriousConflict
<1> QED BY <1>1, CertStays DEF StartupInv

(* A new process has a new key, and nobody is in flight in it.             *)
LEMMA StartKeeps ==
  ASSUME StartupInv, Start
  PROVE  StartupInv'
<1>1. /\ MainTypeOK /\ OpenedInv /\ CertTypeOK /\ CertInv
      /\ pc = "exited" /\ pc' = "ip4" /\ cause' = "none" /\ starts' = starts + 1
      /\ flags' \in Configurations /\ selfSignedKey' = NULL /\ selfSignedKeyGen' = "new"
      /\ UNCHANGED <<listeners, sockets, spawned, others, handshake>>
  BY DEF StartupInv, Start, NewKey
<1>2. MainTypeOK'
  BY <1>1, AfterIs DEF MainTypeOK, MainLocations
<1>3. OpenedInv'
  <2>1. sockets = <<>> /\ spawned \in Nat /\ ~(spawned > 0)
    BY <1>1 DEF OpenedInv, Late, MainTypeOK
  <2>2. Len(sockets') = 0 /\ sockets' = <<>> /\ ~(spawned' > 0)
    BY <1>1, <2>1
  <2>3. flags'.udp \in Seq(UDPSpec)
    BY <1>2, StartupAssumption DEF MainTypeOK, Flags
  <2>4. Len(sockets') <= Len(flags'.udp) /\ \A i \in 1..Len(sockets') : FALSE
    BY <2>2, <2>3
  <2> QED BY <1>1, <2>2, <2>4 DEF OpenedInv, Late
<1>4. CertTypeOK'
  BY <1>1 DEF CertTypeOK
<1>5. CertInv'
  <2>1. HandshakesAgree'
    BY <1>1 DEF CertInv, HandshakesAgree
  <2>2. ASSUME NEW h \in Handshakes
        PROVE  /\ handshake[h].process <= starts /\ handshake[h].process \in Nat
               /\ handshake[h].pc \notin {"once", "generate", "sign"}
               /\ handshake[h].pc # "ended" => handshake[h].result = NULL
    BY <1>1 DEF CertInv, CertTypeOK, Handshake, HandshakeInFlight
  <2>3. starts \in Nat
    BY <1>1 DEF MainTypeOK
  <2>4. ASSUME NEW h \in Handshakes
        PROVE  handshake'[h].process <= starts' /\ handshake'[h].process # starts'
    BY <1>1, <2>2, <2>3
  <2> QED BY <1>1, <2>1, <2>2, <2>4 DEF CertInv, HandshakeInFlight
<1>6. NoSpuriousConflict'
  BY <1>1 DEF NoSpuriousConflict
<1> QED BY <1>2, <1>3, <1>4, <1>5, <1>6 DEF StartupInv

(* The end of the process for another reason than a port in use. *)
LEMMA OtherExitKeeps ==
  ASSUME StartupInv, NEW reason, Exit(reason), reason # "in use"
  PROVE  StartupInv'
<1>1. NoSpuriousConflict'
  BY DEF Exit, NoSpuriousConflict
<1> QED BY <1>1, ExitKeeps

(* Before any socket is opened. *)
LEMMA PrepareKeeps ==
  ASSUME StartupInv, Prepare
  PROVE  StartupInv'
<1>1. CASE Exit("preparation")
  BY <1>1, OtherExitKeeps
<1>2. CASE ~Exit("preparation")
  <2>1. /\ MainTypeOK /\ OpenedInv /\ pc \in Preparations /\ pc' = After[pc]
        /\ UNCHANGED <<flags, listeners, sockets, spawned, starts, cause, certVars, others>>
    BY <1>2 DEF StartupInv, Prepare, Proceed
  <2>2. pc \in {"ip4", "ip6", "database", "schema"}
        /\ pc' \in {"ip6", "database", "schema", "http"}
    BY <2>1, AfterIs DEF Preparations
  <2>3. CertTypeOK' /\ CertInv' /\ NoSpuriousConflict'
    BY <2>1, <2>2, OthersStay
  <2>4. MainTypeOK'
    BY <2>1, <2>2, AfterIs DEF MainTypeOK, MainLocations
  <2>5. OpenedInv'
    <3>1. UNCHANGED <<flags, listeners, sockets, spawned>>
      BY <2>1
    <3> QED BY <2>1, <2>2, <3>1 DEF OpenedInv, Late, WellFormed, SocketFor, Endpoints
  <2> QED BY <2>3, <2>4, <2>5 DEF StartupInv
<1> QED BY <1>1, <1>2

(* The listeners of a service, all of them. *)
LEMMA OpenListenersKeeps ==
  ASSUME StartupInv, OpenListeners
  PROVE  StartupInv'
<1>1. CASE Exit("listener")
  BY <1>1, OtherExitKeeps
<1>2. CASE ~Exit("listener")
  <2>1. /\ MainTypeOK /\ OpenedInv /\ pc \in ServiceNames /\ pc' = After[pc]
        /\ listeners' = [listeners EXCEPT ![pc] = flags[pc]]
        /\ UNCHANGED <<flags, sockets, spawned, starts, cause, certVars, others>>
    BY <1>2, ServiceSet DEF StartupInv, OpenListeners, Proceed
  <2>2. \/ pc = "http" /\ pc' = "https"
        \/ pc = "https" /\ pc' = "smtp"
        \/ pc = "smtp" /\ pc' = "dns"
        \/ pc = "dns" /\ pc' = "udp"
    BY <2>1, AfterIs DEF ServiceNames
  <2>3. CertTypeOK' /\ CertInv' /\ NoSpuriousConflict'
    BY <2>1, <2>2, OthersStay
  <2>4. MainTypeOK'
    <3>1. DOMAIN listeners' = ServiceNames
      BY <2>1 DEF MainTypeOK
    <3>2. pc' \in MainLocations
      BY <2>2, AfterIs DEF MainLocations
    <3> QED BY <2>1, <3>1, <3>2 DEF MainTypeOK
  <2>5. OpenedInv'
    <3>1. \A s \in ServiceNames :
            listeners'[s] = IF s = pc THEN flags[s] ELSE listeners[s]
      BY <2>1 DEF MainTypeOK
    <3>2. /\ pc' \in {"https", "smtp", "dns", "udp"} => listeners'["http"] = flags["http"]
          /\ pc' \in {"smtp", "dns", "udp"} => listeners'["https"] = flags["https"]
          /\ pc' \in {"dns", "udp"} => listeners'["smtp"] = flags["smtp"]
          /\ pc' = "udp" => listeners'["dns"] = flags["dns"]
      BY <2>1, <2>2, <3>1 DEF OpenedInv, ServiceNames, Late
    <3>3. pc \notin Late /\ ~(spawned > 0) /\ pc' \in {"https", "smtp", "dns", "udp"}
      BY <2>1, <2>2 DEF OpenedInv, Late, MainTypeOK
    <3>4. sockets = <<>> /\ Len(sockets) <= Len(flags.udp)
      BY <2>1, <3>3 DEF OpenedInv
    <3>5. \A i \in 1..Len(sockets) : FALSE
      BY <3>4
    <3> QED BY <2>1, <3>2, <3>3, <3>4, <3>5 DEF OpenedInv, Late
  <2> QED BY <2>3, <2>4, <2>5 DEF StartupInv
<1> QED BY <1>1, <1>2

(* The next UDP socket. *)
LEMMA ListenUDPKeeps ==
  ASSUME StartupInv, listenUDP
  PROVE  StartupInv'
<1> DEFINE n == Len(sockets) + 1
<1>1. /\ MainTypeOK /\ OpenedInv /\ pc = "udp" /\ Len(sockets) < Len(flags.udp)
      /\ WellFormed(NextSpec) /\ sockets' = Append(sockets, SocketFor(NextSpec))
      /\ UNCHANGED <<pc, flags, listeners, spawned, starts, cause, certVars, others>>
  BY DEF StartupInv, listenUDP
<1>2. CertTypeOK' /\ CertInv' /\ NoSpuriousConflict'
  BY <1>1, OthersStay
<1>3. /\ flags.udp \in Seq(UDPSpec) /\ sockets \in Seq(UDPSocket) /\ n \in 1..Len(flags.udp)
      /\ NextSpec = flags.udp[n] /\ NextSpec \in UDPSpec
  BY <1>1, FlagsType DEF MainTypeOK, NextSpec
<1>4. SocketFor(NextSpec) \in UDPSocket
  BY <1>1, <1>3, SocketIs
<1>5. /\ sockets' \in Seq(UDPSocket) /\ Len(sockets') = n
      /\ \A i \in 1..n : sockets'[i] = IF i = n THEN SocketFor(NextSpec) ELSE sockets[i]
  BY <1>1, <1>3, <1>4
<1>6. MainTypeOK'
  BY <1>1, <1>5 DEF MainTypeOK
<1>7. OpenedInv'
  <2>1. ASSUME NEW i \in 1..n
        PROVE  WellFormed(flags.udp[i]) /\ sockets'[i] = SocketFor(flags.udp[i])
    <3>1. CASE i = n
      BY <1>1, <1>3, <1>5, <3>1
    <3>2. CASE i # n
      <4>1. i \in 1..Len(sockets)
        BY <1>3, <3>2
      <4> QED BY <1>1, <1>5, <3>2, <4>1 DEF OpenedInv
    <3> QED BY <3>1, <3>2
  <2>2. \A i \in 1..Len(sockets') : /\ WellFormed(flags'.udp[i])
                                    /\ sockets'[i] = SocketFor(flags'.udp[i])
    BY <1>1, <1>5, <2>1
  <2>3. Len(sockets') <= Len(flags'.udp)
    BY <1>1, <1>3, <1>5
  <2>4. /\ listeners["http"] = flags["http"] /\ listeners["https"] = flags["https"]
        /\ listeners["smtp"] = flags["smtp"] /\ listeners["dns"] = flags["dns"]
        /\ ~(spawned > 0)
    BY <1>1 DEF OpenedInv, Late, MainTypeOK
  <2> HIDE DEF n
  <2> QED BY <1>1, <2>2, <2>3, <2>4 DEF OpenedInv, Late, WellFormed, SocketFor, Endpoints
<1> QED BY <1>2, <1>6, <1>7 DEF StartupInv

(* It is in use: then there is a conflict to be found. *)
LEMMA ListenUDPFailsKeeps ==
  ASSUME StartupInv, listenUDPFails
  PROVE  StartupInv'
<1>1. CASE Exit("malformed") \/ Exit("system")
  BY <1>1, OtherExitKeeps
<1>2. CASE /\ WellFormed(NextSpec) /\ SocketFor(NextSpec) \cap Occupied # {}
           /\ Exit("in use")
  <2>1. Conflict
    BY <1>2, ConflictFound DEF StartupInv, listenUDPFails
  <2>2. UNCHANGED <<flags, others>>
    BY <1>2 DEF Exit
  <2>3. NoSpuriousConflict'
    BY <2>1, <2>2 DEF Conflict, NoSpuriousConflict
  <2> QED BY <1>2, <2>3, ExitKeeps
<1> QED BY <1>1, <1>2 DEF listenUDPFails, UDPFailed

(* All sockets are open. *)
LEMMA AllUDPOpenKeeps ==
  ASSUME StartupInv, AllUDPOpen
  PROVE  StartupInv'
<1>1. /\ MainTypeOK /\ OpenedInv /\ pc = "udp" /\ pc' = "redirect"
      /\ Len(sockets) = Len(flags.udp)
      /\ UNCHANGED <<flags, listeners, sockets, spawned, starts, cause, certVars, others>>
  BY AfterIs DEF StartupInv, AllUDPOpen, Proceed
<1>2. CertTypeOK' /\ CertInv' /\ NoSpuriousConflict'
  BY <1>1, OthersStay
<1>3. MainTypeOK'
  BY <1>1, AfterIs DEF MainTypeOK, MainLocations
<1>4. OpenedInv'
  <2>1. UNCHANGED <<flags, listeners, sockets, spawned>>
    BY <1>1
  <2> QED BY <1>1, <2>1 DEF OpenedInv, Late, WellFormed, SocketFor, Endpoints
<1> QED BY <1>2, <1>3, <1>4 DEF StartupInv

(* Whether the dashboard redirects. *)
LEMMA DecideRedirectKeeps ==
  ASSUME StartupInv, DecideRedirect
  PROVE  StartupInv'
<1>1. /\ MainTypeOK /\ OpenedInv /\ pc = "redirect" /\ pc' = "spawn"
      /\ UNCHANGED <<flags, listeners, sockets, spawned, starts, cause, certVars, others>>
  BY AfterIs DEF StartupInv, DecideRedirect, Proceed
<1>2. CertTypeOK' /\ CertInv' /\ NoSpuriousConflict'
  BY <1>1, OthersStay
<1>3. MainTypeOK'
  BY <1>1, AfterIs DEF MainTypeOK, MainLocations
<1>4. OpenedInv'
  <2>1. UNCHANGED <<flags, listeners, sockets, spawned>>
    BY <1>1
  <2> QED BY <1>1, <2>1 DEF OpenedInv, Late, WellFormed, SocketFor, Endpoints
<1> QED BY <1>2, <1>3, <1>4 DEF StartupInv

(* Another goroutine. *)
LEMMA SpawnKeeps ==
  ASSUME StartupInv, Spawn
  PROVE  StartupInv'
<1>1. /\ MainTypeOK /\ OpenedInv /\ pc = "spawn" /\ pc' \in {"spawn", "select"}
      /\ spawned' = spawned + 1
      /\ UNCHANGED <<flags, listeners, sockets, starts, cause, certVars, others>>
  BY AfterIs DEF StartupInv, Spawn
<1>2. CertTypeOK' /\ CertInv' /\ NoSpuriousConflict'
  BY <1>1, OthersStay
<1>3. MainTypeOK'
  BY <1>1, AfterIs DEF MainTypeOK, MainLocations
<1>4. OpenedInv'
  <2>1. UNCHANGED <<flags, listeners, sockets>>
    BY <1>1
  <2> QED BY <1>1, <2>1 DEF OpenedInv, Late, WellFormed, SocketFor, Endpoints
<1> QED BY <1>2, <1>3, <1>4 DEF StartupInv

(* What everybody in flight knows. *)
LEMMA InFlight ==
  ASSUME StartupInv, NEW h \in Handshakes, HandshakeInFlight(h)
  PROVE  /\ handshake[h] \in Handshake /\ handshake[h].process = starts
         /\ handshake[h].result = NULL /\ pc \in {"spawn", "select"}
  BY DEF StartupInv, CertTypeOK, CertInv, HandshakeInFlight

(* Two handshakes of one process that both ended by the key ended alike.   *)
Alike(h, k) ==
  /\ handshake[h].process = handshake[k].process
  /\ handshake[h].result \notin {"failed", NULL}
  /\ handshake[k].result \notin {"failed", NULL}
  => handshake[h].result = handshake[k].result

(* HandshakesAgree says so of every two. *)
LEMMA AgreeIs ==
  /\ HandshakesAgree <=> \A h, k \in Handshakes : Alike(h, k)
  /\ HandshakesAgree' <=> \A h, k \in Handshakes : Alike(h, k)'
  BY DEF HandshakesAgree, Alike

(* Whoever does not move stays alike. *)
LEMMA AlikeStays ==
  ASSUME NEW h, NEW k, Alike(h, k), handshake'[h] = handshake[h], handshake'[k] = handshake[k]
  PROVE  Alike(h, k)'
  BY DEF Alike

(* A handshake takes a step that leaves the key, and its own process.      *)
LEMMA MovesOn ==
  ASSUME StartupInv, NEW h \in Handshakes,
         handshake[h].pc \in {"idle", "once"},
         pc \in {"spawn", "select"},
         NEW to \in {"once", "generate", "sign"},
         handshake' = [handshake EXCEPT ![h].pc = to, ![h].process = starts],
         selfSignedKey' = selfSignedKey, selfSignedKeyGen' \in {"new", "running", "done"},
         selfSignedKeyGen = "done" => selfSignedKeyGen' = "done",
         selfSignedKeyGen = "running" => selfSignedKeyGen' = "running",
         to = "generate" => selfSignedKeyGen = "new" /\ selfSignedKeyGen' = "running",
         to = "sign" => selfSignedKeyGen = "done",
         UNCHANGED <<pc, starts>>
  PROVE  CertTypeOK' /\ CertInv'
<1>1. CertTypeOK /\ CertInv /\ starts \in Nat /\ HandshakesAgree
  BY DEF StartupInv, CertInv, MainTypeOK
<1>2. handshake[h] \in Handshake /\ handshake[h].result = NULL
  BY <1>1 DEF CertTypeOK, CertInv
<1>3. \A k \in Handshakes : k # h => handshake'[k] = handshake[k]
  BY <1>1 DEF CertTypeOK
<1>4. handshake'[h] = [handshake[h] EXCEPT !.pc = to, !.process = starts]
  BY <1>1 DEF CertTypeOK
<1>5. /\ handshake'[h].pc = to /\ handshake'[h].process = starts
      /\ handshake'[h].result = NULL /\ handshake'[h] \in Handshake
  BY <1>1, <1>2, <1>4 DEF Handshake
<1>6. handshake' \in [Handshakes -> Handshake]
  BY <1>1, <1>5 DEF CertTypeOK
<1>7. CertTypeOK'
  BY <1>1, <1>6 DEF CertTypeOK
<1>8. HandshakesAgree'
  <2>1. ASSUME NEW i \in Handshakes, NEW j \in Handshakes
        PROVE  Alike(i, j)'
    <3>1. CASE i # h /\ j # h
      BY <1>1, <1>3, <3>1, AgreeIs, AlikeStays
    <3>2. CASE i = h \/ j = h
      BY <1>5, <3>2 DEF Alike
    <3> QED BY <3>1, <3>2
  <2> QED BY <2>1, AgreeIs
<1>9. KeyResult' = KeyResult
  BY DEF KeyResult
<1>10. ASSUME NEW k \in Handshakes
       PROVE  /\ handshake'[k].process <= starts'
              /\ handshake'[k].pc \in {"once", "generate", "sign"} =>
                   handshake'[k].process = starts' /\ pc' \in {"spawn", "select"}
              /\ handshake'[k].pc # "ended" => handshake'[k].result = NULL
              /\ handshake'[k].pc = "generate" => selfSignedKeyGen' = "running"
              /\ handshake'[k].pc = "sign" => selfSignedKeyGen' = "done"
              /\ handshake'[k].process = starts' /\ handshake'[k].result \notin {"failed", NULL} =>
                   selfSignedKeyGen' = "done" /\ handshake'[k].result = KeyResult'
  <2> HIDE DEF KeyResult
  <2>1. CASE k = h
    BY <1>1, <1>5, <2>1
  <2>2. CASE k # h
    <3>1. handshake'[k] = handshake[k]
      BY <1>3, <2>2
    <3> QED BY <1>1, <1>9, <3>1 DEF CertInv, HandshakeInFlight
  <2> QED BY <2>1, <2>2
<1>11. ASSUME NEW i \in Handshakes, NEW j \in Handshakes,
              handshake'[i].pc = "generate", handshake'[j].pc = "generate"
       PROVE  i = j
  <2>1. to = "generate" => \A k \in Handshakes : handshake[k].pc # "generate"
    BY <1>1 DEF CertInv
  <2> QED BY <1>1, <1>3, <1>5, <1>11, <2>1 DEF CertInv
<1> HIDE DEF KeyResult
<1> QED BY <1>7, <1>8, <1>10, <1>11 DEF CertInv, HandshakeInFlight

(* The key is generated, or cannot be: nobody has ended with a key before. *)
LEMMA GenerateKeeps ==
  ASSUME StartupInv, NEW h \in Handshakes, GenerateKey(h), UNCHANGED mainVars
  PROVE  CertTypeOK' /\ CertInv'
<1>1. CertTypeOK /\ CertInv /\ starts \in Nat /\ HandshakesAgree
  BY DEF StartupInv, CertInv, MainTypeOK
<1>2. /\ handshake[h].pc = "generate" /\ selfSignedKey' \in {h, NULL}
      /\ selfSignedKeyGen' = "done" /\ handshake' = [handshake EXCEPT ![h].pc = "sign"]
  BY DEF GenerateKey, AfterGeneration
<1>3. /\ handshake[h] \in Handshake /\ handshake[h].process = starts
      /\ handshake[h].result = NULL /\ pc \in {"spawn", "select"}
  BY <1>2, InFlight DEF HandshakeInFlight
<1>4. \A k \in Handshakes : k # h => handshake'[k] = handshake[k]
  BY <1>1, <1>2 DEF CertTypeOK
<1>5. handshake'[h] = [handshake[h] EXCEPT !.pc = "sign"]
  BY <1>1, <1>2 DEF CertTypeOK
<1>6. /\ handshake'[h].pc = "sign" /\ handshake'[h].process = starts
      /\ handshake'[h].result = NULL /\ handshake'[h] \in Handshake
  BY <1>3, <1>5 DEF Handshake
<1>7. handshake' \in [Handshakes -> Handshake]
  BY <1>1, <1>2, <1>6 DEF CertTypeOK
<1>8. CertTypeOK'
  BY <1>1, <1>2, <1>7 DEF CertTypeOK
<1>9. HandshakesAgree'
  <2>1. ASSUME NEW i \in Handshakes, NEW j \in Handshakes,
               handshake'[i].process = handshake'[j].process,
               handshake'[i].result \notin {"failed", NULL},
               handshake'[j].result \notin {"failed", NULL}
        PROVE  handshake'[i].result = handshake'[j].result
    <3>1. handshake'[i] = handshake[i] /\ handshake'[j] = handshake[j]
      BY <1>4, <1>6, <2>1
    <3> QED BY <1>1, <2>1, <3>1 DEF HandshakesAgree
  <2> QED BY <2>1 DEF HandshakesAgree
<1>10. ASSUME NEW k \in Handshakes
       PROVE  /\ handshake'[k].process <= starts
              /\ handshake'[k].pc \in {"once", "generate", "sign"} =>
                   handshake'[k].process = starts /\ pc \in {"spawn", "select"}
              /\ handshake'[k].pc # "ended" => handshake'[k].result = NULL
              /\ handshake'[k].pc # "generate"
              /\ handshake'[k].process = starts => handshake'[k].result \in {"failed", NULL}
  <2>1. CASE k = h
    BY <1>1, <1>3, <1>6, <2>1
  <2>2. CASE k # h
    <3>1. handshake'[k] = handshake[k]
      BY <1>4, <2>2
    <3>2. selfSignedKeyGen = "running" /\ handshake[k].pc # "generate"
      BY <1>1, <1>2, <2>2 DEF CertInv
    <3> HIDE DEF KeyResult
    <3> QED BY <1>1, <3>1, <3>2 DEF CertInv, HandshakeInFlight
  <2> QED BY <2>1, <2>2
<1>11. pc' = pc /\ starts' = starts
  BY DEF mainVars
<1> HIDE DEF KeyResult
<1> QED BY <1>2, <1>8, <1>9, <1>10, <1>11 DEF CertInv, HandshakeInFlight

(* A handshake ends with the key as it is, refused, or failed. *)
LEMMA CreateKeeps ==
  ASSUME StartupInv, NEW h \in Handshakes, CreateCertificate(h), UNCHANGED mainVars
  PROVE  CertTypeOK' /\ CertInv'
<1>1. CertTypeOK /\ CertInv /\ starts \in Nat /\ HandshakesAgree
  BY DEF StartupInv, CertInv, MainTypeOK
<1>2. PICK result \in {KeyResult, "failed"} :
        handshake' = [handshake EXCEPT ![h].pc = "ended", ![h].result = result]
  BY DEF CreateCertificate, End, KeyResult
<1>3. handshake[h].pc = "sign" /\ UNCHANGED <<selfSignedKey, selfSignedKeyGen>>
  BY DEF CreateCertificate
<1>4. /\ handshake[h] \in Handshake /\ handshake[h].process = starts
      /\ handshake[h].result = NULL /\ pc \in {"spawn", "select"}
      /\ selfSignedKeyGen = "done"
  BY <1>1, <1>3, InFlight DEF HandshakeInFlight, CertInv
<1>5. \A k \in Handshakes : k # h => handshake'[k] = handshake[k]
  BY <1>1, <1>2 DEF CertTypeOK
<1>6. result \in Handshakes \cup {"refused", "failed"}
  BY <1>1 DEF CertTypeOK, KeyResult
<1>7. handshake'[h] = [handshake[h] EXCEPT !.pc = "ended", !.result = result]
  BY <1>1, <1>2 DEF CertTypeOK
<1>8. /\ handshake'[h].pc = "ended" /\ handshake'[h].process = starts
      /\ handshake'[h].result = result /\ handshake'[h] \in Handshake
  BY <1>4, <1>6, <1>7 DEF Handshake
<1>9. handshake' \in [Handshakes -> Handshake]
  BY <1>1, <1>2, <1>8 DEF CertTypeOK
<1>10. CertTypeOK'
  BY <1>1, <1>3, <1>9 DEF CertTypeOK
<1>11. pc' = pc /\ starts' = starts /\ KeyResult' = KeyResult
  BY <1>3 DEF mainVars, KeyResult
<1> HIDE DEF KeyResult
<1>12. ASSUME NEW k \in Handshakes
       PROVE  /\ handshake'[k].process <= starts
              /\ handshake'[k].pc \in {"once", "generate", "sign"} =>
                   handshake'[k].process = starts /\ pc \in {"spawn", "select"}
              /\ handshake'[k].pc # "ended" => handshake'[k].result = NULL
              /\ handshake'[k].pc = "generate" => selfSignedKeyGen = "running"
              /\ handshake'[k].pc = "sign" => selfSignedKeyGen = "done"
              /\ handshake'[k].process = starts /\ handshake'[k].result \notin {"failed", NULL} =>
                   selfSignedKeyGen = "done" /\ handshake'[k].result = KeyResult
  <2>1. CASE k = h
    BY <1>1, <1>2, <1>4, <1>8, <2>1
  <2>2. CASE k # h
    <3>1. handshake'[k] = handshake[k]
      BY <1>5, <2>2
    <3> QED BY <1>1, <3>1 DEF CertInv, HandshakeInFlight
  <2> QED BY <2>1, <2>2
<1>13. ASSUME NEW i \in Handshakes, NEW j \in Handshakes,
              handshake'[i].pc = "generate", handshake'[j].pc = "generate"
       PROVE  i = j
  BY <1>1, <1>5, <1>8, <1>13 DEF CertInv
<1>14. HandshakesAgree'
  <2>1. ASSUME NEW i \in Handshakes, NEW j \in Handshakes,
               handshake'[i].process = handshake'[j].process,
               handshake'[i].result \notin {"failed", NULL},
               handshake'[j].result \notin {"failed", NULL}
        PROVE  handshake'[i].result = handshake'[j].result
    <3>1. CASE handshake'[i].process = starts
      BY <1>12, <2>1, <3>1
    <3>2. CASE handshake'[i].process # starts
      <4>1. handshake'[i] = handshake[i] /\ handshake'[j] = handshake[j]
        BY <1>5, <1>8, <2>1, <3>2
      <4> QED BY <1>1, <2>1, <4>1 DEF HandshakesAgree
    <3> QED BY <3>1, <3>2
  <2> QED BY <2>1 DEF HandshakesAgree
<1> QED BY <1>3, <1>10, <1>11, <1>12, <1>13, <1>14 DEF CertInv, HandshakeInFlight

(* Nothing else changes while a handshake or a user takes a step. *)
LEMMA MainStays ==
  ASSUME StartupInv, UNCHANGED mainVars, UNCHANGED others
  PROVE  MainTypeOK' /\ OpenedInv' /\ NoSpuriousConflict'
<1>1. /\ MainTypeOK /\ OpenedInv /\ NoSpuriousConflict
      /\ UNCHANGED <<pc, flags, listeners, sockets, spawned, starts, cause, others>>
  BY DEF StartupInv, mainVars
<1>2. UNCHANGED <<pc, flags, listeners, sockets, spawned>>
  BY <1>1
<1>3. OpenedInv'
  BY <1>1, <1>2 DEF OpenedInv, WellFormed, SocketFor, Endpoints
<1> QED BY <1>1, <1>3 DEF MainTypeOK, NoSpuriousConflict

(* The step of a handshake. *)
LEMMA HandshakingKeeps ==
  ASSUME StartupInv, Handshaking, UNCHANGED <<mainVars, others, visit>>
  PROVE  StartupInv'
<1>1. MainTypeOK' /\ OpenedInv' /\ NoSpuriousConflict'
  BY MainStays
<1>2. PICK h \in Handshakes :
        \/ (Running("https") \/ Running("smtp")) /\ getSelfSignedCert(h, starts)
        \/ GoOn(h)
  BY DEF Handshaking
<1>3. CertTypeOK /\ CertInv /\ UNCHANGED <<pc, starts>> /\ handshake[h] \in Handshake
  BY DEF StartupInv, CertTypeOK, mainVars
<1>4. CASE (Running("https") \/ Running("smtp")) /\ getSelfSignedCert(h, starts)
  <2>1. pc \in {"spawn", "select"}
    BY <1>4, RunningIs DEF StartupInv, MainTypeOK, OpenedInv
  <2>2. /\ handshake[h].pc = "idle" /\ UNCHANGED <<selfSignedKey, selfSignedKeyGen>>
        /\ handshake' = [handshake EXCEPT ![h].pc = "once", ![h].process = starts]
    BY <1>4 DEF getSelfSignedCert
  <2>3. selfSignedKeyGen \in {"new", "running", "done"}
    BY <1>3 DEF CertTypeOK
  <2>4. CertTypeOK' /\ CertInv'
    BY <1>3, <2>1, <2>2, <2>3, MovesOn
  <2> QED BY <1>1, <2>4 DEF StartupInv
<1>5. CASE EnterOnce(h)
  <2>1. /\ handshake[h].pc = "once" /\ handshake[h].process = starts /\ pc \in {"spawn", "select"}
    BY <1>5, InFlight DEF EnterOnce, HandshakeInFlight
  <2>2. \A to : [handshake EXCEPT ![h].pc = to]
                  = [handshake EXCEPT ![h].pc = to, ![h].process = starts]
    BY <1>3, <2>1 DEF CertTypeOK, Handshake
  <2>3. CASE selfSignedKeyGen = "new" /\ selfSignedKeyGen' = "running"
             /\ handshake' = [handshake EXCEPT ![h].pc = "generate"]
    <3>1. /\ handshake' = [handshake EXCEPT ![h].pc = "generate", ![h].process = starts]
          /\ selfSignedKey' = selfSignedKey
      BY <1>5, <2>2, <2>3 DEF EnterOnce
    <3>2. CertTypeOK' /\ CertInv'
      BY <1>3, <2>1, <2>3, <3>1, MovesOn
    <3> QED BY <1>1, <3>2 DEF StartupInv
  <2>4. CASE MayPass /\ UNCHANGED selfSignedKeyGen
             /\ handshake' = [handshake EXCEPT ![h].pc = "sign"]
    <3>1. /\ handshake' = [handshake EXCEPT ![h].pc = "sign", ![h].process = starts]
          /\ selfSignedKey' = selfSignedKey /\ selfSignedKeyGen = "done"
          /\ selfSignedKeyGen' = "done"
      BY <1>5, <2>2, <2>4 DEF EnterOnce, MayPass
    <3>2. CertTypeOK' /\ CertInv'
      BY <1>3, <2>1, <3>1, MovesOn
    <3> QED BY <1>1, <3>2 DEF StartupInv
  <2> QED BY <1>5, <2>3, <2>4 DEF EnterOnce
<1>6. CASE GenerateKey(h) \/ CreateCertificate(h)
  <2>1. CertTypeOK' /\ CertInv'
    BY <1>6, GenerateKeeps, CreateKeeps
  <2> QED BY <1>1, <2>1 DEF StartupInv
<1> QED BY <1>2, <1>4, <1>5, <1>6 DEF GoOn

(* Every step keeps the invariant of the startup. *)
LEMMA StartupStep ==
  ASSUME StartupInv, [StartupNext]_startupVars
  PROVE  StartupInv'
<1>1. CASE Start
  BY <1>1, StartKeeps
<1>2. CASE main
  BY <1>2, PrepareKeeps, OpenListenersKeeps, ListenUDPKeeps, ListenUDPFailsKeeps,
     AllUDPOpenKeeps, DecideRedirectKeeps, SpawnKeeps DEF main
<1>3. CASE ServerFails
  BY <1>3, OtherExitKeeps DEF ServerFails
<1>4. CASE Handshaking /\ UNCHANGED <<mainVars, others, visit>>
  BY <1>4, HandshakingKeeps
<1>5. CASE UNCHANGED mainVars /\ UNCHANGED <<certVars, others>>
  <2>1. MainTypeOK' /\ OpenedInv' /\ NoSpuriousConflict'
    BY <1>5, MainStays
  <2>2. starts' = starts /\ pc' = pc
    BY <1>5 DEF mainVars
  <2>3. CertTypeOK' /\ CertInv'
    BY <1>5, <2>2, CertStays DEF StartupInv
  <2> QED BY <2>1, <2>3 DEF StartupInv
<1>6. CASE UNCHANGED startupVars
  BY <1>5, <1>6 DEF startupVars
<1> QED BY <1>1, <1>2, <1>3, <1>4, <1>5, <1>6 DEF StartupNext

(* What main has done, and who is in flight, at any time. *)
LEMMA StartupInvariant == StartupSpec => []StartupInv
<1>1. StartupInit => StartupInv
  BY StartupBegins
<1>2. StartupInv /\ [StartupNext]_startupVars => StartupInv'
  BY StartupStep
<1> QED BY <1>1, <1>2, PTL DEF StartupSpec

(* The variables of main and of the certificates are always well typed.    *)
THEOREM StartupTypeCorrect == StartupSpec => [](MainTypeOK /\ CertTypeOK)
<1>1. StartupInv => MainTypeOK /\ CertTypeOK
  BY DEF StartupInv
<1> QED BY <1>1, StartupInvariant, PTL

(* A server works only in a process that has everything its flags name     *)
(* (main.go:132, udp.go:47).                                                *)
THEOREM NoHalfServiceHolds == StartupSpec => []NoHalfService
<1>1. StartupInv => NoHalfService
  <2> SUFFICES ASSUME StartupInv, NEW t \in ServiceNames, Running(t)
               PROVE  /\ \A s \in ServiceNames : listeners[s] = flags[s]
                      /\ [i \in DOMAIN sockets |-> sockets[i] # {}]
                           = [i \in DOMAIN flags.udp |-> TRUE]
    BY ServiceSet DEF NoHalfService
  <2>1. MainTypeOK /\ OpenedInv /\ pc \in {"spawn", "select"}
    BY RunningIs DEF StartupInv, MainTypeOK, OpenedInv
  <2>2. \A s \in ServiceNames : listeners[s] = flags[s]
    BY <2>1 DEF OpenedInv, Late, ServiceNames
  <2>3. /\ flags.udp \in Seq(UDPSpec) /\ sockets \in Seq(UDPSocket)
        /\ Len(sockets) = Len(flags.udp)
    BY <2>1, FlagsType DEF MainTypeOK, OpenedInv
  <2>4. DOMAIN sockets = 1..Len(sockets) /\ DOMAIN flags.udp = 1..Len(sockets)
    BY <2>3
  <2>5. ASSUME NEW i \in 1..Len(sockets)
        PROVE  sockets[i] # {}
    <3>1. flags.udp[i] \in UDPSpec /\ WellFormed(flags.udp[i])
          /\ sockets[i] = SocketFor(flags.udp[i])
      BY <2>1, <2>3 DEF OpenedInv
    <3> QED BY <3>1, SocketIs
  <2>6. [i \in DOMAIN sockets |-> sockets[i] # {}] = [i \in DOMAIN flags.udp |-> TRUE]
    BY <2>4, <2>5, Zenon
  <2> QED BY <2>2, <2>6
<1> QED BY <1>1, StartupInvariant, PTL

(* Sockets for IPv4 alone and for IPv6 alone do not stand in each other's  *)
(* way (udp.go:86).                                                        *)
THEOREM NoSpuriousConflictHolds == StartupSpec => []NoSpuriousConflict
<1>1. StartupInv => NoSpuriousConflict
  BY DEF StartupInv
<1> QED BY <1>1, StartupInvariant, PTL

(* All handshakes of one process end with the same key, or all of them are *)
(* refused (cert.go:53).                                                   *)
THEOREM HandshakesAgreeHolds == StartupSpec => []HandshakesAgree
<1>1. StartupInv => HandshakesAgree
  BY DEF StartupInv, CertInv
<1> QED BY <1>1, StartupInvariant, PTL

-----------------------------------------------------------------------------
(* The tables of IP data.                                                  *)

(* Whoever is in a critical section holds its mutex; and which feed, or    *)
(* which lookup, may be in which.                                          *)
MutexInv ==
  /\ \A f \in Feeds :
       /\ refresher[f].pc \in {"store4", "store6", "store"} => holder[Mutex(f)] = f
       /\ refresher[f].pc \in {"store4", "store6"} => f = "prefixes"
       /\ refresher[f].pc = "store" => f # "prefixes"
  /\ \A l \in Lookups :
       /\ lookup[l].pc \in {"find", "names"} => holder[Guard(lookup[l].table)] = l
       /\ lookup[l].pc = "names" => lookup[l].table # "googlePublicDNS"

(* No table is newer than what is about to replace it, or than the feed.   *)
VersionsInv ==
  \A f \in Feeds :
    /\ refresher[f].got # NONE => refresher[f].got <= remote[f]
    /\ \A t \in TablesOf(f) : table[t] # NONE =>
         /\ table[t] <= remote[f]
         /\ refresher[f].got # NONE => table[t] <= refresher[f].got

(* The families differ only between the two assignments. *)
FamiliesInv ==
  \/ table["v4prefixes"] = table["v6prefixes"]
  \/ "prefixes" \in Feeds /\ refresher["prefixes"].pc = "store6"

(* What the feed has stored after the first of them. *)
Stage6Inv ==
  "prefixes" \in Feeds /\ refresher["prefixes"].pc = "store6" =>
    table["v4prefixes"] = refresher["prefixes"].got

(* What a lookup has found is what is there. *)
SnapshotInv ==
  \A l \in Lookups : lookup[l].pc = "names" => lookup[l].found = table[lookup[l].table]

(* The age that the tables of a feed may have. *)
AgeBound(f) ==
  IF \A t \in TablesOf(f) : table[t] = NONE
    THEN failures[f] * RetryAfter[f]
    ELSE Interval[f] + failures[f] * RetryAfter[f]

(* The rest of a sleep is within the bound. *)
FreshInv ==
  \A f \in Feeds :
    /\ age[f] <= AgeBound(f)
    /\ refresher[f].pc = "sleep" => age[f] + refresher[f].timer <= AgeBound(f)

IPInv ==
  /\ IPTypeOK /\ MutexInv /\ VersionsInv /\ FamiliesInv /\ Stage6Inv /\ SnapshotInv
  /\ FreshInv

(* The goroutine of a feed goes on, and no other does.                     *)
Moved(f, to, got, timer) ==
  /\ refresher'[f] = [pc |-> to, got |-> got, timer |-> timer]
  /\ refresher' \in [Feeds -> Refresher]
  /\ \A g \in Feeds : g # f => refresher'[g] = refresher[g]

(* The same of a lookup. *)
LookupMoved(l, to, t, found, names) ==
  /\ lookup'[l] = [pc |-> to, table |-> t, found |-> found, names |-> names]
  /\ lookup' \in [Lookups -> Lookup]
  /\ \A k \in Lookups : k # l => lookup'[k] = lookup[k]

(* Where an assignment to a location of a goroutine leads. *)
LEMMA GotoIs ==
  ASSUME IPTypeOK, NEW f \in Feeds,
         NEW to \in {"download", "lock", "store4", "store6", "store", "sleep"},
         refresher' = Goto(f, to)
  PROVE  Moved(f, to, refresher[f].got, refresher[f].timer)
<1>1. refresher \in [Feeds -> Refresher] /\ refresher[f] \in Refresher
  BY DEF IPTypeOK
<1>2. refresher'[f] = [refresher[f] EXCEPT !.pc = to]
  BY <1>1 DEF Goto
<1>3. [refresher[f] EXCEPT !.pc = to]
        = [pc |-> to, got |-> refresher[f].got, timer |-> refresher[f].timer]
  BY <1>1 DEF Refresher
<1>4. [refresher[f] EXCEPT !.pc = to] \in Refresher
  BY <1>1 DEF Refresher
<1>5. refresher' \in [Feeds -> Refresher]
  BY <1>1, <1>2, <1>4 DEF Goto
<1> QED BY <1>1, <1>2, <1>3, <1>5 DEF Moved, Goto

(* How it goes to sleep. *)
LEMMA SleepIs ==
  ASSUME IPTypeOK, NEW f \in Feeds, NEW time \in Nat, refresher' = Sleep(f, time)
  PROVE  Moved(f, "sleep", NONE, time)
<1>1. refresher \in [Feeds -> Refresher]
  BY DEF IPTypeOK
<1>2. [pc |-> "sleep", got |-> NONE, timer |-> time] \in Refresher
  BY DEF Refresher
<1> QED BY <1>1, <1>2 DEF Moved, Sleep

(* What the goroutine of a feed does in a step. *)
LEMMA RefreshEffects ==
  ASSUME IPTypeOK, NEW f \in Feeds, Refresh(f)
  PROVE  /\ UNCHANGED <<remote, lookup>>
         /\ \/ /\ refresher[f].pc = "download" /\ Moved(f, "lock", remote[f], refresher[f].timer)
               /\ UNCHANGED <<table, holder, age, failures>>
            \/ /\ refresher[f].pc = "download" /\ Moved(f, "sleep", NONE, RetryAfter[f])
               /\ failures[f] < MaxFailures[f]
               /\ failures' = [failures EXCEPT ![f] = @ + 1]
               /\ UNCHANGED <<table, holder, age>>
            \/ /\ refresher[f].pc = "lock" /\ holder[Mutex(f)] = NONE
               /\ Moved(f, IF f = "prefixes" THEN "store4" ELSE "store",
                        refresher[f].got, refresher[f].timer)
               /\ holder' = [holder EXCEPT ![Mutex(f)] = f]
               /\ UNCHANGED <<table, age, failures>>
            \/ /\ refresher[f].pc = "store4"
               /\ Moved(f, "store6", refresher[f].got, refresher[f].timer)
               /\ table' = [table EXCEPT !["v4prefixes"] = refresher[f].got]
               /\ UNCHANGED <<holder, age, failures>>
            \/ \E name \in {"v6prefixes", "asNames", "googlePublicDNS"} :
                 /\ \/ refresher[f].pc = "store6" /\ name = "v6prefixes"
                    \/ /\ refresher[f].pc = "store"
                       /\ name = IF f = "names" THEN "asNames" ELSE "googlePublicDNS"
                 /\ Moved(f, "sleep", NONE, Interval[f])
                 /\ table' = [table EXCEPT ![name] = refresher[f].got]
                 /\ holder' = [holder EXCEPT ![Mutex(f)] = NONE]
                 /\ age' = [age EXCEPT ![f] = 0]
                 /\ failures' = [failures EXCEPT ![f] = 0]
            \/ /\ refresher[f].pc = "sleep" /\ refresher[f].timer = 0
               /\ Moved(f, "download", refresher[f].got, refresher[f].timer)
               /\ UNCHANGED <<table, holder, age, failures>>
<1> DEFINE r == refresher[f]
<1>1. /\ r \in Refresher /\ remote[f] \in Nat /\ Interval[f] \in Nat /\ RetryAfter[f] \in Nat
      /\ refresher \in [Feeds -> Refresher]
  BY IPDataAssumption DEF IPTypeOK
<1>2. CASE Download(f)
  <2>1. refresher'[f] = [r EXCEPT !.pc = "lock", !.got = remote[f]]
    BY <1>1, <1>2 DEF Download
  <2>2. [r EXCEPT !.pc = "lock", !.got = remote[f]]
          = [pc |-> "lock", got |-> remote[f], timer |-> r.timer]
    <3> DEFINE q == [r EXCEPT !.pc = "lock"]
    <3>1. q = [pc |-> "lock", got |-> r.got, timer |-> r.timer]
      BY <1>1 DEF Refresher
    <3>2. [q EXCEPT !.got = remote[f]] = [r EXCEPT !.pc = "lock", !.got = remote[f]]
      OBVIOUS
    <3> HIDE DEF q
    <3> QED BY <3>1, <3>2
  <2>3. [pc |-> "lock", got |-> remote[f], timer |-> r.timer] \in Refresher
    BY <1>1 DEF Refresher
  <2>4. refresher' \in [Feeds -> Refresher]
    BY <1>1, <1>2, <2>1, <2>2, <2>3 DEF Download
  <2>5. Moved(f, "lock", remote[f], r.timer)
    BY <1>1, <1>2, <2>1, <2>2, <2>4 DEF Moved, Download
  <2> QED BY <1>2, <2>5 DEF Download
<1>3. CASE DownloadFails(f)
  <2>1. refresher' = Sleep(f, RetryAfter[f])
    BY <1>3 DEF DownloadFails, AfterFailure
  <2>2. Moved(f, "sleep", NONE, RetryAfter[f])
    BY <1>1, <2>1, SleepIs
  <2> QED BY <1>3, <2>2 DEF DownloadFails
<1>4. CASE LockForStore(f)
  <2>1. Moved(f, IF f = "prefixes" THEN "store4" ELSE "store", r.got, r.timer)
    BY <1>4, GotoIs DEF LockForStore
  <2> QED BY <1>4, <2>1 DEF LockForStore
<1>5. CASE Store4(f)
  <2>1. Moved(f, "store6", r.got, r.timer)
    BY <1>5, GotoIs DEF Store4
  <2> QED BY <1>5, <2>1 DEF Store4
<1>6. CASE Store6(f) \/ Store(f)
  <2>1. PICK name \in {"v6prefixes", "asNames", "googlePublicDNS"} :
          /\ \/ r.pc = "store6" /\ name = "v6prefixes"
             \/ r.pc = "store" /\ name = IF f = "names" THEN "asNames" ELSE "googlePublicDNS"
          /\ Published(f, name)
    BY <1>6 DEF Store6, Store
  <2>2. Moved(f, "sleep", NONE, Interval[f])
    BY <1>1, <2>1, SleepIs DEF Published
  <2>3. UNCHANGED <<remote, lookup>>
    BY <2>1 DEF Published
  <2>4. /\ table' = [table EXCEPT ![name] = refresher[f].got]
        /\ holder' = [holder EXCEPT ![Mutex(f)] = NONE]
        /\ age' = [age EXCEPT ![f] = 0]
        /\ failures' = [failures EXCEPT ![f] = 0]
    BY <2>1 DEF Published, Unlocked
  <2> QED BY <2>1, <2>2, <2>3, <2>4
<1>7. CASE Wake(f)
  <2>1. Moved(f, "download", r.got, r.timer)
    BY <1>7, GotoIs DEF Wake
  <2> QED BY <1>7, <2>1 DEF Wake
<1> QED BY <1>2, <1>3, <1>4, <1>5, <1>6, <1>7 DEF Refresh

(* What a lookup does in a step. *)
LEMMA LookupEffects ==
  ASSUME IPTypeOK, NEW l \in Lookups,
         \/ \E t \in LookupTables : LookUp(l, t)
         \/ LockForLookup(l) \/ Find(l) \/ NextLookup(l)
  PROVE  /\ UNCHANGED <<remote, refresher, table, age, failures>>
         /\ \E to \in {"idle", "lock", "find", "names", "done"}, t \in LookupTables,
               found \in Nat \cup {NONE}, names \in Nat \cup {NONE} :
              /\ LookupMoved(l, to, t, found, names)
              /\ \/ to \in {"idle", "lock"} /\ UNCHANGED holder
                 \/ /\ to = "find" /\ t = lookup[l].table /\ holder[Guard(t)] = NONE
                    /\ holder' = [holder EXCEPT ![Guard(t)] = l]
                 \/ /\ lookup[l].pc = "find" /\ to = "names"
                    /\ t = lookup[l].table /\ t # "googlePublicDNS"
                    /\ found = table[t] /\ UNCHANGED holder
                 \/ /\ lookup[l].pc = "names" /\ to = "done"
                    /\ t = lookup[l].table /\ found = lookup[l].found
                    /\ holder' = [holder EXCEPT !["bgp"] = NONE]
                 \/ /\ lookup[l].pc = "find" /\ to = "done"
                    /\ t = lookup[l].table /\ t = "googlePublicDNS"
                    /\ holder' = [holder EXCEPT !["dtp"] = NONE]
<1> DEFINE r == lookup[l]
<1>1. /\ r \in Lookup /\ lookup \in [Lookups -> Lookup]
      /\ r.table \in LookupTables /\ r.found \in Nat \cup {NONE} /\ r.names \in Nat \cup {NONE}
      /\ table[r.table] \in Nat \cup {NONE} /\ table["asNames"] \in Nat \cup {NONE}
  <2>1. r \in Lookup /\ lookup \in [Lookups -> Lookup]
    BY DEF IPTypeOK
  <2>2. r.table \in LookupTables /\ r.found \in Nat \cup {NONE} /\ r.names \in Nat \cup {NONE}
    BY <2>1 DEF Lookup
  <2> QED BY <2>1, <2>2 DEF IPTypeOK, LookupTables, Tables
<1>2. ASSUME NEW to \in {"idle", "lock", "find", "names", "done"}, NEW t \in LookupTables,
             NEW found \in Nat \cup {NONE}, NEW names \in Nat \cup {NONE},
             lookup' = [lookup EXCEPT
               ![l] = [pc |-> to, table |-> t, found |-> found, names |-> names]]
      PROVE  LookupMoved(l, to, t, found, names)
  <2>1. [pc |-> to, table |-> t, found |-> found, names |-> names] \in Lookup
    BY DEF Lookup
  <2> QED BY <1>1, <1>2, <2>1 DEF LookupMoved
<1>3. /\ r = [pc |-> r.pc, table |-> r.table, found |-> r.found, names |-> r.names]
      /\ \A x : [lookup EXCEPT ![l] = x] = [k \in Lookups |-> IF k = l THEN x ELSE lookup[k]]
  BY <1>1 DEF Lookup
<1>4. ASSUME NEW t \in LookupTables, LookUp(l, t)
      PROVE  LookupMoved(l, "lock", t, r.found, r.names)
  <2>1. lookup' = [lookup EXCEPT ![l] = [[r EXCEPT !.pc = "lock"] EXCEPT !.table = t]]
    BY <1>1, <1>4 DEF LookUp
  <2>2. [r EXCEPT !.pc = "lock"]
          = [pc |-> "lock", table |-> r.table, found |-> r.found, names |-> r.names]
    BY <1>1 DEF Lookup
  <2>3. [[r EXCEPT !.pc = "lock"] EXCEPT !.table = t]
          = [pc |-> "lock", table |-> t, found |-> r.found, names |-> r.names]
    <3> DEFINE q == [r EXCEPT !.pc = "lock"]
    <3>1. q = [pc |-> "lock", table |-> r.table, found |-> r.found, names |-> r.names]
      BY <2>2
    <3> HIDE DEF q
    <3>2. [q EXCEPT !.table = t]
            = [pc |-> "lock", table |-> t, found |-> r.found, names |-> r.names]
      BY <3>1
    <3> QED BY <3>2 DEF q
  <2> QED BY <1>1, <1>2, <2>1, <2>3
<1>5. CASE LockForLookup(l)
  <2>1. lookup' = [lookup EXCEPT ![l] = [r EXCEPT !.pc = "find"]]
    BY <1>5 DEF LockForLookup
  <2>2. [r EXCEPT !.pc = "find"]
          = [pc |-> "find", table |-> r.table, found |-> r.found, names |-> r.names]
    BY <1>1 DEF Lookup
  <2>3. LookupMoved(l, "find", r.table, r.found, r.names)
    BY <1>1, <1>2, <2>1, <2>2
  <2> QED BY <1>1, <1>5, <2>3 DEF LockForLookup
<1>6. CASE FindPrefixes(l)
  <2>1. lookup' = [lookup EXCEPT
                     ![l] = [[r EXCEPT !.pc = "names"] EXCEPT !.found = table[r.table]]]
    BY <1>1, <1>6 DEF FindPrefixes
  <2>2. [r EXCEPT !.pc = "names"]
          = [pc |-> "names", table |-> r.table, found |-> r.found, names |-> r.names]
    BY <1>1 DEF Lookup
  <2>3. [[r EXCEPT !.pc = "names"] EXCEPT !.found = table[r.table]]
          = [pc |-> "names", table |-> r.table, found |-> table[r.table], names |-> r.names]
    <3> DEFINE q == [r EXCEPT !.pc = "names"]
    <3>1. q = [pc |-> "names", table |-> r.table, found |-> r.found, names |-> r.names]
      BY <2>2
    <3> HIDE DEF q
    <3>2. [q EXCEPT !.found = table[r.table]]
            = [pc |-> "names", table |-> r.table, found |-> table[r.table], names |-> r.names]
      BY <3>1
    <3> QED BY <3>2 DEF q
  <2>4. LookupMoved(l, "names", r.table, table[r.table], r.names)
    BY <1>1, <1>2, <2>1, <2>3
  <2> QED BY <1>1, <1>6, <2>4 DEF FindPrefixes
<1>7. CASE ReadNames(l)
  <2>1. lookup' = [lookup EXCEPT
                     ![l] = [[r EXCEPT !.pc = "done"] EXCEPT !.names = table["asNames"]]]
    BY <1>1, <1>7 DEF ReadNames
  <2>2. [r EXCEPT !.pc = "done"]
          = [pc |-> "done", table |-> r.table, found |-> r.found, names |-> r.names]
    BY <1>1 DEF Lookup
  <2>3. [[r EXCEPT !.pc = "done"] EXCEPT !.names = table["asNames"]]
          = [pc |-> "done", table |-> r.table, found |-> r.found, names |-> table["asNames"]]
    <3> DEFINE q == [r EXCEPT !.pc = "done"]
    <3>1. q = [pc |-> "done", table |-> r.table, found |-> r.found, names |-> r.names]
      BY <2>2
    <3> HIDE DEF q
    <3>2. [q EXCEPT !.names = table["asNames"]]
            = [pc |-> "done", table |-> r.table, found |-> r.found, names |-> table["asNames"]]
      BY <3>1
    <3> QED BY <3>2 DEF q
  <2>4. LookupMoved(l, "done", r.table, r.found, table["asNames"])
    BY <1>1, <1>2, <2>1, <2>3
  <2> QED BY <1>1, <1>7, <2>4 DEF ReadNames, Unlocked
<1>8. CASE FindGoogle(l)
  <2>1. lookup' = [lookup EXCEPT
                     ![l] = [[r EXCEPT !.pc = "done"] EXCEPT !.found = table[r.table]]]
    BY <1>1, <1>8 DEF FindGoogle
  <2>2. [r EXCEPT !.pc = "done"]
          = [pc |-> "done", table |-> r.table, found |-> r.found, names |-> r.names]
    BY <1>1 DEF Lookup
  <2>3. [[r EXCEPT !.pc = "done"] EXCEPT !.found = table[r.table]]
          = [pc |-> "done", table |-> r.table, found |-> table[r.table], names |-> r.names]
    <3> DEFINE q == [r EXCEPT !.pc = "done"]
    <3>1. q = [pc |-> "done", table |-> r.table, found |-> r.found, names |-> r.names]
      BY <2>2
    <3> HIDE DEF q
    <3>2. [q EXCEPT !.found = table[r.table]]
            = [pc |-> "done", table |-> r.table, found |-> table[r.table], names |-> r.names]
      BY <3>1
    <3> QED BY <3>2 DEF q
  <2>4. LookupMoved(l, "done", r.table, table[r.table], r.names)
    BY <1>1, <1>2, <2>1, <2>3
  <2> QED BY <1>1, <1>8, <2>4 DEF FindGoogle, Unlocked
<1>9. CASE NextLookup(l)
  <2>1. LookupMoved(l, "idle", "v4prefixes", NONE, NONE)
    BY <1>2, <1>9 DEF NextLookup, NoLookup, LookupTables
  <2> QED BY <1>9, <2>1 DEF NextLookup, LookupTables
<1>10. CASE \E t \in LookupTables : LookUp(l, t)
  BY <1>1, <1>4, <1>10 DEF LookUp
<1> QED BY <1>5, <1>6, <1>7, <1>8, <1>9, <1>10 DEF Find

(* All variables keep their types. *)
LEMMA IPTypeStep ==
  ASSUME IPTypeOK, IPNext
  PROVE  IPTypeOK'
<1>1. ASSUME NEW f \in Feeds, Refresh(f)
      PROVE  IPTypeOK'
  <2>1. /\ refresher[f] \in Refresher /\ remote[f] \in Nat /\ MaxFailures[f] \in Nat
        /\ Mutex(f) \in {"bgp", "dtp"} /\ failures[f] \in Nat /\ NONE \notin Nat
        /\ refresher[f].got \in Nat \cup {NONE}
    BY <1>1, IPDataAssumption DEF IPTypeOK, Mutex, Refresher
  <2>2. PICK to, got, timer :
          Moved(f, to, got, timer) /\ (got = NONE <=> to \in {"download", "sleep"})
    BY <1>1, <2>1, RefreshEffects DEF IPTypeOK
  <2>3. refresher' \in [Feeds -> Refresher]
        /\ \A g \in Feeds : refresher'[g].got = NONE <=> refresher'[g].pc \in {"download", "sleep"}
    BY <2>2 DEF Moved, IPTypeOK
  <2>4. table' \in [Tables -> Nat \cup {NONE}]
    BY <1>1, <2>1, RefreshEffects DEF IPTypeOK
  <2>5. holder' \in [{"bgp", "dtp"} -> Feeds \cup Lookups \cup {NONE}]
    BY <1>1, <2>1, RefreshEffects DEF IPTypeOK
  <2>6. age' \in [Feeds -> Nat]
    BY <1>1, RefreshEffects DEF IPTypeOK
  <2>7. failures' \in [Feeds -> Nat] /\ \A g \in Feeds : failures'[g] <= MaxFailures[g]
    BY <1>1, <2>1, RefreshEffects DEF IPTypeOK
  <2>8. remote' = remote /\ lookup' = lookup
    BY <1>1, RefreshEffects
  <2> QED BY <2>3, <2>4, <2>5, <2>6, <2>7, <2>8 DEF IPTypeOK
<1>2. ASSUME NEW f \in Feeds, NewVersion(f)
      PROVE  IPTypeOK'
  BY <1>2 DEF IPTypeOK, NewVersion
<1>3. ASSUME NEW l \in Lookups,
             \/ \E t \in LookupTables : LookUp(l, t)
             \/ LockForLookup(l) \/ Find(l) \/ NextLookup(l)
      PROVE  IPTypeOK'
  <2>1. lookup' \in [Lookups -> Lookup]
    BY <1>3, LookupEffects DEF LookupMoved
  <2>2. holder' \in [{"bgp", "dtp"} -> Feeds \cup Lookups \cup {NONE}]
    BY <1>3, LookupEffects DEF IPTypeOK
  <2>3. UNCHANGED <<remote, refresher, table, age, failures>>
    BY <1>3, LookupEffects
  <2> QED BY <2>1, <2>2, <2>3 DEF IPTypeOK
<1>4. CASE PassTime
  <2>1. ASSUME NEW f \in Feeds
        PROVE  /\ refresher'[f] \in Refresher
               /\ refresher'[f].pc = "sleep" /\ refresher'[f].got = NONE
    <3>1. /\ refresher[f] \in Refresher /\ refresher[f].timer \in Nat /\ refresher[f].timer > 0
          /\ refresher[f].pc = "sleep" /\ refresher[f].got = NONE
      BY <1>4 DEF PassTime, IPTypeOK, Refresher
    <3>2. refresher'[f] = [refresher[f] EXCEPT !.timer = refresher[f].timer - 1]
      BY <1>4 DEF PassTime
    <3>3. refresher[f].timer - 1 \in Nat
      BY <3>1
    <3> QED BY <3>1, <3>2, <3>3 DEF Refresher
  <2>2. refresher' \in [Feeds -> Refresher]
    BY <1>4, <2>1 DEF PassTime
  <2>3. age' \in [Feeds -> Nat]
    BY <1>4 DEF PassTime, IPTypeOK
  <2> QED BY <1>4, <2>1, <2>2, <2>3 DEF PassTime, IPTypeOK
<1> QED BY <1>1, <1>2, <1>3, <1>4 DEF IPNext

(* What the steps of the world do. *)
LEMMA WorldEffects ==
  ASSUME IPTypeOK
  PROVE  /\ \A f \in Feeds : NewVersion(f) =>
              /\ UNCHANGED <<refresher, table, holder, lookup, age, failures>>
              /\ remote'[f] = remote[f] + 1
              /\ \A g \in Feeds : g # f => remote'[g] = remote[g]
         /\ PassTime =>
              /\ UNCHANGED <<remote, table, holder, lookup, failures>>
              /\ \A f \in Feeds :
                   /\ refresher[f].pc = "sleep" /\ refresher[f].timer > 0
                   /\ refresher'[f].pc = "sleep" /\ refresher'[f].got = refresher[f].got
                   /\ refresher'[f].timer = refresher[f].timer - 1
                   /\ age'[f] = age[f] + 1
<1>1. ASSUME NEW f \in Feeds, NewVersion(f)
      PROVE  /\ UNCHANGED <<refresher, table, holder, lookup, age, failures>>
             /\ remote'[f] = remote[f] + 1
             /\ \A g \in Feeds : g # f => remote'[g] = remote[g]
  BY <1>1 DEF NewVersion, IPTypeOK
<1>2. ASSUME PassTime, NEW f \in Feeds
      PROVE  /\ refresher[f].pc = "sleep" /\ refresher[f].timer > 0
             /\ refresher'[f].pc = "sleep" /\ refresher'[f].got = refresher[f].got
             /\ refresher'[f].timer = refresher[f].timer - 1
             /\ age'[f] = age[f] + 1
  <2>1. refresher[f] \in Refresher /\ refresher[f].pc = "sleep" /\ refresher[f].timer > 0
    BY <1>2 DEF PassTime, IPTypeOK
  <2>2. refresher'[f] = [refresher[f] EXCEPT !.timer = refresher[f].timer - 1]
    BY <1>2 DEF PassTime
  <2>3. age'[f] = age[f] + 1
    BY <1>2 DEF PassTime
  <2> QED BY <2>1, <2>2, <2>3 DEF Refresher
<1> QED BY <1>1, <1>2 DEF PassTime

(* Nobody enters a critical section, or leaves it, but with its mutex.     *)
LEMMA MutexStep ==
  ASSUME IPTypeOK, MutexInv, IPNext
  PROVE  MutexInv'
<1>1. ASSUME NEW f \in Feeds, Refresh(f)
      PROVE  MutexInv'
  <2>1. /\ f \in AllFeeds /\ f \notin Lookups /\ f # NONE /\ Mutex(f) \in {"bgp", "dtp"}
        /\ holder \in [{"bgp", "dtp"} -> Feeds \cup Lookups \cup {NONE}]
        /\ lookup' = lookup
        /\ NONE \notin Lookups
    BY <1>1, IPDataAssumption, RefreshEffects DEF IPTypeOK, Mutex, AllFeeds
  <2>2. /\ \A g \in Feeds : g # f => refresher'[g] = refresher[g]
        /\ refresher'[f].pc \in {"store4", "store6", "store"} => holder'[Mutex(f)] = f
        /\ refresher'[f].pc \in {"store4", "store6"} => f = "prefixes"
        /\ refresher'[f].pc = "store" => f # "prefixes"
        /\ \A m \in {"bgp", "dtp"} :
             holder'[m] = holder[m] \/ (m = Mutex(f) /\ holder[m] \in {f, NONE})
    <3>1. PICK to, got, timer :
            /\ Moved(f, to, got, timer)
            /\ \/ to \in {"lock", "sleep", "download"} /\ holder' = holder
               \/ /\ to = (IF f = "prefixes" THEN "store4" ELSE "store")
                  /\ holder[Mutex(f)] = NONE /\ holder' = [holder EXCEPT ![Mutex(f)] = f]
               \/ to = "store6" /\ refresher[f].pc = "store4" /\ holder' = holder
               \/ /\ to = "sleep" /\ refresher[f].pc \in {"store6", "store"}
                  /\ holder' = [holder EXCEPT ![Mutex(f)] = NONE]
      BY <1>1, RefreshEffects
    <3>2. refresher'[f].pc = to /\ \A g \in Feeds : g # f => refresher'[g] = refresher[g]
      BY <3>1 DEF Moved
    <3>3. /\ to \in {"store4", "store6", "store"} => holder'[Mutex(f)] = f
          /\ to \in {"store4", "store6"} => f = "prefixes"
          /\ to = "store" => f # "prefixes"
      BY <2>1, <3>1 DEF MutexInv
    <3>4. ASSUME NEW m \in {"bgp", "dtp"}
          PROVE  holder'[m] = holder[m] \/ (m = Mutex(f) /\ holder[m] \in {f, NONE})
      BY <2>1, <3>1 DEF MutexInv
    <3> QED BY <3>2, <3>3, <3>4
  <2>3. \A g \in Feeds : g \notin Lookups /\ g # NONE /\ Mutex(g) \in {"bgp", "dtp"}
    BY IPDataAssumption DEF Mutex
  <2>4. \A l \in Lookups : /\ lookup[l].table \in LookupTables
                           /\ Guard(lookup[l].table) \in {"bgp", "dtp"}
    BY DEF IPTypeOK, Lookup, Guard
  <2>5. ASSUME NEW g \in Feeds
        PROVE  /\ refresher'[g].pc \in {"store4", "store6", "store"} => holder'[Mutex(g)] = g
               /\ refresher'[g].pc \in {"store4", "store6"} => g = "prefixes"
               /\ refresher'[g].pc = "store" => g # "prefixes"
    <3>1. CASE g = f
      BY <2>2, <3>1
    <3>2. CASE g # f
      BY <2>2, <2>3, <3>2 DEF MutexInv
    <3> QED BY <3>1, <3>2
  <2>6. ASSUME NEW l \in Lookups
        PROVE  /\ lookup'[l].pc \in {"find", "names"} => holder'[Guard(lookup'[l].table)] = l
               /\ lookup'[l].pc = "names" => lookup'[l].table # "googlePublicDNS"
    BY <2>1, <2>2, <2>4 DEF MutexInv
  <2> QED BY <2>5, <2>6 DEF MutexInv
<1>2. ASSUME NEW f \in Feeds, NewVersion(f)
      PROVE  MutexInv'
  BY <1>2 DEF MutexInv, NewVersion
<1>3. ASSUME NEW l \in Lookups,
             \/ \E t \in LookupTables : LookUp(l, t)
             \/ LockForLookup(l) \/ Find(l) \/ NextLookup(l)
      PROVE  MutexInv'
  <2>1. /\ l \notin Feeds /\ l # NONE /\ refresher' = refresher
        /\ holder \in [{"bgp", "dtp"} -> Feeds \cup Lookups \cup {NONE}]
        /\ lookup[l].table \in LookupTables
    BY <1>3, IPDataAssumption, LookupEffects DEF IPTypeOK, Lookup
  <2>2. Guard("googlePublicDNS") = "dtp" /\ \A t : t # "googlePublicDNS" => Guard(t) = "bgp"
    BY DEF Guard
  <2>3. /\ \A k \in Lookups : k # l => lookup'[k] = lookup[k]
        /\ lookup'[l].pc \in {"find", "names"} => holder'[Guard(lookup'[l].table)] = l
        /\ lookup'[l].pc = "names" => lookup'[l].table # "googlePublicDNS"
        /\ \A m \in {"bgp", "dtp"} : holder'[m] = holder[m] \/ holder[m] \in {l, NONE}
    <3>1. PICK to, t, found, names :
            /\ LookupMoved(l, to, t, found, names)
            /\ \/ to \notin {"find", "names"} /\ UNCHANGED holder
               \/ /\ to = "find" /\ t = lookup[l].table /\ holder[Guard(t)] = NONE
                  /\ holder' = [holder EXCEPT ![Guard(t)] = l]
               \/ /\ lookup[l].pc = "find" /\ to = "names" /\ t = lookup[l].table
                  /\ t # "googlePublicDNS" /\ UNCHANGED holder
               \/ /\ lookup[l].pc = "names" /\ to = "done"
                  /\ holder' = [holder EXCEPT !["bgp"] = NONE]
               \/ /\ lookup[l].pc = "find" /\ to = "done" /\ lookup[l].table = "googlePublicDNS"
                  /\ holder' = [holder EXCEPT !["dtp"] = NONE]
      BY <1>3, LookupEffects
    <3>2. /\ lookup'[l].pc = to /\ lookup'[l].table = t
          /\ \A k \in Lookups : k # l => lookup'[k] = lookup[k]
      BY <3>1 DEF LookupMoved
    <3>3. /\ to \in {"find", "names"} => holder'[Guard(t)] = l
          /\ to = "names" => t # "googlePublicDNS"
      <4>1. Guard(t) \in {"bgp", "dtp"}
        BY DEF Guard
      <4> QED BY <2>1, <3>1, <4>1 DEF MutexInv
    <3>4. ASSUME NEW m \in {"bgp", "dtp"}
          PROVE  holder'[m] = holder[m] \/ holder[m] \in {l, NONE}
      <4>1. Guard(t) \in {"bgp", "dtp"}
        BY DEF Guard
      <4> QED BY <2>1, <2>2, <3>1, <4>1 DEF MutexInv
    <3> QED BY <3>2, <3>3, <3>4
  <2>4. \A g \in Feeds : g # l /\ g # NONE /\ Mutex(g) \in {"bgp", "dtp"}
    BY <2>1, IPDataAssumption DEF Mutex
  <2>5. ASSUME NEW g \in Feeds
        PROVE  /\ refresher'[g].pc \in {"store4", "store6", "store"} => holder'[Mutex(g)] = g
               /\ refresher'[g].pc \in {"store4", "store6"} => g = "prefixes"
               /\ refresher'[g].pc = "store" => g # "prefixes"
    BY <2>1, <2>3, <2>4 DEF MutexInv
  <2>6. ASSUME NEW k \in Lookups
        PROVE  /\ lookup'[k].pc \in {"find", "names"} => holder'[Guard(lookup'[k].table)] = k
               /\ lookup'[k].pc = "names" => lookup'[k].table # "googlePublicDNS"
    <3>1. CASE k = l
      BY <2>3, <3>1
    <3>2. CASE k # l
      <4>1. k # NONE /\ Guard(lookup[k].table) \in {"bgp", "dtp"}
        BY IPDataAssumption DEF Guard
      <4> QED BY <2>3, <3>2, <4>1 DEF MutexInv
    <3> QED BY <3>1, <3>2
  <2> QED BY <2>5, <2>6 DEF MutexInv
<1>4. CASE PassTime
  <2>1. /\ UNCHANGED <<holder, lookup>>
        /\ \A f \in Feeds : refresher'[f].pc = refresher[f].pc
    BY <1>4, WorldEffects
  <2> QED BY <2>1 DEF MutexInv
<1> QED BY <1>1, <1>2, <1>3, <1>4 DEF IPNext

(* The tables that a feed stores are its own. *)
LEMMA TableChanges ==
  ASSUME IPTypeOK, MutexInv, NEW f \in Feeds, Refresh(f)
  PROVE  /\ \A t \in Tables : t \notin TablesOf(f) => table'[t] = table[t]
         /\ \A t \in Tables : \/ table'[t] = table[t]
                              \/ /\ table'[t] = refresher[f].got /\ refresher[f].got # NONE
                                 /\ refresher[f].pc \in {"store4", "store6", "store"}
<1>1. /\ f \in AllFeeds /\ table \in [Tables -> Nat \cup {NONE}]
      /\ refresher[f].pc \in {"store4", "store6"} => f = "prefixes"
      /\ refresher[f].pc = "store" => f # "prefixes"
      /\ refresher[f].pc \in {"store4", "store6", "store"} => refresher[f].got # NONE
  BY IPDataAssumption DEF IPTypeOK, MutexInv
<1>2. CASE table' = table
  BY <1>2
<1>3. CASE refresher[f].pc = "store4" /\ table' = [table EXCEPT !["v4prefixes"] = refresher[f].got]
  BY <1>1, <1>3 DEF TablesOf, Tables
<1>4. ASSUME NEW name \in {"v6prefixes", "asNames", "googlePublicDNS"},
             \/ refresher[f].pc = "store6" /\ name = "v6prefixes"
             \/ /\ refresher[f].pc = "store"
                /\ name = IF f = "names" THEN "asNames" ELSE "googlePublicDNS",
             table' = [table EXCEPT ![name] = refresher[f].got]
      PROVE  /\ \A t \in Tables : t \notin TablesOf(f) => table'[t] = table[t]
             /\ \A t \in Tables : \/ table'[t] = table[t]
                                  \/ /\ table'[t] = refresher[f].got /\ refresher[f].got # NONE
                                     /\ refresher[f].pc \in {"store4", "store6", "store"}
  BY <1>1, <1>4 DEF TablesOf, Tables, AllFeeds
<1> QED BY <1>2, <1>3, <1>4, RefreshEffects

(* Where the goroutine of a feed is after a step, and with what. *)
LEMMA RefresherAfter ==
  ASSUME IPTypeOK, NEW f \in Feeds, Refresh(f)
  PROVE  /\ refresher[f].pc \in {"download", "lock", "sleep"} =>
              table' = table /\ refresher'[f].pc # "store6"
         /\ refresher[f].pc = "store4" =>
              /\ table' = [table EXCEPT !["v4prefixes"] = refresher[f].got]
              /\ refresher'[f].pc = "store6" /\ refresher'[f].got = refresher[f].got
         /\ refresher[f].pc = "store6" =>
              /\ table' = [table EXCEPT !["v6prefixes"] = refresher[f].got]
              /\ refresher'[f].pc = "sleep"
         /\ refresher[f].pc # "download" =>
              refresher'[f].got = NONE \/ refresher'[f].got = refresher[f].got
<1>1. PICK to, got, timer :
        /\ Moved(f, to, got, timer)
        /\ refresher[f].pc \in {"download", "lock", "sleep"} => table' = table /\ to # "store6"
        /\ refresher[f].pc = "store4" =>
             /\ table' = [table EXCEPT !["v4prefixes"] = refresher[f].got]
             /\ to = "store6" /\ got = refresher[f].got
        /\ refresher[f].pc = "store6" =>
             table' = [table EXCEPT !["v6prefixes"] = refresher[f].got] /\ to = "sleep"
        /\ refresher[f].pc # "download" => got = NONE \/ got = refresher[f].got
  BY RefreshEffects
<1>2. refresher'[f].pc = to /\ refresher'[f].got = got
  BY <1>1 DEF Moved
<1> QED BY <1>1, <1>2

(* Every table belongs to one feed. *)
LEMMA TablesDiffer ==
  ASSUME NEW f \in AllFeeds, NEW g \in AllFeeds, f # g
  PROVE  TablesOf(f) \cap TablesOf(g) = {} /\ TablesOf(f) \subseteq Tables
  BY DEF AllFeeds, TablesOf, Tables

(* A feed stores what is at least as new as what is there. *)
LEMMA VersionsStep ==
  ASSUME IPTypeOK, MutexInv, VersionsInv, IPNext
  PROVE  VersionsInv'
<1>1. /\ Feeds \subseteq AllFeeds /\ NONE \notin Nat
      /\ \A g \in Feeds : /\ TablesOf(g) \subseteq Tables /\ remote[g] \in Nat
                          /\ refresher[g].got \in Nat \cup {NONE}
      /\ \A t \in Tables : table[t] \in Nat \cup {NONE}
  BY IPDataAssumption DEF IPTypeOK, Refresher, TablesOf, Tables, AllFeeds
<1>2. ASSUME NEW f \in Feeds, Refresh(f)
      PROVE  VersionsInv'
  <2>1. remote' = remote
    BY <1>2, RefreshEffects
  <2>2. PICK to, got, timer :
          /\ Moved(f, to, got, timer)
          /\ \/ got = remote[f] /\ table' = table
             \/ got = NONE
             \/ got = refresher[f].got
    BY <1>2, RefreshEffects
  <2>3. refresher'[f].got = got /\ \A g \in Feeds : g # f => refresher'[g] = refresher[g]
    BY <2>2 DEF Moved
  <2>4. ASSUME NEW g \in Feeds
        PROVE  /\ refresher'[g].got # NONE => refresher'[g].got <= remote[g]
               /\ \A t \in TablesOf(g) : table'[t] # NONE =>
                    /\ table'[t] <= remote[g]
                    /\ refresher'[g].got # NONE => table'[t] <= refresher'[g].got
    <3>1. CASE g # f
      <4>1. \A t \in TablesOf(g) : table'[t] = table[t]
        BY <1>1, <1>2, <3>1, TablesDiffer, TableChanges
      <4> QED BY <2>3, <3>1, <4>1 DEF VersionsInv
    <3>2. CASE g = f
      <4>1. refresher'[f].got # NONE => refresher'[f].got <= remote[f]
        BY <1>1, <2>2, <2>3 DEF VersionsInv
      <4>2. ASSUME NEW t \in TablesOf(f), table'[t] # NONE
            PROVE  /\ table'[t] <= remote[f]
                   /\ refresher'[f].got # NONE => table'[t] <= refresher'[f].got
        <5>1. t \in Tables
          BY <1>1
        <5>2. CASE table'[t] = table[t]
          BY <1>1, <2>2, <2>3, <4>2, <5>1, <5>2 DEF VersionsInv
        <5>3. CASE /\ table'[t] = refresher[f].got /\ refresher[f].got # NONE
                   /\ refresher[f].pc \in {"store4", "store6", "store"}
          <6>1. got = NONE \/ got = refresher[f].got
            BY <1>2, <2>3, <5>3, RefresherAfter
          <6>2. refresher[f].got \in Nat /\ refresher[f].got <= remote[f]
            BY <1>1, <5>3 DEF VersionsInv
          <6> QED BY <2>3, <5>3, <6>1, <6>2
        <5> QED BY <1>2, <5>1, <5>2, <5>3, TableChanges
      <4> QED BY <3>2, <4>1, <4>2
    <3> QED BY <3>1, <3>2
  <2> QED BY <2>1, <2>4 DEF VersionsInv
<1>3. ASSUME NEW f \in Feeds, NewVersion(f)
      PROVE  VersionsInv'
  <2>1. /\ UNCHANGED <<refresher, table>> /\ remote'[f] = remote[f] + 1
        /\ \A g \in Feeds : g # f => remote'[g] = remote[g]
    BY <1>3, WorldEffects
  <2>2. ASSUME NEW g \in Feeds
        PROVE  \A v \in Nat \cup {NONE} : v # NONE /\ v <= remote[g] => v <= remote'[g]
    BY <1>1, <2>1
  <2> QED BY <1>1, <2>1, <2>2 DEF VersionsInv
<1>4. ASSUME NEW l \in Lookups,
             \/ \E t \in LookupTables : LookUp(l, t)
             \/ LockForLookup(l) \/ Find(l) \/ NextLookup(l)
      PROVE  VersionsInv'
  <2>1. UNCHANGED <<remote, refresher, table>>
    BY <1>4, LookupEffects
  <2> QED BY <2>1 DEF VersionsInv
<1>5. CASE PassTime
  <2>1. UNCHANGED <<remote, table>> /\ \A f \in Feeds : refresher'[f].got = refresher[f].got
    BY <1>5, WorldEffects
  <2> QED BY <2>1 DEF VersionsInv
<1> QED BY <1>2, <1>3, <1>4, <1>5 DEF IPNext

(* The families of the prefixes differ only in the critical section.       *)
LEMMA FamiliesStep ==
  ASSUME IPTypeOK, MutexInv, FamiliesInv, Stage6Inv, IPNext
  PROVE  FamiliesInv' /\ Stage6Inv'
<1>1. ASSUME NEW f \in Feeds, Refresh(f)
      PROVE  FamiliesInv' /\ Stage6Inv'
  <2>1. table \in [Tables -> Nat \cup {NONE}] /\ {"v4prefixes", "v6prefixes"} \subseteq Tables
    BY DEF IPTypeOK, Tables
  <2>2. CASE f # "prefixes"
    <3>1. UNCHANGED <<table["v4prefixes"], table["v6prefixes"]>>
      <4>1. {"v4prefixes", "v6prefixes"} \cap TablesOf(f) = {}
        BY <2>2 DEF TablesOf
      <4> QED BY <1>1, <2>1, <4>1, TableChanges
    <3>2. "prefixes" \in Feeds => refresher'["prefixes"] = refresher["prefixes"]
      BY <1>1, <2>2, RefreshEffects DEF Moved
    <3> QED BY <3>1, <3>2 DEF FamiliesInv, Stage6Inv
  <2>3. CASE f = "prefixes"
    <3>1. refresher[f].pc # "store"
      BY <2>3 DEF MutexInv
    <3>2. CASE refresher[f].pc = "store6"
      <4>1. table' = [table EXCEPT !["v6prefixes"] = refresher[f].got] /\ refresher'[f].pc = "sleep"
        BY <1>1, <3>2, RefresherAfter
      <4>2. table["v4prefixes"] = refresher[f].got
        BY <2>3, <3>2 DEF Stage6Inv
      <4>3. table'["v4prefixes"] = table'["v6prefixes"]
        BY <2>1, <4>1, <4>2
      <4> QED BY <2>3, <4>1, <4>3 DEF FamiliesInv, Stage6Inv
    <3>3. CASE refresher[f].pc = "store4"
      <4>1. /\ table' = [table EXCEPT !["v4prefixes"] = refresher[f].got]
            /\ refresher'[f].pc = "store6" /\ refresher'[f].got = refresher[f].got
        BY <1>1, <3>3, RefresherAfter
      <4>2. table'["v4prefixes"] = refresher'[f].got
        BY <2>1, <4>1
      <4> QED BY <2>3, <4>1, <4>2 DEF FamiliesInv, Stage6Inv
    <3>4. CASE refresher[f].pc \notin {"store4", "store6", "store"}
      <4>1. table' = table /\ refresher'[f].pc # "store6"
        <5>1. refresher[f].pc \in {"download", "lock", "sleep"}
          BY <3>4 DEF IPTypeOK, Refresher
        <5> QED BY <1>1, <5>1, RefresherAfter
      <4> QED BY <2>3, <3>4, <4>1 DEF FamiliesInv, Stage6Inv
    <3> QED BY <3>1, <3>2, <3>3, <3>4
  <2> QED BY <2>2, <2>3
<1>2. CASE UNCHANGED <<refresher, table>>
  BY <1>2 DEF FamiliesInv, Stage6Inv
<1>3. CASE PassTime
  <2>1. table' = table /\ \A f \in Feeds : refresher[f].pc # "store6" /\ refresher'[f].pc # "store6"
    BY <1>3, WorldEffects
  <2> QED BY <2>1 DEF FamiliesInv, Stage6Inv
<1>4. \A f \in Feeds : NewVersion(f) => UNCHANGED <<refresher, table>>
  BY WorldEffects
<1>5. ASSUME NEW l \in Lookups,
             \/ \E t \in LookupTables : LookUp(l, t)
             \/ LockForLookup(l) \/ Find(l) \/ NextLookup(l)
      PROVE  UNCHANGED <<refresher, table>>
  BY <1>5, LookupEffects
<1> QED BY <1>1, <1>2, <1>3, <1>4, <1>5 DEF IPNext

(* What a lookup has found stays until it has the names: it holds the mutex. *)
LEMMA SnapshotStep ==
  ASSUME IPTypeOK, MutexInv, SnapshotInv, IPNext
  PROVE  SnapshotInv'
<1>1. ASSUME NEW f \in Feeds, Refresh(f)
      PROVE  SnapshotInv'
  <2>1. lookup' = lookup
    BY <1>1, RefreshEffects
  <2>2. ASSUME NEW l \in Lookups, lookup[l].pc = "names"
        PROVE  table'[lookup[l].table] = table[lookup[l].table]
    <3>1. /\ lookup[l].table \in {"v4prefixes", "v6prefixes"} /\ holder["bgp"] = l
          /\ l # f
      BY <2>2, IPDataAssumption DEF IPTypeOK, MutexInv, Lookup, LookupTables, Guard
    <3>2. CASE f = "prefixes"
      <4>1. refresher[f].pc \notin {"store4", "store6", "store"}
        BY <3>1, <3>2 DEF MutexInv, Mutex
      <4> QED BY <1>1, <3>1, <4>1, TableChanges DEF Tables
    <3>3. CASE f # "prefixes"
      <4>1. lookup[l].table \notin TablesOf(f) /\ lookup[l].table \in Tables
        BY <3>1, <3>3 DEF TablesOf, Tables
      <4> QED BY <1>1, <4>1, TableChanges
    <3> QED BY <3>2, <3>3
  <2> QED BY <2>1, <2>2 DEF SnapshotInv
<1>2. CASE UNCHANGED <<lookup, table>>
  BY <1>2 DEF SnapshotInv
<1>3. \A f \in Feeds : NewVersion(f) => UNCHANGED <<lookup, table>>
  BY WorldEffects
<1>4. PassTime => UNCHANGED <<lookup, table>>
  BY WorldEffects
<1>5. ASSUME NEW l \in Lookups,
             \/ \E t \in LookupTables : LookUp(l, t)
             \/ LockForLookup(l) \/ Find(l) \/ NextLookup(l)
      PROVE  SnapshotInv'
  <2>1. PICK to, t, found, names :
          /\ to = "names" => found = table[t]
          /\ LookupMoved(l, to, t, found, names)
    BY <1>5, LookupEffects
  <2>2. /\ lookup'[l].pc = to /\ lookup'[l].table = t /\ lookup'[l].found = found
        /\ \A k \in Lookups : k # l => lookup'[k] = lookup[k]
    BY <2>1 DEF LookupMoved
  <2>3. table' = table
    BY <1>5, LookupEffects
  <2> QED BY <2>1, <2>2, <2>3 DEF SnapshotInv
<1> QED BY <1>1, <1>2, <1>3, <1>4, <1>5 DEF IPNext

(* Another failure is another sleep. *)
LEMMA OneMore ==
  ASSUME NEW n \in Nat, NEW r \in Nat
  PROVE  n * r \in Nat /\ (n + 1) * r = n * r + r /\ 0 * r = 0
  OBVIOUS

(* The bound of the age is a number, and larger when a table is there.     *)
LEMMA BoundType ==
  ASSUME IPTypeOK, NEW f \in Feeds
  PROVE  /\ age[f] \in Nat /\ failures[f] \in Nat /\ RetryAfter[f] \in Nat /\ Interval[f] \in Nat
         /\ refresher[f].timer \in Nat /\ failures[f] * RetryAfter[f] \in Nat
         /\ AgeBound(f) \in Nat
         /\ failures[f] * RetryAfter[f] <= AgeBound(f)
<1>1. /\ age[f] \in Nat /\ failures[f] \in Nat /\ RetryAfter[f] \in Nat /\ Interval[f] \in Nat
      /\ refresher[f].timer \in Nat
  BY IPDataAssumption DEF IPTypeOK, Refresher
<1>2. failures[f] * RetryAfter[f] \in Nat
  BY <1>1, OneMore
<1> QED BY <1>1, <1>2 DEF AgeBound

(* The time that a sleep may still take is within the bound. *)
LEMMA FreshStep ==
  ASSUME IPTypeOK, IPTypeOK', MutexInv, FreshInv, IPNext
  PROVE  FreshInv'
<1> DEFINE Fresh(g) == /\ age[g] <= AgeBound(g)
                       /\ refresher[g].pc = "sleep" => age[g] + refresher[g].timer <= AgeBound(g)
<1>1. ASSUME NEW f \in Feeds, Refresh(f), NEW g \in Feeds
      PROVE  Fresh(g)'
  <2>1. /\ \A t \in Tables : t \notin TablesOf(f) => table'[t] = table[t]
        /\ \A t \in Tables : table'[t] # table[t] => table'[t] # NONE
    BY <1>1, TableChanges
  <2>2. f \in AllFeeds /\ g \in AllFeeds /\ TablesOf(g) \subseteq Tables
    BY IPDataAssumption DEF TablesOf, Tables, AllFeeds
  <2>3. /\ age[g] \in Nat /\ failures[g] \in Nat /\ RetryAfter[g] \in Nat /\ Interval[g] \in Nat
        /\ refresher[g].timer \in Nat /\ failures[g] * RetryAfter[g] \in Nat
        /\ AgeBound(g) \in Nat /\ failures[g] * RetryAfter[g] <= AgeBound(g)
    BY BoundType
  <2>4. CASE g # f
    <3>1. \A t \in TablesOf(g) : table'[t] = table[t]
      BY <2>1, <2>2, <2>4, TablesDiffer
    <3>2. UNCHANGED <<age[g], failures[g], refresher[g]>>
      BY <1>1, <2>4, RefreshEffects DEF Moved, IPTypeOK
    <3>3. AgeBound(g)' = AgeBound(g)
      BY <3>1, <3>2 DEF AgeBound
    <3> QED BY <3>2, <3>3 DEF FreshInv
  <2>5. CASE g = f
    <3>1. CASE UNCHANGED <<age, failures>> /\ refresher'[f].pc # "sleep"
      <4>1. AgeBound(f) <= AgeBound(f)'
        <5>1. \A t \in TablesOf(f) : table[t] # NONE => table'[t] # NONE
          BY <2>1, <2>2, <2>5
        <5>2. failures'[f] = failures[f]
          BY <3>1
        <5> QED BY <2>3, <2>5, <5>1, <5>2 DEF AgeBound
      <4>2. AgeBound(f)' \in Nat
        <5>1. failures'[f] = failures[f]
          BY <3>1
        <5> QED BY <2>3, <2>5, <5>1 DEF AgeBound
      <4>3. age[f] <= AgeBound(f) /\ age'[f] = age[f]
        BY <3>1 DEF FreshInv
      <4> HIDE DEF AgeBound
      <4> QED BY <2>3, <2>5, <3>1, <4>1, <4>2, <4>3
    <3>2. CASE /\ failures' = [failures EXCEPT ![f] = @ + 1]
               /\ UNCHANGED <<table, age>>
               /\ refresher'[f].pc = "sleep" /\ refresher'[f].timer = RetryAfter[f]
      <4>1. failures'[f] = failures[f] + 1
        BY <3>2 DEF IPTypeOK
      <4>2. failures'[f] * RetryAfter[f] = failures[f] * RetryAfter[f] + RetryAfter[f]
        BY <2>3, <2>5, <4>1, OneMore
      <4>3. AgeBound(f)' = AgeBound(f) + RetryAfter[f]
        BY <2>3, <2>5, <3>2, <4>2 DEF AgeBound
      <4>4. age[f] <= AgeBound(f) /\ age'[f] = age[f]
        BY <3>2 DEF FreshInv
      <4> QED BY <2>3, <2>5, <3>2, <4>3, <4>4
    <3>3. CASE /\ refresher[f].pc \in {"store6", "store"} /\ refresher'[f].pc = "sleep"
               /\ refresher'[f].timer = Interval[f]
               /\ age' = [age EXCEPT ![f] = 0] /\ failures' = [failures EXCEPT ![f] = 0]
               /\ \E t \in TablesOf(f) : table'[t] # NONE
      <4>1. age'[f] = 0 /\ failures'[f] = 0
        BY <3>3 DEF IPTypeOK
      <4>2. failures'[f] * RetryAfter[f] = 0
        BY <2>3, <2>5, <4>1, OneMore
      <4>3. AgeBound(f)' = Interval[f]
        BY <2>3, <2>5, <3>3, <4>2 DEF AgeBound
      <4> QED BY <2>3, <2>5, <3>3, <4>1, <4>3
    <3>4. \/ UNCHANGED <<age, failures>> /\ refresher'[f].pc # "sleep"
          \/ /\ failures' = [failures EXCEPT ![f] = @ + 1]
             /\ UNCHANGED <<table, age>>
             /\ refresher'[f].pc = "sleep" /\ refresher'[f].timer = RetryAfter[f]
          \/ /\ refresher[f].pc \in {"store6", "store"} /\ refresher'[f].pc = "sleep"
             /\ refresher'[f].timer = Interval[f]
             /\ age' = [age EXCEPT ![f] = 0] /\ failures' = [failures EXCEPT ![f] = 0]
             /\ \E t \in TablesOf(f) : table'[t] # NONE
      <4>1. PICK to, got, timer :
              /\ Moved(f, to, got, timer)
              /\ \/ UNCHANGED <<age, failures>> /\ to # "sleep"
                 \/ /\ failures' = [failures EXCEPT ![f] = @ + 1]
                    /\ UNCHANGED <<table, age>>
                    /\ to = "sleep" /\ timer = RetryAfter[f]
                 \/ \E name \in {"v6prefixes", "asNames", "googlePublicDNS"} :
                      /\ \/ refresher[f].pc = "store6" /\ name = "v6prefixes"
                         \/ /\ refresher[f].pc = "store"
                            /\ name = IF f = "names" THEN "asNames" ELSE "googlePublicDNS"
                      /\ table' = [table EXCEPT ![name] = refresher[f].got]
                      /\ to = "sleep" /\ timer = Interval[f]
                      /\ age' = [age EXCEPT ![f] = 0]
                      /\ failures' = [failures EXCEPT ![f] = 0]
        BY <1>1, RefreshEffects
      <4>2. refresher'[f].pc = to /\ refresher'[f].timer = timer
        BY <4>1 DEF Moved
      <4>3. ASSUME NEW name \in {"v6prefixes", "asNames", "googlePublicDNS"},
                   \/ refresher[f].pc = "store6" /\ name = "v6prefixes"
                   \/ /\ refresher[f].pc = "store"
                      /\ name = IF f = "names" THEN "asNames" ELSE "googlePublicDNS",
                   table' = [table EXCEPT ![name] = refresher[f].got]
            PROVE  /\ refresher[f].pc \in {"store6", "store"}
                   /\ \E t \in TablesOf(f) : table'[t] # NONE
        <5>1. name \in TablesOf(f)
          BY <2>2, <4>3 DEF MutexInv, TablesOf, AllFeeds
        <5>2. refresher[f].got # NONE /\ table'[name] = refresher[f].got
          BY <2>2, <4>3 DEF IPTypeOK, Tables
        <5> QED BY <4>3, <5>1, <5>2
      <4> QED BY <4>1, <4>2, <4>3
    <3> QED BY <2>5, <3>1, <3>2, <3>3, <3>4
  <2> QED BY <2>4, <2>5
<1>2. ASSUME UNCHANGED <<refresher, table, age, failures>>
      PROVE  FreshInv'
  BY <1>2 DEF FreshInv, AgeBound
<1>3. ASSUME PassTime, NEW g \in Feeds
      PROVE  Fresh(g)'
  <2>1. /\ UNCHANGED <<table, failures>> /\ refresher[g].pc = "sleep" /\ refresher[g].timer > 0
        /\ refresher'[g].timer = refresher[g].timer - 1 /\ age'[g] = age[g] + 1
    BY <1>3, WorldEffects
  <2>2. AgeBound(g)' = AgeBound(g)
    BY <2>1 DEF AgeBound
  <2>3. /\ age[g] \in Nat /\ refresher[g].timer \in Nat /\ AgeBound(g) \in Nat
        /\ age[g] + refresher[g].timer <= AgeBound(g)
    BY <2>1, BoundType DEF FreshInv
  <2> HIDE DEF AgeBound
  <2> QED BY <2>1, <2>2, <2>3
<1>4. \A f \in Feeds : NewVersion(f) => UNCHANGED <<refresher, table, age, failures>>
  BY WorldEffects
<1>5. ASSUME NEW l \in Lookups,
             \/ \E t \in LookupTables : LookUp(l, t)
             \/ LockForLookup(l) \/ Find(l) \/ NextLookup(l)
      PROVE  UNCHANGED <<refresher, table, age, failures>>
  BY <1>5, LookupEffects
<1>6. CASE \E f \in Feeds : Refresh(f)
  BY <1>1, <1>6 DEF FreshInv
<1>7. CASE PassTime
  BY <1>3, <1>7 DEF FreshInv
<1> HIDE DEF Fresh
<1> QED BY <1>2, <1>4, <1>5, <1>6, <1>7 DEF IPNext

(* Mutexes, versions, snapshots and ages, at any time. *)
LEMMA IPInvariant == IPSpec => []IPInv
<1>1. IPInit => IPInv
  <2> SUFFICES ASSUME IPInit PROVE IPInv
    OBVIOUS
  <2>1. IPTypeOK
    <3>1. /\ remote \in [Feeds -> Nat] /\ table \in [Tables -> Nat \cup {NONE}]
          /\ age \in [Feeds -> Nat] /\ failures \in [Feeds -> Nat]
          /\ holder \in [{"bgp", "dtp"} -> Feeds \cup Lookups \cup {NONE}]
      BY DEF IPInit
    <3>2. refresher \in [Feeds -> Refresher]
      BY DEF IPInit, Refresher
    <3>3. lookup \in [Lookups -> Lookup]
      BY DEF IPInit, NoLookup, Lookup, LookupTables
    <3>4. \A f \in Feeds : /\ failures[f] <= MaxFailures[f]
                           /\ refresher[f].got = NONE /\ refresher[f].pc = "download"
      BY IPDataAssumption DEF IPInit
    <3> QED BY <3>1, <3>2, <3>3, <3>4 DEF IPTypeOK
  <2>2. MutexInv /\ SnapshotInv
    BY DEF IPInit, NoLookup, MutexInv, SnapshotInv
  <2>3. VersionsInv /\ FamiliesInv /\ Stage6Inv
    BY DEF IPInit, Tables, TablesOf, VersionsInv, FamiliesInv, Stage6Inv
  <2>4. FreshInv
    <3>1. \A f \in Feeds : /\ age[f] = 0 /\ refresher[f].pc = "download" /\ AgeBound(f) \in Nat
      BY <2>1, BoundType DEF IPInit
    <3> HIDE DEF AgeBound
    <3> QED BY <3>1 DEF FreshInv
  <2> QED BY <2>1, <2>2, <2>3, <2>4 DEF IPInv
<1>2. IPInv /\ [IPNext]_ipVars => IPInv'
  <2> SUFFICES ASSUME IPInv, [IPNext]_ipVars PROVE IPInv'
    OBVIOUS
  <2>1. CASE IPNext
    BY <2>1, IPTypeStep, MutexStep, VersionsStep, FamiliesStep, SnapshotStep, FreshStep DEF IPInv
  <2>2. CASE UNCHANGED ipVars
    BY <2>2 DEF ipVars, IPInv, IPTypeOK, MutexInv, VersionsInv, FamiliesInv, Stage6Inv,
                SnapshotInv, FreshInv, AgeBound
  <2> QED BY <2>1, <2>2
<1> QED BY <1>1, <1>2, PTL DEF IPSpec

(* The tables, the mutexes and all goroutines are always well typed.       *)
THEOREM IPTypeCorrect == IPSpec => []IPTypeOK
<1>1. IPInv => IPTypeOK
  BY DEF IPInv
<1> QED BY <1>1, IPInvariant, PTL

(* Whoever can take the mutex finds the prefixes of both families from one *)
(* download (bgp.go:216).                                                  *)
THEOREM FamiliesAgreeHolds == IPSpec => []FamiliesAgree
<1>1. IPInv => FamiliesAgree
  BY IPDataAssumption DEF IPInv, MutexInv, Mutex, FamiliesInv, FamiliesAgree
<1> QED BY <1>1, IPInvariant, PTL

(* The data is as fresh as the failures allow (bgp.go:163, dtp.go:124).    *)
THEOREM FreshEnoughHolds == IPSpec => []FreshEnough
<1>1. IPInv => FreshEnough
  BY DEF IPInv, FreshInv, AgeBound, FreshEnough
<1> QED BY <1>1, IPInvariant, PTL

(* A lookup combines prefixes and names that were the current ones at one  *)
(* moment (bgp.go:88).                                                     *)
THEOREM LookupIsSnapshotHolds == IPSpec => LookupIsSnapshot
<1> DEFINE Same == \A l \in Lookups :
                     lookup[l].pc = "names" /\ lookup'[l].pc = "done"
                       => lookup'[l].found = table[lookup[l].table]
<1>1. IPInv /\ [IPNext]_ipVars => [Same]_ipVars
  <2> SUFFICES ASSUME IPInv, IPNext, NEW l \in Lookups,
                      lookup[l].pc = "names", lookup'[l].pc = "done"
               PROVE  lookup'[l].found = table[lookup[l].table]
    OBVIOUS
  <2>1. IPTypeOK /\ lookup[l].found = table[lookup[l].table]
    BY DEF IPInv, SnapshotInv
  <2>2. \A f \in Feeds : Refresh(f) \/ NewVersion(f) => lookup' = lookup
    BY <2>1, RefreshEffects, WorldEffects
  <2>3. PassTime => lookup' = lookup
    BY <2>1, WorldEffects
  <2>4. PICK k \in Lookups : \/ \E t \in LookupTables : LookUp(k, t)
                             \/ LockForLookup(k) \/ Find(k) \/ NextLookup(k)
    BY <2>2, <2>3 DEF IPNext
  <2>5. PICK to, t, found, names :
          /\ LookupMoved(k, to, t, found, names)
          /\ lookup[k].pc = "names" /\ to = "done" => found = lookup[k].found
    BY <2>1, <2>4, LookupEffects
  <2>6. lookup'[k].pc = to /\ lookup'[k].found = found /\ (l # k => lookup'[l] = lookup[l])
    BY <2>5 DEF LookupMoved
  <2> QED BY <2>1, <2>5, <2>6
<1> QED BY <1>1, IPInvariant, PTL DEF IPSpec, LookupIsSnapshot

(* A table, once there, is only replaced by the same or a newer version    *)
(* (bgp.go:155, dtp.go:116).                                               *)
THEOREM NeverForgetsHolds == IPSpec => NeverForgets
<1> DEFINE Grows == \A t \in Tables :
                      table[t] # NONE => table'[t] # NONE /\ table'[t] >= table[t]
<1>1. IPInv /\ [IPNext]_ipVars => [Grows]_ipVars
  <2> SUFFICES ASSUME IPInv, IPNext, NEW t \in Tables, table[t] # NONE
               PROVE  table'[t] # NONE /\ table'[t] >= table[t]
    OBVIOUS
  <2>1. IPTypeOK /\ MutexInv /\ VersionsInv /\ table[t] \in Nat
    BY DEF IPInv, IPTypeOK
  <2>2. ASSUME NEW f \in Feeds, Refresh(f), table'[t] # table[t]
        PROVE  table'[t] # NONE /\ table'[t] >= table[t]
    <3>1. t \in TablesOf(f) /\ table'[t] = refresher[f].got /\ refresher[f].got # NONE
      BY <2>1, <2>2, TableChanges
    <3>2. refresher[f].got \in Nat /\ table[t] <= refresher[f].got
      BY <2>1, <3>1 DEF IPTypeOK, Refresher, VersionsInv
    <3> QED BY <2>1, <3>1, <3>2
  <2>3. \A f \in Feeds : NewVersion(f) => table' = table
    BY <2>1, WorldEffects
  <2>4. PassTime => table' = table
    BY <2>1, WorldEffects
  <2>5. ASSUME NEW l \in Lookups,
               \/ \E u \in LookupTables : LookUp(l, u)
               \/ LockForLookup(l) \/ Find(l) \/ NextLookup(l)
        PROVE  table' = table
    BY <2>1, <2>5, LookupEffects
  <2>6. CASE table'[t] = table[t]
    BY <2>1, <2>6
  <2> QED BY <2>2, <2>3, <2>4, <2>5, <2>6 DEF IPNext
<1> QED BY <1>1, IPInvariant, PTL DEF IPSpec, NeverForgets

-----------------------------------------------------------------------------
(* The search for certificates.                                            *)

Active(r) == run[r].pc # "idle"

IsIssuance(row) == row.kind = "issuance"

(* The ids in a sequence of rows, and that they are in order. *)
RowIDs(rows) == {rows[i].id : i \in {i \in DOMAIN rows : IsIssuance(rows[i])}}

InOrder(rows) ==
  \A i, j \in DOMAIN rows :
    i < j /\ IsIssuance(rows[i]) /\ IsIssuance(rows[j]) => rows[i].id < rows[j].id

(* The first run clears the button away, and nothing brings it back; the   *)
(* others never begin.                                                     *)
OneSearch ==
  /\ \A r, s \in Runs : Active(r) /\ Active(s) => r = s
  /\ (\E r \in Runs : Active(r)) => \A i \in DOMAIN tbody : tbody[i] # Button
  /\ (\A r \in Runs : ~Active(r)) => tbody = <<Button>>
  /\ \A r \in Runs : (Active(r) \/ ~run[r].once) /\ (run[r].once \/ run[r].after = 0)

(* The rows are in order and end at the cursor q.after, after which the    *)
(* page that the run with the locals q awaits begins.                      *)
RowsOf(q, rows) ==
  /\ \A id \in RowIDs(rows) : id <= q.after
  /\ q.pc = "page" =>
       /\ \A i, j \in DOMAIN q.page : i < j => q.page[i] < q.page[j]
       /\ \A id \in Range(q.page) : id > q.after

RowsInv == InOrder(tbody) /\ \A r \in Runs : Active(r) => RowsOf(run[r], tbody)

(* What the user sees in place of the message. *)
VisibleOf(q, rows) ==
  q.once \/ q.pc = "ended" => rows # <<>> /\ \A i \in DOMAIN rows : rows[i] # Searching

VisibleInv == \A r \in Runs : Active(r) => VisibleOf(run[r], tbody)

(* Where a certificate is that was asked for: shown, on the page, or after *)
(* all that was got so far.                                                *)
Found(q, rows, id) ==
  \/ id \in RowIDs(rows)
  \/ q.pc = "fetch" /\ id > q.after
  \/ q.pc = "page" /\ id \in Range(q.page)
  \/ q.pc = "page" /\ q.page # <<>> /\ id > Last(q.page)

CompleteOf(q, rows, ids) ==
  /\ q.pc \in {"fetch", "page"} => \A id \in q.asked \cap ids : Found(q, rows, id)
  /\ q.pc = "ended" =>
       \/ \E i \in DOMAIN rows : rows[i] = ErrorRow
       \/ q.asked \cap ids \subseteq RowIDs(rows)

CompleteInv ==
  /\ \A r \in Runs : run[r].asked \subseteq 1..newest
  /\ \A r \in Runs : Active(r) => CompleteOf(run[r], tbody, logged)

SearchInv == SearchTypeOK /\ OneSearch /\ RowsInv /\ VisibleInv /\ CompleteInv

(* The rows. *)
LEMMA RowsType ==
  /\ {Button, Searching, NoneFound, ErrorRow} \subseteq TableRow
  /\ Searching # Button /\ NoneFound # Button /\ ErrorRow # Button
  /\ NoneFound # Searching /\ ErrorRow # Searching
  /\ \A row \in {Button, Searching, NoneFound, ErrorRow} : ~IsIssuance(row)
  /\ \A id \in IDs : /\ IssuanceRow(id) \in TableRow /\ IsIssuance(IssuanceRow(id))
                     /\ IssuanceRow(id).id = id
                     /\ IssuanceRow(id) # Button /\ IssuanceRow(id) # Searching
  BY DEF Button, Searching, NoneFound, ErrorRow, IssuanceRow, TableRow, IsIssuance

(* A row more, or the rows of a page more. *)
LEMMA RowsAppended ==
  ASSUME NEW rows \in Seq(TableRow), NEW row \in TableRow, ~IsIssuance(row)
  PROVE  /\ Append(rows, row) \in Seq(TableRow)
         /\ RowIDs(Append(rows, row)) = RowIDs(rows)
         /\ InOrder(rows) => InOrder(Append(rows, row))
         /\ \A i \in DOMAIN Append(rows, row) :
              Append(rows, row)[i] = row \/ \E j \in DOMAIN rows : Append(rows, row)[i] = rows[j]
         /\ \E i \in DOMAIN Append(rows, row) : Append(rows, row)[i] = row
         /\ Append(rows, row) # <<>>
<1> DEFINE more == Append(rows, row)
<1>1. /\ more \in Seq(TableRow) /\ DOMAIN rows = 1..Len(rows) /\ Len(rows) \in Nat
      /\ DOMAIN more = 1..(Len(rows) + 1)
      /\ \A i \in 1..Len(rows) : more[i] = rows[i]
      /\ more[Len(rows) + 1] = row
  OBVIOUS
<1> HIDE DEF more
<1>2. \A i \in DOMAIN more : IsIssuance(more[i]) => i \in DOMAIN rows /\ more[i] = rows[i]
  BY <1>1
<1>3. \A i \in DOMAIN rows : i \in DOMAIN more /\ more[i] = rows[i]
  BY <1>1
<1>4. RowIDs(more) = RowIDs(rows)
  BY <1>2, <1>3 DEF RowIDs
<1>5. InOrder(rows) => InOrder(more)
  BY <1>2 DEF InOrder
<1>6. more # <<>>
  BY <1>1
<1>7. \A i \in DOMAIN more : more[i] = row \/ \E j \in DOMAIN rows : more[i] = rows[j]
  BY <1>1
<1>8. \E i \in DOMAIN more : more[i] = row
  BY <1>1
<1> QED BY <1>1, <1>4, <1>5, <1>6, <1>7, <1>8 DEF more

(* The rows are as they were, and those of the page follow. *)
LEMMA PageAppended ==
  ASSUME NEW rows \in Seq(TableRow), NEW page \in Seq(IDs), page # <<>>
  PROVE  LET more == rows \o [i \in DOMAIN page |-> IssuanceRow(page[i])]
         IN /\ more \in Seq(TableRow) /\ more # <<>>
            /\ RowIDs(more) = RowIDs(rows) \cup Range(page)
            /\ /\ InOrder(rows)
               /\ \A i, j \in DOMAIN page : i < j => page[i] < page[j]
               /\ \A id \in RowIDs(rows), other \in Range(page) : id < other
               => InOrder(more)
            /\ \A i \in DOMAIN more : \/ more[i] # Button /\ more[i] # Searching
                                      \/ \E j \in DOMAIN rows : more[i] = rows[j]
<1> DEFINE tail == [i \in DOMAIN page |-> IssuanceRow(page[i])]
           more == rows \o tail
           n == Len(rows)
<1>1. /\ DOMAIN page = 1..Len(page) /\ Len(page) \in Nat /\ Len(page) > 0
      /\ \A i \in 1..Len(page) : page[i] \in IDs /\ page[i] \in Int
  <2>1. DOMAIN page = 1..Len(page) /\ Len(page) \in Nat
    OBVIOUS
  <2>2. Len(page) # 0
    OBVIOUS
  <2>3. \A i \in 1..Len(page) : page[i] \in IDs
    OBVIOUS
  <2>4. IDs \subseteq Int
    BY DEF IDs
  <2>5. Len(page) > 0
    BY <2>1, <2>2
  <2>6. \A i \in 1..Len(page) : page[i] \in IDs /\ page[i] \in Int
    BY <2>3, <2>4
  <2> QED BY <2>1, <2>5, <2>6
<1>2. tail \in Seq(TableRow) /\ Len(tail) = Len(page)
  <2>1. tail \in [1..Len(page) -> TableRow]
    BY <1>1, RowsType
  <2> QED BY <1>1, <2>1
<1>3. \A i \in 1..Len(page) : tail[i] = IssuanceRow(page[i])
  BY <1>1
<1> HIDE DEF tail
<1>4. /\ more \in Seq(TableRow) /\ DOMAIN rows = 1..n /\ n \in Nat
      /\ DOMAIN more = 1..(n + Len(page))
      /\ \A i \in 1..n : more[i] = rows[i]
      /\ \A i \in 1..Len(page) : more[n + i] = tail[i]
  <2>1. more \in Seq(TableRow)
    BY <1>2
  <2>2. DOMAIN rows = 1..n /\ n \in Nat
    OBVIOUS
  <2>3. Len(more) = n + Len(page)
    BY <1>2
  <2>4. DOMAIN more = 1..(n + Len(page))
    BY <2>1, <2>3
  <2>5. \A i \in 1..n : more[i] = rows[i]
    BY <1>2
  <2>6. \A i \in 1..Len(page) : more[n + i] = tail[i]
    BY <1>1, <1>2
  <2> QED BY <2>1, <2>2, <2>4, <2>5, <2>6
<1> HIDE DEF more, n
<1>5. \A i \in DOMAIN more : i \in 1..n \/ \E k \in 1..Len(page) : i = n + k
  <2> SUFFICES ASSUME NEW i \in DOMAIN more, i \notin 1..n
               PROVE  \E k \in 1..Len(page) : i = n + k
    OBVIOUS
  <2>1. i - n \in 1..Len(page) /\ i = n + (i - n)
    BY <1>1, <1>4
  <2> QED BY <2>1
<1>6. \A k \in 1..Len(page) : /\ n + k \in DOMAIN more /\ more[n + k] = IssuanceRow(page[k])
                              /\ IsIssuance(more[n + k]) /\ more[n + k].id = page[k]
  BY <1>1, <1>3, <1>4, RowsType
<1>7. RowIDs(more) = RowIDs(rows) \cup Range(page)
  <2>1. ASSUME NEW id \in RowIDs(more)
        PROVE  id \in RowIDs(rows) \cup Range(page)
    <3>1. PICK i \in DOMAIN more : IsIssuance(more[i]) /\ id = more[i].id
      BY DEF RowIDs
    <3>2. CASE i \in 1..n
      BY <1>4, <3>1, <3>2 DEF RowIDs
    <3>3. CASE i \notin 1..n
      <4>1. PICK k \in 1..Len(page) : i = n + k
        BY <1>5, <3>3
      <4> QED BY <1>1, <1>6, <3>1, <4>1 DEF Range
    <3> QED BY <3>2, <3>3
  <2>2. ASSUME NEW id \in RowIDs(rows)
        PROVE  id \in RowIDs(more)
    <3>1. PICK i \in 1..n : IsIssuance(rows[i]) /\ id = rows[i].id
      BY <1>4 DEF RowIDs
    <3>2. i \in DOMAIN more
      BY <1>1, <1>4
    <3> QED BY <1>4, <3>1, <3>2 DEF RowIDs
  <2>3. ASSUME NEW id \in Range(page)
        PROVE  id \in RowIDs(more)
    <3>1. PICK k \in 1..Len(page) : id = page[k]
      BY <1>1 DEF Range
    <3> QED BY <1>6, <3>1 DEF RowIDs
  <2> QED BY <2>1, <2>2, <2>3
<1>8. ASSUME InOrder(rows),
             \A i, j \in DOMAIN page : i < j => page[i] < page[j],
             \A id \in RowIDs(rows), other \in Range(page) : id < other
      PROVE  InOrder(more)
  <2> SUFFICES ASSUME NEW i \in DOMAIN more, NEW j \in DOMAIN more, i < j,
                      IsIssuance(more[i]), IsIssuance(more[j])
               PROVE  more[i].id < more[j].id
    BY DEF InOrder
  <2>1. CASE i \in 1..n /\ j \in 1..n
    BY <1>4, <1>8, <2>1 DEF InOrder
  <2>2. CASE i \in 1..n /\ j \notin 1..n
    <3>1. PICK k \in 1..Len(page) : j = n + k
      BY <1>5, <2>2
    <3>2. more[j].id \in Range(page)
      BY <1>1, <1>6, <3>1 DEF Range
    <3>3. more[i].id \in RowIDs(rows)
      BY <1>4, <2>2 DEF RowIDs
    <3> QED BY <1>8, <3>2, <3>3
  <2>3. CASE i \notin 1..n
    <3>1. PICK k \in 1..Len(page) : i = n + k
      BY <1>5, <2>3
    <3>2. j \notin 1..n
      BY <1>4, <3>1
    <3>3. PICK m \in 1..Len(page) : j = n + m
      BY <1>5, <3>2
    <3>4. k < m
      BY <1>4, <3>1, <3>3
    <3> QED BY <1>1, <1>6, <1>8, <3>1, <3>3, <3>4
  <2> QED BY <2>1, <2>2, <2>3
<1>9. ASSUME NEW i \in DOMAIN more
      PROVE  \/ more[i] # Button /\ more[i] # Searching
             \/ \E j \in DOMAIN rows : more[i] = rows[j]
  <2>1. CASE i \in 1..n
    BY <1>4, <2>1
  <2>2. CASE i \notin 1..n
    <3>1. PICK k \in 1..Len(page) : i = n + k
      BY <1>5, <2>2
    <3> QED BY <1>1, <1>6, <3>1, RowsType
  <2> QED BY <2>1, <2>2
<1>10. more # <<>>
  <2>1. n + 1 \in DOMAIN more
    BY <1>1, <1>4
  <2> QED BY <2>1
<1> QED BY <1>4, <1>7, <1>8, <1>9, <1>10 DEF more, tail

(* The locals of a run. *)
RunOf(to, once, after, page, asked) ==
  [pc |-> to, once |-> once, after |-> after, page |-> page, asked |-> asked]

(* The locals of a run after a step, and nothing of another run changes.   *)
RunMoved(r, q) == q \in Run /\ run'[r] = q /\ run' \in [Runs -> Run]
                    /\ \A s \in Runs : s # r => run'[s] = run[s]

(* The locals are what is in their fields. *)
LEMMA RunFields ==
  ASSUME NEW q \in Run
  PROVE  /\ q = RunOf(q.pc, q.once, q.after, q.page, q.asked)
         /\ q.pc \in {"idle", "fetch", "page", "ended", "broken"} /\ q.once \in BOOLEAN
         /\ q.after \in 0..MaxIssuances /\ q.page \in Seq(IDs) /\ q.asked \in SUBSET IDs
  BY DEF Run, RunOf

(* The pc is assigned to. *)
LEMMA RunGoes ==
  ASSUME NEW q \in Run, NEW x
  PROVE  [q EXCEPT !.pc = x] = RunOf(x, q.once, q.after, q.page, q.asked)
  BY DEF Run, RunOf

(* The fields of the locals. *)
LEMMA RunOfFields ==
  ASSUME NEW to, NEW once, NEW after, NEW page, NEW asked
  PROVE  LET q == RunOf(to, once, after, page, asked)
         IN q.pc = to /\ q.once = once /\ q.after = after /\ q.page = page /\ q.asked = asked
  BY DEF RunOf

(* A run is assigned to as a whole. *)
LEMMA RunIsMoved ==
  ASSUME SearchTypeOK, NEW r \in Runs,
         NEW to \in {"idle", "fetch", "page", "ended", "broken"}, NEW once \in BOOLEAN,
         NEW after \in 0..MaxIssuances, NEW page \in Seq(IDs), NEW asked \in SUBSET IDs,
         run' = [run EXCEPT ![r] = RunOf(to, once, after, page, asked)]
  PROVE  RunMoved(r, RunOf(to, once, after, page, asked))
<1> DEFINE q == RunOf(to, once, after, page, asked)
<1>1. q \in Run
  BY DEF Run, RunOf
<1> HIDE DEF q
<1>2. run' = [run EXCEPT ![r] = q] /\ run \in [Runs -> Run]
  BY DEF q, SearchTypeOK
<1>3. run'[r] = q /\ run' \in [Runs -> Run] /\ \A s \in Runs : s # r => run'[s] = run[s]
  BY <1>1, <1>2
<1> QED BY <1>1, <1>3 DEF RunMoved, q

(* The issuances have ids, and those of a run are of the type of Run. *)
LEMMA SearchTypes ==
  ASSUME SearchTypeOK, NEW r \in Runs
  PROVE  /\ run \in [Runs -> Run] /\ run[r] \in Run /\ logged \in SUBSET IDs
         /\ newest \in 0..MaxIssuances /\ tbody \in Seq(TableRow)
<1>1. run \in [Runs -> Run] /\ newest \in 0..MaxIssuances /\ tbody \in Seq(TableRow)
      /\ logged \subseteq 1..newest
  BY DEF SearchTypeOK
<1>2. run[r] \in Run
  BY <1>1
<1>3. ASSUME NEW id \in logged
      PROVE  id \in IDs
  <2>1. id \in 1..newest
    BY <1>1
  <2> QED BY <1>1, <2>1, CTSearchAssumption DEF IDs
<1> QED BY <1>1, <1>2, <1>3

(* What a click does to the locals of the run. *)
LEMMA ClickMoves ==
  ASSUME SearchTypeOK, NEW r \in Runs, Click(r)
  PROVE  RunMoved(r, RunOf("fetch", run[r].once, run[r].after, run[r].page, logged))
<1> DEFINE q == run[r]
           p == [q EXCEPT !.pc = "fetch"]
           F == RunOf("fetch", q.once, q.after, q.page, q.asked)
<1>1. q \in Run /\ run \in [Runs -> Run] /\ logged \in SUBSET IDs
  BY SearchTypes
<1>2. run' = [run EXCEPT ![r] = [p EXCEPT !.asked = logged]]
  BY <1>1 DEF Click
<1>3. p = F
  BY <1>1, RunGoes
<1> HIDE DEF p
<1>4. [F EXCEPT !.asked = logged] = RunOf("fetch", q.once, q.after, q.page, logged)
  BY DEF RunOf
<1>5. run' = [run EXCEPT ![r] = RunOf("fetch", q.once, q.after, q.page, logged)]
  BY <1>2, <1>3, <1>4
<1> QED BY <1>1, <1>5, RunFields, RunIsMoved

(* What the answer of the server does to the locals of the run. *)
LEMMA FetchPageMoves ==
  ASSUME SearchTypeOK, NEW r \in Runs, FetchPage(r)
  PROVE  \E page \in Seq(IDs) :
           /\ IsPageAfter(page, run[r].after)
           /\ RunMoved(r, RunOf("page", run[r].once, run[r].after, page, run[r].asked))
<1> DEFINE q == run[r]
           p == [q EXCEPT !.pc = "page"]
           F == RunOf("page", q.once, q.after, q.page, q.asked)
<1>1. q \in Run /\ run \in [Runs -> Run]
  BY SearchTypes
<1>2. PICK page \in Pages : /\ IsPageAfter(page, q.after)
                            /\ run' = [run EXCEPT ![r].pc = "page", ![r].page = page]
  BY DEF FetchPage
<1>3. page \in Seq(IDs)
  <2>1. PICK n \in 0..PageSize : page \in [1..n -> IDs]
    BY DEF Pages
  <2>2. n \in Nat
    BY <2>1, CTSearchAssumption
  <2> QED BY <2>1, <2>2
<1>4. run' = [run EXCEPT ![r] = [p EXCEPT !.page = page]]
  BY <1>1, <1>2
<1>5. p = F
  BY <1>1, RunGoes
<1> HIDE DEF p
<1>6. [F EXCEPT !.page = page] = RunOf("page", q.once, q.after, page, q.asked)
  BY DEF RunOf
<1>7. run' = [run EXCEPT ![r] = RunOf("page", q.once, q.after, page, q.asked)]
  BY <1>4, <1>5, <1>6
<1>8. RunMoved(r, RunOf("page", q.once, q.after, page, q.asked))
  BY <1>1, <1>3, <1>7, RunFields, RunIsMoved
<1> QED BY <1>2, <1>3, <1>8

(* What a shown page does to the locals of the run. *)
LEMMA ShowPageMoves ==
  ASSUME SearchTypeOK, NEW r \in Runs, ShowPage(r)
  PROVE  RunMoved(r, RunOf("fetch", TRUE, Last(run[r].page), <<>>, run[r].asked))
<1> DEFINE q == run[r]
           fetch == "fetch"
           one == TRUE
           last == Last(q.page)
           none == <<>>
           asked == q.asked
           p == [q EXCEPT !.pc = fetch]
<1>1. q \in Run /\ run \in [Runs -> Run]
  BY SearchTypes
<1>2. run' = [run EXCEPT ![r] = [[[p EXCEPT !.once = one] EXCEPT !.after = last]
                                   EXCEPT !.page = none]]
  BY <1>1 DEF ShowPage
<1>3. PICK once, after, page : p = RunOf(fetch, once, after, page, asked)
  BY <1>1, RunGoes
<1>4. fetch \in {"idle", "fetch", "page", "ended", "broken"} /\ one \in BOOLEAN
      /\ none \in Seq(IDs) /\ asked \in SUBSET IDs
  BY <1>1, RunFields
<1>5. last \in 0..MaxIssuances
  <2>1. q.page \in Seq(IDs) /\ q.page # <<>>
    BY <1>1, RunFields DEF ShowPage
  <2>2. Last(q.page) \in IDs
    BY <2>1 DEF Last
  <2> QED BY <2>2, CTSearchAssumption DEF IDs
<1> HIDE DEF fetch, one, last, none, asked, p
<1>6. [[[p EXCEPT !.once = one] EXCEPT !.after = last] EXCEPT !.page = none]
        = RunOf(fetch, one, last, none, asked)
  <2>1. [p EXCEPT !.once = one] = RunOf(fetch, one, after, page, asked)
    BY <1>3 DEF RunOf
  <2>2. [RunOf(fetch, one, after, page, asked) EXCEPT !.after = last]
          = RunOf(fetch, one, last, page, asked)
    BY DEF RunOf
  <2>3. [RunOf(fetch, one, last, page, asked) EXCEPT !.page = none]
          = RunOf(fetch, one, last, none, asked)
    BY DEF RunOf
  <2> QED BY <2>1, <2>2, <2>3
<1>7. run' = [run EXCEPT ![r] = RunOf(fetch, one, last, none, asked)]
  BY <1>2, <1>6
<1>8. RunMoved(r, RunOf(fetch, one, last, none, asked))
  BY <1>4, <1>5, <1>7, RunIsMoved
<1> QED BY <1>8 DEF fetch, one, last, none, asked

(* What a cut page does to the locals of the run. *)
LEMMA BodyCutMoves ==
  ASSUME SearchTypeOK, NEW r \in Runs, BodyCut(r)
  PROVE  RunMoved(r, RunOf("broken", run[r].once, run[r].after, <<>>, run[r].asked))
<1> DEFINE q == run[r]
           p == [q EXCEPT !.pc = "broken"]
           F == RunOf("broken", q.once, q.after, q.page, q.asked)
<1>1. q \in Run /\ run \in [Runs -> Run]
  BY SearchTypes
<1>2. run' = [run EXCEPT ![r] = [p EXCEPT !.page = <<>>]]
  BY <1>1 DEF BodyCut
<1>3. p = F
  BY <1>1, RunGoes
<1> HIDE DEF p
<1>4. [F EXCEPT !.page = <<>>] = RunOf("broken", q.once, q.after, <<>>, q.asked)
  BY DEF RunOf
<1>5. run' = [run EXCEPT ![r] = RunOf("broken", q.once, q.after, <<>>, q.asked)]
  BY <1>2, <1>3, <1>4
<1>6. <<>> \in Seq(IDs)
  OBVIOUS
<1> QED BY <1>1, <1>5, <1>6, RunFields, RunIsMoved

(* What the end of a search does to the locals of the run. *)
LEMMA EndMoves ==
  ASSUME SearchTypeOK, NEW r \in Runs
  PROVE  LET q == run[r]
         IN /\ FetchFails(r) \/ EndSearch(r) =>
                 RunMoved(r, RunOf("ended", q.once, q.after, q.page, q.asked))
            /\ ErrorCut(r) => RunMoved(r, RunOf("broken", q.once, q.after, q.page, q.asked))
<1> DEFINE q == run[r]
<1>1. q \in Run /\ run \in [Runs -> Run]
  BY SearchTypes
<1>2. ASSUME NEW to \in {"ended", "broken"}, run' = [run EXCEPT ![r].pc = to]
      PROVE  RunMoved(r, RunOf(to, q.once, q.after, q.page, q.asked))
  <2>1. run' = [run EXCEPT ![r] = [q EXCEPT !.pc = to]]
    BY <1>2
  <2>2. [q EXCEPT !.pc = to] = RunOf(to, q.once, q.after, q.page, q.asked)
    BY <1>1, RunGoes
  <2>3. to \in {"idle", "fetch", "page", "ended", "broken"}
    OBVIOUS
  <2>4. run' = [run EXCEPT ![r] = RunOf(to, q.once, q.after, q.page, q.asked)]
    BY <2>1, <2>2
  <2> QED BY <1>1, <2>3, <2>4, RunFields, RunIsMoved
<1>3. FetchFails(r) \/ EndSearch(r) => run' = [run EXCEPT ![r].pc = "ended"]
  BY DEF FetchFails, EndSearch, AfterEmptyPage
<1>4. ErrorCut(r) => run' = [run EXCEPT ![r].pc = "broken"]
  BY DEF ErrorCut
<1> QED BY <1>2, <1>3, <1>4

(* A step of a run while no other runs: what it must be like for SearchInv *)
(* to hold after it.                                                       *)
LEMMA SearchMoves ==
  ASSUME SearchInv, NEW r \in Runs, NEW q, RunMoved(r, q),
         \A s \in Runs : s # r => ~Active(s),
         UNCHANGED <<logged, newest>>,
         tbody' \in Seq(TableRow), InOrder(tbody'),
         \A i \in DOMAIN tbody' : tbody'[i] # Button,
         q.pc # "idle", q.once \/ q.after = 0, q.asked \subseteq 1..newest,
         RowsOf(q, tbody'), VisibleOf(q, tbody'), CompleteOf(q, tbody', logged)
  PROVE  SearchInv'
<1>1. run'[r] = q /\ run' \in [Runs -> Run] /\ \A s \in Runs : s # r => run'[s] = run[s]
  BY DEF RunMoved
<1>2. \A s \in Runs : s # r => run[s].pc = "idle" /\ run'[s].pc = "idle"
  BY <1>1 DEF Active
<1>3. SearchTypeOK'
  BY <1>1 DEF SearchInv, SearchTypeOK
<1>4. OneSearch'
  <2>1. \A s \in Runs : (~run[s].once /\ run[s].after = 0) \/ s = r
    BY <1>2 DEF SearchInv, OneSearch, Active
  <2>2. \A s \in Runs : run'[s].pc # "idle" <=> s = r
    BY <1>1, <1>2
  <2>3. \A s \in Runs : /\ run'[s].pc # "idle" \/ ~run'[s].once
                        /\ run'[s].once \/ run'[s].after = 0
    BY <1>1, <2>1
  <2> QED BY <2>2, <2>3 DEF OneSearch, Active
<1>5. RowsInv'
  <2>1. \A s \in Runs : run'[s].pc # "idle" => RowsOf(run'[s], tbody')
    BY <1>1, <1>2
  <2> QED BY <2>1 DEF RowsInv, Active, RowsOf, InOrder, RowIDs
<1>6. VisibleInv'
  <2>1. \A s \in Runs : run'[s].pc # "idle" => VisibleOf(run'[s], tbody')
    BY <1>1, <1>2
  <2> QED BY <2>1 DEF VisibleInv, Active, VisibleOf
<1>7. CompleteInv'
  <2>1. \A s \in Runs : run'[s].pc # "idle" => CompleteOf(run'[s], tbody', logged')
    BY <1>1, <1>2
  <2>2. \A s \in Runs : run'[s].asked \subseteq 1..newest'
    BY <1>1 DEF SearchInv, CompleteInv
  <2> QED BY <2>1, <2>2 DEF CompleteInv, Active
<1> QED BY <1>3, <1>4, <1>5, <1>6, <1>7 DEF SearchInv

(* The rest of the table when the run r, the only one, shows a response:   *)
(* in order, up to the cursor, without a button.                           *)
LEMMA KeptRows ==
  ASSUME SearchInv, NEW r \in Runs, Active(r)
  PROVE  /\ \A s \in Runs : s # r => ~Active(s)
         /\ Kept(r) \in Seq(TableRow) /\ InOrder(Kept(r))
         /\ RowIDs(Kept(r)) = IF run[r].once THEN RowIDs(tbody) ELSE {}
         /\ \A id \in RowIDs(Kept(r)) : id <= run[r].after
         /\ \A i \in DOMAIN Kept(r) : Kept(r)[i] # Button /\ Kept(r)[i] # Searching
         /\ run[r].once => Kept(r) # <<>>
         /\ RowIDs(tbody) \subseteq RowIDs(Kept(r))
         /\ run[r].once \/ run[r].after = 0
         /\ run[r].asked \subseteq 1..newest
<1>1. /\ \A s \in Runs : s # r => ~Active(s)
      /\ \A i \in DOMAIN tbody : tbody[i] # Button
      /\ run[r].once \/ run[r].after = 0
  BY DEF SearchInv, OneSearch
<1>2. tbody \in Seq(TableRow) /\ InOrder(tbody) /\ RowsOf(run[r], tbody)
      /\ VisibleOf(run[r], tbody) /\ run[r].asked \subseteq 1..newest
  BY DEF SearchInv, SearchTypeOK, RowsInv, VisibleInv, CompleteInv
<1>3. CASE run[r].once
  <2>1. Kept(r) = tbody
    BY <1>3 DEF Kept
  <2> QED BY <1>1, <1>2, <1>3, <2>1 DEF RowsOf, VisibleOf
<1>4. CASE ~run[r].once
  <2>1. Kept(r) = <<>>
    BY <1>4 DEF Kept
  <2>2. <<>> \in Seq(TableRow) /\ DOMAIN <<>> = {} /\ RowIDs(<<>>) = {} /\ InOrder(<<>>)
    BY DEF RowIDs, InOrder
  <2>3. RowIDs(tbody) = {}
    <3>1. \A id \in RowIDs(tbody) : id <= 0
      BY <1>1, <1>2, <1>4 DEF RowsOf
    <3>2. \A id \in RowIDs(tbody) : id \in IDs
      BY <1>2 DEF RowIDs, TableRow, IsIssuance
    <3> QED BY <3>1, <3>2, CTSearchAssumption DEF IDs
  <2> QED BY <1>1, <1>2, <1>4, <2>1, <2>2, <2>3
<1> QED BY <1>3, <1>4

(* A certificate is logged. *)
LEMMA IssueKeepsSearch ==
  ASSUME SearchInv, Issue
  PROVE  SearchInv'
<1>1. /\ newest \in 0..MaxIssuances /\ newest < MaxIssuances /\ newest' = newest + 1
      /\ logged \subseteq 1..newest /\ logged' = logged \cup {newest + 1}
      /\ tbody' = tbody /\ run' = run
  BY DEF Issue, SearchInv, SearchTypeOK
<1>2. newest' \in 0..MaxIssuances /\ 1..newest \subseteq 1..newest' /\ newest + 1 \in 1..newest'
  BY <1>1, CTSearchAssumption
<1>3. SearchTypeOK'
  BY <1>1, <1>2 DEF SearchInv, SearchTypeOK
<1>4. OneSearch' /\ RowsInv' /\ VisibleInv'
  BY <1>1 DEF SearchInv, OneSearch, RowsInv, VisibleInv, Active, InOrder, RowsOf, RowIDs, VisibleOf
<1>5. \A r \in Runs : run[r].asked \subseteq 1..newest
  BY DEF SearchInv, CompleteInv
<1>6. \A r \in Runs : run[r].asked \cap logged' = run[r].asked \cap logged
  BY <1>1, <1>5
<1>7. \A r \in Runs : Active(r) => CompleteOf(run[r], tbody, logged')
  BY <1>6 DEF SearchInv, CompleteInv, CompleteOf
<1>8. CompleteInv'
  BY <1>1, <1>2, <1>5, <1>7 DEF CompleteInv, Active
<1> QED BY <1>3, <1>4, <1>8 DEF SearchInv

(* A certificate expires. *)
LEMMA ExpireKeepsSearch ==
  ASSUME SearchInv, Expire
  PROVE  SearchInv'
<1>1. /\ logged' \subseteq logged /\ newest' = newest /\ tbody' = tbody /\ run' = run
  BY DEF Expire
<1>2. SearchTypeOK'
  BY <1>1 DEF SearchInv, SearchTypeOK
<1>3. OneSearch' /\ RowsInv' /\ VisibleInv'
  BY <1>1 DEF SearchInv, OneSearch, RowsInv, VisibleInv, Active, InOrder, RowsOf, RowIDs, VisibleOf
<1>4. \A r \in Runs : Active(r) => CompleteOf(run[r], tbody, logged')
  BY <1>1 DEF SearchInv, CompleteInv, CompleteOf
<1>5. CompleteInv'
  BY <1>1, <1>4 DEF SearchInv, CompleteInv, Active
<1> QED BY <1>2, <1>3, <1>5 DEF SearchInv

(* The first run begins. *)
LEMMA ClickKeepsSearch ==
  ASSUME SearchInv, NEW r \in Runs, Click(r)
  PROVE  SearchInv'
<1> DEFINE q == RunOf("fetch", run[r].once, run[r].after, run[r].page, logged)
<1>1. SearchTypeOK /\ RunMoved(r, q)
  BY ClickMoves DEF SearchInv
<1>2. /\ q.pc = "fetch" /\ q.once = run[r].once /\ q.after = run[r].after /\ q.asked = logged
  BY RunOfFields
<1> HIDE DEF q
<1>3. \E i \in DOMAIN tbody : tbody[i] = Button
  BY <1>1 DEF Click, Contains, SearchTypeOK
<1>4. \A s \in Runs : ~Active(s)
  BY <1>3 DEF SearchInv, OneSearch
<1>5. ~q.once /\ q.after = 0
  BY <1>2, <1>4 DEF SearchInv, OneSearch
<1>6. tbody' = <<Searching>> /\ UNCHANGED <<logged, newest>>
  BY DEF Click, TableAtStart
<1>7. /\ <<Searching>> \in Seq(TableRow) /\ InOrder(<<Searching>>) /\ RowIDs(<<Searching>>) = {}
      /\ \A i \in DOMAIN <<Searching>> : <<Searching>>[i] # Button
  <2>1. /\ <<Searching>> \in Seq(TableRow) /\ DOMAIN <<Searching>> = {1}
        /\ <<Searching>>[1] = Searching
    BY RowsType
  <2> HIDE DEF Searching
  <2>2. \A i \in DOMAIN <<Searching>> : ~IsIssuance(<<Searching>>[i])
    BY <2>1, RowsType
  <2> QED BY <2>1, <2>2, RowsType DEF InOrder, RowIDs
<1>8. logged \subseteq 1..newest /\ \A id \in logged : id > 0
  BY <1>1 DEF SearchTypeOK
<1>9. RowsOf(q, tbody') /\ VisibleOf(q, tbody')
  BY <1>2, <1>5, <1>6, <1>7 DEF RowsOf, VisibleOf
<1>10. CompleteOf(q, tbody', logged)
  BY <1>2, <1>5, <1>8 DEF CompleteOf, Found
<1> QED BY <1>1, <1>2, <1>4, <1>5, <1>6, <1>7, <1>8, <1>9, <1>10, SearchMoves

(* The answer of the server arrives: whatever is after the cursor is on    *)
(* the page, or after the page.                                            *)
LEMMA FetchPageKeepsSearch ==
  ASSUME SearchInv, NEW r \in Runs, FetchPage(r)
  PROVE  SearchInv'
<1>1. SearchTypeOK
  BY DEF SearchInv
<1>2. PICK page \in Seq(IDs) :
        /\ IsPageAfter(page, run[r].after)
        /\ RunMoved(r, RunOf("page", run[r].once, run[r].after, page, run[r].asked))
  BY <1>1, FetchPageMoves
<1> DEFINE q == RunOf("page", run[r].once, run[r].after, page, run[r].asked)
<1>3. /\ q.pc = "page" /\ q.once = run[r].once /\ q.after = run[r].after /\ q.asked = run[r].asked
      /\ q.page = page
  BY RunOfFields
<1>4. RunMoved(r, q)
  BY <1>2
<1> HIDE DEF q
<1>5. Active(r) /\ run[r].pc = "fetch" /\ UNCHANGED <<logged, newest, tbody>>
  BY DEF FetchPage, Active
<1>6. /\ \A s \in Runs : s # r => ~Active(s)
      /\ run[r].once \/ run[r].after = 0
      /\ run[r].asked \subseteq 1..newest
  BY <1>5, KeptRows
<1>7. /\ tbody \in Seq(TableRow) /\ InOrder(tbody) /\ RowsOf(run[r], tbody)
      /\ VisibleOf(run[r], tbody) /\ CompleteOf(run[r], tbody, logged)
      /\ \A i \in DOMAIN tbody : tbody[i] # Button
  BY <1>5 DEF SearchInv, SearchTypeOK, OneSearch, RowsInv, VisibleInv, CompleteInv
<1>8. /\ \A id \in Range(page) : id > run[r].after
      /\ \A i, j \in DOMAIN page : i < j => page[i] < page[j]
      /\ \A id \in logged : id > run[r].after =>
           id \in Range(page) \/ (page # <<>> /\ id > Last(page))
  <2>1. /\ Range(page) \subseteq {id \in logged : id > run[r].after}
        /\ \A i, j \in DOMAIN page : i < j => page[i] < page[j]
        /\ \A id \in {id \in logged : id > run[r].after} \ Range(page) :
             Len(page) = PageSize /\ Last(page) < id
    BY <1>2 DEF IsPageAfter, Later
  <2>2. PageSize # 0 /\ (page = <<>> => Len(page) = 0)
    BY CTSearchAssumption
  <2>3. ASSUME page # <<>>
        PROVE  Last(page) \in Int
    <3>1. Last(page) \in IDs
      BY <2>3 DEF Last
    <3> QED BY <3>1 DEF IDs
  <2>4. logged \subseteq Int
    BY <1>1 DEF SearchTypeOK
  <2>5. ASSUME NEW id \in logged, id > run[r].after, id \notin Range(page)
        PROVE  page # <<>> /\ id > Last(page)
    <3>1. Len(page) = PageSize /\ Last(page) < id
      BY <2>1, <2>5
    <3>2. page # <<>>
      BY <2>2, <3>1
    <3> QED BY <2>3, <2>4, <3>1, <3>2
  <2> QED BY <2>1, <2>5
<1>9. RowsOf(q, tbody)
  BY <1>3, <1>7, <1>8 DEF RowsOf
<1>10. VisibleOf(q, tbody)
  BY <1>3, <1>7 DEF VisibleOf
<1>11. CompleteOf(q, tbody, logged)
  <2>1. \A id \in run[r].asked \cap logged : id \in RowIDs(tbody) \/ id > run[r].after
    BY <1>5, <1>7 DEF CompleteOf, Found
  <2> QED BY <1>3, <1>8, <2>1 DEF CompleteOf, Found
<1>12. /\ tbody' = tbody /\ UNCHANGED <<logged, newest>>
       /\ q.pc # "idle" /\ (q.once \/ q.after = 0) /\ q.asked \subseteq 1..newest
  BY <1>3, <1>5, <1>6
<1> QED BY <1>4, <1>6, <1>7, <1>9, <1>10, <1>11, <1>12, SearchMoves

(* The request fails. *)
LEMMA FetchFailsKeepsSearch ==
  ASSUME SearchInv, NEW r \in Runs, FetchFails(r)
  PROVE  SearchInv'
<1> DEFINE q == RunOf("ended", run[r].once, run[r].after, run[r].page, run[r].asked)
<1>1. SearchTypeOK /\ RunMoved(r, q)
  BY EndMoves DEF SearchInv
<1>2. q.pc = "ended" /\ q.once = run[r].once /\ q.after = run[r].after /\ q.asked = run[r].asked
  BY RunOfFields
<1> HIDE DEF q
<1>3. Active(r) /\ tbody' = Append(Kept(r), ErrorRow) /\ UNCHANGED <<logged, newest>>
  BY DEF FetchFails, Active
<1>4. /\ \A s \in Runs : s # r => ~Active(s)
      /\ Kept(r) \in Seq(TableRow) /\ InOrder(Kept(r))
      /\ \A id \in RowIDs(Kept(r)) : id <= run[r].after
      /\ \A i \in DOMAIN Kept(r) : Kept(r)[i] # Button /\ Kept(r)[i] # Searching
      /\ run[r].once \/ run[r].after = 0
      /\ run[r].asked \subseteq 1..newest
  BY <1>3, KeptRows
<1>5. /\ tbody' \in Seq(TableRow) /\ InOrder(tbody') /\ RowIDs(tbody') = RowIDs(Kept(r))
      /\ \A i \in DOMAIN tbody' : \/ tbody'[i] = ErrorRow
                                  \/ \E j \in DOMAIN Kept(r) : tbody'[i] = Kept(r)[j]
      /\ \E i \in DOMAIN tbody' : tbody'[i] = ErrorRow
      /\ tbody' # <<>>
  BY <1>3, <1>4, RowsType, RowsAppended
<1>6. \A i \in DOMAIN tbody' : tbody'[i] # Button /\ tbody'[i] # Searching
  BY <1>4, <1>5, RowsType
<1>7. RowsOf(q, tbody') /\ VisibleOf(q, tbody') /\ CompleteOf(q, tbody', logged)
  BY <1>2, <1>4, <1>5, <1>6 DEF RowsOf, VisibleOf, CompleteOf
<1>8. q.pc # "idle" /\ (q.once \/ q.after = 0) /\ q.asked \subseteq 1..newest
  BY <1>2, <1>4
<1> QED BY <1>1, <1>3, <1>4, <1>5, <1>6, <1>7, <1>8, SearchMoves

(* A page is shown: it begins after the cursor, and ends at the new one.   *)
LEMMA ShowPageKeepsSearch ==
  ASSUME SearchInv, NEW r \in Runs, ShowPage(r)
  PROVE  SearchInv'
<1> DEFINE page == run[r].page
           q == RunOf("fetch", TRUE, Last(page), <<>>, run[r].asked)
<1>1. SearchTypeOK /\ RunMoved(r, q)
  BY ShowPageMoves DEF SearchInv
<1>2. q.pc = "fetch" /\ q.once /\ q.after = Last(page) /\ q.asked = run[r].asked
  <2>1. q.pc = "fetch" /\ q.after = Last(page) /\ q.asked = run[r].asked
    BY DEF RunOf
  <2>2. q.once
    BY DEF RunOf
  <2> QED BY <2>1, <2>2
<1> HIDE DEF q
<1>3. /\ Active(r) /\ run[r].pc = "page" /\ page # <<>>
      /\ tbody' = Kept(r) \o [i \in DOMAIN page |-> IssuanceRow(page[i])]
      /\ UNCHANGED <<logged, newest>>
  BY DEF ShowPage, Active
<1>4. page \in Seq(IDs)
  BY <1>1, SearchTypes, RunFields
<1>5. /\ \A s \in Runs : s # r => ~Active(s)
      /\ Kept(r) \in Seq(TableRow) /\ InOrder(Kept(r))
      /\ \A id \in RowIDs(Kept(r)) : id <= run[r].after
      /\ \A i \in DOMAIN Kept(r) : Kept(r)[i] # Button /\ Kept(r)[i] # Searching
      /\ RowIDs(tbody) \subseteq RowIDs(Kept(r))
      /\ run[r].asked \subseteq 1..newest
  BY <1>3, KeptRows
<1>6. /\ \A i, j \in DOMAIN page : i < j => page[i] < page[j]
      /\ \A id \in Range(page) : id > run[r].after
  BY <1>3 DEF SearchInv, RowsInv, RowsOf
<1>7. \A id \in run[r].asked \cap logged :
        id \in RowIDs(tbody) \/ id \in Range(page) \/ id > Last(page)
  BY <1>3 DEF SearchInv, CompleteInv, CompleteOf, Found
<1> HIDE DEF page
<1>8. /\ run[r].after \in Int /\ Last(page) \in Range(page) /\ Range(page) \subseteq Int
      /\ \A id \in Range(page) : id <= Last(page)
  <2>1. run[r].after \in Int
    BY <1>1, SearchTypes, RunFields
  <2>2. Len(page) \in 1..Len(page) /\ Len(page) \in Nat /\ DOMAIN page = 1..Len(page)
        /\ \A i \in 1..Len(page) : page[i] \in IDs
    BY <1>3, <1>4
  <2>3. \A i \in 1..Len(page) : page[i] \in Int
    BY <2>2 DEF IDs
  <2>4. Last(page) = page[Len(page)] /\ Last(page) \in Int
    BY <2>2, <2>3 DEF Last
  <2>5. \A i \in 1..Len(page) : page[i] <= Last(page)
    <3> SUFFICES ASSUME NEW i \in 1..Len(page)
                 PROVE  page[i] <= Last(page)
      OBVIOUS
    <3>1. CASE i = Len(page)
      BY <2>3, <2>4, <3>1
    <3>2. CASE i < Len(page)
      <4>1. page[i] < page[Len(page)]
        BY <1>6, <2>2, <3>2
      <4> QED BY <2>2, <2>3, <2>4, <4>1
    <3>3. \A n \in Nat : \A k \in 1..n : k = n \/ k < n
      OBVIOUS
    <3>4. Len(page) \in Nat
      BY <2>2
    <3>5. i = Len(page) \/ i < Len(page)
      BY <3>3, <3>4
    <3> QED BY <3>1, <3>2, <3>5
  <2>6. Last(page) \in Range(page) /\ Range(page) \subseteq Int
    BY <2>2, <2>3, <2>4 DEF Range
  <2>7. \A id \in Range(page) : id <= Last(page)
    BY <2>2, <2>5 DEF Range
  <2> QED BY <2>1, <2>6, <2>7
<1>9. RowIDs(Kept(r)) \subseteq Int
  BY <1>5 DEF RowIDs, TableRow, IsIssuance, IDs
<1>10. \A id \in RowIDs(Kept(r)), other \in Range(page) : id < other
  BY <1>5, <1>6, <1>8, <1>9
<1>11. /\ tbody' \in Seq(TableRow) /\ tbody' # <<>>
       /\ RowIDs(tbody') = RowIDs(Kept(r)) \cup Range(page)
       /\ InOrder(tbody')
       /\ \A i \in DOMAIN tbody' : \/ tbody'[i] # Button /\ tbody'[i] # Searching
                                   \/ \E j \in DOMAIN Kept(r) : tbody'[i] = Kept(r)[j]
  BY <1>3, <1>4, <1>5, <1>6, <1>10, PageAppended
<1>12. \A i \in DOMAIN tbody' : tbody'[i] # Button /\ tbody'[i] # Searching
  BY <1>5, <1>11
<1>13. \A id \in RowIDs(tbody') : id <= Last(page)
  BY <1>5, <1>6, <1>8, <1>9, <1>11
<1>14. RowsOf(q, tbody')
  BY <1>2, <1>13 DEF RowsOf
<1>15. VisibleOf(q, tbody')
  BY <1>11, <1>12 DEF VisibleOf
<1>16. CompleteOf(q, tbody', logged)
  BY <1>2, <1>5, <1>7, <1>11 DEF CompleteOf, Found
<1>17. q.pc # "idle" /\ (q.once \/ q.after = 0) /\ q.asked \subseteq 1..newest
  BY <1>2, <1>5
<1> QED BY <1>1, <1>3, <1>5, <1>11, <1>12, <1>14, <1>15, <1>16, <1>17, SearchMoves

(* An empty page: all is shown that was asked for. *)
LEMMA EndSearchKeepsSearch ==
  ASSUME SearchInv, NEW r \in Runs, EndSearch(r)
  PROVE  SearchInv'
<1> DEFINE q == RunOf("ended", run[r].once, run[r].after, run[r].page, run[r].asked)
<1>1. SearchTypeOK /\ RunMoved(r, q)
  BY EndMoves DEF SearchInv
<1>2. q.pc = "ended" /\ q.once = run[r].once /\ q.after = run[r].after /\ q.asked = run[r].asked
  BY RunOfFields
<1> HIDE DEF q
<1>3. /\ Active(r) /\ run[r].pc = "page" /\ run[r].page = <<>>
      /\ tbody' = IF run[r].once THEN tbody ELSE <<NoneFound>>
      /\ UNCHANGED <<logged, newest>>
  BY DEF EndSearch, Active
<1>4. /\ \A s \in Runs : s # r => ~Active(s)
      /\ Kept(r) \in Seq(TableRow) /\ InOrder(Kept(r))
      /\ RowIDs(Kept(r)) = IF run[r].once THEN RowIDs(tbody) ELSE {}
      /\ \A id \in RowIDs(Kept(r)) : id <= run[r].after
      /\ \A i \in DOMAIN Kept(r) : Kept(r)[i] # Button /\ Kept(r)[i] # Searching
      /\ run[r].once => Kept(r) # <<>>
      /\ RowIDs(tbody) \subseteq RowIDs(Kept(r))
      /\ run[r].once \/ run[r].after = 0
      /\ run[r].asked \subseteq 1..newest
  BY <1>3, KeptRows
<1>5. \A id \in run[r].asked \cap logged : id \in RowIDs(tbody)
  <2>1. Range(<<>>) = {}
    BY DEF Range
  <2> QED BY <1>3, <2>1 DEF SearchInv, CompleteInv, CompleteOf, Found
<1>6. /\ tbody' \in Seq(TableRow) /\ tbody' # <<>> /\ InOrder(tbody')
      /\ RowIDs(tbody') = RowIDs(Kept(r))
      /\ \A i \in DOMAIN tbody' : tbody'[i] # Button /\ tbody'[i] # Searching
  <2>1. CASE run[r].once
    <3>1. Kept(r) = tbody /\ tbody' = tbody
      BY <1>3, <2>1 DEF Kept
    <3> QED BY <1>4, <2>1, <3>1
  <2>2. CASE ~run[r].once
    <3>1. tbody' = <<NoneFound>> /\ RowIDs(Kept(r)) = {}
      BY <1>3, <1>4, <2>2
    <3>2. /\ tbody' \in Seq(TableRow) /\ tbody' # <<>> /\ DOMAIN tbody' = {1}
          /\ tbody'[1] = NoneFound
      BY <3>1, RowsType
    <3>3. \A i \in DOMAIN tbody' : tbody'[i] = NoneFound
      BY <3>2
    <3>4. InOrder(tbody')
      BY <3>3, RowsType DEF InOrder
    <3>5. RowIDs(tbody') = {}
      BY <3>3, RowsType DEF RowIDs
    <3> QED BY <3>1, <3>2, <3>3, <3>4, <3>5, RowsType
  <2> QED BY <2>1, <2>2
<1>7. RowsOf(q, tbody')
  BY <1>2, <1>4, <1>6 DEF RowsOf
<1>8. VisibleOf(q, tbody')
  BY <1>6 DEF VisibleOf
<1>9. CompleteOf(q, tbody', logged)
  BY <1>2, <1>4, <1>5, <1>6 DEF CompleteOf
<1>10. q.pc # "idle" /\ (q.once \/ q.after = 0) /\ q.asked \subseteq 1..newest
  BY <1>2, <1>4
<1> QED BY <1>1, <1>3, <1>4, <1>6, <1>7, <1>8, <1>9, <1>10, SearchMoves

(* A response is cut off: the table stays, or is cleared. *)
LEMMA CutKeepsSearch ==
  ASSUME SearchInv, NEW r \in Runs, BodyCut(r) \/ ErrorCut(r)
  PROVE  SearchInv'
<1>1. SearchTypeOK
  BY DEF SearchInv
<1>2. PICK page :
        RunMoved(r, RunOf("broken", run[r].once, run[r].after, page, run[r].asked))
  BY <1>1, BodyCutMoves, EndMoves
<1> DEFINE q == RunOf("broken", run[r].once, run[r].after, page, run[r].asked)
<1>3. RunMoved(r, q)
  BY <1>2
<1>4. q.pc = "broken" /\ q.once = run[r].once /\ q.after = run[r].after /\ q.asked = run[r].asked
  BY RunOfFields
<1> HIDE DEF q
<1>5. Active(r) /\ (tbody' = tbody \/ tbody' = Kept(r)) /\ UNCHANGED <<logged, newest>>
  BY DEF BodyCut, ErrorCut, Active
<1>6. /\ \A s \in Runs : s # r => ~Active(s)
      /\ Kept(r) \in Seq(TableRow) /\ InOrder(Kept(r))
      /\ \A id \in RowIDs(Kept(r)) : id <= run[r].after
      /\ \A i \in DOMAIN Kept(r) : Kept(r)[i] # Button /\ Kept(r)[i] # Searching
      /\ run[r].once => Kept(r) # <<>>
      /\ run[r].once \/ run[r].after = 0
      /\ run[r].asked \subseteq 1..newest
  BY <1>5, KeptRows
<1>7. /\ tbody \in Seq(TableRow) /\ InOrder(tbody) /\ RowsOf(run[r], tbody)
      /\ VisibleOf(run[r], tbody)
      /\ \A i \in DOMAIN tbody : tbody[i] # Button
  BY <1>5 DEF SearchInv, SearchTypeOK, OneSearch, RowsInv, VisibleInv
<1>8. /\ tbody' \in Seq(TableRow) /\ InOrder(tbody')
      /\ \A id \in RowIDs(tbody') : id <= run[r].after
      /\ \A i \in DOMAIN tbody' : tbody'[i] # Button
      /\ run[r].once => tbody' # <<>> /\ \A i \in DOMAIN tbody' : tbody'[i] # Searching
  BY <1>5, <1>6, <1>7 DEF RowsOf, VisibleOf
<1>9. RowsOf(q, tbody') /\ VisibleOf(q, tbody') /\ CompleteOf(q, tbody', logged)
  BY <1>4, <1>8 DEF RowsOf, VisibleOf, CompleteOf
<1>10. q.pc # "idle" /\ (q.once \/ q.after = 0) /\ q.asked \subseteq 1..newest
  BY <1>4, <1>6
<1> QED BY <1>3, <1>5, <1>6, <1>8, <1>9, <1>10, SearchMoves

(* Initially there is the button. *)
LEMMA SearchInitInv == SearchInit => SearchInv
<1> SUFFICES ASSUME SearchInit
             PROVE  SearchInv
  OBVIOUS
<1> DEFINE q == RunOf("idle", FALSE, 0, <<>>, {})
<1>1. q \in Run
  <2>1. <<>> \in Seq(IDs) /\ 0 \in 0..MaxIssuances
    BY CTSearchAssumption
  <2> QED BY <2>1 DEF Run, RunOf
<1>2. /\ q.pc = "idle" /\ q.after = 0 /\ q.asked = {}
  BY DEF RunOf
<1>3. ~q.once
  BY DEF RunOf
<1>4. run = [r \in Runs |-> q] /\ logged = {} /\ newest = 0 /\ tbody = <<Button>>
  BY DEF SearchInit, RunOf
<1> HIDE DEF q
<1>5. \A r \in Runs : run[r] = q
  BY <1>4
<1>6. tbody \in Seq(TableRow) /\ DOMAIN tbody = {1} /\ tbody[1] = Button
  BY <1>4, RowsType
<1>7. SearchTypeOK
  BY <1>1, <1>4, <1>6, CTSearchAssumption DEF SearchTypeOK
<1>8. \A r \in Runs : ~Active(r)
  BY <1>2, <1>5 DEF Active
<1>9. OneSearch
  BY <1>2, <1>3, <1>4, <1>5, <1>8 DEF OneSearch
<1>10. InOrder(tbody)
  BY <1>6, RowsType DEF InOrder
<1>11. RowsInv /\ VisibleInv
  BY <1>8, <1>10 DEF RowsInv, VisibleInv
<1>12. CompleteInv
  BY <1>2, <1>5, <1>8 DEF CompleteInv
<1> QED BY <1>7, <1>9, <1>11, <1>12 DEF SearchInv

(* Every step keeps the invariant. *)
LEMMA SearchStep == SearchInv /\ [SearchNext]_searchVars => SearchInv'
<1> SUFFICES ASSUME SearchInv, [SearchNext]_searchVars
             PROVE  SearchInv'
  OBVIOUS
<1>1. CASE Issue
  BY <1>1, IssueKeepsSearch
<1>2. CASE Expire
  BY <1>2, ExpireKeepsSearch
<1>3. ASSUME NEW r \in Runs, Click(r)
      PROVE  SearchInv'
  BY <1>3, ClickKeepsSearch
<1>4. ASSUME NEW r \in Runs, Continue(r)
      PROVE  SearchInv'
  BY <1>4, FetchPageKeepsSearch, FetchFailsKeepsSearch, ShowPageKeepsSearch, EndSearchKeepsSearch,
     CutKeepsSearch DEF Continue
<1>5. CASE UNCHANGED searchVars
  <2>1. /\ logged' = logged /\ newest' = newest /\ tbody' = tbody /\ run' = run
    BY <1>5 DEF searchVars
  <2> QED BY <2>1 DEF SearchInv, SearchTypeOK, OneSearch, RowsInv, VisibleInv, CompleteInv, Active,
            InOrder, RowsOf, RowIDs, VisibleOf, CompleteOf, Found
<1> QED BY <1>1, <1>2, <1>3, <1>4, <1>5 DEF SearchNext

(* What the rows, the cursor and the page have to do with each other.      *)
LEMMA SearchInvHolds == SearchSpec => []SearchInv
  BY SearchInitInv, SearchStep, PTL DEF SearchSpec

(* The table and the locals of the script have the types that the model    *)
(* gives them.                                                             *)
THEOREM SearchTypeCorrect == SearchSpec => []SearchTypeOK
<1>1. SearchInv => SearchTypeOK
  BY DEF SearchInv
<1> QED BY <1>1, SearchInvHolds, PTL

(* No certificate is in two rows: the rows are in the order of their ids,  *)
(* and a page begins after them.                                           *)
THEOREM NoRowTwiceHolds == SearchSpec => []NoRowTwice
<1>1. SearchInv => NoRowTwice
  <2> SUFFICES ASSUME SearchInv, NEW i \in DOMAIN tbody, NEW j \in DOMAIN tbody,
                      tbody[i].kind = "issuance", tbody[i] = tbody[j], i # j
               PROVE  FALSE
    BY DEF NoRowTwice
  <2>1. tbody \in Seq(TableRow) /\ InOrder(tbody)
    BY DEF SearchInv, SearchTypeOK, RowsInv
  <2>2. i \in Int /\ j \in Int /\ tbody[i] \in TableRow
    BY <2>1
  <2>3. tbody[i].id \in Int
    BY <2>2 DEF TableRow, IDs
  <2>4. tbody[i].id < tbody[i].id
    BY <2>1, <2>2 DEF InOrder, IsIssuance
  <2> QED BY <2>3, <2>4
<1> QED BY <1>1, SearchInvHolds, PTL

(* A search that ends without an error has shown every certificate that    *)
(* there was when it began and that has not expired since.                 *)
THEOREM SearchCompleteHolds == SearchSpec => []SearchComplete
<1>1. SearchInv => SearchComplete
  <2> SUFFICES ASSUME SearchInv, NEW r \in Runs, run[r].pc = "ended",
                      ~Contains(tbody, ErrorRow)
               PROVE  run[r].asked \cap logged \subseteq Shown
    BY DEF SearchComplete
  <2>1. CompleteOf(run[r], tbody, logged)
    BY DEF SearchInv, CompleteInv, Active
  <2>2. ~\E i \in DOMAIN tbody : tbody[i] = ErrorRow
    BY DEF Contains, SearchInv, SearchTypeOK
  <2>3. RowIDs(tbody) = Shown
    BY DEF RowIDs, Shown, IsIssuance
  <2> QED BY <2>1, <2>2, <2>3 DEF CompleteOf
<1> QED BY <1>1, SearchInvHolds, PTL

(* A search that ends tells so in the table. *)
THEOREM EndIsVisibleHolds == SearchSpec => []EndIsVisible
<1>1. SearchInv => EndIsVisible
  <2> SUFFICES ASSUME SearchInv, NEW r \in Runs, run[r].pc = "ended"
               PROVE  tbody # <<>> /\ ~Contains(tbody, Searching)
    BY DEF EndIsVisible
  <2>1. VisibleOf(run[r], tbody)
    BY DEF SearchInv, VisibleInv, Active
  <2>2. tbody \in Seq(TableRow)
    BY DEF SearchInv, SearchTypeOK
  <2> QED BY <2>1, <2>2 DEF VisibleOf, Contains
<1> QED BY <1>1, SearchInvHolds, PTL

(* A page that is shown takes the run further. *)
LEMMA ShowPageAdvances ==
  ASSUME SearchInv, NEW r \in Runs, ShowPage(r)
  PROVE  run'[r].after > run[r].after /\ run'[r].after \in Shown'
<1> DEFINE page == run[r].page
           q == RunOf("fetch", TRUE, Last(page), <<>>, run[r].asked)
<1>1. SearchTypeOK /\ RunMoved(r, q)
  BY ShowPageMoves DEF SearchInv
<1>2. q.after = Last(page)
  BY DEF RunOf
<1>3. run'[r].after = Last(page)
  BY <1>1, <1>2 DEF RunMoved
<1> HIDE DEF q
<1>4. /\ Active(r) /\ run[r].pc = "page" /\ page # <<>>
      /\ tbody' = Kept(r) \o [i \in DOMAIN page |-> IssuanceRow(page[i])]
  BY DEF ShowPage, Active
<1>5. page \in Seq(IDs)
  BY <1>1, SearchTypes, RunFields
<1>6. \A id \in Range(page) : id > run[r].after
  BY <1>4 DEF SearchInv, RowsInv, RowsOf
<1>7. Kept(r) \in Seq(TableRow)
  BY <1>4, KeptRows
<1> HIDE DEF page
<1>8. Last(page) \in Range(page)
  <2>1. Len(page) \in DOMAIN page /\ Last(page) = page[Len(page)]
    BY <1>4, <1>5 DEF Last
  <2> QED BY <2>1 DEF Range
<1>9. RowIDs(tbody') = RowIDs(Kept(r)) \cup Range(page)
  BY <1>4, <1>5, <1>7, PageAppended
<1>10. Shown' = RowIDs(tbody')
  BY DEF RowIDs, Shown, IsIssuance
<1> QED BY <1>3, <1>6, <1>8, <1>9, <1>10

(* The loop of ctsearch.js:74 goes on only after a page with a newer       *)
(* certificate than all before, which it has shown.                        *)
THEOREM SearchAdvancesHolds == SearchSpec => SearchAdvances
<1>1. ASSUME SearchInv, [SearchNext]_searchVars, NEW s \in Runs,
             run[s].pc = "page", run'[s].pc = "fetch"
      PROVE  run'[s].after > run[s].after /\ run'[s].after \in Shown'
  <2>1. PICK r \in Runs : Click(r) \/ Continue(r)
    BY <1>1 DEF SearchNext, searchVars, Issue, Expire
  <2>2. SearchTypeOK
    BY <1>1 DEF SearchInv
  <2>3. /\ run \in [Runs -> Run]
        /\ EndSearch(r) => run'[r].pc = "ended"
        /\ BodyCut(r) => run'[r].pc = "broken"
    <3>1. run \in [Runs -> Run]
      BY <2>2 DEF SearchTypeOK
    <3>2. EndSearch(r) => run'[r].pc = "ended"
      BY <2>2, EndMoves, RunOfFields DEF RunMoved
    <3>3. BodyCut(r) => run'[r].pc = "broken"
      BY <2>2, BodyCutMoves, RunOfFields DEF RunMoved
    <3> QED BY <3>1, <3>2, <3>3
  <2>4. s = r
    <3>1. \E q : run' = [run EXCEPT ![r] = q]
      BY <2>1 DEF Click, Continue, FetchPage, FetchFails, ShowPage, EndSearch, BodyCut, ErrorCut
    <3> QED BY <1>1, <2>3, <3>1
  <2>5. ShowPage(r)
    BY <1>1, <2>1, <2>3, <2>4 DEF Click, Continue, FetchPage, FetchFails, ErrorCut
  <2> QED BY <1>1, <2>4, <2>5, ShowPageAdvances
<1>2. SearchInv /\ [SearchNext]_searchVars =>
        [\A r \in Runs : run[r].pc = "page" /\ run'[r].pc = "fetch" =>
           run'[r].after > run[r].after /\ run'[r].after \in Shown']_searchVars
  BY <1>1
<1> QED BY <1>2, SearchInvHolds, PTL DEF SearchSpec, SearchAdvances
====
