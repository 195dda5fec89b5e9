------------------------------- MODULE Startup -------------------------------
(***************************************************************************)
(* The life of the process in main.go, and the UDP sockets of udp.go.      *)
(* main resolves the operator's domain, opens the database and every       *)
(* socket that the flags name, decides whether the dashboard redirects to  *)
(* HTTPS, and starts a goroutine for each periodic task and each socket:   *)
(*                                                                         *)
(*   ip4 -> ip6 -> database -> schema -> http -> https -> smtp -> dns      *)
(*       -> udp (once for every socket) -> redirect -> spawn -> select     *)
(*                                                                         *)
(* Any error before that, and the end of any server later, is fatal to the *)
(* whole process.  The servers work as soon as they are spawned, while     *)
(* main spawns the others.  Whoever runs the program may start it again.   *)
(*                                                                         *)
(* TCP sockets are opened by the library go-listener: all of a service, or *)
(* none and an error.                                                      *)
(***************************************************************************)
EXTENDS SelfSigned, Sequences, SequencesExt

CONSTANTS
  Configurations,  \* the flags that the program is started with
  Inherited,       \* the descriptors of UDP sockets it inherits
  OtherSockets,    \* what sockets other programs may have: a set of sets
  Visitors,        \* users who open the dashboard
  MaxStarts        \* bound of the starts

Services == <<"http", "https", "smtp", "dns">>
Ports == Nat

(* An argument of -dns-udp: a port, with or without an IP address (that it *)
(* has a malformed address or port is "bad" or NULL); an inherited socket; *)
(* or something else.  The addresses are the unspecified ones; a socket on *)
(* another address is one of its own family alone.                         *)
UDPSpec == [kind : {"udp"}, ip : {"none", "0.0.0.0", "::", "bad"}, port : Ports \cup {NULL}]
             \cup [kind : {"fd"}, fd : Nat \cup {NULL}]
             \cup [kind : {"other"}]

(* For each service the number of its listeners, and the UDP sockets.      *)
Flags == [http : Nat, https : Nat, smtp : Nat, dns : Nat, udp : Seq(UDPSpec)]

(* A descriptor is closed once its socket was taken over, so none is named *)
(* twice.  A socket is known by what it occupies: a port, in one family or *)
(* in both.                                                                *)
ASSUME StartupAssumption ==
  /\ Configurations \subseteq Flags
  /\ \A c \in Configurations : \A i, j \in DOMAIN c.udp :
       i # j /\ c.udp[i].kind = "fd" => c.udp[i] # c.udp[j]
  /\ Inherited \subseteq Nat
  /\ OtherSockets \subseteq SUBSET SUBSET ({"udp4", "udp6"} \X Ports)
  /\ MaxStarts \in Nat

VARIABLES
  pc,         \* where main is
  flags,      \* its flags
  listeners,  \* for each service, the number of open listeners
  sockets,    \* the UDP sockets, in the order of the flags
  redirect,   \* redirectDashboardToHTTPS
  spawned,    \* the number of goroutines started
  others,     \* the sockets of other programs
  starts,     \* history: the number of starts
  cause,      \* history: why the last process ended
  visit       \* how far the users have come

mainVars == <<pc, flags, listeners, sockets, redirect, spawned, starts, cause>>
startupVars == <<mainVars, certVars, others, visit>>

Preparations == {"ip4", "ip6", "database", "schema"}

After ==
  [ip4 |-> "ip6", ip6 |-> "database", database |-> "schema", schema |-> "http",
   http |-> "https", https |-> "smtp", smtp |-> "dns", dns |-> "udp",
   udp |-> "redirect", redirect |-> "spawn", spawn |-> "select"]

NoListeners == [s \in Range(Services) |-> 0]

StartupInit ==
  /\ CertInit
  /\ pc = "exited" /\ flags \in Configurations
  /\ listeners = NoListeners /\ sockets = <<>>
  /\ redirect = TRUE /\ spawned = 0
  /\ others \in OtherSockets
  /\ starts = 0 /\ cause = "none"
  /\ visit = [v \in Visitors |-> "none"]

-----------------------------------------------------------------------------
(* The end of the process, and another start.                              *)

(* log.Fatal: the system closes what was open.                             *)
Exit(reason) ==
  /\ pc' = "exited" /\ cause' = reason
  /\ listeners' = NoListeners /\ sockets' = <<>> /\ spawned' = 0
  /\ LoseHandshakes
  /\ visit' = [v \in Visitors |-> IF visit[v] = "redirected" THEN "lost" ELSE visit[v]]
  /\ UNCHANGED <<flags, redirect, others, starts, selfSignedKey, selfSignedKeyGen>>

Start ==
  /\ pc = "exited" /\ starts < MaxStarts
  /\ starts' = starts + 1
  /\ pc' = "ip4" /\ cause' = "none"
  /\ flags' \in Configurations
  /\ redirect' = TRUE
  /\ NewKey
  /\ UNCHANGED <<listeners, sockets, spawned, others, visit, handshake>>

-----------------------------------------------------------------------------
(* The steps of main.                                                      *)

Proceed == pc' = After[pc]

Prepare ==
  /\ pc \in Preparations
  /\ \/ /\ Proceed
        /\ UNCHANGED <<flags, listeners, sockets, redirect, spawned, starts, cause,
                       certVars, others, visit>>
     \/ Exit("preparation")

OpenListeners ==
  /\ pc \in Range(Services)
  /\ \/ /\ Proceed
        /\ listeners' = [listeners EXCEPT ![pc] = flags[pc]]
        /\ UNCHANGED <<flags, sockets, redirect, spawned, starts, cause, certVars,
                       others, visit>>
     \/ flags[pc] > 0 /\ Exit("listener")

(* A bug: the network is left to the library.                              *)
networkAny(ip) == "udp"

(* listenUDPPort names the protocol if there is an address.                *)
network(ip) == CASE ip = "none" -> "udp" [] ip = "0.0.0.0" -> "udp4" [] ip = "::" -> "udp6"

(* What a socket occupies.  On the network udp, an unspecified address is  *)
(* one of both families, whichever it is.                                  *)
Endpoints(net, port) ==
  (IF net = "udp" THEN {"udp4", "udp6"} ELSE {net}) \X {port}

WellFormed(spec) ==
  \/ spec.kind = "udp" /\ spec.ip # "bad" /\ spec.port # NULL
  \/ spec.kind = "fd" /\ spec.fd \in Inherited

SocketFor(spec) ==
  IF spec.kind = "fd" THEN {<<"fd", spec.fd>>} ELSE Endpoints(network(spec.ip), spec.port)

Occupied == UNION (Range(sockets) \cup others)

NextSpec == flags.udp[Len(sockets) + 1]

listenUDP ==
  /\ pc = "udp" /\ Len(sockets) < Len(flags.udp)
  /\ WellFormed(NextSpec) /\ SocketFor(NextSpec) \cap Occupied = {}
  /\ sockets' = Append(sockets, SocketFor(NextSpec))
  /\ UNCHANGED <<pc, flags, listeners, redirect, spawned, starts, cause, certVars,
                 others, visit>>

(* A bug: a socket that cannot be opened is left out.                      *)
UDPFailedSkipping(reason) ==
  /\ sockets' = Append(sockets, {})
  /\ UNCHANGED <<pc, flags, listeners, redirect, spawned, starts, cause, certVars,
                 others, visit>>

(* closeAllUDP, and the error is fatal.                                    *)
UDPFailed(reason) == Exit(reason)

listenUDPFails ==
  /\ pc = "udp" /\ Len(sockets) < Len(flags.udp)
  /\ \/ ~WellFormed(NextSpec) /\ UDPFailed("malformed")
     \/ /\ WellFormed(NextSpec) /\ SocketFor(NextSpec) \cap Occupied # {}
        /\ UDPFailed("in use")
     \/ WellFormed(NextSpec) /\ UDPFailed("system")

AllUDPOpen ==
  /\ pc = "udp" /\ Len(sockets) = Len(flags.udp)
  /\ Proceed
  /\ UNCHANGED <<flags, listeners, sockets, redirect, spawned, starts, cause, certVars,
                 others, visit>>

(* A bug: the default is never changed. *)
RedirectAlways == redirect

RedirectIfHTTPS == IF listeners["https"] = 0 THEN FALSE ELSE redirect

DecideRedirect ==
  /\ pc = "redirect"
  /\ redirect' = RedirectIfHTTPS
  /\ Proceed
  /\ UNCHANGED <<flags, listeners, sockets, spawned, starts, cause, certVars, others, visit>>

(* The goroutines of the process, in the order in which main starts them.  *)
Goroutines ==
  LET Times(n, service) == [i \in 1..n |-> service]
  IN <<"cleanup", "prefixes", "asNames", "google">>
       \o Times(listeners["http"], "http") \o Times(listeners["https"], "https")
       \o Times(listeners["smtp"], "smtp")
       \o Times(listeners["dns"] + Len(sockets), "dns")

Running(service) == \E i \in 1..spawned : Goroutines[i] = service

Spawn ==
  /\ pc = "spawn"
  /\ spawned' = spawned + 1
  /\ pc' = IF spawned' = Len(Goroutines) THEN After[pc] ELSE pc
  /\ UNCHANGED <<flags, listeners, sockets, redirect, starts, cause, certVars, others, visit>>

main ==
  \/ Prepare \/ OpenListeners \/ listenUDP \/ listenUDPFails \/ AllUDPOpen
  \/ DecideRedirect \/ Spawn

(* Serve returns an error: log.Fatal, in the goroutine of the server.      *)
ServerFails == (\E s \in Range(Services) : Running(s)) /\ Exit("server")

-----------------------------------------------------------------------------
(* What the servers are asked meanwhile.                                   *)

Handshaking ==
  \E h \in Handshakes :
    \/ (Running("https") \/ Running("smtp")) /\ getSelfSignedCert(h, starts)
    \/ GoOn(h)

(* The dashboard, by HTTP or, at once or redirected, by HTTPS.             *)
VisitHTTP(v) ==
  /\ visit[v] = "none" /\ Running("http")
  /\ visit' = [visit EXCEPT ![v] = IF redirect THEN "redirected" ELSE "page"]

VisitHTTPS(v) ==
  /\ visit[v] \in {"none", "redirected"} /\ Running("https")
  /\ visit' = [visit EXCEPT ![v] = "page"]

StartupNext ==
  \/ Start \/ main \/ ServerFails
  \/ Handshaking /\ UNCHANGED <<mainVars, others, visit>>
  \/ \E v \in Visitors : (VisitHTTP(v) \/ VisitHTTPS(v)) /\ UNCHANGED <<mainVars, certVars, others>>

StartupSpec == StartupInit /\ [][StartupNext]_startupVars

(* The runtime schedules main and every handshake, key generation ends,    *)
(* and a user who is redirected follows.  Nobody need start the program.   *)
FairStartupSpec ==
  /\ StartupSpec
  /\ WF_startupVars(main)
  /\ \A h \in Handshakes : WF_startupVars(GoOn(h) /\ UNCHANGED <<mainVars, others, visit>>)
  /\ \A v \in Visitors :
       WF_startupVars(VisitHTTPS(v) /\ visit[v] = "redirected"
                        /\ UNCHANGED <<mainVars, certVars, others>>)

-----------------------------------------------------------------------------
(* Properties.                                                             *)

(* A server works only in a process that has everything its flags name:    *)
(* no service is left out because a socket could not be opened (udp.go:47).*)
NoHalfService ==
  (\E s \in Range(Services) : Running(s)) =>
    /\ \A s \in Range(Services) : listeners[s] = flags[s]
    /\ [i \in DOMAIN sockets |-> sockets[i] # {}] = [i \in DOMAIN flags.udp |-> TRUE]

(* Sockets for IPv4 alone and for IPv6 alone do not stand in each other's  *)
(* way (udp.go:86): if a port is in use, then another program uses it, or  *)
(* the flags name it twice for one address, or once without an address.    *)
NoSpuriousConflict ==
  cause = "in use" =>
    \/ \E i \in DOMAIN flags.udp :
         flags.udp[i].kind = "udp" /\ \E s \in others : \E e \in s : e[2] = flags.udp[i].port
    \/ \E i, j \in DOMAIN flags.udp :
         /\ i # j /\ flags.udp[i].kind = "udp" /\ flags.udp[j].kind = "udp"
         /\ flags.udp[i].port = flags.udp[j].port
         /\ flags.udp[i].ip = "none" \/ flags.udp[i].ip = flags.udp[j].ip

(* A user whom the dashboard redirects to HTTPS gets there, although the   *)
(* HTTP servers are started first, and also if there is no HTTPS server to *)
(* redirect to, unless the process ends (main.go:153).                     *)
RedirectLeadsSomewhere ==
  \A v \in Visitors : visit[v] = "redirected" ~> visit[v] \in {"page", "lost"}

=============================================================================
