------------------------------ MODULE MCStartup ------------------------------
(***************************************************************************)
(* The process with every service; without HTTPS; and with UDP sockets     *)
(* that stand in each other's way, are malformed, or are inherited.        *)
(***************************************************************************)
EXTENDS Startup

At(ip, port) == [kind |-> "udp", ip |-> ip, port |-> port]

Everything == [http |-> 1, https |-> 1, smtp |-> 1, dns |-> 1,
               udp |-> <<At("0.0.0.0", 53), At("::", 53)>>]
NoHTTPS == [http |-> 1, https |-> 0, smtp |-> 1, dns |-> 0, udp |-> <<At("none", 53)>>]
OnlyDNS(udp) == [http |-> 0, https |-> 0, smtp |-> 0, dns |-> 1, udp |-> udp]

MCConfigurations ==
  {Everything, NoHTTPS,
   OnlyDNS(<<At("0.0.0.0", 53), At("none", 53)>>),
   OnlyDNS(<<[kind |-> "fd", fd |-> 3], At("::", 53), At("bad", 53)>>),
   OnlyDNS(<<[kind |-> "fd", fd |-> 4]>>),
   OnlyDNS(<<[kind |-> "other"]>>)}

MCOtherSockets == {{}, {{<<"udp4", 53>>}}}

=============================================================================
