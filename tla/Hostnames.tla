------------------------------ MODULE Hostnames ------------------------------
(***************************************************************************)
(* The host names of test_id.go.  Every test owns one subdomain,           *)
(*     <32 hexadecimal digits>.test.<domain>                               *)
(* and all the names below it.  The DNS, HTTP and SMTP servers find the    *)
(* test a request belongs to by reading the host name of the request.      *)
(*                                                                         *)
(* A name is a sequence of labels and says whether it ends in a dot.  A    *)
(* label is a word in lower case together with a flag that tells whether   *)
(* the label is spelt with upper-case letters.  The operator's domain      *)
(* (the -domain flag) is one label, "domain", assumed to be configured in  *)
(* lower case; the 32 digits of a test ID are one word, a member of        *)
(* TestIDs.                                                                *)
(***************************************************************************)
EXTENDS Integers, Sequences

CONSTANTS
  TestIDs,     \* the test IDs that occur as labels
  Words,       \* the other words that occur as labels
  Underscored  \* those of Words that begin with an underscore

AnyWord == TestIDs \cup Words \cup {"test", "domain"}

ASSUME HostnamesAssumption ==
  /\ Underscored \subseteq Words
  /\ (Words \cup {"test", "domain"}) \cap TestIDs = {}

Label == [word : AnyWord, upper : BOOLEAN]

Hostname == [labels : Seq(Label), dot : BOOLEAN]

LowerLabel(word) == [word |-> word, upper |-> FALSE]

(* strings.ToLower of a name. *)
ToLower(name) ==
  [name EXCEPT !.labels =
     [i \in 1..Len(name.labels) |-> LowerLabel(name.labels[i].word)]]

-----------------------------------------------------------------------------
(* What parseHostname returns: ok tells whether the name belongs to a      *)
(* test.  A subdomain is a sequence of lower-case words.                   *)
Target == [ok : {TRUE}, id : TestIDs, sub : Seq(AnyWord)] \cup {[ok |-> FALSE]}

(* The suffix ".test.<domain>" is compared byte for byte, so case matters; *)
(* a trailing dot of the name does not.  The label before the suffix must  *)
(* be a test ID, in either case (hex.DecodeString); the labels before it   *)
(* are the subdomain, in lower case.                                       *)
parseHostname(name) ==
  LET n == Len(name.labels)
      isTestName ==
        /\ n >= 3
        /\ name.labels[n] = LowerLabel("domain")
        /\ name.labels[n-1] = LowerLabel("test")
        /\ name.labels[n-2].word \in TestIDs
  IN IF isTestName
       THEN [ok  |-> TRUE,
             id  |-> name.labels[n-2].word,
             sub |-> [i \in 1..(n-3) |-> name.labels[i].word]]
       ELSE [ok |-> FALSE]

(* The name of a subdomain of a test; lower case, without a trailing dot. *)
makeHostname(id, sub) ==
  LET words == sub \o <<id, "test", "domain">>
  IN [labels |-> [i \in 1..Len(words) |-> LowerLabel(words[i])], dot |-> FALSE]

(* strings.HasPrefix(name, "_"), which the DNS, HTTP and TLS code asks. *)
IsUnderscored(name) ==
  Len(name.labels) > 0 /\ name.labels[1].word \in Underscored

=============================================================================
