------------------------------ MODULE SelfSigned ------------------------------
(***************************************************************************)
(* The certificates of cert.go.  Every TLS handshake for the name of a     *)
(* test (http.go), and every STARTTLS (smtp.go), calls getSelfSignedCert   *)
(* in the goroutine of its connection.  The first call generates the one   *)
(* key of the process, which takes a while; sync.Once makes the calls that *)
(* come meanwhile wait:                                                    *)
(*                                                                         *)
(*   idle -> once (-> generate) -> sign -> ended                           *)
(*                                                                         *)
(* sync.Once is modelled by what it promises: one call of Do runs the      *)
(* function, and no call returns before that one has.                      *)
(***************************************************************************)
EXTENDS Integers

CONSTANTS
  Handshakes,  \* the calls of getSelfSignedCert
  NULL         \* nil

ASSUME SelfSignedAssumption == NULL \notin Handshakes \cup {"refused", "failed"}

VARIABLES
  selfSignedKey,     \* nil, or the key, which stands for who generated it
  selfSignedKeyGen,  \* the sync.Once: new, running or done
  handshake          \* the goroutine of every handshake

certVars == <<selfSignedKey, selfSignedKeyGen, handshake>>

(* result is the key of the certificate, refused if there is no key, or    *)
(* failed if the certificate cannot be made (for a name that X.509 does    *)
(* not allow).  process is history: the process that the call was made in. *)
Handshake == [pc      : {"idle", "once", "generate", "sign", "ended", "lost"},
              result  : Handshakes \cup {"refused", "failed", NULL},
              process : Nat]

CertTypeOK ==
  /\ selfSignedKey \in Handshakes \cup {NULL}
  /\ selfSignedKeyGen \in {"new", "running", "done"}
  /\ handshake \in [Handshakes -> Handshake]

CertInit ==
  /\ selfSignedKey = NULL
  /\ selfSignedKeyGen = "new"
  /\ handshake = [h \in Handshakes |-> [pc |-> "idle", result |-> NULL, process |-> 0]]

-----------------------------------------------------------------------------
(* getSelfSignedCert.                                                      *)

getSelfSignedCert(h, process) ==
  /\ handshake[h].pc = "idle"
  /\ handshake' = [handshake EXCEPT ![h].pc = "once", ![h].process = process]
  /\ UNCHANGED <<selfSignedKey, selfSignedKeyGen>>

(* A call of Do that does not run the function returns when it was run.    *)
MayPass == selfSignedKeyGen = "done"

(* A bug: the key is looked at in place of a sync.Once.                    *)
EnterUnlessNil(h) ==
  /\ handshake[h].pc = "once"
  /\ handshake' = [handshake EXCEPT
       ![h].pc = IF selfSignedKey = NULL THEN "generate" ELSE "sign"]
  /\ UNCHANGED <<selfSignedKey, selfSignedKeyGen>>

EnterOnce(h) ==
  /\ handshake[h].pc = "once"
  /\ \/ /\ selfSignedKeyGen = "new"
        /\ selfSignedKeyGen' = "running"
        /\ handshake' = [handshake EXCEPT ![h].pc = "generate"]
     \/ /\ MayPass
        /\ handshake' = [handshake EXCEPT ![h].pc = "sign"]
        /\ UNCHANGED selfSignedKeyGen
  /\ UNCHANGED selfSignedKey

(* A bug: a failure leaves the others waiting. *)
AfterGenerationStuck(key) == IF key = NULL THEN "running" ELSE "done"

(* A key that could not be generated is never generated again.             *)
AfterGeneration(key) == "done"

GenerateKey(h) ==
  /\ handshake[h].pc = "generate"
  /\ \E key \in {h, NULL} :
       /\ selfSignedKey' = key
       /\ selfSignedKeyGen' = AfterGeneration(key)
  /\ handshake' = [handshake EXCEPT ![h].pc = "sign"]

End(h, result) ==
  handshake' = [handshake EXCEPT ![h].pc = "ended", ![h].result = result]

CreateCertificate(h) ==
  /\ handshake[h].pc = "sign"
  /\ \/ selfSignedKey = NULL /\ End(h, "refused")
     \/ selfSignedKey # NULL /\ (End(h, selfSignedKey) \/ End(h, "failed"))
  /\ UNCHANGED <<selfSignedKey, selfSignedKeyGen>>

GoOn(h) == EnterOnce(h) \/ GenerateKey(h) \/ CreateCertificate(h)

HandshakeInFlight(h) == handshake[h].pc \in {"once", "generate", "sign"}

(* The process ends, and its handshakes with it. *)
LoseHandshakes ==
  handshake' = [h \in Handshakes |->
                  IF HandshakeInFlight(h) THEN [handshake[h] EXCEPT !.pc = "lost"]
                                          ELSE handshake[h]]

(* The package variables of a new process. *)
NewKey == selfSignedKey' = NULL /\ selfSignedKeyGen' = "new"

-----------------------------------------------------------------------------
(* Properties.                                                             *)

(* All handshakes of one process end alike: with the same key, or, if it   *)
(* could not be generated, all without one (cert.go:53).  In particular    *)
(* nobody is refused because he came while the key was being generated.    *)
HandshakesAgree ==
  \A h, k \in Handshakes :
    /\ handshake[h].process = handshake[k].process
    /\ {handshake[h].result, handshake[k].result} \cap {"failed", NULL} = {}
    => handshake[h].result = handshake[k].result

(* Every handshake ends, also if the key cannot be generated while others  *)
(* wait for it, unless the process ends.                                   *)
HandshakeEnds ==
  \A h \in Handshakes : HandshakeInFlight(h) ~> handshake[h].pc \in {"ended", "lost"}

=============================================================================
