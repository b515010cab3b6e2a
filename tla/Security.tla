------------------------------ MODULE Security ------------------------------
(***************************************************************************)
(* The security module of Linux (base/security/linux_security.c): the list *)
(* of handles, the library of the secure element, which is opened for the  *)
(* first handle and closed with the last one, the operations that go to    *)
(* the device behind it, and the verifications of a signature.             *)
(*                                                                         *)
(* The device is external: what it keeps is, for every name, whether there *)
(* is a key, a certificate or data.  Names that os_convert_name refuses,   *)
(* null arguments and operations the device does not have change nothing   *)
(* and are left out.                                                       *)
(***************************************************************************)
EXTENDS Naturals, FiniteSets

CONSTANTS SecHandles,    \* addresses of nodes
          SecNames,      \* names of objects in the device
          MaxChunks,     \* bound of the parts a signed text is fed in
          SecUnusual     \* "unreleased": a request is made while the handle of a
                         \* failed one, which is given out too, is still listed

ASSUME SecAssumption == MaxChunks \in Nat

VARIABLES secnodes,   \* requested_node
          lib,        \* g_dlopen_handle # NULL
          dev,        \* g_see_dev # NULL
          store,      \* the device: for each name the kinds of its objects
          verify,     \* verify_nodes: the parts each one was fed with
          outcome,    \* result of the latest call
          served      \* history: handles whose request succeeded

secvars == <<secnodes, lib, dev, store, verify, outcome, served>>

Kinds == {"key", "cert", "data"}

Outcomes == {"ok", "bad_args", "not_supported", "not_initialized", "error", "mismatch"}

SecTypeOK ==
    /\ secnodes \subseteq SecHandles /\ served \subseteq secnodes
    /\ lib \in BOOLEAN /\ dev \in BOOLEAN
    /\ store \in [SecNames -> SUBSET Kinds]
    /\ \A h \in DOMAIN verify : verify[h] \in 0 .. MaxChunks
    /\ DOMAIN verify \subseteq SecHandles
    /\ outcome \in Outcomes

SecInit ==
    /\ secnodes = {} /\ served = {}
    /\ lib = FALSE /\ dev = FALSE
    /\ store = [n \in SecNames |-> {}]
    /\ verify = [h \in {} |-> 0]
    /\ outcome = "ok"

-----------------------------------------------------------------------------
(* Handles *)

\* The node is listed before the library is opened and stays when that fails
\* (opens = FALSE): the library is then missing, a symbol of it, or the device.
\* While it stays, the next request finds two nodes, opens nothing and succeeds.
SecRequest(h, opens) ==
    /\ h \notin secnodes
    /\ lib \/ secnodes = {} \/ "unreleased" \in SecUnusual
    /\ secnodes' = secnodes \cup {h}
    /\ IF ~lib /\ Cardinality(secnodes') = 1
       THEN /\ lib' = opens /\ dev' = opens
            /\ outcome' = IF opens THEN "ok" ELSE "not_initialized"
       ELSE /\ UNCHANGED <<lib, dev>>
            /\ outcome' = "ok"
    /\ served' = IF outcome' = "ok" THEN served \cup {h} ELSE served
    /\ UNCHANGED <<store, verify>>

MutSecRelease(h) ==
    /\ secnodes' = secnodes \ {h}
    /\ served' = served \ {h}
    /\ IF lib /\ Cardinality(secnodes') <= 1
       THEN lib' = FALSE /\ dev' = FALSE
       ELSE UNCHANGED <<lib, dev>>
    /\ outcome' = "ok"
    /\ UNCHANGED <<store, verify>>

\* A handle that is not listed is not an error either.
SecRelease(h) ==
    /\ secnodes' = secnodes \ {h}
    /\ served' = served \ {h}
    /\ IF lib /\ secnodes' = {}
       THEN lib' = FALSE /\ dev' = FALSE
       ELSE UNCHANGED <<lib, dev>>
    /\ outcome' = "ok"
    /\ UNCHANGED <<store, verify>>

-----------------------------------------------------------------------------
(* Operations of the device *)

\* The checks every operation begins with, and then the device: it refuses
\* what it cannot do (need) or fails; effect is what it keeps otherwise.
Operation(h, need, effect) ==
    /\ \/ /\ h \notin secnodes /\ outcome' = "bad_args"
          /\ UNCHANGED store
       \/ /\ h \in secnodes /\ ~dev /\ outcome' = "not_supported"
          /\ UNCHANGED store
       \/ /\ h \in secnodes /\ dev /\ outcome' = "error"
          /\ UNCHANGED store
       \/ /\ h \in secnodes /\ dev /\ need /\ outcome' = "ok"
          /\ store' = effect
    /\ UNCHANGED <<secnodes, lib, dev, verify, served>>

Puts(h, n, kind) == Operation(h, TRUE, [store EXCEPT ![n] = @ \cup {kind}])

Removes(h, n, kind) == Operation(h, kind \in store[n], [store EXCEPT ![n] = @ \ {kind}])

Reads(h, n, kind) == Operation(h, kind \in store[n], store)

GetRandomBytes(h) == Operation(h, TRUE, store)
GetHash(h) == Operation(h, TRUE, store)
GetHmac(h, n) == Reads(h, n, "key")

SetCertificate(h, n) == Puts(h, n, "cert")
GetCertificate(h, n) == Reads(h, n, "cert")
GetCertificatePemChain(h, n) == Reads(h, n, "cert")
RemoveCertificate(h, n) == Removes(h, n, "cert")

\* Signing and verifying, both with the key.
RsaSignature(h, n) == Reads(h, n, "key")
EcdsaSignature(h, n) == Reads(h, n, "key")

\* The device makes the key of an exchange (or takes its parameters).
GenerateDhmParams(h, n) == Puts(h, n, "key")
SetDhmParams(h, n) == Puts(h, n, "key")
ComputeDhmParams(h, n) == Reads(h, n, "key")
GenerateEcdhParams(h, n) == Puts(h, n, "key")
ComputeEcdhParams(h, n) == Reads(h, n, "key")

GenerateKey(h, n) == Puts(h, n, "key")
SetKey(h, n) == Puts(h, n, "key")
GetPublicKey(h, n) == Reads(h, n, "key")
RemoveKey(h, n) == Removes(h, n, "key")

WriteSecureStorage(h, n) == Puts(h, n, "data")
ReadSecureStorage(h, n) == Reads(h, n, "data")
RemoveSecureStorage(h, n) == Removes(h, n, "data")

\* Encryption and decryption.
AesCipher(h, n) == Reads(h, n, "key")
RsaCipher(h, n) == Reads(h, n, "key")

-----------------------------------------------------------------------------
(* Verification of a signature, without the device *)

\* valid: the signature, its certificates and its time are accepted; otherwise
\* the new node is deleted again.
VerifySignatureInit(h, valid) ==
    /\ h \notin DOMAIN verify
    /\ verify' = IF valid THEN [x \in DOMAIN verify \cup {h} |->
                                   IF x = h THEN 0 ELSE verify[x]]
                 ELSE verify
    /\ outcome' = IF valid THEN "ok" ELSE "error"
    /\ UNCHANGED <<secnodes, lib, dev, store, served>>

VerifySignatureUpdate(h) ==
    /\ IF h \in DOMAIN verify
       THEN /\ verify[h] < MaxChunks
            /\ verify' = [verify EXCEPT ![h] = @ + 1]
            /\ outcome' = "ok"
       ELSE /\ UNCHANGED verify
            /\ outcome' = "bad_args"
    /\ UNCHANGED <<secnodes, lib, dev, store, served>>

\* The text that was signed is the one of all MaxChunks parts.  The node is
\* deleted whatever the result is.
VerifySignatureFinal(h) ==
    /\ IF h \in DOMAIN verify
       THEN /\ verify' = [x \in DOMAIN verify \ {h} |-> verify[x]]
            /\ outcome' = IF verify[h] = MaxChunks THEN "ok" ELSE "mismatch"
       ELSE /\ UNCHANGED verify
            /\ outcome' = "bad_args"
    /\ UNCHANGED <<secnodes, lib, dev, store, served>>

-----------------------------------------------------------------------------

SecNext ==
    \E h \in SecHandles :
        \/ \E b \in BOOLEAN : SecRequest(h, b) \/ VerifySignatureInit(h, b)
        \/ SecRelease(h)
        \/ GetRandomBytes(h) \/ GetHash(h)
        \/ VerifySignatureUpdate(h) \/ VerifySignatureFinal(h)
        \/ \E n \in SecNames :
              \/ GetHmac(h, n) \/ SetCertificate(h, n) \/ GetCertificate(h, n)
              \/ GetCertificatePemChain(h, n) \/ RemoveCertificate(h, n)
              \/ RsaSignature(h, n) \/ EcdsaSignature(h, n)
              \/ GenerateDhmParams(h, n) \/ SetDhmParams(h, n)
              \/ ComputeDhmParams(h, n) \/ GenerateEcdhParams(h, n)
              \/ ComputeEcdhParams(h, n) \/ GenerateKey(h, n) \/ SetKey(h, n)
              \/ GetPublicKey(h, n) \/ RemoveKey(h, n)
              \/ WriteSecureStorage(h, n) \/ ReadSecureStorage(h, n)
              \/ RemoveSecureStorage(h, n) \/ AesCipher(h, n) \/ RsaCipher(h, n)

\* A handle whose request succeeds has the device, and keeps it until it is
\* released, whatever other handles, failed requests and repeated releases do; the
\* library is open only while the list, in which failed requests stay, has a member.
DeviceServesHandles ==
    /\ SecTypeOK
    /\ served # {} => dev
    /\ lib = dev
    /\ secnodes = {} => ~lib
=============================================================================
