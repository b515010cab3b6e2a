--------------------------- MODULE TizenRtSecurity ---------------------------
(***************************************************************************)
(* The security module of TizenRT: handles and the device they share, its  *)
(* secure storage (base/security/tizenrt_security.c), and the verification *)
(* of PKCS7 signatures (tizenrt/mbedtls_pkcs7_parser.c), which shares      *)
(* nothing with them and has its own next-state relation.                  *)
(*                                                                         *)
(* The device and mbedtls are external.  A signature is a record of what   *)
(* the parser looks at; DER, digests and keys are values.  Null arguments  *)
(* and memory that runs out are left out.                                  *)
(***************************************************************************)
EXTENDS Integers, Sequences, FiniteSets, SequencesExt

CONSTANTS TsHandles,      \* addresses of nodes
          TsMaxData,      \* SEE_MAX_DATA_STORAGE_SZ
          TsWord,         \* 2^32: unsigned ints wrap here
          TsSignatures,   \* signatures: see Signature below
          TsTexts,        \* pieces of the text that is verified
          TsUnusual       \* "missing": the device cannot be initialised,
                          \* "beyond": a read that starts behind the data, or wraps,
                          \* "absent": a read of data that is not there,
                          \* "siblings": signatures whose certificates have one issuer,
                          \* "short": a certificate of less than 256 bytes before another one

ASSUME TsAssumption == TsMaxData \in Nat /\ TsWord \in Nat /\ TsMaxData < TsWord

-----------------------------------------------------------------------------
(* Handles, and the device of the first one.                                *)

VARIABLES ts_nodes,       \* requested_nodes
          ts_dev,         \* g_see_dev # NULL
          ts_inited,      \* the device is initialised
          ts_held,        \* handles the application was given
          ts_store,       \* the device: kinds of objects there are
          ts_data,        \* the device: the stored data, <<>> for none
          ts_read,        \* what the latest read gave, and what is there
          ts_fault        \* "none", "behind": memory behind the data was read,
                          \* "random": an uninitialised pointer was freed

tsvars == <<ts_nodes, ts_dev, ts_inited, ts_held, ts_store, ts_data, ts_read, ts_fault>>

TsInit ==
    /\ ts_nodes = {} /\ ts_dev = FALSE /\ ts_inited = FALSE /\ ts_held = {}
    /\ ts_store = {} /\ ts_data = <<>> /\ ts_read = <<<<>>, <<>>>> /\ ts_fault = "none"

(* The node is listed first and stays when the device fails: init, or get   *)
(* after init, which is then not undone.                                    *)
os_security_request_tizenrt(h, fails) ==
    LET first == ~ ts_dev /\ ts_nodes = {} IN
    /\ h \notin ts_nodes
    /\ "missing" \in TsUnusual \/ fails = "nothing"
    /\ ts_nodes' = ts_nodes \cup {h}
    /\ ts_inited' = (ts_inited \/ (first /\ fails # "init"))
    /\ ts_dev' = (ts_dev \/ (first /\ fails = "nothing"))
    /\ ts_held' = IF first /\ fails # "nothing" THEN ts_held ELSE ts_held \cup {h}
    /\ UNCHANGED <<ts_store, ts_data, ts_read, ts_fault>>

(* The device goes with the second last handle.                             *)
MutReleased(left) == Cardinality(left) <= 1

(* The device goes with the last handle.                                    *)
Released(left) == left = {}

os_security_release_tizenrt(h) ==
    LET left == ts_nodes \ {h} IN
    /\ h \in ts_held
    /\ ts_nodes' = left /\ ts_held' = ts_held \ {h}
    /\ IF ts_dev /\ Released(left) THEN ts_dev' = FALSE /\ ts_inited' = FALSE
       ELSE UNCHANGED <<ts_dev, ts_inited>>
    /\ UNCHANGED <<ts_store, ts_data, ts_read, ts_fault>>

(* What an operation needs: its handle listed, and the device.              *)
Reaches(h) == h \in ts_nodes /\ ts_dev

TsCall(h) ==
    /\ h \in ts_held /\ Reaches(h)
    /\ UNCHANGED <<ts_nodes, ts_dev, ts_inited, ts_held>>

(* Random bytes, hashes, HMACs, RSA and ECDSA signatures, key exchanges and *)
(* ciphers: the device answers, nothing is kept.                            *)
Computes(h, kind) == TsCall(h) /\ kind \in ts_store \cup {"none"} /\ UNCHANGED <<ts_store, ts_data, ts_read, ts_fault>>

get_random_bytes(h) == Computes(h, "none")
get_hash(h) == Computes(h, "none")
get_hmac(h) == Computes(h, "key")
rsa_signature(h) == Computes(h, "key")
ecdsa_signature(h) == Computes(h, "key")
compute_dhm_params(h) == Computes(h, "key")
compute_ecdh_params(h) == Computes(h, "key")
aes_cipher(h) == Computes(h, "key")
rsa_cipher(h) == Computes(h, "key")
get_publickey(h) == Computes(h, "key")
get_certificate(h) == Computes(h, "cert")
get_certificate_pem_chain(h) == Computes(h, "cert")

Keeps(h, store) == TsCall(h) /\ ts_store' = store /\ UNCHANGED <<ts_data, ts_read, ts_fault>>

set_certificate(h) == Keeps(h, ts_store \cup {"cert"})
remove_certificate(h) == "cert" \in ts_store /\ Keeps(h, ts_store \ {"cert"})
generate_dhm_params(h) == Keeps(h, ts_store \cup {"key"})
set_dhm_params(h) == Keeps(h, ts_store \cup {"key"})
generate_ecdh_params(h) == Keeps(h, ts_store \cup {"key"})
generate_key(h) == Keeps(h, ts_store \cup {"key"})
set_key(h) == Keeps(h, ts_store \cup {"key"})
remove_key(h) == "key" \in ts_store /\ Keeps(h, ts_store \ {"key"})

(* The device writes from the offset on, where there are data before it.    *)
write_secure_storage(h, offset, text) ==
    /\ TsCall(h)
    /\ offset <= Len(ts_data) /\ offset + Len(text) <= TsMaxData
    /\ ts_data' = SubSeq(ts_data, 1, offset) \o text
                  \o SubSeq(ts_data, offset + Len(text) + 1, Len(ts_data))
    /\ UNCHANGED <<ts_store, ts_read, ts_fault>>

(* All data are read, and the part copied out of them.                      *)
Copied(offset, size) ==
    IF (offset + size) % TsWord > Len(ts_data) THEN (Len(ts_data) - offset) % TsWord ELSE size

(* The data there are from the offset on, at most size of them.             *)
Part(offset, size) ==
    SubSeq(ts_data, offset + 1, IF offset + size < Len(ts_data) THEN offset + size ELSE Len(ts_data))

read_secure_storage(h, offset, size) ==
    LET copied == Copied(offset, size) IN
    /\ TsCall(h)
    /\ (offset + size) % TsWord <= TsMaxData
    /\ "beyond" \in TsUnusual \/ (offset <= Len(ts_data) /\ offset + size < TsWord)
    /\ "absent" \in TsUnusual \/ ts_data # <<>>
    /\ ts_fault' = CASE ts_data = <<>> -> "random"
                     [] ts_data # <<>> /\ offset + copied > Len(ts_data) -> "behind"
                     [] OTHER                          -> ts_fault
    /\ ts_read' = <<Part(offset, copied), Part(offset, size)>>
    /\ UNCHANGED <<ts_store, ts_data>>

remove_secure_storage(h) == ts_data # <<>> /\ TsCall(h) /\ ts_data' = <<>> /\ UNCHANGED <<ts_store, ts_read, ts_fault>>

TsNext ==
    \E h \in TsHandles :
        \/ \E fails \in {"nothing", "init", "get"} : os_security_request_tizenrt(h, fails)
        \/ os_security_release_tizenrt(h)
        \/ get_random_bytes(h) \/ get_hash(h) \/ get_hmac(h) \/ rsa_signature(h) \/ ecdsa_signature(h)
        \/ compute_dhm_params(h) \/ compute_ecdh_params(h) \/ aes_cipher(h) \/ rsa_cipher(h)
        \/ get_publickey(h) \/ get_certificate(h) \/ get_certificate_pem_chain(h)
        \/ set_certificate(h) \/ remove_certificate(h)
        \/ generate_dhm_params(h) \/ set_dhm_params(h) \/ generate_ecdh_params(h) \/ generate_key(h)
        \/ set_key(h) \/ remove_key(h)
        \/ \E offset \in 0 .. TsMaxData, t \in TsTexts : write_secure_storage(h, offset, <<t>>)
        \/ \E offset, size \in 0 .. TsWord - 1 : read_secure_storage(h, offset, size)
        \/ remove_secure_storage(h)

(* Every handle that was granted reaches the device, which is initialised   *)
(* only while there are handles; a read gives the part of the data that was *)
(* asked for as far as there is one, and nothing behind it.                 *)
DeviceIsShared ==
    /\ \A h \in ts_held : Reaches(h)
    /\ ts_inited => ts_nodes # {}
    /\ ts_read[1] = ts_read[2] /\ ts_fault = "none"

-----------------------------------------------------------------------------
(* Signatures.  A record of the parser's fields:                            *)
(*   certs   certificates, the signer's last: issuer, subject, serial, key, *)
(*           long (its length takes two bytes), signs (code signing)        *)
(*   digests, signer_alg, enc  the algorithms                               *)
(*   attrs   the authenticated attributes, in their order                   *)
(*   issuer, serial  name the certificate of the signer                     *)
(*   digest, key     the text it is of and the key it is made with          *)
(*   time    when it was made                                               *)
(*   shape   whether what frames these fields is as it should be            *)

VARIABLES pv_nodes,       \* verify_nodes: what each was initialised with
          pv_fed,         \* the text each was fed with
          pv_verdicts     \* what the latest call said: signature, text, and whether it was accepted

pvvars == <<pv_nodes, pv_fed, pv_verdicts>>

PvInit == pv_nodes = [h \in {} |-> 0] /\ pv_fed = [h \in {} |-> <<>>] /\ pv_verdicts = {}

pkcs7_get_hash_alg(alg) == alg \in {"sha256", "sha1"}

pkcs7_get_encryption_alg(s) == s.enc = "ecdsa"

pkcs7_get_digest_algorithm_identifiers(s) ==
    Len(s.digests) = 1 /\ \A i \in DOMAIN s.digests : pkcs7_get_hash_alg(s.digests[i])

(* The step to the next one takes two bytes for the length: after a shorter *)
(* certificate it leads behind the end.                                     *)
pkcs7_get_chain_certs(certs) ==
    LET short == SelectInSeq(certs, LAMBDA c : ~ c.long) IN
    IF short = 0 THEN certs ELSE SubSeq(certs, 1, short)

(* The certificates that issuers lead to, n of them on, from cert.          *)
Led(cert, certs) ==
    LET led[n \in 0 .. Len(certs)] ==
            IF n = 0 THEN {cert}
            ELSE led[n - 1] \cup {c \in ToSet(certs) : \E d \in led[n - 1] : d.issuer = c.subject}
    IN  led[Len(certs)]

(* mbedtls: from the first one on, issuers lead to the root.                *)
Trusted(cert, certs) == \E c \in Led(cert, certs) : c.issuer = "root"

x509_crt_verify(chain) == chain # <<>> /\ Trusted(Head(chain), Tail(chain))

pkcs7_get_authenticated_attributes(s) == ToSet(s.attrs) = {"content", "time", "digest"}

pkcs7_get_signer_info(s) ==
    /\ pkcs7_get_hash_alg(s.signer_alg) /\ s.signer_alg = s.digests[1]
    /\ pkcs7_get_authenticated_attributes(s)
    /\ pkcs7_get_encryption_alg(s)

PvChain(s) == Reverse(pkcs7_get_chain_certs(s.certs))

pkcs7_get_signed_data(s) ==
    /\ s.shape
    /\ pkcs7_get_digest_algorithm_identifiers(s)
    /\ x509_crt_verify(PvChain(s))
    /\ pkcs7_get_signer_info(s)

(* The last certificate that fits.                                          *)
MutSignerCert(s) == SelectLastInSeq(PvChain(s), LAMBDA c : c.issuer = s.issuer)

(* The first certificate of the issuer that may sign code; the serial       *)
(* number is compared with another field, and decides nothing.              *)
SignerCert(s) == SelectInSeq(PvChain(s), LAMBDA c : c.issuer = s.issuer /\ c.signs)

check_pkcs7_validity(s) == SignerCert(s) # 0 /\ s.signer_alg = "sha256"

Siblings(s) == \E i, j \in DOMAIN s.certs : i # j /\ s.certs[i].issuer = s.certs[j].issuer

Accepts(s, since) == pkcs7_get_signed_data(s) /\ since <= s.time /\ check_pkcs7_validity(s)

(* since: the earliest time of signing the application takes, 0 for any.    *)
os_security_verify_signature_init(h, s, since) ==
    /\ h \notin DOMAIN pv_nodes
    /\ "siblings" \in TsUnusual \/ ~ Siblings(s)
    /\ "short" \in TsUnusual \/ pkcs7_get_chain_certs(s.certs) = s.certs
    /\ IF Accepts(s, since)
       THEN /\ pv_nodes' = [g \in DOMAIN pv_nodes \cup {h} |->
                              IF g = h THEN [sig |-> s, since |-> since, key |-> PvChain(s)[SignerCert(s)].key] ELSE pv_nodes[g]]
            /\ pv_fed' = [g \in DOMAIN pv_fed \cup {h} |-> IF g = h THEN <<>> ELSE pv_fed[g]]
            /\ pv_verdicts' = {}
       ELSE /\ pv_verdicts' = {[sig |-> s, since |-> since, text |-> s.digest, ok |-> FALSE]}
            /\ UNCHANGED <<pv_nodes, pv_fed>>

os_security_verify_signature_update(h, t) ==
    /\ h \in DOMAIN pv_nodes /\ Len(pv_fed[h]) < 2
    /\ pv_fed' = [pv_fed EXCEPT ![h] = Append(@, t)]
    /\ pv_verdicts' = {}
    /\ UNCHANGED pv_nodes

os_security_verify_signature_final(h) ==
    /\ h \in DOMAIN pv_nodes
    /\ LET n == pv_nodes[h]
           others == DOMAIN pv_nodes \ {h} IN
       /\ pv_verdicts' =
            {[sig |-> n.sig, since |-> n.since, text |-> pv_fed[h], ok |-> pv_fed[h] = n.sig.digest /\ n.key = n.sig.key]}
       /\ pv_nodes' = [g \in others |-> pv_nodes[g]]
       /\ pv_fed' = [g \in others |-> pv_fed[g]]

PvNext ==
    \E h \in TsHandles :
        \/ \E s \in TsSignatures, since \in {0, 2} : os_security_verify_signature_init(h, s, since)
        \/ \E t \in TsTexts : os_security_verify_signature_update(h, t)
        \/ os_security_verify_signature_final(h)

(* What a verifier should find: the named certificate is there, leads to    *)
(* the root and may sign, its key made the signature, and the text and the  *)
(* time are right; every other field is as the format says.                 *)
Genuine(s, since, text) ==
    /\ s.shape /\ s.digests = <<"sha256">> /\ s.signer_alg = "sha256" /\ s.enc = "ecdsa"
    /\ ToSet(s.attrs) = {"content", "time", "digest"}
    /\ \E c \in ToSet(s.certs) :
          /\ c.issuer = s.issuer /\ c.serial = s.serial /\ c.signs /\ c.key = s.key
          /\ Trusted(c, SelectSeq(s.certs, LAMBDA d : d # c))
    /\ since <= s.time /\ text = s.digest

(* However verifications interleave and the text is cut, the verdict is the *)
(* right one.                                                               *)
SignaturesAreJudged == \A v \in pv_verdicts : v.ok = Genuine(v.sig, v.since, v.text)
=============================================================================
