----------------------------- MODULE CoapConnect ------------------------------
\* With whom a CoAP client of TizenRT gets connected, and with which keys.
EXTENDS Integers, Sequences, SequencesExt, FiniteSetsExt, FiniteSets

-----------------------------------------------------------------------------
(***************************************************************************)
(* How a CoAP client of TizenRT gets from the URI and the credentials of   *)
(* its configuration to a session: the URI is taken apart in place         *)
(* (coap_uri.c), the session gets its socket, its keys and its DTLS        *)
(* session (coap_session.c, coap_socket.c, coap_dtls.c, get_session), and  *)
(* messages pass or fail on it.                                            *)
(*                                                                         *)
(* Text is a sequence of symbols; "coap" and "://" are one symbol, NUL is  *)
(* the byte the parser leaves.  Session k is made by the k-th call of      *)
(* connect that gets so far, with socket k and DTLS session k.  References *)
(* of queued messages are the subject of CoapClient.                       *)
(***************************************************************************)

CONSTANTS CnUris,        \* URIs, as their parts
          CnMaxPort,     \* 65535
          CnMax,         \* bound of the number of sessions
          CnUnusual      \* "again": a second connect of a URI with a port or brackets,
                         \* "thread": no service thread, "fatal": DTLS fails for good

NUL == "nul"
Digits == <<"0", "1", "2", "3", "4", "5", "6", "7", "8", "9">>
Creds == {"none", "psk", "ssl", "both"}
NoPeer == [host |-> <<>>, port |-> 0, secure |-> FALSE, keys |-> "none"]

VARIABLES cn_parts,      \* what the application meant
          cn_cred,       \* config->ssl and config->psk
          cn_mem,        \* the memory of config->uri, the application's
          cn_connected, cn_calls,
          cn_sess,       \* node->interface.session
          cn_state,      \* session->state
          cn_peer,       \* where the session sends to, and how
          cn_made,       \* number of sessions
          cn_live, cn_fds, cn_tls,   \* sessions, sockets, DTLS sessions
          cn_result      \* of the latest call

cnvars == <<cn_parts, cn_cred, cn_mem, cn_connected, cn_calls, cn_sess, cn_state, cn_peer,
            cn_made, cn_live, cn_fds, cn_tls, cn_result>>

\* A URI without a host has a path only.
UriText(u) ==
    (IF u.host = <<>> /\ ~u.bracket THEN <<>>
     ELSE <<"coap">> \o (IF u.secure THEN <<"s">> ELSE <<>>) \o <<"://">>
          \o (IF u.bracket THEN <<"[">> \o u.host \o <<"]">> ELSE u.host)
          \o (IF u.port = <<>> THEN <<>> ELSE <<":">> \o u.port))
    \o (IF u.path = <<>> THEN <<>> ELSE <<"/">> \o u.path)
    \o (IF u.query = <<>> THEN <<>> ELSE <<"?">> \o u.query)

CnInit ==
    /\ cn_parts \in CnUris /\ cn_cred \in Creds
    /\ cn_mem = UriText(cn_parts)
    /\ cn_connected = FALSE /\ cn_calls = 0
    /\ cn_sess = 0 /\ cn_state = "none" /\ cn_peer = NoPeer
    /\ cn_made = 0 /\ cn_live = {} /\ cn_fds = {} /\ cn_tls = {}
    /\ cn_result = "none"

-----------------------------------------------------------------------------
(* artik_coap_split_uri *)

\* The first position from i on that has one of the symbols, or Len(t) + 1.
NextOf(t, i, symbols) == Min({k \in i .. Len(t) : t[k] \in symbols} \cup {Len(t) + 1})

PortNumber(t, i, j) == FoldLeft(LAMBDA n, d : n * 10 + (CHOOSE k \in 1 .. 10 : Digits[k] = d) - 1,
                            0, SubSeq(t, i, j))

Bad(code) == [res |-> code, host |-> <<1, 0>>, port |-> 0, secure |-> FALSE, path |-> <<1, 0>>, query |-> <<1, 0>>]

\* From the label path on: q is where the text goes on, p what the last test
\* of a question mark looks at.
SplitPath(t, u, p, q) ==
    LET slash == q <= Len(t) /\ t[q] = "/"
        e == IF slash THEN NextOf(t, q + 1, {"?"}) ELSE q
        at == IF slash THEN e ELSE p
        path == IF slash THEN <<q + 1, e - 1>> ELSE <<1, 0>>
    IN  IF q > Len(t) THEN u
        ELSE IF e <= Len(t) /\ t[at] = "?"
        THEN [u EXCEPT !.path = path, !.query = <<at + 1, Len(t)>>]
        ELSE [u EXCEPT !.path = path, !.res = IF e <= Len(t) THEN -1 ELSE 0]

\* A port is read over.
MutSplitPort(t, u, p, q) ==
    LET e == Min({k \in q + 1 .. Len(t) : t[k] \notin Range(Digits)} \cup {Len(t) + 1})
    IN  IF q > Len(t) \/ t[q] # ":" THEN SplitPath(t, u, p, q) ELSE SplitPath(t, u, e, e)

SplitPort(t, u, p, q) ==
    LET e == Min({k \in q + 1 .. Len(t) : t[k] \notin Range(Digits)} \cup {Len(t) + 1})
        n == PortNumber(t, q + 1, e - 1)
    IN  IF q > Len(t) \/ t[q] # ":" THEN SplitPath(t, u, p, q)
        ELSE IF e = q + 1 THEN SplitPath(t, u, q + 1, e)
        ELSE IF n > CnMaxPort THEN Bad(-4)
        ELSE SplitPath(t, [u EXCEPT !.port = n], e, e)

SplitHost(t, u, h) ==
    LET bracket == h <= Len(t) /\ t[h] = "["
        e == IF bracket THEN NextOf(t, h, {"]"}) ELSE NextOf(t, h, {":", "/", "?"})
        p == IF bracket THEN h + 1 ELSE h
    IN  IF (bracket /\ e > Len(t)) \/ p = e THEN Bad(-3)
        ELSE SplitPort(t, [u EXCEPT !.host = <<p, e - 1>>], p, IF bracket THEN e + 1 ELSE e)

artik_coap_split_uri(t) ==
    LET u == [Bad(0) EXCEPT !.port = 5683]
        secure == Len(t) > 1 /\ t[2] = "s"
        i == IF secure THEN 3 ELSE 2
    IN  IF t # <<>> /\ t[1] = "/" THEN SplitPath(t, u, 1, 1)
        ELSE IF t = <<>> \/ t[1] # "coap" THEN Bad(-1)
        ELSE IF Len(t) < i \/ t[i] # "://" THEN Bad(-2)
        ELSE SplitHost(t, [u EXCEPT !.secure = secure, !.port = IF secure THEN 5684 ELSE 5683], i + 1)

\* The label end: a zero after host, path and query, over what was there.
Terminated(t, u) ==
    LET ends == {r[2] + 1 : r \in {x \in {u.host, u.path, u.query} : x[1] <= x[2]}}
    IN  [k \in DOMAIN t |-> IF k \in ends /\ u.res \in {0, -1} THEN NUL ELSE t[k]]

-----------------------------------------------------------------------------
(* Sessions *)

\* get_session chooses by credentials: both are refused on DTLS, and plain
\* sessions do without.
KeysFor(secure) == IF secure THEN cn_cred ELSE "none"

Fails(result) ==
    /\ cn_result' = result
    /\ UNCHANGED <<cn_connected, cn_sess, cn_state, cn_peer, cn_made, cn_live, cn_fds, cn_tls>>

\* A socket that cannot be connected is closed, and its session freed.
coap_session_create_client(u, t) ==
    /\ cn_made' = cn_made + 1
    /\ cn_peer' = [host |-> SubSeq(t, u.host[1], u.host[2]), port |-> u.port, secure |-> u.secure,
                   keys |-> KeysFor(u.secure)]
    /\ cn_live' = cn_live \cup {cn_made + 1}
    /\ cn_fds' = cn_fds \cup {cn_made + 1}

\* A session whose handshake fails is freed, with its socket.
coap_dtls_new_client_session(secure) ==
    cn_tls' = IF secure THEN cn_tls \cup {cn_made + 1} ELSE cn_tls

NewSession(u, t) ==
    /\ coap_session_create_client(u, t)
    /\ coap_dtls_new_client_session(u.secure)
    /\ cn_sess' = cn_made + 1
    /\ cn_state' = "established"

\* coap_session_free of sessions without a reference.
FreeSession(s) ==
    /\ cn_live' = cn_live \ {s}
    /\ cn_fds' = cn_fds \ {s}
    /\ cn_tls' = cn_tls \ {s}

Again == cn_calls > 0 => "again" \in CnUnusual \/ (cn_parts.port = <<>> /\ ~cn_parts.bracket)

\* os_coap_connect; resolved, socket, handshake and thread say what succeeds.
CnConnect(resolved, socket, handshake, thread) ==
    LET t == SubSeq(cn_mem, 1, NextOf(cn_mem, 1, {NUL}) - 1)
        u == artik_coap_split_uri(t)
    IN  /\ ~cn_connected /\ cn_made < CnMax /\ Again
        /\ thread \/ "thread" \in CnUnusual
        /\ cn_calls' = 1
        /\ cn_mem' = [k \in DOMAIN cn_mem |-> IF k <= Len(t) THEN Terminated(t, u)[k] ELSE cn_mem[k]]
        /\ IF u.res < 0 THEN Fails("uri")
           ELSE IF ~resolved THEN Fails("address")
           ELSE IF KeysFor(u.secure) = "both" THEN Fails("both")
           ELSE IF ~socket \/ (u.secure /\ ~handshake) THEN Fails("session")
           ELSE /\ NewSession(u, t)
                /\ cn_connected' = thread
                /\ cn_result' = IF thread THEN "ok" ELSE "thread"
        /\ UNCHANGED <<cn_parts, cn_cred>>

\* os_coap_disconnect: the last reference frees the session.
CnDisconnect ==
    /\ cn_connected
    /\ cn_connected' = FALSE
    /\ FreeSession(cn_sess)
    /\ cn_result' = "ok"
    /\ UNCHANGED <<cn_parts, cn_cred, cn_mem, cn_calls, cn_sess, cn_state, cn_peer, cn_made>>

\* A read that fails.  A socket the peer refuses: coap_session_reset, without
\* queued messages.  DTLS ("fatal"): nack_handler ends the connection, one
\* reference is released by coap_dtls_receive and one by artik_coap_read.
CnReadFails ==
    /\ cn_connected
    /\ cn_peer.secure => "fatal" \in CnUnusual
    /\ cn_connected' = ~cn_peer.secure
    /\ cn_state' = "none"
    /\ FreeSession(IF cn_peer.secure THEN cn_sess ELSE 0)
    /\ UNCHANGED <<cn_parts, cn_cred, cn_mem, cn_calls, cn_sess, cn_peer, cn_made, cn_result>>

\* coap_send_packet of a request: a session that was reset does not send.
\* With "fatal", coap_dtls_send calls nack_handler, which frees context and
\* node, and coap_session_free, which keeps a session that is referenced.
CnSend(fatal) ==
    /\ cn_connected
    /\ fatal => "fatal" \in CnUnusual /\ cn_peer.secure /\ cn_state = "established"
    /\ cn_result' = IF cn_state = "none" \/ fatal THEN "unsent" ELSE "sent"
    /\ cn_connected' = ~fatal
    /\ UNCHANGED <<cn_parts, cn_cred, cn_mem, cn_calls, cn_sess, cn_state, cn_peer, cn_made,
                   cn_live, cn_fds, cn_tls>>

CnNext ==
    \/ \E a, b, c, d \in BOOLEAN : CnConnect(a, b, c, d)
    \/ CnDisconnect \/ CnReadFails
    \/ \E f \in BOOLEAN : CnSend(f)

-----------------------------------------------------------------------------
\* A URI that is a path only is on this host, without security.
PathOnly == cn_parts.host = <<>> /\ ~cn_parts.bracket

Asked ==
    IF PathOnly THEN [NoPeer EXCEPT !.port = 5683]
    ELSE [host |-> cn_parts.host,
          port |-> IF cn_parts.port = <<>> THEN (IF cn_parts.secure THEN 5684 ELSE 5683)
                   ELSE PortNumber(cn_parts.port, 1, Len(cn_parts.port)),
          secure |-> cn_parts.secure,
          keys |-> KeysFor(cn_parts.secure)]

\* A query needs a path or a port before it.
WellFormed ==
    /\ IF PathOnly THEN cn_parts.path # <<>>
       ELSE cn_parts.host # <<>> /\ Asked.port <= CnMaxPort
    /\ cn_parts.query # <<>> => cn_parts.path # <<>> \/ cn_parts.port # <<>>

\* A client, also one that was disconnected and connects again, talks to the
\* host and the port of its URI and with the security and the keys that were
\* configured, and a URI that is well formed is not refused; the sockets and
\* the DTLS sessions that are open are those of its connection.
ConnectsAsAsked ==
    /\ cn_connected => cn_peer = Asked
    /\ cn_result = "uri" => ~WellFormed
    /\ cn_live = (IF cn_connected THEN {cn_sess} ELSE {})
    /\ cn_fds = cn_live
    /\ cn_tls = IF cn_peer.secure THEN cn_live ELSE {}

-----------------------------------------------------------------------------
(***************************************************************************)
(* The raw elliptic-curve keys of a secure CoAP client or server, taken    *)
(* from a certificate and a private key through the security module and    *)
(* two parsers of DER (coap/linux/linux_coap.c, tizenrt/tizenrt_coap.c).   *)
(*                                                                         *)
(* DER is a sequence of bytes with the real tags; object identifiers and   *)
(* coordinates are short.  The security module is external: it may fail,   *)
(* and what it converts is well formed.                                    *)
(***************************************************************************)

CONSTANTS KyCerts,       \* certificates: algorithm, curve and point of their key
          KyKeys,        \* private keys: number, and perhaps curve and point
          KyUnusual      \* "bare": a private key without its public part,
                         \* "compressed": points of one coordinate

SEQUENCE_ == 48
INTEGER_ == 2
BIT_STRING == 3
OCTET_STRING == 4
OBJ_IDENTIFIER == 6
OPT_PARAMS == 160
OPT_PUBKEY == 161
ec_public_key == <<7, 8>>
prime_256v1 == <<7, 9, 9>>

Unwritten == -1      \* a byte that was not written
NoKeys == [priv |-> <<>>, x |-> <<>>, y |-> <<>>]
NotRead == [ok |-> FALSE, val |-> <<>>]

VARIABLES ky_platform, ky_role, ky_cert, ky_key,
          ky_result,     \* "none", "ok", or what has failed
          ky_keys,       \* the keys of the session or of the context
          ky_context     \* "none", "kept", "freed", "left"

kyvars == <<ky_platform, ky_role, ky_cert, ky_key, ky_result, ky_keys, ky_context>>

KyInit ==
    /\ ky_platform \in {"linux", "tizenrt"} /\ ky_role \in {"client", "server"}
    /\ ky_cert \in KyCerts /\ ky_key \in KyKeys
    /\ ky_result = "none" /\ ky_keys = NoKeys /\ ky_context = "none"

-----------------------------------------------------------------------------
(* Parsing; position 0 stands for a parser that has given up *)

End(d) == Len(d) + 1

\* *p == tag && p + n != end
Skip(d, p, tag, n) == IF p \in DOMAIN d /\ d[p] = tag /\ p + n # End(d) THEN p + n ELSE 0

\* The content of length len from p on; it may be cut off by the end.
Content(d, p, len) == [i \in 1 .. len |-> IF p + i - 1 < End(d) THEN d[p + i - 1] ELSE Unwritten]

\* memcmp in the length of what was read; what is beyond the other differs.
Equal(read, other) == \A i \in DOMAIN read : i \in DOMAIN other /\ read[i] = other[i]

\* Any object identifier is accepted.
MutObjectId(d, p, id) ==
    LET at == Skip(d, p, OBJ_IDENTIFIER, 1)
    IN  IF at = 0 \/ at + 1 + d[at] >= End(d) THEN 0 ELSE at + 1 + d[at]

ObjectId(d, p, id) ==
    LET at == Skip(d, p, OBJ_IDENTIFIER, 1)
        len == d[at]
    IN  IF at = 0 \/ at + 1 = End(d) \/ at + 1 + len >= End(d) THEN 0
        ELSE IF ~Equal(Content(d, at + 1, len), id) THEN 0
        ELSE at + 1 + len

\* A bit string, without the byte that counts unused bits.
BitString(d, p) ==
    LET at == Skip(d, p, BIT_STRING, 1)
    IN  IF at = 0 \/ at + 1 = End(d) THEN NotRead
        ELSE IF d[at + 1] # 0 THEN [ok |-> TRUE, val |-> Content(d, at + 1, d[at])]
        ELSE IF at + 2 = End(d) THEN NotRead
        ELSE [ok |-> TRUE, val |-> Content(d, at + 2, d[at] - 1)]

asn1_parse_pubkey(d) ==
    LET algorithm == Skip(d, Skip(d, 1, SEQUENCE_, 2), SEQUENCE_, 2)
        curve == ObjectId(d, algorithm, ec_public_key)
    IN  BitString(d, ObjectId(d, curve, prime_256v1))

\* The public part of a private key, if there is one, has to be the one of the
\* certificate.
SamePublic(d, p, pub) ==
    LET bits == BitString(d, Skip(d, ObjectId(d, Skip(d, p, OPT_PARAMS, 2), prime_256v1), OPT_PUBKEY, 2))
    IN  bits.ok /\ Equal(bits.val, pub)

asn1_parse_key(d, pub) ==
    LET version == Skip(d, 3, INTEGER_, 2)
        at == IF version # 0 /\ d[version] = 1 THEN Skip(d, version + 1, OCTET_STRING, 1) ELSE 0
        key == Content(d, at + 1, d[at])
        p == at + 1 + d[at]
    IN  IF d = <<>> \/ d[1] # SEQUENCE_ \/ at = 0 \/ at + 1 = End(d) THEN NotRead
        ELSE IF p >= End(d) \/ SamePublic(d, p, pub) THEN [ok |-> TRUE, val |-> key]
        ELSE NotRead

linux_asn1_parse_pubkey(d) == asn1_parse_pubkey(d)
linux_asn1_parse_key(d, pub) == asn1_parse_key(d, pub)

\* The two halves after the first byte; a length that is even is refused.
extract_pubkey_x_y(pub) ==
    LET size == (Len(pub) - 1) \div 2
    IN  IF pub = <<>> \/ (Len(pub) - 1) % 2 # 0 THEN [ok |-> FALSE, x |-> <<>>, y |-> <<>>]
        ELSE [ok |-> TRUE, x |-> SubSeq(pub, 2, 1 + size), y |-> SubSeq(pub, 2 + size, 1 + 2 * size)]

-----------------------------------------------------------------------------
(* What the security module returns *)

Oid(name) == CASE name = "ec" -> ec_public_key [] name = "p256" -> prime_256v1 [] OTHER -> <<5, 5, 5>>

Item(tag, content) == <<tag, Len(content)>> \o content

DerOfCert == Item(SEQUENCE_, Item(SEQUENCE_, Item(OBJ_IDENTIFIER, Oid(ky_cert.alg)) \o Item(OBJ_IDENTIFIER, Oid(ky_cert.curve)))
                             \o Item(BIT_STRING, <<0>> \o ky_cert.point))

DerOfKey ==
    Item(SEQUENCE_, Item(INTEGER_, <<1>>) \o Item(OCTET_STRING, ky_key.d)
         \o (IF ky_key.point = <<>> THEN <<>>
             ELSE Item(OPT_PARAMS, Item(OBJ_IDENTIFIER, Oid(ky_key.curve)))
                  \o Item(OPT_PUBKEY, Item(BIT_STRING, <<0>> \o ky_key.point))))

-----------------------------------------------------------------------------
(* Clients and servers *)

ParsePub == IF ky_platform = "linux" THEN linux_asn1_parse_pubkey(DerOfCert) ELSE asn1_parse_pubkey(DerOfCert)
ParseKey(pub) == IF ky_platform = "linux" THEN linux_asn1_parse_key(DerOfKey, pub) ELSE asn1_parse_key(DerOfKey, pub)

\* The calls of the security module, each of which may fail: module released.
Failed(what) ==
    /\ ky_result' = what
    /\ ky_keys' = NoKeys
    /\ ky_context' = IF ky_role = "client" THEN "none"
                     ELSE IF ky_platform = "linux" THEN "left" ELSE "freed"

\* get_session: a client of TizenRT does not set the length of the private
\* key, of which any part is copied.
ClientKeys(priv, xy, n) ==
    /\ ky_keys' = [priv |-> IF ky_platform = "linux" THEN priv
                            ELSE SubSeq(priv, 1, IF n < Len(priv) THEN n ELSE Len(priv)),
                    x |-> xy.x, y |-> xy.y]
    /\ ky_context' = "none"

\* os_coap_create_server, coap_context_set_ssl
ServerKeys(priv, xy) ==
    /\ ky_keys' = [priv |-> priv, x |-> xy.x, y |-> xy.y]
    /\ ky_context' = "kept"

TakeKeys(fails, n) ==
    LET pub == ParsePub
        key == ParseKey(pub.val)
        xy == extract_pubkey_x_y(pub.val)
    IN  /\ ky_result = "none"
        /\ ky_key.point = <<>> => "bare" \in KyUnusual
        /\ ky_cert.point[1] = 2 => "compressed" \in KyUnusual
        /\ IF fails THEN Failed("security")
           ELSE IF ~pub.ok THEN Failed("pubkey")
           ELSE IF ~key.ok THEN Failed("key")
           ELSE IF ~xy.ok THEN Failed("xy")
           ELSE /\ ky_result' = "ok"
                /\ IF ky_role = "client" THEN ClientKeys(key.val, xy, n) ELSE ServerKeys(key.val, xy)
        /\ UNCHANGED <<ky_platform, ky_role, ky_cert, ky_key>>

KyNext == \E fails \in BOOLEAN, n \in 0 .. 3 : TakeKeys(fails, n)

-----------------------------------------------------------------------------
\* Keys are accepted exactly if certificate and private key are of the curve
\* P-256 and belong together, and what is then used are the coordinates of the
\* certificate and, on a server and on Linux, the whole private key: neither
\* parser reads one byte too few or too many.  A server that is refused leaves
\* its context only on Linux.
KeysBelong ==
    LET good == /\ ky_cert.alg = "ec" /\ ky_cert.curve = "p256"
                /\ ky_key.curve = "p256" /\ ky_key.point = ky_cert.point
                /\ ky_cert.point[1] = 4
        size == (Len(ky_cert.point) - 1) \div 2
    IN  /\ ky_result \in {"pubkey", "key", "xy"} => ~good
        /\ ky_result = "ok" =>
              /\ good
              /\ ky_keys.x \o ky_keys.y = Tail(ky_cert.point)
              /\ Len(ky_keys.x) = size
              /\ (ky_role = "server" \/ ky_platform = "linux") => ky_keys.priv = ky_key.d
        /\ ky_context = "left" => ky_platform = "linux" /\ ky_role = "server"
=============================================================================
