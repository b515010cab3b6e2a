------------------------------ MODULE WebClient ------------------------------
(***************************************************************************)
(* The HTTP client of TizenRT: a request with a stream callback, which     *)
(* connects, sends and parses by itself (http/tizenrt/webclient.c), and    *)
(* one without, which TizenRT's http_client_send_request carries out       *)
(* (external), both in the caller's thread or in a thread of their own     *)
(* (http/tizenrt_http.c).  A request shares nothing with another one: the  *)
(* module has one.                                                         *)
(*                                                                         *)
(* A response is a sequence of symbols that arrives in pieces of any size  *)
(* up to the buffer's: H and the status stand for the status line, x for   *)
(* the text of a header line and loc for that of a Location line, b for    *)
(* the body's, and CR and NL for themselves.  Lines fit in ws.line.        *)
(***************************************************************************)
EXTENDS Integers, Sequences, SequencesExt

CONSTANTS WcHeaders,    \* what may stand between status line and empty line
          WcBodies,     \* bodies
          WcBufLen,     \* size of the buffer
          WcMaxHops     \* bound of the redirections of a request

CR == "CR"
NL == "NL"

Retries == 3   \* WEBCLIENT_CONF_HANDSHAKE_RETRY

Empty == [state |-> "statusline", line |-> <<>>, offset |-> 1, status |-> "none"]

VARIABLES wc_request,   \* [stream, async, tls] of the request in progress
          wc_phase,     \* "idle", "begin", "connect", "handshake", "send", "recv", "done"
          wc_retry,     \* handshake_retry
          wc_hops,      \* redirections so far
          wc_socks,     \* sockets that are open
          ws,           \* struct wget_s: state, line (ndx is its length), offset, httpstatus
          wc_body,      \* the server: body of its response
          wc_left,      \* the server: what was not received of the response yet
          wc_got,       \* history: what the stream callback got
          wc_ret,       \* result: "none", "ok", "error"
          wc_calls,     \* calls of the response callback
          wc_args       \* copies of the arguments the thread owns: "none", "owned", "freed"

wcserver == <<wc_body, wc_left>>
wcvars == <<wc_request, wc_phase, wc_retry, wc_hops, wc_socks, ws, wcserver,
            wc_got, wc_ret, wc_calls, wc_args>>

WcRequests == [stream : BOOLEAN, async : BOOLEAN, tls : BOOLEAN]

WcTypeOK ==
    /\ wc_request \in WcRequests
    /\ wc_phase \in {"idle", "begin", "connect", "handshake", "send", "recv", "done"}
    /\ wc_retry \in 0 .. Retries /\ wc_hops \in 0 .. WcMaxHops
    /\ wc_socks \in 0 .. 1 /\ wc_calls \in 0 .. 1
    /\ ws.state \in {"statusline", "headers", "data"}
    /\ ws.offset \in 1 .. WcBufLen + 1
    /\ ws.status \in {"none", "200", "301"}
    /\ wc_ret \in {"none", "ok", "error"} /\ wc_args \in {"none", "owned", "freed"}

WcInit ==
    /\ wc_request = [stream |-> FALSE, async |-> FALSE, tls |-> FALSE]
    /\ wc_phase = "idle" /\ wc_retry = Retries /\ wc_hops = 0 /\ wc_socks = 0
    /\ ws = Empty /\ wc_body = <<>> /\ wc_left = <<>> /\ wc_got = <<>>
    /\ wc_ret = "none" /\ wc_calls = 0 /\ wc_args = "none"

-----------------------------------------------------------------------------
(* Parsing of the piece buf *)

\* wget_parsestatus: the newline stays for wget_parseheaders, for which the
\* status line is one more header line.
ParseStatus(w, buf) ==
    LET n == SelectInSeq(buf, LAMBDA c : c = NL)
        line == w.line \o SubSeq(buf, 1, n - 1)
    IN  IF n = 0 THEN [w EXCEPT !.line = @ \o buf]
        ELSE IF line[1] # "H" THEN [w EXCEPT !.state = "aborted"]
        ELSE [w EXCEPT !.state = "headers", !.line = line, !.offset = n, !.status = line[2]]

\* wget_parseheaders at one symbol.  A Location line changes the host of the next
\* request, which the model does not tell apart.
HeaderSymbol(w, c) ==
    IF w.state = "data" THEN w
    ELSE LET at == [w EXCEPT !.offset = @ + 1]
         IN  CASE c # NL -> [at EXCEPT !.line = Append(@, c)]
               [] c = NL /\ w.line # <<>> /\ w.line[1] = CR -> [at EXCEPT !.state = "data"]
               [] OTHER -> [at EXCEPT !.line = <<>>]

ParseHeaders(w, buf) == FoldLeft(HeaderSymbol, w, SubSeq(buf, w.offset, Len(buf)))

MutParse(buf) ==
    LET w0 == [ws EXCEPT !.offset = 1, !.line = IF ws.state = "headers" THEN <<>> ELSE @]
        w1 == IF w0.state = "statusline" THEN ParseStatus(w0, buf) ELSE w0
    IN  IF w1.state = "headers" THEN ParseHeaders(w1, buf) ELSE w1

\* The body of the loop over the pieces.
Parse(buf) ==
    LET w0 == [ws EXCEPT !.offset = 1]
        w1 == IF w0.state = "statusline" THEN ParseStatus(w0, buf) ELSE w0
    IN  IF w1.state = "headers" THEN ParseHeaders(w1, buf) ELSE w1

-----------------------------------------------------------------------------
(* A request *)

\* os_http_get_stream, os_http_get, post, put and delete, and their asynchronous
\* forms: _http_method_thread copies the arguments and starts the thread; if it
\* cannot, it frees them and nothing is left.
HttpCall(q) ==
    /\ wc_phase = "idle"
    /\ wc_request' = q
    /\ wc_phase' = "begin"
    /\ wc_args' = IF q.async THEN "owned" ELSE "none"
    /\ wc_got' = <<>> /\ wc_ret' = "none" /\ wc_calls' = 0 /\ wc_hops' = 0
    /\ UNCHANGED <<wc_retry, wc_socks, ws, wcserver>>

Ends(result) ==
    /\ wc_ret' = result
    /\ wc_phase' = "done"

\* init_client_ssl_config: a certificate or key it cannot use ends the request.
TlsConfigFails ==
    /\ wc_phase = "begin" /\ wc_request.tls
    /\ Ends("error")
    /\ UNCHANGED <<wc_request, wc_retry, wc_hops, wc_socks, ws, wcserver, wc_got,
                   wc_calls, wc_args>>

\* _http_method.
EntityMethod ==
    /\ wc_phase = "begin" /\ ~wc_request.stream
    /\ \E result \in {"ok", "error"} : Ends(result)
    /\ UNCHANGED <<wc_request, wc_retry, wc_hops, wc_socks, ws, wcserver, wc_got,
                   wc_calls, wc_args>>

\* wget_base, and each time round its loop.
WgetBegins ==
    /\ wc_phase = "begin" /\ wc_request.stream
    /\ wc_phase' = "connect" /\ wc_retry' = Retries /\ ws' = Empty
    /\ UNCHANGED <<wc_request, wc_hops, wc_socks, wcserver, wc_got, wc_ret, wc_calls, wc_args>>

\* wget_connect: no such host, or the server refuses; the socket is closed.
ConnectFails ==
    /\ wc_phase = "connect"
    /\ Ends("error")
    /\ UNCHANGED <<wc_request, wc_retry, wc_hops, wc_socks, ws, wcserver, wc_got,
                   wc_calls, wc_args>>

Connects ==
    /\ wc_phase = "connect"
    /\ wc_socks' = wc_socks + 1
    /\ wc_phase' = IF wc_request.tls THEN "handshake" ELSE "send"
    /\ UNCHANGED <<wc_request, wc_retry, wc_hops, ws, wcserver, wc_got, wc_ret,
                   wc_calls, wc_args>>

\* wget_tls_handshake.  A failure closes the socket; one of the network is tried
\* again with a new one.
Handshake ==
    /\ wc_phase = "handshake"
    /\ wc_phase' = "send"
    /\ UNCHANGED <<wc_request, wc_retry, wc_hops, wc_socks, ws, wcserver, wc_got, wc_ret,
                   wc_calls, wc_args>>

HandshakeFails(network) ==
    /\ wc_phase = "handshake"
    /\ wc_socks' = wc_socks - 1
    /\ IF network /\ wc_retry > 0
       THEN wc_retry' = wc_retry - 1 /\ wc_phase' = "connect" /\ UNCHANGED wc_ret
       ELSE Ends("error") /\ UNCHANGED wc_retry
    /\ UNCHANGED <<wc_request, wc_hops, ws, wcserver, wc_got, wc_calls, wc_args>>

\* The server's response: any status line, header lines and body.
Response(status, headers, body) ==
    <<"H", status, CR, NL>> \o headers \o <<CR, NL>> \o body

SendRequest(status, headers, body) ==
    /\ wc_phase = "send"
    /\ status = "301" => wc_hops < WcMaxHops
    /\ wc_body' = body
    /\ wc_left' = Response(status, headers, body)
    /\ wc_phase' = "recv"
    /\ UNCHANGED <<wc_request, wc_retry, wc_hops, wc_socks, ws, wc_got, wc_ret,
                   wc_calls, wc_args>>

\* A server that does not speak HTTP.
SendToAnother ==
    /\ wc_phase = "send"
    /\ wc_body' = <<>>
    /\ wc_left' = <<"x", NL>>
    /\ wc_phase' = "recv"
    /\ UNCHANGED <<wc_request, wc_retry, wc_hops, wc_socks, ws, wc_got, wc_ret,
                   wc_calls, wc_args>>

\* ws.recv returns n symbols, which are parsed; what is left of them goes to the
\* callback, or the request is made again elsewhere.
Receive(n) ==
    LET buf == SubSeq(wc_left, 1, n)
        w == Parse(buf)
        data == SubSeq(buf, w.offset, n)
    IN  /\ wc_phase = "recv"
        /\ n \in 1 .. WcBufLen /\ n <= Len(wc_left)
        /\ wc_left' = SubSeq(wc_left, n + 1, Len(wc_left))
        /\ CASE w.state = "aborted" ->
                  /\ Ends("error") /\ wc_socks' = wc_socks - 1
                  /\ UNCHANGED <<wc_hops, ws, wc_got, wc_retry>>
             [] w.state = "data" /\ w.status = "301" ->
                  /\ wc_phase' = "connect" /\ wc_socks' = wc_socks - 1
                  /\ wc_hops' = wc_hops + 1 /\ wc_retry' = Retries /\ ws' = Empty
                  /\ UNCHANGED <<wc_got, wc_ret>>
             [] w.state = "data" /\ w.status # "301" ->
                  /\ ws' = w /\ wc_got' = wc_got \o data
                  /\ UNCHANGED <<wc_phase, wc_socks, wc_hops, wc_retry, wc_ret>>
             [] OTHER ->
                  /\ ws' = w
                  /\ UNCHANGED <<wc_phase, wc_socks, wc_hops, wc_retry, wc_got, wc_ret>>
        /\ UNCHANGED <<wc_request, wc_body, wc_calls, wc_args>>

\* ws.recv returns 0: the server has closed the connection, in time or not.
Closed ==
    /\ wc_phase = "recv"
    /\ Ends("ok") /\ wc_socks' = wc_socks - 1
    /\ UNCHANGED <<wc_request, wc_retry, wc_hops, ws, wcserver, wc_got, wc_calls, wc_args>>

\* ws.send or ws.recv fails, or times out.
ConnectionFails ==
    /\ wc_phase \in {"send", "recv"}
    /\ Ends("error") /\ wc_socks' = wc_socks - 1
    /\ UNCHANGED <<wc_request, wc_retry, wc_hops, ws, wcserver, wc_got, wc_calls, wc_args>>

\* Back in the caller's thread with the result, or the response callback and the
\* end of _http_method_async.
MethodReturns ==
    /\ wc_phase = "done"
    /\ wc_phase' = "idle"
    /\ wc_calls' = IF wc_request.async THEN wc_calls + 1 ELSE wc_calls
    /\ wc_args' = IF wc_args = "owned" THEN "freed" ELSE wc_args
    /\ UNCHANGED <<wc_request, wc_retry, wc_hops, wc_socks, ws, wcserver, wc_got, wc_ret>>

-----------------------------------------------------------------------------

WcNext ==
    \/ \E q \in WcRequests : HttpCall(q)
    \/ TlsConfigFails \/ EntityMethod \/ WgetBegins \/ ConnectFails \/ Connects \/ Handshake
    \/ \E network \in BOOLEAN : HandshakeFails(network)
    \/ \E status \in {"200", "301"}, headers \in WcHeaders, body \in WcBodies :
          SendRequest(status, headers, body)
    \/ SendToAnother \/ Closed \/ ConnectionFails \/ MethodReturns
    \/ \E n \in 1 .. WcBufLen : Receive(n)

\* Wherever the network cuts the response into pieces, in the middle of a line
\* or between the status line's newline and what follows it, the stream callback
\* gets the body of the last response, from its first byte, and nothing of
\* headers or of a redirection; when the request ends well and the server had
\* sent everything, it got all of it.  A request that has ended leaves no socket
\* and no copy of its arguments, and an asynchronous one was reported once.
BodyIsDelivered ==
    /\ WcTypeOK
    /\ wc_phase = "recv" => IsPrefix(wc_got, wc_body)
    /\ wc_phase \in {"done", "idle"} =>
         /\ wc_socks = 0
         /\ wc_ret = "ok" /\ wc_request.stream /\ wc_left = <<>> => wc_got = wc_body
    /\ wc_phase = "idle" =>
         wc_args # "owned" /\ (wc_ret # "none" => wc_calls = IF wc_request.async THEN 1 ELSE 0)
=============================================================================
