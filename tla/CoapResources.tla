---------------------------- MODULE CoapResources -----------------------------
\* What a CoAP server answers: to a request for one of its resources, and to one
\* for the list of them.
EXTENDS Sequences, FiniteSets, SequencesExt, Integers, FiniteSetsExt

-----------------------------------------------------------------------------
(***************************************************************************)
(* A request at a CoAP server: how its path finds a resource, how the      *)
(* callback of its method is called and what is answered, and who observes *)
(* a resource afterwards.  TizenRT: coap.c, coap_resource.c, coap_uri.c    *)
(* and the handlers of tizenrt_coap.c; Linux: the handlers of linux_coap.c *)
(* below libcoap, which is external.                                       *)
(*                                                                         *)
(* A path is a sequence of symbols, a request names its segments.  A reply *)
(* of the application has a code, options (none, good or bad ones) and     *)
(* perhaps data.  A subscription refers to the query of the request that   *)
(* has made it, which artik_handle_request has allocated.                  *)
(***************************************************************************)

CONSTANTS RsPaths,       \* paths of resources
          RsRequests,    \* paths of requests: sequences of segments
          RsSessions, RsTokens,
          RsMax,         \* bound of the number of resources
          RsUnusual      \* "collide": paths that differ in the place of slashes,
                         \* "renew": an observer registers again with its token

Methods == {"GET", "POST", "PUT", "DELETE"}
Codes == {"0", "2.05", "4.00"}
Replies == {[code |-> c, options |-> o, data |-> o # "none"] : c \in Codes, o \in {"none", "good", "bad"}}
Silence == [code |-> "none", token |-> "", observe |-> FALSE, options |-> FALSE, data |-> FALSE]
NoCall == [r |-> 0, method |-> "none", reply |-> "none"]

VARIABLES rs_platform,   \* "linux" or "tizenrt"
          rs_list,       \* context->resources, newest first
          rs_obs,        \* subscriptions: resource, session, token, and whether the
                         \* query they refer to was freed
          rs_twice,      \* history: a query was freed twice
          rs_request,    \* the latest request
          rs_called,     \* the callback it has called
          rs_answer      \* and the answer to it

rsvars == <<rs_platform, rs_list, rs_obs, rs_twice, rs_request, rs_called, rs_answer>>

NoRequestYet == [s |-> "", segs |-> <<>>, method |-> "none", con |-> FALSE, token |-> "", observe |-> "no"]

RsInit ==
    /\ rs_platform \in {"linux", "tizenrt"}
    /\ rs_list = <<>> /\ rs_obs = {}
    /\ rs_twice = FALSE
    /\ rs_request = NoRequestYet /\ rs_called = NoCall /\ rs_answer = Silence

-----------------------------------------------------------------------------
(* Paths and keys *)

\* coap_split_path_impl: what is between slashes, without "." and "..".
Slashes(path) == {0, Len(path) + 1} \cup {k \in DOMAIN path : path[k] = "/"}

Segment(path, i) ==
    LET next == CHOOSE j \in Slashes(path) : j > i /\ \A k \in Slashes(path) : k > i => j <= k
    IN  SubSeq(path, i + 1, next - 1)

Segments(path) ==
    LET starts == SetToSortSeq(Slashes(path) \ {Len(path) + 1}, LAMBDA a, b : a < b)
    IN  SelectSeq([k \in DOMAIN starts |-> Segment(path, starts[k])],
                  LAMBDA g : g \notin {<<".">>, <<".", ".">>})

\* coap_hash goes on from segment to segment: a key stands for the symbols
\* without the slashes.
HashPath(path) == FlattenSeq(Segments(path))
HashRequest(segs) == FlattenSeq(segs)

WellKnown == <<<<".w">>, <<"core">>>>

\* artik_coap_get_resource_from_key: the first one of the list, 0 for none.
\* libcoap compares the same way.
GetResource(segs) ==
    LET found == {k \in DOMAIN rs_list : rs_list[k].key = HashRequest(segs)}
    IN  IF found = {} THEN 0 ELSE CHOOSE k \in found : \A j \in found : k <= j

-----------------------------------------------------------------------------
(* Observers *)

FindObserver(obs, r, s, token) == {o \in obs : o.r = r /\ o.s = s /\ o.token = token}

\* artik_coap_add_observer: a subscription that exists gets the new query and
\* frees its old one.
AddedObserver(r, s, token) ==
    (rs_obs \ FindObserver(rs_obs, r, s, token)) \cup {[r |-> r, s |-> s, token |-> token, freed |-> FALSE]}

DeletedObserver(obs, r, s, token) == obs \ FindObserver(obs, r, s, token)

Failure(code) == code = "4.00"

-----------------------------------------------------------------------------
(* The handlers of the four methods *)

\* What the application is given and what becomes of its reply; obs are the
\* observers when the handler runs.
TizenRtHandler(res, reply, obs, req) ==
    [code |-> reply.code,
     token |-> req.token,
     observe |-> res.observable /\ FindObserver(obs, res.id, req.s, req.token) # {},
     options |-> reply.options = "good",
     data |-> reply.data]

\* Options that are not well defined end the handler of Linux before the data.
LinuxHandler(res, reply, obs, req) ==
    [TizenRtHandler(res, reply, obs, req) EXCEPT !.data = reply.data /\ reply.options # "bad"]

get_resource_handler(res, reply, obs, req) == TizenRtHandler(res, reply, obs, req)
post_resource_handler(res, reply, obs, req) == TizenRtHandler(res, reply, obs, req)
put_resource_handler(res, reply, obs, req) == TizenRtHandler(res, reply, obs, req)
delete_resource_handler(res, reply, obs, req) == TizenRtHandler(res, reply, obs, req)
linux_get_resource_handler(res, reply, obs, req) == LinuxHandler(res, reply, obs, req)
linux_post_resource_handler(res, reply, obs, req) == LinuxHandler(res, reply, obs, req)
linux_put_resource_handler(res, reply, obs, req) == LinuxHandler(res, reply, obs, req)
linux_delete_resource_handler(res, reply, obs, req) == LinuxHandler(res, reply, obs, req)

Handler(res, reply, obs, req) ==
    IF rs_platform = "tizenrt"
    THEN CASE req.method = "GET" -> get_resource_handler(res, reply, obs, req)
           [] req.method = "POST" -> post_resource_handler(res, reply, obs, req)
           [] req.method = "PUT" -> put_resource_handler(res, reply, obs, req)
           [] OTHER -> delete_resource_handler(res, reply, obs, req)
    ELSE CASE req.method = "GET" -> linux_get_resource_handler(res, reply, obs, req)
           [] req.method = "POST" -> linux_post_resource_handler(res, reply, obs, req)
           [] req.method = "PUT" -> linux_put_resource_handler(res, reply, obs, req)
           [] OTHER -> linux_delete_resource_handler(res, reply, obs, req)

-----------------------------------------------------------------------------
(* The server *)

\* init_resources for one resource, with the methods that have a callback.
InitResource(path, methods, observable) ==
    /\ Len(rs_list) < RsMax
    /\ rs_request = NoRequestYet
    /\ (\E k \in DOMAIN rs_list : rs_list[k].key = HashPath(path)) => "collide" \in RsUnusual
    /\ rs_list' = <<[id |-> Len(rs_list) + 1, path |-> path, key |-> HashPath(path),
                     methods |-> methods, observable |-> observable]>> \o rs_list
    /\ UNCHANGED <<rs_platform, rs_obs, rs_twice, rs_request, rs_called, rs_answer>>

\* artik_coap_new_error_response
NewErrorResponse(req, code) == [Silence EXCEPT !.code = code, !.token = req.token]

NoHandler(req, code) ==
    /\ rs_called' = NoCall
    /\ rs_answer' = NewErrorResponse(req, code)
    /\ UNCHANGED <<rs_obs, rs_twice>>

MutSending(answer, con) == IF con \/ answer.code # "0" THEN [answer EXCEPT !.token = ""] ELSE Silence

\* An empty acknowledgement has no token, and what is neither confirmable nor
\* a response is not sent.
Sending(answer, con) ==
    IF answer.code # "0" THEN answer
    ELSE IF con THEN [answer EXCEPT !.token = ""] ELSE Silence

\* The part of artik_handle_request that has found a resource and a handler.
\* At its end the query is freed, also the one that a subscription has got.
CallHandler(res, req, reply) ==
    LET mine == FindObserver(rs_obs, res.id, req.s, req.token)
        adds == res.observable /\ req.observe = "register"
        obs == IF adds THEN AddedObserver(res.id, req.s, req.token)
               ELSE IF res.observable /\ req.observe = "cancel"
               THEN DeletedObserver(rs_obs, res.id, req.s, req.token)
               ELSE rs_obs
        left == IF req.observe # "no" /\ Failure(reply.code)
                THEN DeletedObserver(obs, res.id, req.s, req.token) ELSE obs
    IN  /\ adds /\ mine # {} => "renew" \in RsUnusual
        /\ rs_called' = [r |-> res.id, method |-> req.method, reply |-> reply.code]
        /\ rs_answer' = Sending(Handler(res, reply, obs, req), req.con)
        /\ rs_obs' = {[o EXCEPT !.freed = @ \/ rs_platform = "tizenrt"] : o \in left}
        /\ rs_twice' = (rs_twice \/ (adds /\ \E o \in mine : o.freed))

\* No slash apart.
Same(segs, path) == FlattenSeq(segs) = HashPath(path) => segs = Segments(path)

handle_request(req, reply) ==
    LET k == GetResource(req.segs)
        res == rs_list[k]
        known == HashRequest(req.segs) = HashRequest(WellKnown)
    IN  /\ (\A j \in DOMAIN rs_list : Same(req.segs, rs_list[j].path)) \/ "collide" \in RsUnusual
        /\ rs_request' = req
        /\ IF k # 0 /\ req.method \in res.methods THEN CallHandler(res, req, reply)
           ELSE IF known /\ req.method = "GET" THEN NoHandler(req, "list")
           ELSE IF known \/ k # 0 THEN NoHandler(req, "4.05")
           ELSE NoHandler(req, "4.04")
        /\ UNCHANGED <<rs_platform, rs_list>>

\* The request is done with.
NextRequest ==
    /\ rs_request # NoRequestYet
    /\ rs_request' = NoRequestYet /\ rs_called' = NoCall /\ rs_answer' = Silence
    /\ UNCHANGED <<rs_platform, rs_list, rs_obs, rs_twice>>

\* A session that expires takes its observations with it (coap_delete_observers).
SessionEnds(s) ==
    /\ rs_request = NoRequestYet
    /\ rs_obs' = {o \in rs_obs : o.s # s}
    /\ UNCHANGED <<rs_platform, rs_list, rs_twice, rs_request, rs_called, rs_answer>>

\* os_coap_destroy_server, coap_delete_all_resources, and a new server.
DestroyResources ==
    /\ rs_request = NoRequestYet
    /\ rs_list' = <<>> /\ rs_obs' = {}
    /\ UNCHANGED <<rs_platform, rs_twice, rs_request, rs_called, rs_answer>>

Request == {req \in [s : RsSessions, segs : RsRequests, method : Methods, con : BOOLEAN, token : RsTokens,
                     observe : {"no", "register", "cancel"}] : req.method # "GET" => req.observe = "no"}

RsNext ==
    \/ \E path \in RsPaths, m \in {Methods, {"POST", "PUT"}}, o \in BOOLEAN : InitResource(path, m, o)
    \/ rs_request = NoRequestYet /\ \E req \in Request, reply \in Replies : handle_request(req, reply)
    \/ \E s \in RsSessions : SessionEnds(s)
    \/ NextRequest \/ DestroyResources

-----------------------------------------------------------------------------
\* A request calls the callback that the newest resource with exactly its path
\* has for its method, or gets 4.04 or 4.05; what the callback replies is what
\* the client gets, under its token, and a confirmable request always gets an
\* answer.  A client is told in a good answer that it observes a resource if
\* and only if it does, once for a token, and no query is freed twice.
RequestsReach ==
    LET req == rs_request
        named == {k \in DOMAIN rs_list : Segments(rs_list[k].path) = req.segs}
        newest == CHOOSE k \in named : \A j \in named : k <= j
        serves == named # {} /\ req.method \in rs_list[newest].methods
    IN  /\ req # NoRequestYet =>
              /\ rs_called.r = (IF serves THEN rs_list[newest].id ELSE 0)
              /\ serves => /\ rs_called.method = req.method
                           /\ (req.con \/ rs_called.reply # "0") => rs_answer.code = rs_called.reply
              /\ ~serves => rs_answer.code = (IF req.segs = WellKnown /\ req.method = "GET" THEN "list"
                                              ELSE IF req.segs = WellKnown \/ named # {} THEN "4.05" ELSE "4.04")
              /\ req.con => rs_answer # Silence
              /\ rs_answer.code \notin {"none", "0"} => rs_answer.token = req.token
              /\ (serves /\ rs_answer.code = "2.05") =>
                    (rs_answer.observe <=> \E o \in rs_obs : o.r = rs_called.r /\ o.s = req.s /\ o.token = req.token)
        /\ \A o, p \in rs_obs : (o.r = p.r /\ o.s = p.s /\ o.token = p.token) => o = p
        /\ ~rs_twice

-----------------------------------------------------------------------------
(***************************************************************************)
(* What a CoAP server of TizenRT answers to a GET of .well-known/core: the *)
(* links of its resources, or of those a query selects, whole or in blocks *)
(* (coap/tizenrt/coap.c, coap_resource.c), and a client that asks for      *)
(* block after block.                                                      *)
(*                                                                         *)
(* Text is a sequence of symbols.  A resource has a path, attributes and a *)
(* flag; a query has the name of an attribute, or href, and a pattern that *)
(* may end in a star (prefix).  The smallest block has 2^WkShift symbols.  *)
(***************************************************************************)

CONSTANTS WkServers,     \* lists of resources
          WkQueries,     \* queries, and NoQuery
          WkShift,       \* 4
          WkMaxSzx,      \* COAP_MAX_BLOCK_SZX, 6
          WkChunk,       \* REST_MAX_CHUNK_SIZE
          WkOverhead     \* what a block leaves free of a chunk, 4

NoQuery == [name |-> <<>>, pattern |-> <<>>, prefix |-> FALSE]
NoAnswer == [code |-> "none", num |-> 0, more |-> FALSE, szx |-> 0, payload |-> <<>>]

VARIABLES wk_resources, wk_query,
          wk_answer,     \* the latest answer
          wk_got,        \* the payloads the client has put together
          wk_whole       \* the client has asked without a block

wkvars == <<wk_resources, wk_query, wk_answer, wk_got, wk_whole>>

WkInit ==
    /\ wk_resources \in WkServers
    /\ wk_query \in WkQueries \cup {NoQuery}
    /\ wk_answer = NoAnswer
    /\ wk_got = <<>>
    /\ wk_whole \in BOOLEAN

-----------------------------------------------------------------------------
(* Selection of resources *)

\* memcmp at position i of the text; what follows the text is a quote or the
\* end of a string, which no pattern has.
SameAt(text, i, pattern) ==
    /\ i + Len(pattern) - 1 <= Len(text)
    /\ \A k \in DOMAIN pattern : text[i + k - 1] = pattern[k]

\* Where the tokens of a text begin, and how long one is.
TokenStarts(text) == {1} \cup {i \in 2 .. Len(text) : text[i - 1] = " "}

TokenLength(text, i) ==
    Min({k \in i .. Len(text) : text[k] = " "} \cup {Len(text) + 1}) - i

match(text, pattern, match_prefix, match_substring) ==
    /\ Len(text) >= Len(pattern)
    /\ IF match_substring
       THEN \E i \in TokenStarts(text) :
               /\ match_prefix \/ Len(pattern) = TokenLength(text, i)
               /\ SameAt(text, i, pattern)
       ELSE /\ match_prefix \/ Len(pattern) = Len(text)
            /\ SameAt(text, 1, pattern)

Find(resource, name) == SelectSeq(resource.attrs, LAMBDA a : a.name = name)

\* The part of coap_print_wellknown that passes over resources: href is
\* compared with the path, and rt, if and rel are lists of words.
Selected(resource, query) ==
    IF query = NoQuery THEN TRUE
    ELSE IF query.name = <<"href">> THEN match(resource.uri, query.pattern, query.prefix, FALSE)
    ELSE LET found == Find(resource, query.name)
         IN  /\ found # <<>>
             /\ match(found[1].value, query.pattern, query.prefix,
                      query.name \in {<<"rt">>, <<"if">>, <<"rel">>})

-----------------------------------------------------------------------------
(* Printing a window of the text *)

\* PRINT_COND_WITH_OFFSET: a symbol is skipped, written or only counted.
PrintSymbol(p, symbol) ==
    [p EXCEPT !.written = @ + 1,
              !.out = IF Len(p.out) < p.room /\ p.offset = 0 THEN Append(@, symbol) ELSE @,
              !.offset = IF Len(p.out) < p.room /\ @ > 0 THEN @ - 1 ELSE @]

PrintText(p, text) == FoldLeft(PrintSymbol, p, text)

\* An attribute; one without a value has a name only.
Attribute(a) == <<";">> \o a.name \o (IF a.value = <<>> THEN <<>> ELSE <<"=">> \o a.value)

Attributes(resource) ==
    FlattenSeq([i \in DOMAIN resource.attrs |-> Attribute(resource.attrs[i])])

artik_coap_print_link(p, resource) ==
    PrintText(p, <<"<", "/">> \o resource.uri \o <<">">> \o Attributes(resource)
             \o (IF resource.observable THEN <<";obs">> ELSE <<>>))

MutPrintNext(p, resource) == artik_coap_print_link(p, resource)

\* A link after the first one is preceded by a comma.
PrintNext(p, resource) ==
    artik_coap_print_link(IF p.written = 0 THEN p ELSE PrintSymbol(p, ","), resource)

coap_print_wellknown(room, offset) ==
    FoldLeft(PrintNext, [out |-> <<>>, room |-> room, offset |-> offset, written |-> 0],
             SelectSeq(wk_resources, LAMBDA r : Selected(r, wk_query)))

get_wkc_len == coap_print_wellknown(0, 0).written

-----------------------------------------------------------------------------
(* The answer *)

Bytes(szx) == 2^(szx + WkShift)
LesserOf(a, b) == IF a < b THEN a ELSE b

\* flsll: the number of the highest bit.
flsll(mask) == Max({k \in 1 .. mask : 2^(k - 1) <= mask} \cup {0})

CodeOnly(code) == [NoAnswer EXCEPT !.code = code]

\* The block option of the answer: a block that is too large for a chunk is
\* cut, if it would not be the last one.
BlockOf(num, szx, len) ==
    LET start == num * Bytes(szx)
        avail == WkChunk - WkOverhead
        cut == flsll(avail) - (WkShift + 1)
    IN  IF Bytes(szx) <= avail THEN [num |-> num, szx |-> szx, more |-> Bytes(szx) < len - start]
        ELSE IF len - start <= avail THEN [num |-> num, szx |-> szx, more |-> FALSE]
        ELSE [num |-> num * 2^(szx - cut), szx |-> cut, more |-> TRUE]

\* The payload has len bytes; those that are not printed are undefined.
Payload(len, offset) ==
    LET out == coap_print_wellknown(len, offset).out
    IN  [i \in 1 .. len |-> IF i <= Len(out) THEN out[i] ELSE "undefined"]

coap_wellknown_response(block, num, szx) ==
    LET len == get_wkc_len
        b == BlockOf(num, szx, len)
        size == LesserOf(len - b.num * Bytes(b.szx), Bytes(b.szx))
    IN  IF len = 0 THEN CodeOnly("4.00")
        ELSE IF len > WkChunk THEN CodeOnly("5.03")
        ELSE IF ~block THEN [code |-> "2.05", num |-> 0, more |-> FALSE, szx |-> 0, payload |-> Payload(len, 0)]
        ELSE IF szx > WkMaxSzx THEN CodeOnly("4.00")
        ELSE IF len <= num * Bytes(szx) THEN CodeOnly("5.03")
        ELSE [code |-> "2.05", num |-> b.num, more |-> b.more, szx |-> b.szx,
              payload |-> Payload(size, num * Bytes(szx))]

-----------------------------------------------------------------------------
(* A client *)

Takes(answer) ==
    /\ wk_answer' = answer
    /\ wk_got' = wk_got \o answer.payload
    /\ UNCHANGED <<wk_resources, wk_query, wk_whole>>

\* The first request, for everything or for a block of a size, and the
\* following ones as message_handler makes them.
AskFirst(szx) ==
    /\ wk_answer = NoAnswer
    /\ Takes(coap_wellknown_response(~wk_whole, 0, szx))

AskNext ==
    /\ wk_answer.more
    /\ Takes(coap_wellknown_response(TRUE, wk_answer.num + 1, wk_answer.szx))

WkNext == AskNext \/ \E szx \in 0 .. WkMaxSzx + 1 : AskFirst(szx)

-----------------------------------------------------------------------------
\* The words of a text, and whether the query is for one of them.
Words(text) == {SubSeq(text, i, i + TokenLength(text, i) - 1) : i \in TokenStarts(text)}

Wanted(resource) ==
    LET fits(word) == IF wk_query.prefix THEN IsPrefix(wk_query.pattern, word) ELSE word = wk_query.pattern
        values == {resource.attrs[i].value : i \in {j \in DOMAIN resource.attrs :
                                                     resource.attrs[j].name = wk_query.name}}
    IN  \/ wk_query = NoQuery
        \/ wk_query.name = <<"href">> /\ fits(resource.uri)
        \/ \E v \in values : IF wk_query.name \in {<<"rt">>, <<"if">>, <<"rel">>}
                             THEN \E word \in Words(v) : fits(word) ELSE fits(v)

LinkText(r) == <<"<", "/">> \o r.uri \o <<">">> \o Attributes(r) \o (IF r.observable THEN <<";obs">> ELSE <<>>)

Listing ==
    LET links == SelectSeq(wk_resources, Wanted)
    IN  FlattenSeq([i \in DOMAIN links |-> (IF i = 1 THEN <<>> ELSE <<",">>) \o LinkText(links[i])])

\* A client that asks for the list of resources whole, or in blocks of any
\* size, and goes on until there are no more, gets the links of exactly the
\* resources its query selects, without a gap or a repetition between two
\* blocks, also where the server has cut the block it was asked for; it is
\* refused only an empty list, one larger than a chunk, or blocks too large.
BlocksJoin ==
    /\ wk_answer.code = "2.05" =>
          /\ IsPrefix(wk_got, Listing)
          /\ ~wk_answer.more => wk_got = Listing
    /\ wk_answer.code = "5.03" => Len(Listing) > WkChunk
    /\ wk_answer.code = "4.00" => Listing = <<>> \/ wk_got = <<>>
=============================================================================
