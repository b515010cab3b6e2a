----------------------------- MODULE CoapMessages -----------------------------
\* What a CoAP message is made of: its options, on both platforms, and what
\* a client of TizenRT keeps of a request for the requests that continue it.
EXTENDS Integers, Sequences, SequencesExt

-----------------------------------------------------------------------------
(***************************************************************************)
(* The options of a CoAP message on their way from an application into a   *)
(* packet and out of a packet to an application: add_options and           *)
(* get_options of both platforms (coap/linux/linux_coap.c,                 *)
(* coap/tizenrt/tizenrt_coap.c).                                           *)
(*                                                                         *)
(* Text is a sequence of parts, what stands between two separators; <<>>   *)
(* is a text of separators only.  A number is a sequence of bytes, the     *)
(* most significant one first, <<>> if the application gives no data; it   *)
(* is reported as an integer in the order of the machine.  Block2, which   *)
(* the block transfers of the handles set, is left out.  The packets of    *)
(* the libraries are external.                                             *)
(***************************************************************************)

CONSTANTS CoTexts,        \* data of textual options
          CoNumbers,      \* data of numeric options
          CoByte,         \* how many values a byte has, two hundred and fifty-six
          CoMaxOptions,   \* bound of the number of options of a message
          CoUnusual       \* "separators": a query of separators only
                          \* "accept": an application of TizenRT gives the option
                          \*   accept, which its get_options does not report

VARIABLES co_platform,    \* "linux" or "tizenrt"
          co_options,     \* the options the application gives
          co_observe,     \* the flag observe of add_options
          co_asked,       \* the flag observe of get_options
          co_packet,      \* the options of the packet, in the form of the platform
          co_reported,    \* what get_options returns
          co_phase        \* "given", "packed", "refused", "reported"

covars == <<co_platform, co_options, co_observe, co_asked, co_packet, co_reported, co_phase>>

SingleTexts == {"if_match", "uri_host", "etag", "proxy_uri", "proxy_scheme"}
MultiTexts == {"location_path", "uri_path", "uri_query"}
Texts == SingleTexts \cup MultiTexts \cup {"location_query"}
Shorts == {"uri_port", "content_format", "accept"}
Numbers == Shorts \cup {"maxage", "size1", "observe"}
OptionKeys == Texts \cup Numbers \cup {"if_none_match"}

Blank == [key |-> "none", data |-> <<>>]

DataOf(key) ==
    IF key \in Numbers THEN CoNumbers
    ELSE IF key = "if_none_match" THEN {<<>>}
    ELSE IF key = "location_query" /\ "separators" \in CoUnusual THEN CoTexts \cup {<<>>}
    ELSE CoTexts

Options == UNION {[key : {key}, data : DataOf(key)] : key \in OptionKeys}

-----------------------------------------------------------------------------
(* Numbers *)

Byte(val, k) == (val \div CoByte^k) % CoByte

\* memcpy of the data into an unsigned int on a little-endian machine.
Loaded(bytes) == FoldRight(LAMBDA b, val : val * CoByte + b, bytes, 0)

MutSwapBytes(val, length) == IF length \in {0, 1} THEN val ELSE Byte(val, 1) + CoByte * Byte(val, 0)

swap_bytes(val, length) ==
    CASE length \in {0, 1} -> val
      [] length = 2 -> Byte(val, 1) + CoByte * Byte(val, 0)
      [] length = 3 -> Byte(val, 2) + CoByte * Byte(val, 1) + CoByte^2 * Byte(val, 0)
      [] OTHER -> Byte(val, 3) + CoByte * Byte(val, 2) + CoByte^2 * Byte(val, 1) + CoByte^3 * Byte(val, 0)

Value(bytes) == swap_bytes(Loaded(bytes), Len(bytes))

\* The width the packet gives a number on TizenRT.
Width(key) == IF key \in Shorts THEN CoByte^2 ELSE CoByte^4

OptionsOf(list, key) == SelectSeq(list, LAMBDA o : o.key = key)

-----------------------------------------------------------------------------
(* Linux: the packet is the list of its options, sorted by their numbers *)

OptionOrder == <<"if_match", "uri_host", "etag", "if_none_match", "observe", "uri_port",
                "location_path", "uri_path", "content_format", "maxage", "uri_query",
                "accept", "location_query", "proxy_uri", "proxy_scheme", "size1">>

\* add_options refuses a list with such an option.
UnsetNumber(list) == \E i \in DOMAIN list : list[i].key \in {"uri_port", "size1"} /\ list[i].data = <<>>

\* new_option_node of option o: observe is written without data, and a
\* maximal age that is not given is a minute.
OptionNode(o) ==
    [o EXCEPT !.data = IF o.key = "observe" THEN <<>>
                       ELSE IF o.key = "maxage" /\ @ = <<>> THEN <<60>> ELSE @]

\* order_opts, by which libcoap sorts the list; the sort is stable.
LinuxSorted(list) == FlattenSeq([i \in DOMAIN OptionOrder |-> OptionsOf(list, OptionOrder[i])])

LinuxAdd(list, observe) ==
    LET kept == SelectSeq(list, LAMBDA o : o.key = "observe" => observe)
    IN  LinuxSorted([i \in DOMAIN kept |-> OptionNode(kept[i])])

\* One option as the application gets it.
LinuxEntry(o) ==
    [o EXCEPT !.data = IF o.key \in Numbers /\ @ # <<>> THEN <<Value(@)>> ELSE @]

\* All options are counted; the last places stay blank for those left out.
LinuxGet(packet, observe) ==
    LET kept == SelectSeq(packet, LAMBDA o : o.key = "observe" => observe)
    IN  [i \in DOMAIN packet |-> IF i <= Len(kept) THEN LinuxEntry(kept[i]) ELSE Blank]

-----------------------------------------------------------------------------
(* TizenRT: the packet has a field per option, filled by the last option of a  *)
(* kind, except for paths and queries, which are joined and split again        *)

Joined(list, key) == FlattenSeq([i \in DOMAIN OptionsOf(list, key) |-> OptionsOf(list, key)[i].data])

Field(list, key) ==
    IF key \in MultiTexts \cup {"location_query"} THEN Joined(list, key)
    ELSE IF key \in Numbers THEN <<Value(Last(OptionsOf(list, key)).data) % Width(key)>>
    ELSE Last(OptionsOf(list, key)).data

Present(list, observe) ==
    {key \in OptionKeys : OptionsOf(list, key) # <<>> /\ (key = "observe" => observe)}

TizenRtAdd(list, observe) == [key \in Present(list, observe) |-> Field(list, key)]

MutNumberOptions(packet, key) == IF key \in DOMAIN packet THEN 1 ELSE 0

\* get_number_options: how many entries an option of the packet has.
NumberOptions(packet, key) ==
    IF key \notin DOMAIN packet THEN 0
    ELSE IF key \in MultiTexts \cup {"location_query"} THEN Len(packet[key])
    ELSE 1

\* What get_options writes for an option: a text as it is ...
TextEntry(packet, key) == [key |-> key, data |-> packet[key]]

\* ... the observe option only for those who ask, in a place of its own ...
ObserveEntry(packet, observe) == IF observe THEN TextEntry(packet, "observe") ELSE Blank

\* ... the parts of a path one by one ...
PartEntries(packet, key) == [i \in DOMAIN packet[key] |-> [key |-> key, data |-> <<packet[key][i]>>]]

\* ... for accept the first bytes of a pointer, for which -1 stands ...
AcceptEntry == [key |-> "accept", data |-> <<-1>>]

\* ... and a query without a part as one entry.
QueryEntries(packet, key) ==
    IF packet[key] = <<>> THEN <<TextEntry(packet, key)>> ELSE PartEntries(packet, key)

TizenRtEntries(packet, key, observe) ==
    IF key \notin DOMAIN packet THEN <<>>
    ELSE CASE key = "observe" -> <<ObserveEntry(packet, observe)>>
           [] key = "accept" -> <<AcceptEntry>>
           [] key = "location_query" -> QueryEntries(packet, key)
           [] key \in MultiTexts -> PartEntries(packet, key)
           [] OTHER -> <<TextEntry(packet, key)>>

\* The fields are visited in the order of their numbers.  The array has as many
\* places as were counted; what does not fit is left out.
TizenRtGet(packet, observe) ==
    LET number == FoldLeft(LAMBDA sum, key : sum + NumberOptions(packet, key), 0, OptionOrder)
        entries == FlattenSeq([i \in DOMAIN OptionOrder |->
                                  TizenRtEntries(packet, OptionOrder[i], observe)])
    IN  [i \in 1 .. number |-> IF i <= Len(entries) THEN entries[i] ELSE Blank]

-----------------------------------------------------------------------------

CoInit ==
    /\ co_platform \in {"linux", "tizenrt"}
    /\ co_options \in UNION {[1 .. n -> Options] : n \in 1 .. CoMaxOptions}
    /\ \/ co_platform = "linux" \/ "accept" \in CoUnusual
       \/ OptionsOf(co_options, "accept") = <<>>
    /\ co_observe \in BOOLEAN /\ co_asked = FALSE
    /\ co_packet = <<>> /\ co_reported = <<>> /\ co_phase = "given"

AddOptions ==
    /\ co_phase = "given"
    /\ IF co_platform = "linux" /\ UnsetNumber(co_options)
       THEN co_phase' = "refused" /\ UNCHANGED co_packet
       ELSE /\ co_phase' = "packed"
            /\ co_packet' = IF co_platform = "linux" THEN LinuxAdd(co_options, co_observe)
                            ELSE TizenRtAdd(co_options, co_observe)
    /\ UNCHANGED <<co_platform, co_options, co_observe, co_asked, co_reported>>

\* The other side may ask for the observe option or not.
GetOptions(observe) ==
    /\ co_phase = "packed"
    /\ co_phase' = "reported" /\ co_asked' = observe
    /\ co_reported' = IF co_platform = "linux" THEN LinuxGet(co_packet, observe)
                      ELSE TizenRtGet(co_packet, observe)
    /\ UNCHANGED <<co_platform, co_options, co_observe, co_packet>>

CoNext == AddOptions \/ \E observe \in BOOLEAN : GetOptions(observe)

-----------------------------------------------------------------------------
\* The number bytes stand for, written down without the machine's order.
NumberOf(bytes) == FoldLeft(LAMBDA val, b : val * CoByte + b, 0, bytes)

\* The last option of a list, if there is one.
LastOnly(list) == IF list = <<>> THEN <<>> ELSE <<Last(list)>>

\* What the receiver may expect of the options with a key: all of them on
\* Linux, on TizenRT the last one, or all parts of a path or query.  The observe
\* option arrives if the sender sends it and the receiver asks for it; Linux
\* sends it without its data.
Expected(key) ==
    LET given == IF key = "observe" /\ ~(co_observe /\ co_asked) THEN <<>>
                 ELSE OptionsOf(co_options, key)
        list == IF co_platform = "linux" \/ key \in MultiTexts \cup {"location_query"}
                THEN given ELSE LastOnly(given)
        data == [i \in DOMAIN list |->
                    IF key = "observe" /\ co_platform = "linux" THEN <<>>
                    ELSE IF key \notin Numbers THEN list[i].data
                    ELSE IF list[i].data # <<>>
                         THEN <<NumberOf(list[i].data) % (IF co_platform = "linux" THEN CoByte^4 ELSE Width(key))>>
                    ELSE IF co_platform = "tizenrt" THEN <<0>>
                    ELSE IF key = "maxage" THEN <<60>> ELSE <<>>]
    IN  IF co_platform = "tizenrt" THEN FlattenSeq(data) ELSE data

\* The places that may stay blank: one for every observe option that was sent to
\* a receiver who did not ask for it.
Blanks ==
    IF co_asked \/ ~co_observe THEN 0
    ELSE LET given == OptionsOf(co_options, "observe")
         IN  Len(IF co_platform = "linux" THEN given ELSE LastOnly(given))

\* Every option the application gives arrives, whatever its key, with its data,
\* the number it stands for and its place among the options of the same key,
\* through the sort, the joined and split texts and the two passes of get_options,
\* which count and write the entries; none is cut off by the count, and no place
\* is blank but that of an observe option that was not asked for.  Two options are
\* known to lose their data: observe on Linux, whose add_options writes it without,
\* and accept on TizenRT, whose get_options reports the first bytes of a pointer in
\* its place; the former is expected to arrive empty (Expected), and the latter is
\* not given unless "accept" is in CoUnusual, which violates the property.
OptionsArrive ==
    co_phase = "reported" =>
      /\ \A key \in OptionKeys :
            LET got == OptionsOf(co_reported, key)
            IN  (IF co_platform = "linux" THEN [i \in DOMAIN got |-> got[i].data]
                 ELSE FlattenSeq([i \in DOMAIN got |-> got[i].data])) = Expected(key)
      /\ Len(OptionsOf(co_reported, "none")) = Blanks

-----------------------------------------------------------------------------
(***************************************************************************)
(* How a CoAP client of TizenRT builds its requests                        *)
(* (coap/tizenrt/tizenrt_coap.c): path, query and options of the latest    *)
(* request stay in the handle, for the requests of the following blocks    *)
(* that message_handler makes, until a response without a block or with    *)
(* the last one.                                                           *)
(*                                                                         *)
(* What the application asks for is a record of path, query, method and of *)
(* the options it gives: a path, a query or another one (No: absent).  The *)
(* service thread handles responses while no call is made.                 *)
(***************************************************************************)

CONSTANTS RqPaths,      \* resources
          RqUnusual     \* "options": path or query are given as options
                        \* "mixed": a request or a notification comes between the
                        \*   blocks of a response
                        \* "uncalled": requests without a send callback

No == "no"

VARIABLES rq_path,      \* node->interface.uri_path, No for NULL
          rq_query,     \* node->interface.uri_query
          rq_options,   \* node->interface.coap_options: a record, or NoOptions
          rq_use,       \* which of use_uri_path, use_uri_query are set
          rq_method,    \* node->interface.method and msg_type
          rq_callback,  \* send_cb is set
          rq_asked,     \* what the exchange in progress is about
          rq_packet,    \* the request that was sent last
          rq_block      \* "none", "more": a response with more blocks was handled

rqvars == <<rq_path, rq_query, rq_options, rq_use, rq_method, rq_callback, rq_asked, rq_packet, rq_block>>

NoOptions == [path |-> No, query |-> No, other |-> No]

Asks == [path : RqPaths, query : {No, "q"}, method : {"get", "put", "observe", "cancel"},
         options : [path : {No, "opt"}, query : {No, "optq"}, other : {No, "x"}]]

NoExchange == [path |-> No, query |-> No, method |-> No, options |-> NoOptions]

RqInit ==
    /\ rq_path = No /\ rq_query = No
    /\ rq_options = NoOptions /\ rq_use = {}
    /\ rq_method = No
    /\ rq_callback = FALSE
    /\ rq_asked = NoExchange /\ rq_packet = NoExchange
    /\ rq_block = "none"

-----------------------------------------------------------------------------

\* add_options: paths and queries among the options go to the packet and to
\* the handle, which from now on uses them.
UseOf(options) == {f \in {"path", "query"} : options[f] # No}

\* The handle's flags are never reset.
UseNow(a) == rq_use \cup UseOf(a.options)

\* What stands in the packet for the path and the query the application gave.
PathSent(a) == IF a.options.path # No THEN a.options.path
               ELSE IF "path" \in UseNow(a) THEN No ELSE a.path

QuerySent(a) == IF a.options.query # No THEN a.options.query
                ELSE IF UseNow(a) \cap {"path", "query"} # {} THEN No ELSE a.query

\* The handle's copies: the strings of the options, or those of the call.
PathKept(a) == IF PathSent(a) = No THEN rq_path ELSE PathSent(a)
QueryKept(a) == IF QuerySent(a) = No THEN rq_query ELSE QuerySent(a)

Sends(a, packet) ==
    /\ rq_asked' = a
    /\ rq_packet' = packet
    /\ rq_block' = "none"

OneAtATime == /\ rq_asked # NoExchange => "mixed" \in RqUnusual
              /\ ~rq_callback => "uncalled" \in RqUnusual
Plain(a) == UseOf(a.options) # {} => "options" \in RqUnusual

\* os_coap_send_message: options that are given replace those of the handle.
RqSend(a) ==
    /\ a.method \in {"get", "put"}
    /\ OneAtATime /\ Plain(a)
    /\ rq_use' = UseNow(a)
    /\ rq_path' = PathKept(a) /\ rq_query' = QueryKept(a)
    /\ rq_options' = IF a.options = NoOptions THEN rq_options ELSE a.options
    /\ rq_method' = a.method
    /\ Sends(a, [path |-> PathSent(a), query |-> QuerySent(a), method |-> a.method, options |-> a.options])
    /\ UNCHANGED rq_callback

\* os_coap_observe: a GET that carries the observe option.
RqObserve(a) ==
    /\ a.method = "observe"
    /\ OneAtATime /\ Plain(a)
    /\ rq_use' = UseNow(a)
    /\ rq_path' = PathKept(a) /\ rq_query' = QueryKept(a)
    /\ rq_options' = IF a.options = NoOptions THEN rq_options ELSE a.options
    /\ rq_method' = "get"
    /\ Sends(a, [path |-> PathSent(a), query |-> QuerySent(a), method |-> "observe", options |-> a.options])
    /\ UNCHANGED rq_callback

\* os_coap_cancel_observe takes no options and drops what the handle has.
RqCancel(a) ==
    /\ a.method = "cancel" /\ a.options = NoOptions
    /\ OneAtATime
    /\ LET path == IF "path" \in rq_use THEN No ELSE a.path
           query == IF "path" \in rq_use THEN No ELSE a.query
       IN  /\ rq_path' = path /\ rq_query' = query
           /\ Sends(a, [path |-> path, query |-> query, method |-> "cancel", options |-> NoOptions])
    /\ rq_method' = "get"
    /\ UNCHANGED <<rq_options, rq_use, rq_callback>>

\* message_handler and nack_handler forget the request.
MutForget == /\ rq_path' = rq_path /\ rq_query' = No /\ rq_options' = rq_options

Forget == /\ rq_path' = No /\ rq_query' = No /\ rq_options' = NoOptions

\* A response with a block after which there are more: the next one is asked
\* for.  The options of the handle go through add_options again.
RqMore ==
    /\ rq_asked # NoExchange
    /\ LET path == IF rq_options.path # No THEN rq_options.path
                   ELSE IF "path" \in rq_use THEN No ELSE rq_path
           query == IF rq_options.query # No THEN rq_options.query
                    ELSE IF "query" \in rq_use THEN No ELSE rq_query
       IN  rq_packet' = [path |-> path, query |-> query, method |-> rq_method, options |-> rq_options]
    /\ rq_block' = "more"
    /\ UNCHANGED <<rq_path, rq_query, rq_options, rq_use, rq_method, rq_callback, rq_asked>>

\* A response with the last block or without one, perhaps a notification.
RqLast(notification) ==
    /\ notification => rq_block = "more" /\ "mixed" \in RqUnusual
    /\ rq_asked # NoExchange
    /\ IF rq_callback THEN Forget ELSE UNCHANGED <<rq_path, rq_query, rq_options>>
    /\ IF notification THEN UNCHANGED <<rq_asked, rq_block>>
       ELSE rq_asked' = NoExchange /\ rq_block' = "none"
    /\ UNCHANGED <<rq_use, rq_method, rq_callback, rq_packet>>

\* nack_handler after a reset, which does not end the connection.
RqReset ==
    /\ rq_asked # NoExchange
    /\ Forget
    /\ rq_asked' = NoExchange /\ rq_block' = "none"
    /\ UNCHANGED <<rq_use, rq_method, rq_callback, rq_packet>>

RqSetSendCallback(set) ==
    /\ set \/ rq_asked = NoExchange
    /\ rq_callback' = set
    /\ UNCHANGED <<rq_path, rq_query, rq_options, rq_use, rq_method, rq_asked, rq_packet, rq_block>>

RqNext ==
    \/ \E a \in Asks : RqSend(a) \/ RqObserve(a) \/ RqCancel(a)
    \/ RqMore \/ RqReset
    \/ \E set \in BOOLEAN : RqSetSendCallback(set)
    \/ \E notification \in BOOLEAN : RqLast(notification)

-----------------------------------------------------------------------------
\* The block requests of an observation are plain GETs.
Continued(method) == IF method \in {"observe", "cancel"} THEN "get" ELSE method

\* Every request, and every request for a further block of its response, goes
\* to the resource the application named, with its query, its options and its
\* method: nothing is left in the handle of the requests, resets and responses
\* before, and what is needed is there for every block.
TargetsKept ==
    rq_asked # NoExchange =>
        /\ rq_packet.path = IF "path" \in UseOf(rq_asked.options) THEN rq_asked.options.path
                             ELSE rq_asked.path
        /\ rq_packet.query = IF "query" \in UseOf(rq_asked.options) THEN rq_asked.options.query
                              ELSE rq_asked.query
        /\ rq_packet.options.other = rq_asked.options.other
        /\ rq_packet.method = IF rq_block = "more" THEN Continued(rq_asked.method) ELSE rq_asked.method
=============================================================================
