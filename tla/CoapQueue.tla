------------------------------ MODULE CoapQueue ------------------------------
(***************************************************************************)
(* The send queue of the TizenRT CoAP library (coap/tizenrt/coap.c): the   *)
(* confirmable messages that wait for an acknowledgement.  The queue is a  *)
(* list of nodes whose field t is relative: the first one counts from      *)
(* sendqueue_basetime, each other one from its predecessor.                *)
(*                                                                         *)
(* The field due of a node is history: the time that was asked for.        *)
(* cancelled is history too: the queue has lost a node by a cancellation   *)
(* since it was last empty.                                                *)
(***************************************************************************)
EXTENDS Naturals, Sequences, FiniteSets, Functions

CONSTANTS QIds,          \* message ids
          QSessions,     \* sessions
          QTokens,       \* tokens
          Timeouts,      \* values of calc_timeout, in ticks
          MaxRetransmit, \* retransmissions before a message is given up
          MaxTime        \* bound of the clock

ASSUME QueueAssumption == /\ Timeouts \subseteq Nat \ {0}
                          /\ MaxRetransmit \in Nat
                          /\ MaxTime \in Nat

VARIABLES sendqueue, basetime, now, cancelled

qvars == <<sendqueue, basetime, now, cancelled>>

QNodes == [id : QIds, s : QSessions, tok : QTokens, timeout : Timeouts,
           cnt : Nat, t : Nat, due : Nat]

QInit == /\ sendqueue = <<>>
         /\ basetime = 0
         /\ now = 0
         /\ cancelled = FALSE

-----------------------------------------------------------------------------
(* The list *)

\* The time from basetime to node i.
Offset(q, i) ==
    LET sum[k \in 0 .. Len(q)] == IF k = 0 THEN 0 ELSE sum[k - 1] + q[k].t
    IN  sum[i]

\* The walk stops before the first node that is later than the new one, which
\* takes its distance from its successor.
InsertNode(q, n) ==
    LET k == Cardinality({i \in 1 .. Len(q) : Offset(q, i) <= n.t})
        d == n.t - Offset(q, k)
    IN  [j \in 1 .. Len(q) + 1 |->
            IF j <= k THEN q[j]
            ELSE IF j = k + 1 THEN [n EXCEPT !.t = d]
            ELSE IF j = k + 2 THEN [q[j - 1] EXCEPT !.t = @ - d]
            ELSE q[j - 1]]

MutUnlink(q, k) == [j \in 1 .. Len(q) - 1 |-> IF j < k THEN q[j] ELSE q[j + 1]]

\* Unlinks node k and gives its time to its successor.
Unlink(q, k) ==
    [j \in 1 .. Len(q) - 1 |->
        IF j < k THEN q[j]
        ELSE IF j = k THEN [q[k + 1] EXCEPT !.t = @ + q[k].t]
        ELSE q[j + 1]]

\* The position at which artik_coap_remove_from_queue stops, 0 if it finds
\* nothing: the first node is compared with session and id, the others with
\* session or id.
Found(q, s, i) ==
    LET rest == {k \in 2 .. Len(q) : q[k].s = s \/ q[k].id = i}
    IN  IF q # <<>> /\ q[1].s = s /\ q[1].id = i THEN 1
        ELSE IF rest = {} THEN 0
        ELSE CHOOSE k \in rest : \A l \in rest : k <= l

\* Cancelled nodes are unlinked without a correction of their successors (a set
\* of one queue).
CancelAll(q, s, tok) ==
    LET kept == {k \in DOMAIN q : ~(q[k].s = s /\ q[k].tok = tok)}
        places == {at \in [1 .. Cardinality(kept) -> kept] :
                     /\ Range(at) = kept
                     /\ \A i, j \in DOMAIN at : i < j => at[i] < at[j]}
    IN  {[i \in DOMAIN at |-> q[at[i]]] : at \in places}

\* 1 << c, the factor of the timeout before retransmission c.
Backoff[c \in 0 .. MaxRetransmit] == IF c = 0 THEN 1 ELSE 2 * Backoff[c - 1]

-----------------------------------------------------------------------------
(* Operations *)

Queued == {sendqueue[k].id : k \in DOMAIN sendqueue}

\* t of a node that is inserted now with the given delay, and the base it is
\* relative to.
Schedule(q, n, delay) ==
    /\ sendqueue' = InsertNode(q, [n EXCEPT
                        !.t = IF q = <<>> THEN delay ELSE now - basetime + delay,
                        !.due = now + delay])
    /\ basetime' = IF q = <<>> THEN now ELSE basetime
    /\ cancelled' = (q # <<>> /\ cancelled)

\* artik_coap_send of a confirmable message, coap_wait_ack.
WaitAck(i, s, tok, timeout) ==
    /\ i \notin Queued
    /\ Schedule(sendqueue, [id |-> i, s |-> s, tok |-> tok, timeout |-> timeout,
                            cnt |-> 0, t |-> 0, due |-> 0], timeout)
    /\ UNCHANGED now

\* coap_write pops the first node when its time has come.
Retransmit ==
    /\ sendqueue # <<>>
    /\ sendqueue[1].t <= now - basetime
    /\ LET n == sendqueue[1]
           q == Unlink(sendqueue, 1)
       IN  IF n.cnt < MaxRetransmit
           THEN Schedule(q, [n EXCEPT !.cnt = @ + 1], n.timeout * Backoff[n.cnt + 1])
           ELSE /\ sendqueue' = q
                /\ UNCHANGED <<basetime, cancelled>>
    /\ UNCHANGED now

\* An acknowledgement or a reset of message i of session s.
RemoveFromQueue(s, i) ==
    /\ Found(sendqueue, s, i) # 0
    /\ sendqueue' = Unlink(sendqueue, Found(sendqueue, s, i))
    /\ UNCHANGED <<basetime, now, cancelled>>

\* A response with the token arrives, or its observation ends.
CancelAllMessages(s, tok) ==
    /\ \E k \in DOMAIN sendqueue : sendqueue[k].s = s /\ sendqueue[k].tok = tok
    /\ sendqueue' \in CancelAll(sendqueue, s, tok)
    /\ cancelled' = TRUE
    /\ UNCHANGED <<basetime, now>>

\* Time passes.  The service thread runs at least every 10 ms: nothing that is
\* due waits for longer than the run that is in progress.
Tick ==
    /\ now < MaxTime
    /\ sendqueue # <<>> => sendqueue[1].t > now - basetime
    /\ now' = now + 1
    /\ UNCHANGED <<sendqueue, basetime, cancelled>>

QNext == \/ \E i \in QIds, s \in QSessions, tok \in QTokens, d \in Timeouts :
                WaitAck(i, s, tok, d)
         \/ Retransmit
         \/ \E i \in QIds, s \in QSessions : RemoveFromQueue(s, i)
         \/ \E s \in QSessions, tok \in QTokens : CancelAllMessages(s, tok)
         \/ Tick

QSpec == QInit /\ [][QNext]_qvars

-----------------------------------------------------------------------------

\* The relative times of the list add up to the times that were asked for, and
\* the first node, the only one coap_write looks at, is due first, as long as
\* nothing was cancelled; after a cancellation, whose nodes take their share of
\* the time with them, messages are only retransmitted too early.
OnTime ==
    \A k \in DOMAIN sendqueue :
        LET at == basetime + Offset(sendqueue, k)
        IN  /\ at <= sendqueue[k].due
            /\ ~cancelled => /\ at = sendqueue[k].due
                             /\ sendqueue[1].due <= sendqueue[k].due
=============================================================================
