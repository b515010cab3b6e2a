-------------------------------- MODULE BtFtp --------------------------------
(***************************************************************************)
(* File transfers over Bluetooth on Linux (bluetooth/linux/ftp.c): calls   *)
(* of obexd's client over D-Bus, and the signals and answers that core.c   *)
(* and ftp.c make events of.                                               *)
(*                                                                         *)
(* obexd is external: it has sessions and transfers, handles calls in      *)
(* their order, and what it sends is handled in order.  Synchronous calls  *)
(* pass by what waits.  What the application was told of a transfer is     *)
(* ft_told; file names, sizes and listings are left out.                   *)
(***************************************************************************)
EXTENDS Naturals, Sequences, SequencesExt

CONSTANTS FtMax,          \* bound of the number of transfers
          FtMaxSessions,  \* bound of the number of sessions
          FtMaxIn,        \* bound of what waits
          FtUnusual       \* "retry": create_session after one that failed, or a second session,
                          \* "swift": the same before the end of the last one was handled,
                          \* "again": a transfer after one that was cancelled,
                          \* "crowd": a transfer while obexd still has one,
                          \* "hasty": a transfer before the end of the last one was heard,
                          \* "dropped": a suspended transfer fails,
                          \* "overlap": a call about a transfer before the last one was answered

ASSUME FtAssumption == FtMax \in Nat /\ FtMaxSessions \in Nat /\ FtMaxIn \in Nat

FtIds == 1 .. FtMax
FtEnds == {"complete", "error", "canceled"}
Ops == {"Resume", "Suspend", "Cancel"}

VARIABLES obexd_running,      \* obexd is a FtProcess
          obexd_start_stream, \* "null", "open", "closed": closed and not forgotten
          obexed_is_used,     \* obexd was found running
          ft_session,         \* session_path, 0 if empty
          ft_sessions,        \* how many sessions obexd was asked for
          ft_open,            \* obexd: the session it made last, 0 if it was removed
          ftp_state, ftp_req,
          ft_path,            \* transfer_property.object_path, 0 for NULL
          ft_status,          \* transfer_property.status
          ft_xfer,            \* obexd: the status of each transfer
          ft_calls,           \* calls that obexd has not handled
          ft_in,              \* signals and answers that the loop has not handled
          ft_told,            \* the status the application heard last of each transfer
          ft_fault            \* a stream was closed twice

ftvars == <<obexd_running, obexd_start_stream, obexed_is_used, ft_session, ft_sessions, ft_open, ftp_state,
            ftp_req, ft_path, ft_status, ft_xfer, ft_calls, ft_in, ft_told, ft_fault>>

FtProcess == <<obexd_running, obexd_start_stream, obexed_is_used, ft_fault>>
FtSessions == <<ft_session, ft_sessions, ft_open>>
FtProperty == <<ft_path, ft_status>>

FtInit ==
    /\ obexd_running \in BOOLEAN /\ obexd_start_stream = "null" /\ obexed_is_used = FALSE
    /\ ft_session = 0 /\ ft_sessions = 0 /\ ft_open = 0
    /\ ftp_state = "end" /\ ftp_req = "end" /\ ft_path = 0 /\ ft_status = "null"
    /\ ft_xfer = [t \in FtIds |-> "none"] /\ ft_calls = <<>> /\ ft_in = <<>>
    /\ ft_told = [t \in FtIds |-> "nothing"] /\ ft_fault = FALSE

Said(kind, t, val) == [kind |-> kind, id |-> t, val |-> val]
Waits(kind) == \E i \in DOMAIN ft_in : ft_in[i].kind = kind
Going(t) == ft_xfer[t] \in {"queued", "active", "suspended"}

-----------------------------------------------------------------------------
(* Sessions.                                                                *)

(* pclose of the stream: closing it twice is a fault.                       *)
Pclosed == IF obexd_start_stream = "null" THEN "null" ELSE "closed"

_call_exe ==
    /\ ft_fault' = (ft_fault \/ obexd_start_stream = "closed")
    /\ obexed_is_used' = obexd_running
    /\ obexd_start_stream' = IF obexd_running THEN Pclosed ELSE "open"
    /\ obexd_running' = TRUE

_destroy_exe ==
    IF obexed_is_used THEN UNCHANGED FtProcess
    ELSE /\ ft_fault' = (ft_fault \/ obexd_start_stream # "open")
         /\ obexd_start_stream' = "null" /\ obexd_running' = FALSE
         /\ UNCHANGED obexed_is_used

(* ok: obexd makes the session, the device being in reach.                  *)
bt_ftp_create_session(ok) ==
    /\ ft_sessions < FtMaxSessions
    /\ "swift" \in FtUnusual \/ ~ Waits("gone")
    /\ "retry" \in FtUnusual \/ (ft_session = 0 /\ obexd_start_stream = "null")
    /\ _call_exe
    /\ ft_sessions' = ft_sessions + 1
    /\ ft_session' = IF ok THEN ft_sessions + 1 ELSE ft_session
    /\ ft_open' = IF ok THEN ft_sessions + 1 ELSE ft_open
    /\ UNCHANGED <<ftp_state, ftp_req, FtProperty, ft_xfer, ft_calls, ft_in, ft_told>>

(* What obexd says of the end of a transfer.                                *)
EndOf(t, val) == <<Said("changed", t, val), Said("removed", t, val)>>

Answers(calls, val) == [i \in DOMAIN calls |-> Said(calls[i].kind, calls[i].id, val)]

(* The session goes with its transfers; a killed obexd leaves calls to be   *)
(* answered by the bus, with an error.                                      *)
bt_ftp_remove_session ==
    LET going == SetToSeq({t \in FtIds : Going(t)})
        ends == FlattenSeq([i \in DOMAIN going |-> EndOf(going[i], "error")])
        killed == ~ obexed_is_used IN
    /\ ft_session # 0
    /\ "dropped" \in FtUnusual \/ \A t \in FtIds : ft_xfer[t] # "suspended"
    /\ _destroy_exe
    /\ ft_xfer' = [t \in FtIds |-> IF Going(t) THEN "over" ELSE ft_xfer[t]]
    /\ ft_in' = ft_in \o ends \o <<Said("gone", 0, "null")>>
                \o (IF killed THEN Answers(ft_calls, "error") ELSE <<>>)
    /\ ft_calls' = IF killed THEN <<>> ELSE ft_calls
    /\ ft_session' = 0 /\ ft_open' = 0
    /\ UNCHANGED <<ft_sessions, ftp_state, ftp_req, FtProperty, ft_told>>

-----------------------------------------------------------------------------
(* Calls about transfers.                                                   *)

_check_status == ft_session # 0 /\ ftp_state # "canceling"

(* Whether a folder can be changed, made or listed, or a file deleted: each *)
(* of these calls waits for obexd's answer and keeps nothing.               *)
FolderCallPasses == _check_status /\ ft_path = 0

_fill_transfer_property(status) == ft_status' = status

_parse_transfer_property(t) == ft_path' = t /\ _fill_transfer_property("queued")

StartTransfer(t, req) ==
    /\ FolderCallPasses
    /\ ft_xfer[t] = "none" /\ \A u \in 1 .. t - 1 : ft_xfer[u] # "none"
    /\ "crowd" \in FtUnusual \/ ~ \E u \in FtIds : Going(u)
    /\ "hasty" \in FtUnusual \/ \A u \in 1 .. t - 1 : ft_told[u] \in FtEnds
    /\ "again" \in FtUnusual \/ ftp_state # "canceled"
    /\ Len(ft_in) < FtMaxIn
    /\ ft_xfer' = [ft_xfer EXCEPT ![t] = "queued"]
    /\ ft_in' = Append(ft_in, Said("added", t, "queued"))
    /\ ftp_req' = req
    /\ _parse_transfer_property(t)
    /\ UNCHANGED <<FtProcess, FtSessions, ftp_state, ft_calls, ft_told>>

bt_ftp_get_file(t) == StartTransfer(t, "get")
bt_ftp_put_file(t) == StartTransfer(t, "put")

FtCall(op, t) == ft_calls' = Append(ft_calls, Said(op, t, "call"))

CanCall ==
    /\ _check_status /\ ft_path # 0 /\ Len(ft_calls) < 2
    /\ "overlap" \in FtUnusual \/ (ft_calls = <<>> /\ \A op \in Ops : ~ Waits(op))

bt_ftp_resume_transfer ==
    /\ CanCall
    /\ FtCall("Resume", ft_path) /\ ftp_state' = "resuming"
    /\ UNCHANGED <<FtProcess, FtSessions, ftp_req, FtProperty, ft_xfer, ft_in, ft_told>>

bt_ftp_suspend_transfer ==
    /\ CanCall
    /\ FtCall("Suspend", ft_path) /\ ftp_state' = "suspending"
    /\ UNCHANGED <<FtProcess, FtSessions, ftp_req, FtProperty, ft_xfer, ft_in, ft_told>>

(* A suspended upload is resumed first.                                     *)
bt_ftp_cancel_transfer ==
    /\ CanCall
    /\ FtCall(IF ftp_req = "put" /\ ftp_state = "suspended" THEN "Resume" ELSE "Cancel", ft_path)
    /\ ftp_state' = "canceling" /\ ft_status' = "canceling"
    /\ ft_told' = [ft_told EXCEPT ![ft_path] = "canceling"]
    /\ UNCHANGED <<FtProcess, FtSessions, ftp_req, ft_path, ft_xfer, ft_in>>

-----------------------------------------------------------------------------
(* obexd: it moves files and handles calls.                                 *)

FtRoom == Len(ft_in) + 3 <= FtMaxIn

Changes(t, val) ==
    /\ FtRoom
    /\ ft_xfer' = [ft_xfer EXCEPT ![t] = IF val \in FtEnds THEN "over" ELSE val]
    /\ ft_in' = ft_in \o (IF val \in FtEnds THEN EndOf(t, val) ELSE <<Said("changed", t, val)>>)
    /\ UNCHANGED <<FtProcess, FtSessions, ftp_state, ftp_req, FtProperty, ft_calls, ft_told>>

ObexdMoves(t) ==
    \/ ft_xfer[t] = "queued" /\ Changes(t, "active")
    \/ ft_xfer[t] = "active" /\ \E val \in {"complete", "error"} : Changes(t, val)
    \/ ft_xfer[t] = "suspended" /\ "dropped" \in FtUnusual /\ Changes(t, "error")

(* The status a call leads to, "error" if the transfer is not in a state    *)
(* for it.                                                                  *)
Outcome(c) ==
    CASE c.kind = "Resume" /\ ft_xfer[c.id] = "suspended" -> "active"
      [] c.kind = "Suspend" /\ ft_xfer[c.id] = "active"   -> "suspended"
      [] c.kind = "Cancel" /\ Going(c.id)                 -> "over"
      [] OTHER                                            -> "error"

(* The answer may come before or after the signals of the change.           *)
ObexdHandles ==
    /\ ft_calls # <<>> /\ FtRoom
    /\ LET c == Head(ft_calls)
           to == Outcome(c)
           said == CASE to = "error" -> <<>>
                     [] to = "over"  -> EndOf(c.id, "error")
                     [] OTHER        -> <<Said("changed", c.id, to)>>
           answer == Answers(<<c>>, IF to = "error" THEN "error" ELSE "ok") IN
       /\ ft_xfer' = IF to = "error" THEN ft_xfer ELSE [ft_xfer EXCEPT ![c.id] = to]
       /\ ft_in' \in {ft_in \o said \o answer, ft_in \o answer \o said}
    /\ ft_calls' = Tail(ft_calls)
    /\ UNCHANGED <<FtProcess, FtSessions, ftp_state, ftp_req, FtProperty, ft_told>>

-----------------------------------------------------------------------------
(* The loop handles what came.                                              *)

_user_callback(t, status) == ft_told' = [ft_told EXCEPT ![t] = status]

_ftp_internal_callback(t, val) ==
    LET status == IF ftp_state = "canceling" THEN "canceling" ELSE val IN
    /\ ft_path' = IF val \in FtEnds THEN 0 ELSE ft_path
    /\ IF ftp_state \in {"canceled", "suspended"}
       THEN ft_status' = val /\ UNCHANGED <<ftp_state, ft_told>>
       ELSE /\ ft_status' = status
            /\ ftp_state' = IF status = "suspended" THEN "suspended" ELSE ftp_state
            /\ _user_callback(t, status)

(* Signals of other transfers than the one kept are ignored.                *)
_obex_properties_changed(m) ==
    /\ IF m.id = ft_path THEN _ftp_internal_callback(m.id, m.val)
       ELSE UNCHANGED <<ftp_state, FtProperty, ft_told>>
    /\ UNCHANGED <<ft_session, ftp_req, ft_calls>>

_on_interface_added(m) ==
    /\ ft_path' = m.id /\ _fill_transfer_property(m.val)
    /\ UNCHANGED <<ft_session, ftp_state, ftp_req, ft_calls, ft_told>>

(* Whose session or transfer it was is not looked at.                       *)
_on_interface_removed(m) ==
    /\ IF m.kind = "gone" THEN ft_session' = 0 /\ UNCHANGED FtProperty
       ELSE ft_path' = 0 /\ ft_status' = "null" /\ UNCHANGED ft_session
    /\ UNCHANGED <<ftp_state, ftp_req, ft_calls, ft_told>>

(* The state is not left when a call fails.                                 *)
MutCallFailed(m) ==
    /\ ft_status' = "error"
    /\ _user_callback(m.id, "error")
    /\ UNCHANGED <<ft_session, ftp_state, ftp_req, ft_path, ft_calls>>

(* The failure of a call ends the state it was made in.                     *)
CallFailed(m) ==
    /\ ftp_state' = "error" /\ ft_status' = "error"
    /\ _user_callback(m.id, "error")
    /\ UNCHANGED <<ft_session, ftp_req, ft_path, ft_calls>>

_ftp_cancel_callback(m) ==
    IF m.val = "error" THEN CallFailed(m)
    ELSE /\ ftp_state' = "canceled" /\ ft_status' = "canceled" /\ ftp_req' = "end"
         /\ _user_callback(m.id, "canceled")
         /\ UNCHANGED <<ft_session, ft_path, ft_calls>>

(* A call without a path is none: GLib refuses it.                          *)
_ftp_resume_callback(m) ==
    IF m.val = "error" THEN CallFailed(m)
    ELSE /\ IF ftp_req = "put" /\ ftp_state = "canceling"
            THEN /\ IF ft_path = 0 THEN UNCHANGED ft_calls ELSE FtCall("Cancel", ft_path)
                 /\ UNCHANGED ftp_state
            ELSE ftp_state' = "resumed" /\ UNCHANGED ft_calls
         /\ UNCHANGED <<ft_session, ftp_req, FtProperty, ft_told>>

_ftp_suspend_callback(m) ==
    IF m.val = "error" THEN CallFailed(m)
    ELSE UNCHANGED <<ft_session, ftp_state, ftp_req, FtProperty, ft_calls, ft_told>>

FtHandle(m) ==
    \/ m.kind = "changed"             /\ _obex_properties_changed(m)
    \/ m.kind = "added"               /\ _on_interface_added(m)
    \/ m.kind \in {"removed", "gone"} /\ _on_interface_removed(m)
    \/ m.kind = "Cancel"              /\ _ftp_cancel_callback(m)
    \/ m.kind = "Resume"              /\ _ftp_resume_callback(m)
    \/ m.kind = "Suspend"             /\ _ftp_suspend_callback(m)

_dbus_signal_callback ==
    /\ ft_in # <<>>
    /\ FtHandle(Head(ft_in))
    /\ ft_in' = Tail(ft_in)
    /\ UNCHANGED <<FtProcess, ft_sessions, ft_open, ft_xfer>>

FtNext ==
    \/ \E ok \in BOOLEAN : bt_ftp_create_session(ok)
    \/ bt_ftp_remove_session
    \/ \E t \in FtIds : bt_ftp_get_file(t) \/ bt_ftp_put_file(t) \/ ObexdMoves(t)
    \/ bt_ftp_resume_transfer \/ bt_ftp_suspend_transfer \/ bt_ftp_cancel_transfer
    \/ ObexdHandles
    \/ _dbus_signal_callback

-----------------------------------------------------------------------------
(* Once obexd has done what it was asked for and the loop has handled what  *)
(* it said: session and transfer are the ones obexd has, a cancel has       *)
(* ended, and the application knows of every transfer that is over how  *)
(* it ended.  No stream is closed twice on the way.                         *)
TransfersAreTold ==
    /\ ft_fault = FALSE
    /\ ft_calls = <<>> /\ ft_in = <<>> =>
       /\ ft_session = ft_open /\ ftp_state # "canceling"
       /\ IF ft_path = 0 THEN ~ \E t \in FtIds : Going(t) ELSE Going(ft_path)
       /\ \A t \in FtIds : ft_xfer[t] = "over" => ft_told[t] \in FtEnds
=============================================================================
