------------------------------- MODULE Clocks -------------------------------
(***************************************************************************)
(* The time module on Linux and on TizenRT (linux_time.c, tizenrt_time.c): *)
(* the clock read and set in a time zone, which on Linux is an environment *)
(* variable of the whole process, alarms, the synchronisation with a time  *)
(* server, and the conversions between dates and timestamps.               *)
(*                                                                         *)
(* The calendar is a small one: an hour is the unit of time, a date has an *)
(* hour, a day and a month, minutes and years behave like hours and        *)
(* months.  The C library, the kernel's clocks, the loop's timers and the  *)
(* server are external.                                                    *)
(***************************************************************************)
EXTENDS Integers, Sequences, FiniteSetsExt

CONSTANTS CkThreads,      \* threads of the application
          CkHours,        \* hours of a day
          CkMonths,       \* month -> days of the year before it; the last one does not end
          CkMaxDay,       \* the largest day a date may have
          CkZones,        \* time zones, hours east of Greenwich
          CkDates,        \* dates the application gives
          CkDelays,       \* delays of alarms
          CkStamps,       \* timestamps the application gives
          CkLast,         \* bound of the clock and of the time that passes
          CkMaxTicks,
          CkScale,        \* milliseconds of a unit of time
          CkWord,         \* unsigned int wraps here
          CkUnusual       \* "threads": two threads are in the module at once,
                          \* "long": an alarm further away than an unsigned int of milliseconds,
                          \* "delete": an alarm is deleted before it was called,
                          \* "set": the clock is set while an alarm is pending,
                          \* "far": a timestamp of more than 32 bits,
                          \* "small": long has four bytes,
                          \* "midnight": on TizenRT the zone's date is another day,
                          \* "zone": on TizenRT the clock is set in another zone than Greenwich

ASSUME CkAssumption ==
    /\ CkHours \in Nat \ {0} /\ CkScale \in Nat \ {0} /\ CkWord \in Nat \ {0}
    /\ CkMonths \in Seq(Nat) /\ CkMonths # <<>> /\ CkMonths[1] = 0
    /\ \A m \in 1 .. Len(CkMonths) - 1 : CkMonths[m] < CkMonths[m + 1]
    /\ CkZones \subseteq Int /\ CkDelays \subseteq Int /\ CkStamps \subseteq Int
    /\ CkDates \subseteq [month : Nat, day : Nat, hour : Nat]

VARIABLES ck_os,          \* "linux", "tizenrt"
          ck_clock,       \* CLOCK_REALTIME
          ck_ticks,       \* CLOCK_MONOTONIC
          ck_tz,          \* the environment's TZ
          ck_calls,       \* thread -> its call between tzset and the use of the zone
          ck_alarm,       \* the alarm: its handle and its timer
          ck_told         \* the last call: what it was given and what it gave

ckvars == <<ck_os, ck_clock, ck_ticks, ck_tz, ck_calls, ck_alarm, ck_told>>

CkNoCall == [kind |-> "none"]
NoAlarm == [handle |-> FALSE, timer |-> FALSE, due |-> 0, date_alarm |-> 0, gmt |-> 0, wanted |-> 0]

CkInit ==
    /\ ck_os \in {"linux", "tizenrt"}
    /\ ck_clock = CkHours /\ ck_ticks = 0 /\ ck_tz = 0
    /\ ck_calls = [t \in CkThreads |-> CkNoCall]
    /\ ck_alarm = NoAlarm
    /\ ck_told = CkNoCall

-----------------------------------------------------------------------------
(* The calendar of the C library.                                           *)

gmtime(n) ==
    LET days == n \div CkHours
        month == CHOOSE m \in DOMAIN CkMonths :
                    /\ CkMonths[m] <= days
                    /\ m < Len(CkMonths) => days < CkMonths[m + 1] IN
    [month |-> month, day |-> days - CkMonths[month] + 1, hour |-> n % CkHours]

(* Days behind the end of a month are days of the next ones.                *)
timegm(d) == (CkMonths[d.month] + d.day - 1) * CkHours + d.hour

localtime(n, tz) == gmtime(n + tz)

mktime(d, tz) == timegm(d) - tz

Exists(d) ==
    /\ d.day >= 1 /\ d.hour < CkHours
    /\ d.month = Len(CkMonths) \/ d.day <= CkMonths[d.month + 1] - CkMonths[d.month]

-----------------------------------------------------------------------------
(* Calls in a zone on Linux: the variable is set, the zone used later.      *)

(* The check of every call that takes a date; an hour of 24 passes it.      *)
MutDateIsValid(d) == d.hour <= CkHours /\ d.day \in 1 .. CkMaxDay /\ d.month >= 1

DateIsValid(d) == d.hour < CkHours /\ d.day \in 1 .. CkMaxDay /\ d.month \in DOMAIN CkMonths

Alone == "threads" \in CkUnusual \/ \A t \in CkThreads : ck_calls[t] = CkNoCall

Entering(t, call) ==
    /\ ck_os = "linux" /\ ck_calls[t] = CkNoCall /\ Alone
    /\ ck_calls' = [ck_calls EXCEPT ![t] = call]
    /\ ck_tz' = call.gmt
    /\ ck_told' = CkNoCall
    /\ UNCHANGED <<ck_os, ck_clock, ck_ticks, ck_alarm>>

(* gettimeofday comes before the zone is set.                               *)
os_time_get_sys(t, gmt) == Entering(t, [kind |-> "get", gmt |-> gmt, now |-> ck_clock])

os_time_set_time(t, d, gmt) ==
    /\ DateIsValid(d)
    /\ "set" \in CkUnusual \/ ~ ck_alarm.handle
    /\ Entering(t, [kind |-> "set", gmt |-> gmt, date |-> d, now |-> ck_clock])

os_time_create_alarm_date(t, d, gmt) ==
    /\ ~ ck_alarm.handle /\ ~ ck_alarm.timer
    /\ DateIsValid(d)
    /\ Entering(t, [kind |-> "date", gmt |-> gmt, date |-> d, now |-> ck_clock])

os_time_create_alarm_second(t, s, gmt) ==
    /\ ~ ck_alarm.handle /\ ~ ck_alarm.timer
    /\ s > 0
    /\ Entering(t, [kind |-> "second", gmt |-> gmt, second |-> s, now |-> ck_clock])

Leaves(t) == ck_calls' = [ck_calls EXCEPT ![t] = CkNoCall] /\ UNCHANGED <<ck_os, ck_ticks, ck_tz>>

os_time_get_time(t) ==
    LET c == ck_calls[t] IN
    /\ c.kind = "get"
    /\ ck_told' = [kind |-> "get", gmt |-> c.gmt, now |-> c.now, date |-> localtime(c.now, ck_tz)]
    /\ Leaves(t) /\ UNCHANGED <<ck_clock, ck_alarm>>

(* A date before the epoch is refused.                                      *)
SetsClock(t) ==
    LET c == ck_calls[t]
        sec == mktime(c.date, ck_tz) IN
    /\ c.kind = "set"
    /\ "set" \in CkUnusual \/ ~ ck_alarm.handle
    /\ ck_clock' = IF sec < 0 THEN ck_clock ELSE sec
    /\ ck_told' = [kind |-> IF sec < 0 THEN "bad" ELSE "set", gmt |-> c.gmt, date |-> c.date]
    /\ Leaves(t) /\ UNCHANGED ck_alarm

(* The timer counts milliseconds in an unsigned int.                        *)
SetsAlarm(t, second, wanted) ==
    LET c == ck_calls[t] IN
    /\ "long" \in CkUnusual \/ second * CkScale < CkWord
    /\ ck_alarm' = [handle |-> TRUE, timer |-> TRUE, due |-> (ck_ticks * CkScale) + ((second * CkScale) % CkWord),
                    date_alarm |-> ck_clock + second, gmt |-> c.gmt, wanted |-> wanted]
    /\ ck_told' = CkNoCall
    /\ Leaves(t) /\ UNCHANGED ck_clock

AlarmInSeconds(t) ==
    LET c == ck_calls[t] IN
    c.kind = "second" /\ SetsAlarm(t, c.second, ck_ticks + c.second)

(* Both dates are taken in the zone of the moment.  The difference to a     *)
(* date that has passed becomes an unsigned number as the processor does:   *)
(* the alarm is refused, or called at once.                                 *)
AlarmAtDate(t) ==
    LET c == ck_calls[t]
        diff == mktime(c.date, ck_tz) - c.now
        wanted == mktime(c.date, c.gmt) - ck_clock IN
    /\ c.kind = "date"
    /\ IF mktime(c.date, ck_tz) < 0
       THEN /\ ck_told' = [kind |-> "bad", gmt |-> c.gmt, date |-> c.date]
            /\ Leaves(t) /\ UNCHANGED <<ck_clock, ck_alarm>>
       ELSE IF diff >= 0 THEN SetsAlarm(t, diff, ck_ticks + wanted)
       ELSE \/ /\ ck_told' = [kind |-> "past"] /\ Leaves(t) /\ UNCHANGED <<ck_clock, ck_alarm>>
            \/ SetsAlarm(t, 0, ck_ticks + wanted)

-----------------------------------------------------------------------------
(* Alarms and the server.                                                   *)

Tick ==
    /\ ck_ticks < CkMaxTicks
    /\ ck_clock' = ck_clock + 1 /\ ck_ticks' = ck_ticks + 1
    /\ ck_told' = CkNoCall
    /\ UNCHANGED <<ck_os, ck_tz, ck_calls, ck_alarm>>

AlarmIsCalled ==
    /\ Alone /\ ck_alarm.timer /\ ck_ticks * CkScale >= ck_alarm.due
    /\ ck_told' = [kind |-> "called", handle |-> ck_alarm.handle, wanted |-> ck_alarm.wanted]
    /\ ck_alarm' = IF ck_alarm.handle THEN [ck_alarm EXCEPT !.timer = FALSE] ELSE NoAlarm
    /\ UNCHANGED <<ck_os, ck_clock, ck_ticks, ck_tz, ck_calls>>

(* Only the memory goes: the loop keeps the timer.                          *)
os_time_delete_alarm ==
    /\ Alone /\ ck_alarm.handle
    /\ "delete" \in CkUnusual \/ ~ ck_alarm.timer
    /\ ck_alarm' = IF ck_alarm.timer THEN [ck_alarm EXCEPT !.handle = FALSE] ELSE NoAlarm
    /\ ck_told' = CkNoCall
    /\ UNCHANGED <<ck_os, ck_clock, ck_ticks, ck_tz, ck_calls>>

(* The delay is given in seconds.                                           *)
MutRemaining(date, now) == IF date <= now THEN 0 ELSE date - now

(* Milliseconds to the alarm.                                               *)
Remaining(date, now) == IF date <= now THEN 0 ELSE (date - now) * CkScale

os_time_get_delay_alarm ==
    /\ Alone /\ ck_alarm.handle
    /\ ck_told' = [kind |-> "delay", value |-> Remaining(ck_alarm.date_alarm, ck_clock)]
    /\ ck_tz' = ck_alarm.gmt
    /\ UNCHANGED <<ck_os, ck_clock, ck_ticks, ck_calls, ck_alarm>>

(* The fifth long of the answer: when the server received the request, or,  *)
(* where long has four bytes, when the server's own clock was last set.     *)
os_time_sync_ntp(server, reference) ==
    /\ ck_os = "linux" /\ Alone
    /\ "set" \in CkUnusual \/ ~ ck_alarm.handle
    /\ ck_clock' = IF "small" \in CkUnusual THEN reference ELSE server
    /\ ck_told' = [kind |-> "ntp", value |-> server]
    /\ UNCHANGED <<ck_os, ck_ticks, ck_tz, ck_calls, ck_alarm>>

-----------------------------------------------------------------------------
(* Conversions and comparisons, which use no zone.                          *)

Refused == -1

(* The lower 32 bits of the timestamp on Linux, all of it on TizenRT.       *)
os_time_convert_timestamp_to_time(os, n) == gmtime(IF os = "linux" THEN n % CkWord ELSE n)

(* TizenRT checks nothing.                                                  *)
os_time_convert_time_to_timestamp(os, d) == IF os = "linux" /\ ~ DateIsValid(d) THEN Refused ELSE timegm(d)

Sign(n) == IF n > 0 THEN 1 ELSE IF n < 0 THEN -1 ELSE 0

artik_time_compare_dates(a, b) ==
    CASE a.month # b.month -> Sign(a.month - b.month)
      [] a.month = b.month /\ a.day # b.day -> Sign(a.day - b.day)
      [] OTHER -> Sign(a.hour - b.hour)

-----------------------------------------------------------------------------
(* TizenRT: the clock's date with the zone added to its hour; the zone is   *)
(* not looked at when the clock is set.                                     *)

InZone(d, gmt) == [d EXCEPT !.hour = (@ + gmt) % CkHours]

tizenrt_get_time(gmt) ==
    /\ ck_os = "tizenrt"
    /\ (ck_clock % CkHours) + gmt \notin 0 .. CkHours - 1 => "midnight" \in CkUnusual
    /\ ck_told' = [kind |-> "get", gmt |-> gmt, now |-> ck_clock, date |-> InZone(gmtime(ck_clock), gmt)]
    /\ UNCHANGED <<ck_os, ck_clock, ck_ticks, ck_tz, ck_calls, ck_alarm>>

tizenrt_set_time(d, gmt) ==
    /\ ck_os = "tizenrt" /\ DateIsValid(d)
    /\ gmt # 0 => "zone" \in CkUnusual
    /\ ck_clock' = timegm(d)
    /\ ck_told' = [kind |-> "set", gmt |-> gmt, date |-> d]
    /\ UNCHANGED <<ck_os, ck_ticks, ck_tz, ck_calls, ck_alarm>>

CkNext ==
    \/ \E t \in CkThreads :
          \/ \E gmt \in CkZones :
                \/ os_time_get_sys(t, gmt)
                \/ \E d \in CkDates : os_time_set_time(t, d, gmt) \/ os_time_create_alarm_date(t, d, gmt)
                \/ \E s \in CkDelays : os_time_create_alarm_second(t, s, gmt)
          \/ os_time_get_time(t) \/ SetsClock(t) \/ AlarmInSeconds(t) \/ AlarmAtDate(t)
    \/ Tick \/ AlarmIsCalled \/ os_time_delete_alarm \/ os_time_get_delay_alarm
    \/ \E server \in CkStamps : server < CkLast /\ os_time_sync_ntp(server, 0)
    \/ \E gmt \in CkZones : tizenrt_get_time(gmt) \/ \E d \in CkDates : tizenrt_set_time(d, gmt)

(* Every date a call gives is the one of the clock in the caller's zone,    *)
(* every date it takes becomes the clock, and an alarm is called for its    *)
(* handle and not before its time, which the delay tells.                   *)
ClockIsRight ==
    CASE ck_told.kind = "get"    -> ck_told.date = localtime(ck_told.now, ck_told.gmt)
      [] ck_told.kind = "set"    -> ck_clock = mktime(ck_told.date, ck_told.gmt)
      [] ck_told.kind = "bad"    -> mktime(ck_told.date, ck_told.gmt) < 0
      [] ck_told.kind = "ntp"    -> ck_clock = ck_told.value
      [] ck_told.kind = "called" -> ck_told.handle /\ ck_told.wanted <= ck_ticks
      [] ck_told.kind = "delay"  -> ck_told.value = Max({0, ck_alarm.due - ck_ticks * CkScale})
      [] OTHER                   -> TRUE

(* Timestamps and dates are converted into each other and back, dates that  *)
(* exist are not refused, and on Linux those whose day or hour cannot be    *)
(* are; later dates compare as greater.                                     *)
ConversionsAreInverse ==
    /\ \A n \in CkStamps :
          n < CkWord \/ "far" \in CkUnusual
          => timegm(os_time_convert_timestamp_to_time(ck_os, n)) = n
    /\ \A d \in CkDates :
          LET n == os_time_convert_time_to_timestamp(ck_os, d) IN
          /\ Exists(d) => n # Refused /\ gmtime(n) = d
          /\ n # Refused /\ ck_os = "linux" => gmtime(n).hour = d.hour
    /\ \A a, b \in {d \in CkDates : Exists(d)} :
          artik_time_compare_dates(a, b) = Sign(timegm(a) - timegm(b))
=============================================================================
