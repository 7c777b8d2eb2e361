-------------------------------- MODULE Gps ---------------------------------
(***************************************************************************)
(* The GPS receiver (gps/gps.go, gps/serial_linux.go) and what the UI's    *)
(* loop does with its fix (main.go): the receiver's position follows it,   *)
(* and the system's clock is set from it.                                  *)
(*                                                                         *)
(* A fix is put together from two sentences a second: GGA has the position *)
(* and the time of day, RMC the time of day and the date.  Either may be   *)
(* lost, and the device may go at any time.  now is the true time, in      *)
(* seconds; the device's time of day is now % Day and its date now \div    *)
(* Day.                                                                    *)
(***************************************************************************)
EXTENDS Integers

CONSTANTS
    Day,         \* seconds of a day
    Drift,       \* the drift that is let pass (30 s)
    Fresh,       \* the age up to which a fix is followed (10 s)
    Every,       \* seconds between two looks at the clock (an hour)
    Bauds,       \* the number of rates a port is tried at (6)
    MaxTime,     \* bound: the true time
    MaxOff       \* bound: how far off the clock is at first

GpsAssumption ==
    /\ {Day, Drift, Fresh, Every, Bauds, MaxTime, MaxOff} \subseteq Nat
    /\ Day > 1 /\ MaxTime >= Day - 2

VARIABLES
    now, gave,             \* the time, and what the device gave at it
    plugged, source,       \* what is plugged in; what is read: "none", "port", "helper"
    speaks, tried,         \* the rate the device speaks at; how many were tried
    fix,                   \* Receiver.fix; posAt (history): when its position was heard
    rmcAt,                 \* when the last RMC with its time and date was merged (history)
    off, looked, set,      \* the clock's error, when it was looked at, when it was set
    home                   \* when the position that is followed was heard

vars == <<now, gave, plugged, source, speaks, tried, fix, rmcAt, off, looked, set, home>>

-----------------------------------------------------------------------------

Init ==
    /\ now = Day - 2 /\ gave = {} /\ plugged \in {"none", "port", "usb"} /\ source = "none"
    /\ speaks \in 1..Bauds /\ tried = 0
    /\ fix = [tod |-> -1, date |-> -1, valid |-> FALSE, updated |-> -1, posAt |-> -1]
    /\ rmcAt = -1
    /\ off \in {0, MaxOff} /\ looked = now - Every /\ set = FALSE /\ home = -1

Tick ==
    /\ now < MaxTime /\ now' = now + 1 /\ gave' = {}
    /\ UNCHANGED <<plugged, source, speaks, tried, fix, rmcAt, off, looked, set, home>>

Plug == /\ \E p \in {"none", "port", "usb"} \ {plugged} : plugged' = p
        /\ UNCHANGED <<now, gave, source, speaks, tried, fix, rmcAt, off, looked, set, home>>

\* The source that is read is the one that is plugged in.
Plugged == plugged # "none" /\ (source = "port") = (plugged = "port")

\* scanPorts, portHasGPS: a port is tried at each rate until a sentence comes
\* out whole; without a port, or when none speaks, the helper is started.
Scan ==
    /\ source = "none" /\ UNCHANGED <<now, gave, plugged, speaks, fix, rmcAt, off, looked, set, home>>
    /\ \/ /\ plugged = "port" /\ tried < Bauds
          /\ IF tried + 1 = speaks THEN source' = "port" /\ tried' = 0
                                   ELSE tried' = tried + 1 /\ UNCHANGED source
       \/ /\ plugged # "port" \/ tried = Bauds
          /\ source' = (IF plugged = "usb" THEN "helper" ELSE "none") /\ tried' = 0

\* Run: the source ended.  The fix keeps its numbers and is marked invalid.
Lost ==
    /\ source # "none" /\ source' = "none" /\ fix' = [fix EXCEPT !.valid = FALSE]
    /\ UNCHANGED <<now, gave, plugged, speaks, tried, rmcAt, off, looked, set, home>>

Ends == Lost /\ ~Plugged

\* A port returns from a read after half a second of silence, which the scanner
\* takes for the end: between one second's sentences and the next.
Silence == Lost /\ source = "port" /\ gave # {}

Hears(s) == /\ source # "none" /\ s \notin gave /\ gave' = gave \cup {s}
            /\ Plugged
            /\ UNCHANGED <<now, plugged, source, speaks, tried, off, looked, set, home>>

\* feedGGA: no fix marks it invalid and keeps the position.
FeedGGA ==
    /\ Hears("GGA") /\ UNCHANGED rmcAt
    /\ \/ fix' = [fix EXCEPT !.valid = FALSE]
       \/ fix' = [fix EXCEPT !.tod = now % Day, !.valid = TRUE, !.updated = now, !.posAt = now]

FeedRMCNoDate ==    \* bug: the date is taken once
    /\ Hears("RMC")
    /\ \/ fix' = [fix EXCEPT !.valid = FALSE] /\ UNCHANGED rmcAt
       \/ /\ fix' = [fix EXCEPT !.tod = now % Day, !.date = IF @ = -1 THEN now \div Day ELSE @,
                                !.valid = TRUE, !.updated = now]
          /\ rmcAt' = now
\* feedRMC: status A, or it marks the fix invalid.  A field that is empty keeps
\* what an earlier sentence gave.
FeedRMC ==
    /\ Hears("RMC")
    /\ \/ fix' = [fix EXCEPT !.valid = FALSE] /\ UNCHANGED rmcAt
       \/ \E timed, dated \in BOOLEAN :
            /\ fix' = [fix EXCEPT !.tod = IF timed THEN now % Day ELSE @,
                                  !.date = IF dated THEN now \div Day ELSE @,
                                  !.valid = TRUE, !.updated = now]
            /\ rmcAt' = IF timed /\ dated THEN now ELSE rmcAt

\* A sentence whose checksum is wrong is dropped.
Garbled == \E s \in {"GGA", "RMC"} : Hears(s) /\ UNCHANGED <<fix, rmcAt>>

\* The UI's loop: the position is followed while the fix is fresh, then the
\* clock is looked at, whether there is a fix or not.
Told == fix.date * Day + fix.tod
Follows == home' = IF fix.valid /\ now - fix.updated < Fresh THEN fix.posAt ELSE home
Looks ==
    /\ Follows
    /\ IF now - looked > Every - 1
       THEN /\ looked' = now
            /\ LET drift == now + off - Told
                   due == fix.valid /\ fix.tod >= 0 /\ fix.date >= 0 /\ (drift > Drift \/ drift < -Drift)
               IN  /\ set' = due
                   /\ off' = IF due THEN Told - now ELSE off
       ELSE UNCHANGED <<looked, off>> /\ set' = FALSE
    /\ UNCHANGED <<now, gave, plugged, source, speaks, tried, fix, rmcAt>>

Next == Tick \/ Plug \/ Scan \/ Ends \/ Silence \/ FeedGGA \/ FeedRMC \/ Garbled \/ Looks

Spec == Init /\ [][Next]_vars

-----------------------------------------------------------------------------

TypeOK ==
    /\ now \in 0..MaxTime /\ source \in {"none", "port", "helper"} /\ tried \in 0..Bauds
    /\ fix.tod \in -1..(Day - 1) /\ fix.updated <= now /\ home <= now /\ looked <= now

(* The clock is set only while the device is read, and right; except from  *)
(* a fix whose last sentence with a time and a date is not of the same     *)
(* second, or which is itself old.                                         *)
SetsClockRight ==
    set' /\ looked' # looked =>
       /\ source # "none"
       /\ fix.updated = rmcAt /\ now - fix.updated <= Drift => off' \in -Drift..Drift
ClockSetRight == [][SetsClockRight]_vars

\* Refuted: with GGA before RMC, the first second of a day has the new time with
\* the old date, and the clock goes back by a day.
ClockRight == [][set' /\ looked' # looked => off' \in -Drift..Drift]_vars
\* Refuted: RMC keeps a position fresh whose GGA is not heard any more.
FollowsFreshPosition == [][home' # home => now - home' < Fresh]_vars
\* Refuted: the first look is "soon" (main.go:1321), before there is a fix; the
\* next is an hour later.
LooksWithFix == [][looked' # looked => fix.valid]_vars
\* Refuted: a port that is there and speaks every second is not given up.
StaysOpen == [][source = "port" /\ plugged = "port" => source' = "port"]_vars
=============================================================================
