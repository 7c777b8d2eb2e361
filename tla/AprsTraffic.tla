---------------------------- MODULE AprsTraffic ----------------------------
(***************************************************************************)
(* APRS traffic (main.go, internal/aprs/store.go): frames that were heard  *)
(* are gated to the internet within a budget per minute and per station,   *)
(* and the render loop's scheduler sends beacons beside those asked for    *)
(* with "now", from the menu (the same goroutine) or the web page.         *)
(* Times are ages, in ticks of ten seconds, counted up to Old.             *)
(***************************************************************************)
EXTENDS Naturals, FiniteSets

CONSTANTS
    Stations,    \* callsigns, of which
    Own,         \* ours, without the SSID
    Guard,       \* ticks between two frames of a station
    Minute,      \* ticks of a minute
    Limit,       \* aprsGateLim
    Old          \* bound: older ages are not told apart

VARIABLES
    igate,       \* aprsIgateOn
    gateLast,    \* age of the station's frame gated last, Old if none
    gateMinute,  \* age of the minute
    gateCount,
    gates,       \* history: <<station, age>> of each frame gated in the last minute
    idx,         \* aprsBeaconIdx
    lastBeacon,  \* age of aprsLastBeacon
    loop, web,   \* "idle", or "send": between the stamp and PlayBeacon
    playing,     \* r.BeaconPlaying
    sent,        \* history: age of the beacon queued last
    apart,       \* history: its distance from the one before, if it is the loop's
    raced,       \* history: since the loop's last stamp, the web page and it sent at once
    crashed

gate   == <<igate, gateLast, gateMinute, gateCount, gates>>
beacon == <<idx, lastBeacon, loop, web, playing, sent, apart, raced>>
vars   == <<gate, beacon, crashed>>

\* The table in the loop, in ticks; the first entry is index 0.
Intervals == <<0, Minute, 2 * Minute, 5 * Minute, 10 * Minute, 30 * Minute>>
Smart == 6

Older(a) == IF a < Old THEN a + 1 ELSE Old

Init ==
    /\ igate \in BOOLEAN /\ gateLast = [s \in Stations |-> Old]
    /\ gateMinute = Old /\ gateCount = 0 /\ gates = {}
    /\ idx = 0 /\ lastBeacon = Old /\ loop = "idle" /\ web = "idle"
    /\ playing = FALSE /\ sent = Old /\ apart = Old /\ raced = FALSE
    /\ crashed = FALSE

\* A beacon is modulated in less than a tick.
Tick ==
    /\ loop = "idle" /\ web = "idle"
    /\ gateLast' = [s \in Stations |-> Older(gateLast[s])]
    /\ gateMinute' = Older(gateMinute)
    /\ gates' = {<<g[1], g[2] + 1>> : g \in {f \in gates : f[2] + 1 < Minute}}
    /\ lastBeacon' = Older(lastBeacon) /\ sent' = Older(sent)
    /\ UNCHANGED <<igate, gateCount, idx, loop, web, playing, apart, raced, crashed>>

-----------------------------------------------------------------------------
(* ProcessFrame and the hook it calls, for a frame with a position.        *)

SetIgate == igate' = ~igate /\ UNCHANGED <<gateLast, gateMinute, gateCount, gates, beacon, crashed>>

Passes(s, fromInternet) == igate /\ ~fromInternet /\ s # Own /\ gateLast[s] >= Guard

Heard(s, fromInternet) ==
    /\ Passes(s, fromInternet)
    /\ LET fresh == gateMinute >= Minute
           count == IF fresh THEN 0 ELSE gateCount
       IN  /\ gateMinute' = IF fresh THEN 0 ELSE gateMinute
           /\ IF count >= Limit
              THEN gateCount' = count /\ UNCHANGED <<gateLast, gates>>
              ELSE /\ gateCount' = count + 1
                   /\ gateLast' = [gateLast EXCEPT ![s] = 0]
                   /\ gates' = gates \cup {<<s, 0>>}
    /\ UNCHANGED <<igate, beacon, crashed>>

-----------------------------------------------------------------------------
(* Beacons.  The fix may come and go, so each step takes it as it likes.   *)

SetBeacon ==
    /\ idx' \in (0..Smart) \ {idx}
    /\ UNCHANGED <<gate, lastBeacon, loop, web, playing, sent, apart, raced, crashed>>

\* The loop finds a beacon due.
Due ==
    /\ loop = "idle" /\ idx \in 1..5 /\ ~playing
    /\ lastBeacon > Intervals[idx + 1]
    /\ loop' = "send" /\ lastBeacon' = 0
    /\ apart' = Old /\ raced' = FALSE
    /\ UNCHANGED <<gate, idx, web, playing, sent, crashed>>

\* SmartBeaconing: the table is read before the mode is looked at, and has
\* no entry for it.
DueSmart ==
    /\ loop = "idle" /\ idx = Smart /\ ~playing
    /\ Smart + 1 \notin DOMAIN Intervals
    /\ crashed' = TRUE
    /\ UNCHANGED <<gate, beacon>>

\* PlayBeacon, by the loop or by the web handler
Plays(who) ==
    /\ playing' = TRUE /\ sent' = 0
    /\ apart' = IF who = "loop" THEN sent ELSE Old
    /\ raced' = (raced \/ {loop, web} = {"send"})

Send ==
    /\ loop = "send" /\ loop' = "idle" /\ Plays("loop")
    /\ UNCHANGED <<gate, idx, lastBeacon, web, crashed>>

\* Bug form: the beacon sent by hand is not noted.
NowUnnoted ==
    /\ loop = "idle" /\ Plays("menu")
    /\ UNCHANGED <<gate, idx, loop, web, lastBeacon, crashed>>

\* sendAPRSNow, from the menu and from the web page
Now ==
    /\ loop = "idle" /\ lastBeacon' = 0 /\ Plays("menu")
    /\ UNCHANGED <<gate, idx, loop, web, crashed>>

WebNow ==
    /\ web = "idle" /\ web' = "send" /\ lastBeacon' = 0
    /\ UNCHANGED <<gate, idx, loop, playing, sent, apart, raced, crashed>>

WebSends ==
    /\ web = "send" /\ web' = "idle" /\ Plays("web")
    /\ UNCHANGED <<gate, idx, lastBeacon, loop, crashed>>

PlayEnds ==
    /\ playing /\ playing' = FALSE
    /\ UNCHANGED <<gate, idx, lastBeacon, loop, web, sent, apart, raced, crashed>>

Gating ==
    Tick \/ SetIgate \/ \E s \in Stations, net \in BOOLEAN : Heard(s, net)

Beaconing ==
    /\ ~crashed
    /\ \/ Tick \/ SetBeacon \/ Due \/ DueSmart \/ Send \/ Now
       \/ WebNow \/ WebSends \/ PlayEnds

Next == Gating \/ Beaconing

Spec == Init /\ [][Next]_vars

-----------------------------------------------------------------------------

TypeOK ==
    /\ {igate, playing, raced, crashed} \subseteq BOOLEAN
    /\ gateLast \in [Stations -> 0..Old] /\ gateCount \in 0..Limit
    /\ {gateMinute, lastBeacon, sent, apart} \subseteq 0..Old
    /\ idx \in 0..Smart /\ {loop, web} \subseteq {"idle", "send"}

Of(s) == {g \in gates : g[1] = s}

(* In no minute, wherever it begins, does one station have more than its   *)
(* two frames gated, or all together more than two budgets ("per-station   *)
(* flood guard", "minute budget").                                         *)
GateHolds ==
    /\ \A s \in Stations : Cardinality(Of(s)) <= IF s = Own THEN 0 ELSE 2
    /\ Cardinality(gates) <= 2 * Limit

(* The loop's beacon keeps a minute's distance from the one before it,     *)
(* whoever sent that, but for one the web page sent meanwhile.             *)
BeaconsApart == raced \/ apart > Minute

(* The scheduler runs in every mode it offers, SmartBeaconing too          *)
(* ("interval or SmartBeaconing").                                         *)
SchedulerRuns == ~crashed
=============================================================================
