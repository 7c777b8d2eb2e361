----------------------------- MODULE Ft8Traffic -----------------------------
(***************************************************************************)
(* What main.go makes of decoded FT8 messages: the log without             *)
(* duplicates, the grids it remembers, the spots for PSK Reporter, and the *)
(* stations on the map with the one the user walked to.                    *)
(*                                                                         *)
(* A message is what its words are for: to whom, from whom, whether the    *)
(* call goes to a part of the world ("CQ DX ..."), and its last word: the  *)
(* sender's grid, a report, or RR73.  A grid is named after its owner.     *)
(* Ft8Ring has how a transmission becomes messages: the same one, several  *)
(* times, for a while.                                                     *)
(***************************************************************************)
EXTENDS Integers, SequencesExt

CONSTANTS
    Messages, Spottable,  \* texts; words isSpotCallsign takes
    Linger, Window,       \* a transmission is decoded for 2.2 s; duplicates are dropped for 6 s
    SeenMax, LogMax,      \* 40, 100
    Day, Hour, MapAge,    \* 24 h, 1 h, 10 min
    Dials,                \* frequencies the user tunes to
    MaxTime, MaxSends, MaxPending  \* bounds

VARIABLES
    now, sends,          \* time; transmissions so far
    last, dial,          \* of each message: when it ended, on which frequency; where the dial is
    pending,             \* decoded, not drained
    recent, log,         \* recentFT8, ft8Log
    gridCache,           \* word -> owner of the grid
    spots,               \* what this frame reported: sender, dial
    screen, names,       \* "main" or "map"; mapStationNames
    sel, detail,         \* mapSel (from 0, or -1), mapDetail
    times, crowded       \* history: entries of each message since it was sent; recent forgot one too early

map == <<screen, names, sel, detail>>
vars == <<now, sends, last, dial, pending, recent, log, gridCache, spots, map, times, crowded>>

Toks(m) == IF m.dx THEN <<"CQ", "DX", m.from, m.tail>> ELSE <<m.to, m.from, m.tail>>
Second(m) == Toks(m)[2]

-----------------------------------------------------------------------------

Init ==
    /\ now = 0 /\ sends = 0 /\ last = [m \in Messages |-> [at |-> -Window - Linger - 1, dial |-> 0]]
    /\ dial \in Dials /\ pending = <<>> /\ recent = <<>> /\ log = <<>> /\ gridCache = <<>> /\ spots = <<>>
    /\ screen = "main" /\ names = <<>> /\ sel = -1 /\ detail = FALSE
    /\ times = [m \in Messages |-> 0] /\ crowded = FALSE

\* The air: a transmission ends, is decoded again and again; time goes by, once
\* the loop, which runs at 30 Hz, has drained what there is.
Sent == \E m \in Messages :
    /\ sends < MaxSends /\ sends' = sends + 1 /\ now - last[m].at > Window + Linger
    /\ last' = [last EXCEPT ![m] = [at |-> now, dial |-> dial]]
    /\ times' = [times EXCEPT ![m] = 0]
    /\ UNCHANGED <<now, dial, pending, recent, log, gridCache, spots, map, crowded>>
Decoded == \E m \in Messages :
    /\ now - last[m].at <= Linger /\ Len(pending) < MaxPending /\ pending' = Append(pending, m)
    /\ UNCHANGED <<now, sends, last, dial, recent, log, gridCache, spots, map, times, crowded>>
Clock == now < MaxTime /\ pending = <<>> /\ now' = now + 1
    /\ UNCHANGED <<sends, last, dial, pending, recent, log, gridCache, spots, map, times, crowded>>
Tune == \E f \in Dials : f # dial /\ dial' = f
    /\ UNCHANGED <<now, sends, last, pending, recent, log, gridCache, spots, map, times, crowded>>

-----------------------------------------------------------------------------

\* The duplicate window: from the first entry, which is not renewed.
Known(d, m) == \E i \in DOMAIN d.recent : d.recent[i].text = m /\ now - d.recent[i].at < Window

Newest(s, n) == IF Len(s) > n THEN SubSeq(s, Len(s) - n + 1, Len(s)) ELSE s

\* Whom a message is from: after a "CQ" and the part of the world, if one is named.
Sender(m) == IF m.dx THEN Toks(m)[3] ELSE Toks(m)[2]

\* One message of the frame.
Enter(d, m) ==
    IF Known(d, m) THEN d
    ELSE LET recent1 == Append(d.recent, [text |-> m, at |-> now])
         IN  [recent |-> Newest(recent1, SeenMax),
              crowded |-> d.crowded \/ (Len(recent1) > SeenMax /\ now - recent1[1].at < Window),
              \* the grid goes by the second word, whatever it is
              cache |-> IF m.tail = "grid" THEN (Second(m) :> m.from) @@ d.cache ELSE d.cache,
              log |-> Newest(Append(d.log, [text |-> m, tod |-> now % Day, at |-> now]), LogMax),
              spots |-> IF Sender(m) \in Spottable THEN Append(d.spots, [sender |-> Sender(m), dial |-> dial, of |-> m])
                        ELSE d.spots,
              times |-> [d.times EXCEPT ![m] = @ + 1]]

\* How old the map takes an entry to be: its time has no date.
Age(e) == LET today == (now \div Day) * Day + e.tod
          IN  now - (IF today > now + Hour THEN today - Day ELSE today)
Shown(l) == SelectSeq(l, LAMBDA e : Age(e) >= 0 /\ Age(e) <= MapAge)

\* The stations of the map, in some fixed order: senders by the second word, and addressees.
OnMap(l) == UNION {{Second(Shown(l)[i].text)}
                     \cup (IF Shown(l)[i].text.to = "CQ" THEN {} ELSE {Shown(l)[i].text.to}) : i \in DOMAIN Shown(l)}
Sorted(S) == SetToSeq(S)

\* A frame: everything decoded is entered, and the map, if it is shown, drawn.
Frame ==
    /\ LET d == FoldLeft(Enter, [recent |-> recent, crowded |-> crowded, cache |-> gridCache, log |-> log,
                                 spots |-> <<>>, times |-> times], pending)
       IN  /\ recent' = d.recent /\ crowded' = d.crowded /\ gridCache' = d.cache /\ log' = d.log
           /\ spots' = d.spots /\ times' = d.times
    /\ pending' = <<>>
    /\ IF screen # "map" THEN UNCHANGED <<names, sel, detail>>
       ELSE /\ names' = Sorted(OnMap(log'))
            /\ sel' = IF sel >= Len(names') THEN Len(names') - 1 ELSE sel
            /\ detail' = (detail /\ sel' >= 0)
    /\ UNCHANGED <<now, sends, last, dial, screen>>

\* The keys of the map.
Walk(step) ==
    /\ names # <<>> /\ detail' = FALSE
    /\ sel' = IF sel < 0 THEN (IF step = 1 THEN 0 ELSE Len(names) - 1) ELSE (sel + Len(names) + step) % Len(names)
    /\ UNCHANGED <<screen, names>>
Panel == sel >= 0 /\ sel < Len(names) /\ detail' = ~detail /\ UNCHANGED <<screen, names, sel>>
Back == /\ IF detail THEN detail' = FALSE /\ UNCHANGED <<screen, sel>>
           ELSE IF sel >= 0 THEN sel' = -1 /\ UNCHANGED <<screen, detail>>
           ELSE screen' = "main" /\ UNCHANGED <<sel, detail>>
        /\ UNCHANGED names
Leave == screen' = "main" /\ sel' = -1 /\ detail' = FALSE /\ UNCHANGED names
OpenMap == screen = "main" /\ screen' = "map" /\ sel' = -1 /\ detail' = FALSE /\ UNCHANGED names
Key == /\ OpenMap \/ (screen = "map" /\ (Walk(1) \/ Walk(-1) \/ Panel \/ Back \/ Leave))
       /\ UNCHANGED <<now, sends, last, dial, pending, recent, log, gridCache, spots, times, crowded>>

Next == Sent \/ Decoded \/ Clock \/ Tune \/ Frame \/ Key

Spec == Init /\ [][Next]_vars

-----------------------------------------------------------------------------

TypeOK ==
    /\ Len(recent) <= SeenMax /\ Len(log) <= LogMax /\ sel \in -1..Len(names)
    /\ screen \in {"main", "map"} /\ (detail => sel >= 0)

(* A transmission gets one line in the log however often it is decoded and *)
(* whatever else is decoded in between, unless so much is that the window  *)
(* forgets; and with its line the one who sent it is reported, never a     *)
(* word of the call.                                                       *)
LoggedOnce == \A m \in Messages : times[m] > 1 => crowded
SpotsTheSender ==
    Frame =>
       /\ \A i \in DOMAIN spots' : spots'[i].sender = spots'[i].of.from
       /\ \A m \in Messages : times'[m] > times[m] /\ m.from \in Spottable =>
            \E i \in DOMAIN spots' : spots'[i].of = m
ReportsSenders == [][SpotsTheSender]_vars

\* Refuted: on a band with more than forty texts in six seconds (main.go:4282).
AlwaysLoggedOnce == \A m \in Messages : times[m] <= 1
\* Refuted: the dial is read when the message is drained, up to a slot after it was sent.
SpottedWhereSent == \A i \in DOMAIN spots : spots[i].dial = last[spots[i].of].dial
\* Refuted by "CQ DX": the cache and the map take the second word for the sender.
CacheNamesOwner == \A w \in DOMAIN gridCache : gridCache[w] = w
\* Refuted: an entry of yesterday, at this time of the day, is on the map again.
MapShowsRecent == \A i \in DOMAIN Shown(log) : now - Shown(log)[i].at <= MapAge
\* Refuted (main.go:5117): when a station goes, the selection is on the next
\* one, with the panel open.
PanelKeepsStation == [][Frame /\ detail /\ detail' => names'[sel' + 1] = names[sel + 1]]_vars
\* Refuted: the web page's map (main.go:1768) takes RR73 for a grid; the console's does not.
WebGrid(m) == m.tail \in {"grid", "RR73"}
SamePlaceOnBothMaps == \A i \in DOMAIN log : WebGrid(log[i].text) = (log[i].text.tail = "grid")
==============================================================================
