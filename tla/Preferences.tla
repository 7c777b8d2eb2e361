---------------------------- MODULE Preferences ----------------------------
(***************************************************************************)
(* What the program remembers (main.go): the value of a setting in the     *)
(* running program, its text in the map cfg, and its line in the settings  *)
(* file, as the console's rows, the on-screen keyboard, the radar's keys   *)
(* and the web page change it, a save writes it and a start reads it.      *)
(* (How the file is replaced is Settings, what the receiver does with a    *)
(* value is RadioModes and Tuner.)  A behaviour uses one setting, or two   *)
(* of which one changes the other.  Values are integers, in the unit of    *)
(* the row's step where it has one: a choice is its place in its list, a   *)
(* flag 0 or 1, a text typed at the keyboard 0 when it is empty.           *)
(***************************************************************************)
EXTENDS Integers, FiniteSets, SequencesExt

CONSTANT MaxSteps     \* bound: changes in a behaviour

VARIABLES
    keys,      \* the settings of this behaviour, and what a start takes for each
    val,       \* their values in the program
    text,      \* their texts in cfg: {} or one value
    ini,       \* their lines in the file: {} or one value
    started,   \* the gain the program was started with
    installed, \* the bundles of the decoder processes are there
    backup,    \* the capture rate to give back after ADS-B, or 0
    fresh,     \* history: nothing has changed since the last save
    behind,    \* history: settings changed behind cfg's back
    steps

vars == <<keys, val, text, ini, started, installed, backup, fresh, behind, steps>>

focus == DOMAIN keys

-----------------------------------------------------------------------------
\* What a start takes when there is no line, and the lines it takes.

Key(default, low, high) == [default |-> default, low |-> low, high |-> high]
Flag(default) == Key(default, 0, 1)
Typed(default) == Key(default, 0, 3)
Off == 1000           \* the row's "off" among the corrections

Rates     == <<256, 1024, 1536, 1792, 2048, 2400, 2560, 2880, 3200>>
LoadRates == ToSet(Rates) \ {2400}
Steps     == <<10, 50, 100, 500, 1000, 5000, 10000, 12500, 25000, 100000>>
Spans     == <<3, 5, 10, 12, 25, 50, 100, 125, 250, 500, 750, 1000>>
HpSteps   == <<0, 100, 150, 200, 300, 400, 500, 700, 1000>>
LpSteps   == <<0, 1500, 1800, 2000, 2200, 2500, 2800, 3000, 3500>>
Presets   == <<<<400, 1700>>, <<300, 2400>>, <<100, 3000>>>>
Windows   == <<3, 5, 8, 12>>
Targets   == <<7, 3, 1, 2, 4, 5, 6>>

NFM == 1
WFM == 2
USB == 3
LSB == 4
CW  == 5
AM  == 6
Modes == <<NFM, WFM, USB, LSB, CW, AM>>

\* freq in kHz; gain as its place in the tuner's table; ds -1 auto, 0, 2.
RadioKeys ==
    [host |-> Typed(1), freq |-> Key(145500, 0, 1766000), mode |-> Key(1, 1, 6),
     gain |-> Key(24, 1, 29), rate |-> Key(2048, 256, 3200), nr |-> Key(0, 0, 9),
     hp |-> Key(0, 0, 6000), lp |-> Key(0, 0, 6000), lang |-> Flag(1),
     call |-> Typed(0), grid |-> Typed(0), antenna |-> Typed(0), rig |-> Typed(0),
     psk |-> Flag(0), rtty |-> Flag(0), wefax |-> Flag(0), wefaxauto |-> Flag(0),
     cwdec |-> Flag(0), sql |-> Key(0, -100, 40), agc |-> Flag(1), ds |-> Key(-1, -1, 2),
     span |-> Key(256, 3, 2048)]

\* vol in thousandths.
MapKeys ==
    [vol |-> Key(500, 0, 1500), adsbhost |-> Typed(1), adsblat |-> Key(13, -180, 180),
     adsblon |-> Key(100, -180, 180), rtlsrvport |-> Key(1235, 1, 65535),
     adsblayer |-> Key(0, 0, 3), radarlabel |-> Key(0, 0, 2), radartargets |-> Key(7, 0, 7),
     aishost |-> Typed(1), aisname |-> Flag(1)]

\* aprsfreq in MHz; aprspre in tenths of a second.
AprsKeys ==
    [aprssym |-> Key(1, 1, 4), aprsbeacon |-> Key(0, 0, 6), aprslvl |-> Key(70, 0, 100),
     aprsfreq |-> Key(144, 1, 1765), aprspath |-> Key(1, 1, 3), aprscall |-> Typed(0),
     aprscmt |-> Typed(0), aprsis |-> Flag(0), aprsigate |-> Flag(0),
     aprsigatelimit |-> Key(10, 1, 60), aprssrc |-> Flag(0), aprsfixlat |-> Key(0, -90, 90),
     aprsfixlon |-> Key(0, -180, 180), aprsiserver |-> Key(1, 1, 3), aprspre |-> Key(3, 1, 20)]

ServiceKeys ==
    [webport |-> Key(8080, 1024, 65535), web |-> Flag(0), gpsfollow |-> Flag(0),
     gpstime |-> Flag(1)]

\* nrnn 0 off, 1 voice, 2 CW; ft8tsband its place in the list.
EngineKeys ==
    [nrnn |-> Key(0, 0, 2), sstv |-> Flag(0), aprs |-> Flag(0), aisrf |-> Flag(0),
     adsbrf |-> Flag(0), deepcwth |-> Key(2, 1, 4), deepcwwin |-> Key(8, 3, 15),
     deepcw |-> Flag(0), ft8tsdepth |-> Key(2, 1, 3), ft8tsth |-> Key(2, 1, 4),
     ft8tsband |-> Key(1, 1, 4), ft8ts |-> Flag(0), rtlsrv |-> Flag(0)]

DisplayKeys ==
    [wfmin |-> Key(6, 0, 40), wfmax |-> Key(62, 10, 120), ppm |-> Key(0, -120, Off),
     lmute |-> Flag(0), ft8sens |-> Flag(0), step |-> Key(12500, 10, 100000)]

Keys == RadioKeys @@ MapKeys @@ AprsKeys @@ ServiceKeys @@ EngineKeys @@ DisplayKeys

\* Settings of which one changes the other; any other is a group by itself.
Pairs  == {{"rate", "span"}, {"rate", "adsbrf"}, {"aisrf", "adsbrf"},
           {"call", "aprscall"}, {"hp", "lp"}, {"mode", "step"}}
Groups == Pairs \cup {{k} : k \in DOMAIN Keys \ UNION Pairs}

Takes(k, v) ==
    /\ v \in keys[k].low..keys[k].high
    /\ k = "rate" => v \in LoadRates
    /\ k = "step" => v \in ToSet(Steps)
    /\ k = "ds"   => v # 1
    /\ k = "ppm"  => v = Off \/ v <= 120

Read(k, lines) ==
    IF \E v \in lines[k] : Takes(k, v) THEN CHOOSE v \in lines[k] : TRUE ELSE keys[k].default

Least(a, b) == IF a < b THEN a ELSE b
Most(a, b)  == IF a > b THEN a ELSE b

\* SetSquelchDb: a positive level is of the old, relative kind.
Threshold(v) == IF v >= 40 THEN 0 ELSE IF v > 0 THEN -40 ELSE v

\* What the program makes of what it read; a squelch that is not positive
\* leaves the receiver at the level it begins with.
Fitted(k, lines) ==
    LET v == Read(k, lines) IN
    CASE k = "sql"  -> IF v > 0 THEN Threshold(v) ELSE -40
      [] k = "freq" -> Most(500, v)
      [] k = "radartargets" /\ v = 0 -> 3
      [] k = "aprscall" /\ v = 0 -> Read("call", lines)
      [] k = "rate" /\ "adsbrf" \in focus -> IF Read("adsbrf", lines) = 1 THEN 2400 ELSE v
      [] k = "aisrf" /\ "adsbrf" \in focus -> IF Read("adsbrf", lines) = 1 THEN 0 ELSE v
      [] k = "span" -> Least(v, Read("rate", lines))
      [] k \in {"deepcw", "ft8ts"} /\ ~installed -> 0
      [] OTHER -> v

Loaded(lines) == [k \in focus |-> Fitted(k, lines)]

\* Values a start writes back to cfg when the file has none.
Refilled == {"adsbhost", "adsblat", "adsblon", "adsblayer", "aishost", "ppm"}
Cfg(lines) ==
    [k \in focus |-> IF k \in Refilled /\ lines[k] = {} THEN {keys[k].default} ELSE lines[k]]

-----------------------------------------------------------------------------
\* Saving (saveNow, saveConfig).

\* Written from the program, not from cfg.
Live == {"host", "freq", "mode", "vol", "rate", "span", "ds", "agc", "lang", "step",
         "call", "grid", "psk", "antenna", "rig", "wfmin", "wfmax"}

\* Bug form: a key was forgotten in the list of keys to write.
UnwrittenMore == {"radarlabel", "radartargets", "aprslvl"}

\* In cfg, and not among the keys that are written.
Unwritten == {"radarlabel", "radartargets"}

\* The volume goes out with two decimals.
Hundredths(v) == 10 * ((v + 5) \div 10)

Written(values, texts) ==
    [k \in focus |->
        CASE k = "gain" -> {started}
          [] k = "vol" -> {Hundredths(values[k])}
          [] k \in Live \ {"vol"} -> {values[k]}
          [] k \in Unwritten -> {}
          [] OTHER -> texts[k]]

Save ==
    /\ ini' = Written(val, text) /\ fresh' = TRUE
    /\ UNCHANGED <<keys, val, text, started, installed, backup, behind, steps>>

-----------------------------------------------------------------------------
\* Changes.  Some rows save at once.

Flushes ==
    {"nrnn", "aprsbeacon", "aprssym", "aprspre", "aprsigatelimit", "aprslvl", "wefax",
     "wefaxauto", "cwdec", "deepcw", "deepcwth", "deepcwwin", "ft8ts", "ft8tsdepth",
     "ft8tsth", "ft8tsband", "aprs", "aprsis", "sstv", "aprsigate", "aprssrc", "adsbrf",
     "rtlsrv", "gpsfollow", "gpstime", "ft8sens", "adsbhost", "aishost", "host", "aprscall",
     "aprsfixlat", "aprsfixlon", "rtlsrvport", "aprsiserver", "aprspath", "aprscmt", "aprsfreq"}

Change(values, texts, lines) ==
    /\ steps < MaxSteps /\ steps' = steps + 1
    /\ val' = values /\ text' = texts /\ ini' = lines
    /\ fresh' = (lines = Written(values, texts))
    /\ UNCHANGED <<keys, started>>

\* One setting and its text change, and what the change brings along.
Put(k, values) ==
    LET texts == [text EXCEPT ![k] = {values[k]}] IN
    Change(values, texts, IF k \in Flushes THEN Written(values, texts) ELSE ini)

Set(k, v) ==
    /\ Put(k, [val EXCEPT ![k] = v])
    /\ behind' = behind \ {k} /\ UNCHANGED <<installed, backup>>

\* The keyboard saves the list of servers before it takes the new one.
SetAfterSave(k, v) ==
    /\ Change([val EXCEPT ![k] = v], [text EXCEPT ![k] = {v}], Written(val, text))
    /\ behind' = behind \ {k} /\ UNCHANGED <<installed, backup>>

At(ring, v) == IF v \in ToSet(ring) THEN CHOOSE i \in DOMAIN ring : ring[i] = v ELSE 1
Turn(ring, i, dir) == ring[((i - 1 + Len(ring) + dir) % Len(ring)) + 1]
\* The entry at or below v, else the first.
Below(ring, v) == Most(1, Cardinality({i \in DOMAIN ring : ring[i] <= v}))
Within(low, high, v) == Most(low, Least(high, v))

\* adjustItem, row by row.
AdjustReceiver(k, dir) ==
    \/ k = "gain" /\ Set(k, Within(1, 29, val[k] + dir))
    \/ k = "sql" /\ Set(k, Within(-100, 0, val[k] + 2 * dir))
    \/ k = "nr" /\ Set(k, Within(0, 9, val[k] + dir))
    \/ k = "hp" /\ Set(k, Turn(HpSteps, Below(HpSteps, val[k]), dir))
    \/ k = "lp" /\ Set(k, Turn(LpSteps, Below(LpSteps, val[k]), dir))
    \/ k = "lmute" /\ Set(k, 1 - val[k])

\* The step a mode pulls the dial's step to.
AutoStep(m, step) ==
    CASE m = WFM /\ step < 25000 -> 100000
      [] m = CW /\ step > 100 -> 100
      [] m \in {USB, LSB} -> Least(step, 1000)
      [] m \notin {WFM, CW, USB, LSB} /\ step > 25000 -> 12500
      [] OTHER -> step

\* One back in the six modes is four forward here.
AdjustMode(k, dir) ==
    LET m == Turn(Modes, val[k], IF dir < 0 THEN 4 ELSE 1) IN
    /\ k = "mode"
    /\ Put(k, [val EXCEPT !["mode"] = m, !["step"] = AutoStep(m, val["step"])])
    /\ UNCHANGED <<installed, backup, behind>>

\* Both corners at once; from corners of no preset to the second.
AudioFilter(k, dir) ==
    LET at == {i \in DOMAIN Presets : Presets[i] = <<val["hp"], val["lp"]>>}
        to == IF at = {} THEN Presets[2] ELSE Turn(Presets, CHOOSE i \in at : TRUE, dir) IN
    /\ k = "hp"
    /\ Change([hp |-> to[1], lp |-> to[2]], [hp |-> {to[1]}, lp |-> {to[2]}], ini)
    /\ behind' = {} /\ UNCHANGED <<installed, backup>>

\* The capture rate bounds the span the next time that is set.
AdjustRate(k, dir) == k = "rate" /\ Set(k, Turn(Rates, At(Rates, val[k]), dir))

AdjustPpm(k, dir) ==
    LET v == val[k] IN
    /\ k = "ppm"
    /\ Set(k, CASE v = Off -> IF dir > 0 THEN 0 ELSE -1
                [] v = -1 /\ dir > 0 -> Off
                [] v = 0 /\ dir < 0 -> Off
                [] v # Off /\ v + dir > 120 -> -120
                [] v # Off /\ v + dir < -120 -> 120
                [] OTHER -> v + dir)

AdjustSystem(k, dir) ==
    \/ k = "ds" /\ Set(k, CASE val[k] = -1 -> 2 [] val[k] = 2 -> 0 [] OTHER -> -1)
    \/ k \in {"agc", "web", "lang"} /\ Set(k, 1 - val[k])
    \/ k = "webport" /\ Set(k, Within(1024, 65535, val[k] + dir))
    \/ k = "step" /\ Set(k, Turn(Steps, At(Steps, val[k]), dir))

\* Only spans the capture rate holds, from the entry at or below the span.
AdjustSpan(k, dir) ==
    LET fit == SelectSeq(Spans, LAMBDA s : s <= val["rate"]) IN
    k = "span" /\ Set(k, Turn(fit, Below(fit, val[k]), dir))

AdjustDisplay(k, dir) ==
    \/ k = "wfmin" /\ Set(k, Within(0, 40, val[k] + dir))
    \/ k = "wfmax" /\ Set(k, Within(10, 120, val[k] + 2 * dir))
    \/ k = "vol" /\ Set(k, Within(0, 1500, Hundredths(val[k] + 10 * dir)))

\* off, voice, CW; without the process's program it is fetched first, and
\* the press is applied when it has come.  (A start that fails leaves all.)
AdjustNrnn(k, dir) == k = "nrnn" /\ Set(k, (val[k] + dir + 3) % 3)

AdjustAprs(k, dir) ==
    \/ k = "aprsbeacon" /\ Set(k, (val[k] + dir + 7) % 7)
    \/ k = "aprssym" /\ Set(k, Turn(<<1, 2, 3, 4>>, val[k], dir))
    \/ k = "aprspre" /\ Set(k, Within(1, 20, val[k] + dir))
    \/ k = "aprsigatelimit" /\ Set(k, Within(1, 60, val[k] + dir))
    \/ k = "aprslvl" /\ Set(k, Within(0, 100, val[k] + 10 * dir))
    \/ k = "psk" /\ Set(k, 1 - val[k])

\* activateItem: what the A key switches.
SwitchDecoder(k) == k \in {"rtty", "wefax", "wefaxauto", "cwdec"} /\ Set(k, 1 - val[k])

SwitchAprs(k) == k \in {"aprs", "aprsis", "sstv", "aprsigate", "aprssrc"} /\ Set(k, 1 - val[k])

\* A bundle that is not there is fetched, and its decoder started after.
SwitchEngine(k) ==
    /\ k \in {"deepcw", "ft8ts"}
    /\ \/ val[k] = 1 /\ Set(k, 0)
       \/ val[k] = 0 /\ installed /\ \E starts \in {0, 1} : Set(k, starts)
       \/ /\ ~installed /\ installed' = TRUE
          /\ Put(k, [val EXCEPT ![k] = 1])
          /\ behind' = behind \ {k} /\ UNCHANGED backup

TurnEngine(k) ==
    \/ k = "deepcwth" /\ Set(k, (val[k] % 4) + 1)
    \/ k = "deepcwwin" /\ Set(k, Turn(Windows, At(Windows, val[k]), 1))
    \/ k = "ft8tsdepth" /\ Set(k, (val[k] % 3) + 1)
    \/ k = "ft8tsth" /\ Set(k, (val[k] % 4) + 1)
    \/ k = "ft8tsband" /\ Set(k, (val[k] % 4) + 1)

SwitchService(k) ==
    \/ k \in {"gpsfollow", "gpstime", "ft8sens"} /\ Set(k, 1 - val[k])
    \/ /\ k = "rtlsrv"
       /\ \E ok \in {0, 1} : Set(k, IF val[k] = 1 THEN 0 ELSE ok)

\* AIS leaves what is switched on by itself alone.
SwitchAis(k) == k = "aisrf" /\ Set(k, 1 - val[k])

\* ADS-B switches AIS off, takes its own capture rate, and gives the old
\* one back unless the user has chosen another since.
Adsb(on) ==
    [j \in focus |->
        CASE j = "adsbrf" -> on
          [] j = "aisrf" /\ on = 1 -> 0
          [] j = "rate" /\ on = 1 -> 2400
          [] j = "rate" /\ on = 0 /\ backup # 0 /\ val[j] = 2400 -> backup
          [] OTHER -> val[j]]

Backup(on) ==
    IF "rate" \notin focus \/ on = 0 THEN 0 ELSE IF backup = 0 THEN val["rate"] ELSE backup

\* AIS is switched off without cfg being told.
Silenced(values) == {j \in focus : j = "aisrf" /\ values[j] # val[j]}

SwitchAdsb(k) ==
    LET values == Adsb(1 - val[k]) IN
    /\ k = "adsbrf" /\ Put(k, values)
    /\ backup' = Backup(values[k]) /\ behind' = (behind \ {k}) \cup Silenced(values)
    /\ UNCHANGED installed

\* The keyboard's save keys, and the rows of the server lists.
TypeText(k, v) ==
    \/ k \in {"call", "grid"} /\ v # 0 /\ Set(k, v)
    \/ k \in {"antenna", "rig", "aprscmt"} /\ v \in 0..3 /\ Set(k, v)
    \/ k = "aprscall" /\ v # 0 /\ Set(k, v)
    \/ k \in {"aprsiserver", "aprspath"} /\ v \in 1..3 /\ Set(k, v)
    \/ k \in {"aprsfixlat", "aprsfixlon", "rtlsrvport", "aprsfreq"} /\ Takes(k, v) /\ Set(k, v)
    \/ k \in {"adsblat", "adsblon"} /\ Set(k, v)
    \/ k \in {"host", "adsbhost", "aishost"} /\ v \in 0..3 /\ Set(k, v)
    \/ k \in {"adsbhost", "aishost"} /\ v \in 1..3 /\ SetAfterSave(k, v)

\* The radar's keys.
RadarKey(k, dir) ==
    \/ k = "adsblayer" /\ Set(k, (val[k] + 4 + dir) % 4)
    \/ k = "radarlabel" /\ Set(k, (val[k] + 1) % 3)
    \/ k = "radartargets" /\ Set(k, Turn(Targets, At(Targets, val[k]), 1))
    \/ k = "aisname" /\ Set(k, 1 - val[k])

\* X on the main screen steps the squelch through its presets.
CycleSquelch(k) ==
    k = "sql" /\ Set(k, CASE val[k] = -60 -> -50 [] val[k] = -50 -> -40
                          [] val[k] = -40 -> -30 [] val[k] = -30 -> 0 [] OTHER -> -60)

-----------------------------------------------------------------------------
\* The web page.  Most commands reach the receiver only.

WebOnly == {"gain", "sql", "ppm", "aisrf", "rtlsrv", "wefax", "wefaxauto", "cwdec", "deepcw",
            "ft8ts", "nr", "hp", "lp", "lmute", "nrnn", "sstv"}
WebLive == {"freq", "mode", "agc", "vol", "rate"}

WebSet(values, k) ==
    /\ Change(values, text, ini)
    /\ behind' = behind \cup ({k} \ WebLive) \cup Silenced(values)
    /\ UNCHANGED installed

\* The receiver clamps what the page asks for.
ClampFx(k, v)  == IF k = "nr" THEN Within(0, 9, v) ELSE Within(0, 6000, v)
ClampPpm(v)    == IF v = Off THEN v ELSE Within(-120, 120, v)
ClampGain(v)   == Within(1, 29, v)
Obeyed(k, v) ==
    CASE k \in {"nr", "hp", "lp"} -> ClampFx(k, v)
      [] k = "ppm" -> ClampPpm(v)
      [] k = "gain" -> ClampGain(v)
      [] k = "sql" -> Threshold(Most(-100, v))
      [] k = "freq" -> Within(500, 1766000, v)
      [] k = "rate" /\ v \notin ToSet(Rates) -> val[k]
      [] OTHER -> v

WebCmd(k, v) ==
    /\ k \in WebOnly \cup WebLive
    /\ k \notin {"nr", "hp", "lp", "ppm", "gain", "sql", "freq", "rate"} => Takes(k, v)
    /\ k \in {"deepcw", "ft8ts"} => installed
    /\ WebSet([val EXCEPT ![k] = Obeyed(k, v)], k)
    /\ UNCHANGED backup

WebAdsb(k) ==
    LET values == Adsb(1 - val[k]) IN
    k = "adsbrf" /\ WebSet(values, k) /\ backup' = Backup(values[k])

\* The APRS rows of the page, and the waterfall's range, are written down.
WebAprs(k, v) ==
    /\ k \in {"aprs", "aprsbeacon", "aprssrc", "aprsigate", "aprsis"} /\ Takes(k, v)
    /\ Set(k, v)

WebRange(k, v) ==
    LET values == [val EXCEPT ![k] = v] IN
    /\ k \in {"wfmin", "wfmax"} /\ Takes(k, v)
    /\ Change(values, [text EXCEPT ![k] = {v}], Written(values, text))
    /\ UNCHANGED <<installed, backup, behind>>

-----------------------------------------------------------------------------

Edges(k) == {keys[k].low, keys[k].default, keys[k].high}

StartGain(lines) == IF "gain" \in focus THEN Read("gain", lines) ELSE 0
StartBackup(lines) ==
    IF focus = {"rate", "adsbrf"} /\ Read("adsbrf", lines) = 1 THEN Read("rate", lines) ELSE 0

StartSilenced(lines) == {k \in focus : k = "aisrf" /\ Fitted(k, lines) # Read(k, lines)}

Boot(lines) ==
    /\ val' = Loaded(lines) /\ text' = Cfg(lines)
    /\ started' = StartGain(lines) /\ backup' = StartBackup(lines)
    /\ behind' = StartSilenced(lines)

\* Any line is taken for these.
Texts == {"host", "call", "grid", "antenna", "rig", "adsbhost", "aishost", "aprscall",
          "aprscmt", "aprspath"}
Wrong(k) == IF k \in Texts THEN 3 ELSE keys[k].high + 1

\* A first start; the file is missing, or holds what was written by hand.
Init ==
    /\ \E group \in Groups : keys = [k \in group |-> Keys[k]]
    /\ ini \in {[k \in focus |-> {}], [k \in focus |-> {keys[k].low}],
                [k \in focus |-> {keys[k].high}], [k \in focus |-> {Wrong(k)}]}
    /\ installed \in (IF focus \cap {"deepcw", "ft8ts"} = {} THEN {TRUE} ELSE BOOLEAN)
    /\ val = Loaded(ini) /\ text = Cfg(ini)
    /\ started = StartGain(ini) /\ backup = StartBackup(ini)
    /\ fresh = FALSE /\ behind = StartSilenced(ini) /\ steps = 0

\* The program ends and is started again.
Restart ==
    /\ Boot(ini) /\ fresh' = FALSE
    /\ UNCHANGED <<keys, ini, installed, steps>>

Press(k) ==
    \/ \E dir \in {-1, 1} :
         \/ AdjustReceiver(k, dir) \/ AdjustMode(k, dir) \/ AudioFilter(k, dir)
         \/ AdjustRate(k, dir) \/ AdjustPpm(k, dir) \/ AdjustSystem(k, dir)
         \/ AdjustSpan(k, dir) \/ AdjustDisplay(k, dir) \/ AdjustNrnn(k, dir)
         \/ AdjustAprs(k, dir) \/ RadarKey(k, dir)
    \/ SwitchDecoder(k) \/ SwitchAprs(k) \/ SwitchEngine(k) \/ TurnEngine(k)
    \/ SwitchService(k) \/ SwitchAis(k) \/ CycleSquelch(k)
    \/ SwitchAdsb(k)
    \/ \E v \in Edges(k) \cup {1, 2} : TypeText(k, v)

Page(k) ==
    \/ WebAdsb(k)
    \/ \E v \in Edges(k) \cup {Wrong(k)} : WebCmd(k, v) \/ WebAprs(k, v) \/ WebRange(k, v)

Next == Save \/ Restart \/ \E k \in focus : Press(k) \/ Page(k)

Spec == Init /\ [][Next]_vars

-----------------------------------------------------------------------------

TypeOK ==
    /\ focus # {} /\ fresh \in BOOLEAN /\ installed \in BOOLEAN
    /\ steps \in 0..MaxSteps /\ behind \subseteq focus
    /\ \A k \in focus :
         /\ val[k] \in keys[k].low..keys[k].high
         /\ \A v \in text[k] \cup ini[k] : v <= keys[k].high + 1

(* What the user set on the console comes back: after a save, a start      *)
(* gives every setting its value again, to the precision it is written     *)
(* with.  That joins the row that changes a setting, the keys that are     *)
(* written, what the start accepts, and what it makes of it (main.go:914   *)
(* "remembers the last session", :1616).  Not brought back: what was       *)
(* changed behind cfg's back, and what Forgotten lists.                    *)
Forgotten(k) ==
    \/ k \in {"gain", "sql", "radarlabel", "radartargets"}
    \/ k = "rate" /\ val[k] = 2400
    \/ k = "aprscall" /\ ini[k] \in {{}, {0}}
    \/ k \in {"rate", "aisrf"} /\ "adsbrf" \in focus /\ ini["adsbrf"] = {1}

Same(k, w) ==
    CASE k = "vol"  -> w = Hundredths(val[k])
      [] k = "span" -> w = Least(val[k], val["rate"])
      [] OTHER      -> w = val[k]

Remembers ==
    Restart /\ fresh =>
       \A k \in focus \ behind : Forgotten(k) \/ Same(k, val'[k])
Remembered == [][Remembers]_vars

-----------------------------------------------------------------------------

(* "saveNow flushes the live session state to the ini", "which otherwise   *)
(* loses every change made since boot" (main.go:1616): without the list of *)
(* exceptions, refuted.                                                    *)
AllRemembered ==
    [][Restart /\ fresh => \A k \in focus \ behind : Same(k, val'[k])]_vars

(* The rate to give back after ADS-B survives a restart; refuted.          *)
BackupRemembered == [][Restart /\ fresh => backup' = backup]_vars

(* LEFT on the mode row undoes RIGHT (main.go:2356 "one back"); refuted.   *)
LeftUndoesRight ==
    \A m \in 1..6 : Turn(Modes, Turn(Modes, m, 1), 4) = m
=============================================================================
