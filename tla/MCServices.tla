----------------------------- MODULE MCServices -----------------------------
(***************************************************************************)
(* The parts checked for safety only: the tuner, and beside the receiver   *)
(* the ADS-B client's framer and its store of aircraft, the reports to PSK *)
(* Reporter, the settings file, the APRS traffic and the console's         *)
(* screens.  They share no state in the model; a behaviour runs one of     *)
(* them (see MCPanel), the APRS traffic as two: its gate and its           *)
(* beacons.                                                                *)
(***************************************************************************)
EXTENDS Tuner, FiniteSets

CONSTANTS
    Frames, Chunk,                                   \* the framer's bounds
    Window, Ttl3, Gap, MaxBad,                       \* CprStore
    MaxBuffer, MaxPerPkt, Described, MaxSpots, MaxPkts,    \* PskReporter
    Savers, Whole, MaxGen,                           \* Settings
    Stations, Own, Guard, Minute, Limit, Old,        \* AprsTraffic
    Lists, MaxLen, KbRow                             \* Menu

ASSUME ServicesAssumption ==
    /\ {Frames, Window, Ttl3, Gap, MaxBad} \subseteq Nat
    /\ {MaxBuffer, MaxPerPkt, Described, MaxSpots, MaxPkts} \subseteq Nat
    /\ Whole \in Nat \ {0} /\ MaxGen \in Nat \ {0}
    /\ {Guard, Minute, Limit, Old} \subseteq Nat \ {0} /\ Minute <= 2 * Guard /\ Minute < Old
    /\ Lists \subseteq {"host", "beast", "ais", "bm"} /\ MaxLen \in Nat \ {0}
    /\ KbRow \in [1..4 -> Nat \ {0}]

VARIABLES
    part,
    wire, buf, scanning, out, sent,
    cpr, fix, fixAge, unheard, bads, last, clean,
    enabled, station, layout, spots, seq, sentPkts, heard, flight, known, read, gap, changed,
    path, bak, tmp, mem, pc, writes, lock, dirty, saved, kept, cut,
    igate, gateLast, gateMinute, gateCount, gates,
    idx, lastBeacon, loop, web, playing, txAge, apart, txRaced, crashed,
    ui, page, sel, len, cur, live, target, editIdx, kbR, kbC, chosen

tuner    == vars
framer   == <<wire, buf, scanning, out, sent>>
aircraft == <<cpr, fix, fixAge, unheard, bads, last, clean>>
reports  == <<enabled, station, layout, spots, seq, sentPkts, heard, flight, known, read, gap, changed>>
settings == <<path, bak, tmp, mem, pc, writes, lock, dirty, saved, kept, cut>>
traffic  == <<igate, gateLast, gateMinute, gateCount, gates, idx, lastBeacon, loop, web,
              playing, txAge, apart, txRaced, crashed>>
screens  == <<ui, page, sel, len, cur, live, target, editIdx, kbR, kbC, chosen>>

\* Bytes: 0 is the sync byte, 1 and 2 are types, 3 is none of these.
SentFrames == {1} \X [1..2 -> {0, 1}] \cup {2} \X {<<0, 1, 0>>, <<3, 0, 1>>}

Beast == INSTANCE BeastDecoder WITH
    Sync <- 0, Type <- {1, 2}, HeaderLen <- 1, PayloadLen <- [t \in {1, 2} |-> t],
    Frame <- SentFrames,
    MaxFrames <- Frames, MaxChunk <- Chunk

Cpr == INSTANCE CprStore

Psk == INSTANCE PskReporter

Ini == INSTANCE Settings

Aprs == INSTANCE AprsTraffic WITH sent <- txAge, raced <- txRaced

Console == INSTANCE Menu

\* kHz: an eighth of the full rate, a quarter of the lowest one.
If2Of == [r \in Rates |-> IF r = 2048 THEN 256 ELSE 64]

\* The preference: automatic, or direct sampling.
AutoOrDirect == {-1, 2}

\* The keyboard's rows of 10, 13, 13 and 6 keys, made narrower.
Narrow == <<2, 3, 3, 1>>

TunerRest == Init /\ <<rate, bw, aprsFreq>> = CHOOSE w \in Rates \X Bandwidths \X AprsFreqs : TRUE
PskRest   == Psk!Init /\ enabled /\ station /\ layout = "3"
IniRest   == Ini!Init /\ path.gen = 1
AprsRest  == Aprs!Init /\ ~igate
MenuRest  == Console!Init /\ (\A l \in DOMAIN len : len[l] = 1 /\ live[l])

AllInit ==
    /\ part \in {"tuner", "beast", "cpr", "psk", "settings", "gate", "beacon", "menu"}
    /\ (IF part = "tuner" THEN Init ELSE TunerRest)
    /\ Beast!Init /\ Cpr!Init
    /\ (IF part = "psk" THEN Psk!Init ELSE PskRest)
    /\ (IF part = "settings" THEN Ini!Init ELSE IniRest)
    /\ (IF part = "gate" THEN Aprs!Init ELSE AprsRest)
    /\ (IF part = "menu" THEN Console!Init ELSE MenuRest)

TunerStep    == part = "tuner" /\ Next
                /\ UNCHANGED <<part, framer, aircraft, reports, settings, traffic, screens>>
BeastStep    == part = "beast" /\ Beast!Next
                /\ UNCHANGED <<part, tuner, aircraft, reports, settings, traffic, screens>>
CprStep      == part = "cpr" /\ Cpr!Next
                /\ UNCHANGED <<part, tuner, framer, reports, settings, traffic, screens>>
PskStep      == part = "psk" /\ Psk!Next
                /\ UNCHANGED <<part, tuner, framer, aircraft, settings, traffic, screens>>
SettingsStep == part = "settings" /\ Ini!Next
                /\ UNCHANGED <<part, tuner, framer, aircraft, reports, traffic, screens>>
GateStep     == part = "gate" /\ Aprs!Gating
                /\ UNCHANGED <<part, tuner, framer, aircraft, reports, settings, screens>>
BeaconStep   == part = "beacon" /\ Aprs!Beaconing
                /\ UNCHANGED <<part, tuner, framer, aircraft, reports, settings, screens>>
MenuStep     == part = "menu" /\ Console!Next
                /\ UNCHANGED <<part, tuner, framer, aircraft, reports, settings, traffic>>

AllNext ==
    \/ TunerStep \/ BeastStep \/ CprStep \/ PskStep
    \/ SettingsStep \/ GateStep \/ BeaconStep \/ MenuStep

AllVars == <<part, tuner, framer, aircraft, reports, settings, traffic, screens>>

AllSpec == AllInit /\ [][AllNext]_AllVars

-----------------------------------------------------------------------------

(* Every part beside the tuner stays within its types and bounds.          *)
ServicesTypeOK ==
    /\ part = "beast" => Beast!TypeOK
    /\ part = "cpr" => Cpr!TypeOK
    /\ part = "psk" => Psk!TypeOK
    /\ part = "settings" => Ini!TypeOK
    /\ part \in {"gate", "beacon"} => Aprs!TypeOK
    /\ part = "menu" => Console!TypeOK

(* The frames of the stream come out, however it is cut into reads, and    *)
(* one that breaks off costs at most the next (BeastDecoder).              *)
FramesComeOut == part = "beast" => Beast!FramesIntact /\ Beast!RecoversAfterCut

(* A clean pair of frames puts the aircraft right (CprStore).              *)
PositionRight == Cpr!PositionRight

(* A spot is reported once at most, in order, and what arrives is read,    *)
(* after one of the first three (PskReporter).                             *)
ReportsArrive == [](part = "psk" => Psk!SpotsOnce) /\ Psk!Readable

(* The program comes up with whole settings, no older than it saved        *)
(* (Settings).                                                             *)
SettingsSurvive == part = "settings" => Ini!SettingsSurvive

(* In any minute a station has two frames gated at most, and the loop's    *)
(* beacon keeps a minute's distance (AprsTraffic).                         *)
AirSpared ==
    /\ part = "gate" => Aprs!GateHolds
    /\ part = "beacon" => Aprs!BeaconsApart

(* No press indexes past the end of what it acts on, and the keyboard      *)
(* writes to the entry it was opened on (Menu).                            *)
ScreensKeepPlace == part = "menu" => Console!RowsInRange /\ Console!EditsItsEntry

-----------------------------------------------------------------------------

\* The tuner alone: a caller that is inside a setter is scheduled.
TunerSpec ==
    /\ AllInit /\ part = "tuner" /\ [][TunerStep]_AllVars
    /\ \A t \in Thread : WF_AllVars(
           Continue(t) /\ UNCHANGED <<part, framer, aircraft, reports, settings, traffic, screens>>)

\* The framer alone, under the fairness of its loop.
FramerSpec ==
    /\ AllInit /\ part = "beast" /\ [][BeastStep]_AllVars
    /\ WF_AllVars(Beast!Scan /\ UNCHANGED <<part, tuner, aircraft, reports, settings, traffic, screens>>)

(* Feed returns (BeastDecoder); for the run that refutes it.               *)
FeedReturns == Beast!FeedReturns
=============================================================================
