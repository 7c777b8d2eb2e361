------------------------------- MODULE MCPanel -------------------------------
(***************************************************************************)
(* What the receiver is switched to from several goroutines: decoders and  *)
(* modes, the capture rate, the decoder sidecars, the noise reduction; and *)
(* what surrounds it: the settings on their pages, the update, the GPS     *)
(* receiver, the keys and the backlight, and the decoders of CW, FT8,      *)
(* APRS, AIS and of images, each with its sender.  They share no state in  *)
(* the model, so a behaviour runs one of them, the control with two        *)
(* callers or with one, and the others stay in their initial state: the    *)
(* run explores the sum of their state spaces, not the product.  The       *)
(* variables of what surrounds the receiver are v1, v2, ... in the order   *)
(* in which its module declares them.                                      *)
(***************************************************************************)
EXTENDS Integers, TLC

CONSTANTS
    Pair,          \* two callers: the UI and the web page
    Single,        \* one caller
    Procs,         \* identifiers of processes
    \* The update: builds, revisions, bundles and who fetches them, and the bounds.
    LastBuild, RevOf, Bundled, Fetchers, Updater, FetchedBy, OnCard, Tries, Deaths, Presses,
    \* The GPS receiver: seconds of a day, the drift let pass, how long a fix is
    \* followed, between looks, the port's rates, and the bounds.
    DaySeconds, Passed, FollowedFor, LookEvery, PortRates, LastSecond, FirstError

ASSUME ControlAssumption ==
    /\ \E solo \in Single : Single = {solo}
    /\ "none" \notin Procs

VARIABLES
    part,
    mode, want, has, todo, stale, held, watch, reconnect, raced,
    iqRate, dspRate, chain, server, session, pending, dog, adsb, adsbBk, steps, mine,
    dcwEng, dcwOn, dcwProc, tap, dcwTodo, got, seen, old,
    nrEng, dead, nrProc, mu, pc, arg, new, rx, cur,
    v1, v2, v3, v4, v5, v6, v7, v8, v9, v10, v11, v12, v13, v14, v15, v16, v17

modes   == <<mode, want, has, todo, stale, held, watch, reconnect, raced>>
rates   == <<iqRate, dspRate, chain, server, session, pending, dog, adsb, adsbBk, steps, mine>>
sidecar == <<dcwEng, dcwOn, dcwProc, tap, dcwTodo, got, seen, old>>
noise   == <<nrEng, dead, nrProc, mu, pc, arg, new, rx, cur>>
control == <<modes, rates, sidecar, noise>>

\* The decoders that attach without r.mu, with two callers; all of them with one.
ModesTwo == INSTANCE RadioModes WITH
    Thread <- Pair, Feature <- {"ft8", "aprs"}, ZeroBandwidth <- FALSE
ModesOne == INSTANCE RadioModes WITH
    Thread <- Single, Feature <- {"ft8", "ais", "nr", "wefax", "rtty"}, ZeroBandwidth <- FALSE

RateTwo == INSTANCE CaptureRate WITH
    Thread <- Pair, Asked <- {512, 2048}, todo <- steps, watch <- dog
\* One caller that only switches ADS-B.
RateOne == INSTANCE CaptureRate WITH
    Thread <- Single, Asked <- {}, todo <- steps, watch <- dog

SideTwo == INSTANCE Sidecar WITH
    Thread <- Pair, Proc <- Procs,
    eng <- dcwEng, on <- dcwOn, proc <- dcwProc, todo <- dcwTodo, stale <- old
SideOne == INSTANCE Sidecar WITH
    Thread <- Single, Proc <- Procs,
    eng <- dcwEng, on <- dcwOn, proc <- dcwProc, todo <- dcwTodo, stale <- old

NoiseOne == INSTANCE NoiseReducer WITH
    Thread <- Single, Proc <- Procs, MayHang <- TRUE, eng <- nrEng, proc <- nrProc

\* What a component of so many variables leaves unused: 0.
spare16  == <<v17>>
spare15  == <<v16, spare16>>
spare14  == <<v15, spare15>>
spare13  == <<v14, spare14>>
spare12  == <<v13, spare13>>
spare10  == <<v11, v12, spare12>>
spare8   == <<v9, v10, spare10>>
spare7   == <<v8, spare8>>
spare6   == <<v7, spare7>>
component == <<v1, v2, v3, v4, v5, v6, spare6>>
Unused(n) ==
    /\ n <= 16 => v17 = 0
    /\ n <= 15 => v16 = 0
    /\ n <= 14 => v15 = 0
    /\ n <= 13 => v14 = 0
    /\ n <= 12 => v13 = 0
    /\ n <= 10 => v11 = 0 /\ v12 = 0
    /\ n <= 8 => v9 = 0 /\ v10 = 0
    /\ n <= 7 => v8 = 0
    /\ n <= 6 => v7 = 0
    /\ n <= 0 => v1 = 0 /\ v2 = 0 /\ v3 = 0 /\ v4 = 0 /\ v5 = 0 /\ v6 = 0

Prefs == INSTANCE Preferences WITH
    MaxSteps <- 3,
    keys <- v1, val <- v2, text <- v3, ini <- v4, started <- v5, installed <- v6, backup <- v7,
    fresh <- v8, behind <- v9, steps <- v10
Bundles == INSTANCE Update WITH
    Builds <- LastBuild, Rev <- RevOf, Bundle <- Bundled, Fetcher <- Fetchers, ByUpdate <- Updater,
    Of <- FetchedBy, Present <- OnCard, Attempts <- Tries, MaxDeaths <- Deaths,
    MaxPresses <- Presses, LosesUnsynced <- FALSE,
    server <- v1, exe <- v2, synced <- v3, running <- v4, upd <- v5, inode <- v6, at <- v7,
    tmp <- v8, fetch <- v9, mixed <- v10, deaths <- v11, presses <- v12
Receiver == INSTANCE Gps WITH
    Day <- DaySeconds, Drift <- Passed, Fresh <- FollowedFor, Every <- LookEvery,
    Bauds <- PortRates, MaxTime <- LastSecond, MaxOff <- FirstError,
    now <- v1, gave <- v2, plugged <- v3, source <- v4, speaks <- v5, tried <- v6, fix <- v7,
    rmcAt <- v8, off <- v9, looked <- v10, set <- v11, home <- v12

ASSUME PanelAssumption == Bundles!UpdateAssumption /\ Receiver!GpsAssumption

Keys == INSTANCE PadKeys WITH
    Button <- {"menu", "start", "vol", "up", "select"}, Cap <- 2, Hold <- 2, Gate <- 1,
    Delay <- 1, MaxTime <- 3, MaxEvents <- 3,
    now <- v1, down <- v2, since <- v3, echo <- v4, queue <- v5, lost <- v6, swallowed <- v7,
    ui <- v8, held <- v9, downAt <- v10, combo <- v11, calm <- v12, shot <- v13, repeat <- v14,
    quit <- v15, made <- v16
Light == INSTANCE Backlight WITH
    MaxSteps <- 5,
    state <- v1, level <- v2, blank <- v3, restore <- v4, running <- v5, posted <- v6,
    chosen <- v7, steps <- v8
Keying == INSTANCE CwKeying WITH
    Unit <- 6, FirstDots <- {80, 100, 120}, Chars <- {<<".">>, <<"-">>, <<"-", ".">>},
    MinDot <- 2, MaxChars <- 3,
    keying <- v1, left <- v2, dip <- v3, shut <- v4, due <- v5, sends <- v6, keyed <- v7,
    elem <- v8, gap <- v9, cur <- v10, spaced <- v11, dot <- v12, wrong <- v13
Spotter == INSTANCE CwSpots WITH
    Call <- {"a"}, Cap <- 4, MaxHeard <- 5,
    text <- v1, consumed <- v2, carry <- v3, spots <- v4, heard <- v5, before <- v6,
    dropped <- v7, stale <- v8
Ring == INSTANCE Ft8Ring WITH
    Station <- {"s1", "s2"}, Blocks <- 5, Symbols <- 3, MinCount <- 4, Budget <- 1,
    PendingCap <- 2, Throttle <- 4, Prompt <- FALSE, MaxTime <- 6, MaxSwitches <- 1,
    air <- v1, sent <- v2, enabled <- v3, alt <- v4, mag <- v5, head <- v6, count <- v7,
    busy <- v8, phase <- v9, left <- v10, cands <- v11, found <- v12, lastScan <- v13,
    pending <- v14, calm <- v15, heard <- v16, switches <- v17
Traffic == INSTANCE Ft8Traffic WITH
    Messages <- {[to |-> "CQ", from |-> "a", dx |-> TRUE, tail |-> "grid"],
                 [to |-> "a", from |-> "b", dx |-> FALSE, tail |-> "RR73"]},
    Spottable <- {"a", "b"}, Linger <- 1, Window <- 2, SeenMax <- 3, LogMax <- 2, Day <- 9,
    Hour <- 1, MapAge <- 2, Dials <- {1, 2}, MaxTime <- 2, MaxSends <- 2, MaxPending <- 1,
    now <- v1, sends <- v2, last <- v3, dial <- v4, pending <- v5, recent <- v6, log <- v7,
    gridCache <- v8, spots <- v9, screen <- v10, names <- v11, sel <- v12, detail <- v13,
    times <- v14, crowded <- v15
Afsk == INSTANCE AfskHdlc WITH
    Octets <- {<<1, 1, 1, 1, 1, 0, 1, 1>>, <<0, 1, 1, 1, 1, 1, 1, 0>>}, MinLen <- 1,
    MaxFrame <- 3, Kept <- 1, MaxLen <- 1, MaxNoise <- 1, MaxErrors <- 1, MaxFrames <- 2,
    part <- v1, line <- v2, body <- v3, ones <- v4, noise <- v5, errors <- v6, sent <- v7,
    flagHurt <- v8, bodyHurt <- v9, delivered <- v10, shift <- v11, onesR <- v12, inFlag <- v13,
    frame <- v14, cur <- v15, stuff1 <- v16, frames <- v17
\* The first octet of an AIS message of a type, its repeat indicator zero, as sent.
Type(n) == [i \in 1..8 |-> IF i < 3 THEN 0 ELSE (n \div 2 ^ (i - 3)) % 2]
Gmsk == INSTANCE AisHdlc WITH
    Heads <- {Type(1), Type(5), Type(16), Type(18)},
    Octets <- {<<1, 1, 1, 1, 1, 0, 1, 1>>, <<0, 1, 1, 1, 1, 1, 1, 1>>},
    Most <- (Type(1) :> 16 @@ Type(5) :> 16 @@ Type(16) :> 8 @@ Type(18) :> 8),
    HeadBits <- 6, TopType <- 28, MmsiBits <- 6, TopMmsi <- 61, Longest <- (4 :> 8 @@ 10 :> 8),
    CheckOctets <- 1, MinOctets <- 1, MaxFrameBits <- 40, Preambles <- {6, 9}, MinTraining <- 4,
    MaxLen <- 3, MaxNoise <- 1, MaxErrors <- 1, MaxFrames <- 2,
    part <- v1, line <- v2, body <- v3, ones <- v4, noise <- v5, errors <- v6, sent <- v7,
    hurt <- v8, delivered <- v9, lastBit <- v10, state <- v11, position <- v12, oneSeq <- v13,
    bits <- v14
Fleet == INSTANCE AisStore WITH
    Mmsi <- {"a"}, SeqIds <- 2, Ttl <- 1, TrailGap <- 2, TrailMax <- 2, MaxTime <- 4,
    MaxVoyages <- 3, MaxLost <- 1,
    now <- v1, lost <- v2, voyages <- v3, open <- v4, frag1 <- v5, ships <- v6
Fax == INSTANCE Wefax WITH
    RunNeed <- 6, ClearNeed <- 12, MinLines <- 2, KeepMin <- 2, KeepBack <- 4, PhasingNeed <- 3,
    GreyMax <- 5, MaxLines <- 14, StartLines <- {7}, PhasingLines <- {7}, ChartLines <- {4},
    StopLines <- {6}, MaxCharts <- 2, MaxHurt <- 1, MaxSwitches <- 1,
    phase <- v1, left <- v2, chart <- v3, before <- v4, hurt <- v5, hurts <- v6, d <- v7,
    done <- v8, auto <- v9, screen <- v10, clock <- v11, files <- v12, out <- v13, dim <- v14,
    switches <- v15
\* A picture the decoder may be switched off in; two pictures, the second perhaps too soon.
Picture == INSTANCE Sstv WITH
    Codes <- {44}, Period <- 12, Rows <- 6, Guard <- 1, Search <- 20, Pauses <- {0},
    MaxSent <- 1, MaxAborts <- 0, MaxSwitches <- 1,
    air <- v1, quiet <- v2, sent <- v3, aborts <- v4, switches <- v5, sending <- v6, d <- v7
Pictures == INSTANCE Sstv WITH
    Codes <- {99}, Period <- 12, Rows <- 6, Guard <- 1, Search <- 20, Pauses <- {0, 20},
    MaxSent <- 2, MaxAborts <- 1, MaxSwitches <- 0,
    air <- v1, quiet <- v2, sent <- v3, aborts <- v4, switches <- v5, sending <- v6, d <- v7
Feeding == INSTANCE Monitors WITH
    MaxSteps <- 4,
    mode <- v1, bw <- v2, on <- v3, aprs <- v4, has <- v5, fed <- v6, heard <- v7, steps <- v8

ModesRest == ModesOne!Init /\ mode = "USB"
RatesRest == RateOne!Init
SideRest  == SideOne!Init
NoiseRest == NoiseOne!Init

Init ==
    \/ part = "modes two"   /\ ModesTwo!Init /\ RatesRest /\ SideRest /\ NoiseRest
    \/ part = "modes one"   /\ ModesOne!Init /\ RatesRest /\ SideRest /\ NoiseRest
    \/ part = "rate two"    /\ ModesRest /\ RateTwo!Init /\ SideRest /\ NoiseRest
    \/ part = "rate one"    /\ ModesRest /\ RateOne!Init /\ SideRest /\ NoiseRest
    \/ part = "sidecar two" /\ ModesRest /\ RatesRest /\ SideTwo!Init /\ NoiseRest
    \/ part = "sidecar one" /\ ModesRest /\ RatesRest /\ SideOne!Init /\ NoiseRest
    \/ part = "noise one"   /\ ModesRest /\ RatesRest /\ SideRest /\ NoiseOne!Init

Next ==
    \/ part = "modes two"   /\ ModesTwo!Next /\ UNCHANGED <<part, rates, sidecar, noise>>
    \/ part = "modes one"   /\ ModesOne!Next /\ UNCHANGED <<part, rates, sidecar, noise>>
    \/ part = "rate two"    /\ RateTwo!Next  /\ UNCHANGED <<part, modes, sidecar, noise>>
    \/ part = "rate one"    /\ RateOne!Next  /\ UNCHANGED <<part, modes, sidecar, noise>>
    \/ part = "sidecar two" /\ SideTwo!Next  /\ UNCHANGED <<part, modes, rates, noise>>
    \/ part = "sidecar one" /\ SideOne!Next  /\ UNCHANGED <<part, modes, rates, noise>>
    \/ part = "noise one"   /\ NoiseOne!Next /\ UNCHANGED <<part, modes, rates, sidecar>>

ControlRest == ModesRest /\ RatesRest /\ SideRest /\ NoiseRest

AllInit ==
    \/ Init /\ Unused(0)
    \/ /\ ControlRest
       /\ \/ part = "settings"  /\ Prefs!Init /\ Unused(10)
          \/ part = "bundles"   /\ Bundles!Init /\ Unused(12)
          \/ part = "gps"       /\ Receiver!Init /\ Unused(12)
          \/ part = "pad"       /\ Keys!Init /\ Unused(16)
          \/ part = "light"     /\ Light!Init /\ Unused(8)
          \/ part = "morse"     /\ Keying!Init /\ Unused(13)
          \/ part = "spotter"   /\ Spotter!Init /\ Unused(8)
          \/ part = "ring"      /\ Ring!Init
          \/ part = "traffic"   /\ Traffic!Init /\ Unused(15)
          \/ part = "packets"   /\ Afsk!Init
          \/ part = "gmsk"      /\ Gmsk!Init /\ Unused(14)
          \/ part = "fleet"     /\ Fleet!Init /\ Unused(6)
          \/ part = "fax"       /\ Fax!Init /\ Unused(15)
          \/ part = "picture"   /\ Picture!Init /\ Unused(7)
          \/ part = "pictures"  /\ Pictures!Init /\ Unused(7)
          \/ part = "monitors"  /\ Feeding!Init /\ Unused(8)

AllVars == <<part, control, component>>

\* The parts that more than one goroutine drives: these may never come to a stop.
Contended == {"modes two", "modes one", "rate two", "rate one", "sidecar two", "sidecar one",
              "noise one"}
Rest == part \notin Contended /\ UNCHANGED AllVars

AllNext ==
    \/ Next /\ UNCHANGED component
    \/ Rest
    \/ /\ UNCHANGED <<part, control>>
       /\ \/ part = "settings"  /\ Prefs!Next /\ UNCHANGED spare10
          \/ part = "bundles"   /\ Bundles!Next /\ UNCHANGED spare12
          \/ part = "gps"       /\ Receiver!Next /\ UNCHANGED spare12
          \/ part = "pad"       /\ Keys!Next /\ UNCHANGED spare16
          \/ part = "light"     /\ Light!Next /\ UNCHANGED spare8
          \/ part = "morse"     /\ Keying!Next /\ UNCHANGED spare13
          \/ part = "spotter"   /\ Spotter!Next /\ UNCHANGED spare8
          \/ part = "ring"      /\ Ring!Next
          \/ part = "traffic"   /\ Traffic!Next /\ UNCHANGED spare15
          \/ part = "packets"   /\ Afsk!Next
          \/ part = "gmsk"      /\ Gmsk!Next /\ UNCHANGED spare14
          \/ part = "fleet"     /\ Fleet!Next /\ UNCHANGED spare6
          \/ part = "fax"       /\ Fax!Next /\ UNCHANGED spare15
          \/ part = "picture"   /\ Picture!Next /\ UNCHANGED spare7
          \/ part = "pictures"  /\ Pictures!Next /\ UNCHANGED spare7
          \/ part = "monitors"  /\ Feeding!Next /\ UNCHANGED spare8

AllSpec == AllInit /\ [][AllNext]_AllVars

-----------------------------------------------------------------------------
(* Values for the run: every build another revision; the other engine's    *)
(* files, which the user fetches, and the noise reduction's, which he and  *)
(* the update fetch.                                                       *)

Revisions == [b \in 0..2 |-> b + 1]
Files == "ft8ts" :> [files |-> <<"lib", "rev">>, need |-> {"lib", "rev"}, marked |-> TRUE]
         @@ "hamnoise" :> [files |-> <<"ham">>, need |-> {"ham"}, marked |-> FALSE]
Names == "ota" :> "hamnoise" @@ "ft8" :> "ft8ts" @@ "ham" :> "hamnoise"

PairSymmetry == Permutations(Pair)

-----------------------------------------------------------------------------

(* Every part stays within its types and bounds.                           *)
TypeOK ==
    /\ part = "modes one"   => ModesOne!TypeOK
    /\ part = "rate two"    => RateTwo!TypeOK
    /\ part = "sidecar two" => SideTwo!TypeOK
    /\ part = "noise one"   => NoiseOne!TypeOK

(* What is reported on is attached, over every rebuild of the chain, for   *)
(* all that two callers did not switch at once (RadioModes).               *)
AttachedUnlessRaced == part = "modes two" => ModesTwo!AttachedUnlessRaced

(* One caller: AIS RF keeps the receiver in NFM (RadioModes).              *)
AisLocksNfm == part = "modes one" => ModesOne!AisLocksNfm

(* The chain is dimensioned for what the stream was taken for (CaptureRate). *)
ChainFitsVerdict == part = "rate two" => RateTwo!ChainFitsVerdict

(* One caller: ADS-B gives the rate back (CaptureRate).                    *)
AdsbRestoresRate == part = "rate one" => RateOne!AdsbRestoresRate

(* Two callers: the radio holds no engine that was closed (Sidecar).       *)
NeverFeedsClosed == part = "sidecar two" => SideTwo!NeverFeedsClosed

(* One caller: every process that runs is one the radio will stop          *)
(* (Sidecar, NoiseReducer).                                                *)
NoOrphan ==
    /\ part = "sidecar one" => SideOne!NoOrphan
    /\ part = "noise one"   => NoiseOne!NoOrphan

(* One caller: the chain feeds the engine exactly when it is on (Sidecar). *)
TapFollows == part = "sidecar one" => SideOne!TapFollows

(* Every part beside the control stays within its types and bounds.        *)
PanelTypeOK ==
    /\ part = "settings" => Prefs!TypeOK
    /\ part = "bundles" => Bundles!TypeOK
    /\ part = "gps" => Receiver!TypeOK
    /\ part = "pad" => Keys!TypeOK
    /\ part = "light" => Light!TypeOK
    /\ part = "morse" => Keying!TypeOK
    /\ part = "spotter" => Spotter!TypeOK
    /\ part = "ring" => Ring!TypeOK
    /\ part = "traffic" => Traffic!TypeOK
    /\ part = "packets" => Afsk!TypeOK
    /\ part = "gmsk" => Gmsk!TypeOK
    /\ part = "fleet" => Fleet!TypeOK
    /\ part = "fax" => Fax!TypeOK
    /\ part = "picture" => Picture!TypeOK
    /\ part = "pictures" => Pictures!TypeOK
    /\ part = "monitors" => Feeding!TypeOK
    /\ TypeOK

(* What is reported on is attached, over every rebuild of the chain, for   *)
(* all that two callers did not switch at once, and one caller's AIS RF    *)
(* keeps the receiver in NFM (RadioModes).                                 *)
DecodersHold == AttachedUnlessRaced /\ AisLocksNfm

(* The chain is dimensioned for what the stream was taken for, and one     *)
(* caller's ADS-B gives the rate back (CaptureRate).                       *)
RatesHold == ChainFitsVerdict /\ AdsbRestoresRate

(* One caller: every process that runs is one the radio will stop, and the *)
(* chain feeds the engine exactly when it is on (Sidecar, NoiseReducer).   *)
EnginesAccounted == NoOrphan /\ TapFollows

(* What is set is there after a restart (Preferences).                     *)
Remembered == [][part = "settings" => Prefs!Remembers]_AllVars

(* The program on the disk always starts, and what counts as installed is  *)
(* whole (Update).                                                         *)
UpdateSound ==
    part = "bundles" => Bundles!AlwaysStarts /\ Bundles!UsableIsWhole

(* The clock is set right, from a fix that is heard (Gps).                 *)
ClockSetRight == [][part = "gps" => Receiver!SetsClockRight]_AllVars

(* The loop quits only on a key that is held (PadKeys), and knows whether  *)
(* the panel is lit (Backlight).                                           *)
LoopKnows ==
    /\ [][part = "pad" => Keys!KnowsKeys]_AllVars
    /\ [](part = "light" => Light!PanelKnown)

(* What is keyed is decoded (CwKeying), who sends it is reported           *)
(* (CwSpots), a scan reads what the ring holds (Ft8Ring), and one message  *)
(* is one line of the log, reported for its sender (Ft8Traffic).           *)
SentIsHeard ==
    /\ [](part = "morse" => Keying!DecodesRight)
    /\ [][part = "spotter" => Spotter!SpotsSenders]_AllVars
    /\ [][part = "ring" => Ring!ReadsWhole]_AllVars
    /\ [](part = "traffic" => Traffic!LoggedOnce)
    /\ [][part = "traffic" => Traffic!SpotsTheSender]_AllVars

(* A frame that arrives whole comes out once (AfskHdlc, AisHdlc), and what *)
(* is listed of a ship is what it sent, joined from its own sentences      *)
(* (AisStore).                                                             *)
FramesWhole ==
    /\ part = "packets" => Afsk!IntactDelivered /\ Afsk!NoneTwice
    /\ part = "gmsk" => Gmsk!IntactDelivered
    /\ part = "fleet" => Fleet!VoyageIsOne /\ Fleet!TrackFollows

(* A chart and a picture that are sent whole come out and are kept (Wefax, *)
(* Sstv), and the decoders that listen on the side get every block once    *)
(* (Monitors).                                                             *)
ImagesComeOut ==
    /\ part = "fax" => Fax!ChartsComeOut /\ Fax!ChartsKept
    /\ part = "picture" => Picture!PictureKept
    /\ part = "pictures" => Pictures!PictureKept
    /\ part = "monitors" => Feeding!FedOnce

-----------------------------------------------------------------------------
(* Two statements of the code's comments, for the runs that refute them.   *)

(* "Every chain rebuild must run" applyAudioFx, a new session's too        *)
(* (RadioModes).                                                           *)
EffectsSurviveRebuilds == part = "modes one" => ModesOne!EffectsSurviveRebuilds

(* The watchdog is there to "re-dimension the DSP to match" the stream     *)
(* (CaptureRate).                                                          *)
ChainFitsStream == part = "rate one" => RateOne!ChainFitsStream
=============================================================================
