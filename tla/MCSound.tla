------------------------------ MODULE MCSound -------------------------------
(***************************************************************************)
(* What stands between the receiver and the speaker: the beacon that takes *)
(* the speaker over, and the player process.  A behaviour runs one of      *)
(* them; the other stays in its initial state.  The theorems at the end    *)
(* say of any number of players and beacons and of any rates what the run  *)
(* checks of a few: the types, that an open output has a player, and what  *)
(* a beacon hands back.                                                    *)
(***************************************************************************)
EXTENDS Naturals, TLAPS

CONSTANTS
    Players,    \* identifiers of player processes
    Most,       \* bound: the beacons of a behaviour
    Rates,      \* the audio rates of the modes, in kHz
    OnlyRate    \* the rate of the modes, when they have one

ASSUME SoundAssumption ==
    /\ Most \in Nat /\ OnlyRate \in Nat \ {0} /\ Rates \subseteq Nat \ {0}

VARIABLES
    part,
    player, failed, cmd, writing, closed, userClosed, closer,
    healing, healer, delay, tries, taken, busy, missed,
    queued, beacon, on, relArm, loop, bc, rate, mode, tuning, inRate, block, fade, played, first

output == <<player, failed, cmd, writing, closed, userClosed, closer,
            healing, healer, delay, tries, taken, busy, missed>>
tones  == <<queued, beacon, on, relArm, loop, bc, rate, mode, tuning, inRate, block, fade, played, first>>
vars   == <<part, output, tones>>

Audio == INSTANCE AudioOutput WITH
    Proc <- Players, MayHang <- FALSE, proc <- player, played <- taken
Beacons == INSTANCE Beacon WITH MaxBeacons <- Most, ModeRates <- Rates, rx <- block
\* The modes the user picks from all have one rate.
OneRate == INSTANCE Beacon WITH MaxBeacons <- Most, ModeRates <- {OnlyRate}, rx <- block

Init ==
    /\ part \in {"audio", "beacon", "one rate"}
    /\ Audio!Init
    /\ IF part = "beacon" THEN Beacons!Init ELSE OneRate!Init

InAudio(Action)   == part = "audio"    /\ Action /\ UNCHANGED <<part, tones>>
InBeacon(Action)  == part = "beacon"   /\ Action /\ UNCHANGED <<part, output>>
InOneRate(Action) == part = "one rate" /\ Action /\ UNCHANGED <<part, output>>

Next == InAudio(Audio!Next) \/ InBeacon(Beacons!Next) \/ InOneRate(OneRate!Next)

\* The fairness of each component, for the behaviours it runs in.
FairSpec ==
    /\ Init /\ [][Next]_vars
    /\ WF_vars(InAudio(Audio!Written)) /\ WF_vars(InAudio(Audio!ReopenFails))
    /\ \A p \in Players :
         SF_vars(InAudio(Audio!Reap(p))) /\ SF_vars(InAudio(Audio!SelfHeal(p)))
    /\ SF_vars(InAudio(Audio!Wake)) /\ SF_vars(InAudio(Audio!Leave)) /\ SF_vars(InAudio(Audio!Close))
    /\ SF_vars(InAudio(\E p \in Players : Audio!Reopen(p)))
    /\ WF_vars(InBeacon(Beacons!Loop) \/ InOneRate(OneRate!Loop))

-----------------------------------------------------------------------------

(* The player and its healer, and the beacon and the resampler, stay       *)
(* within their types and bounds.                                          *)
TypeOK ==
    /\ part = "audio"  => Audio!TypeOK
    /\ part = "beacon" => Beacons!TypeOK

(* An output that is open has a player, or one about to be replaced.       *)
OpenHasPlayer == part = "audio" => Audio!OpenHasPlayer

(* A player that died with an error is replaced, and Close returns         *)
(* (AudioOutput).                                                          *)
PlayerKept == Audio!Replaced /\ Audio!CloseReturns

(* After a beacon the receiver's first block is ramped, and with the mode  *)
(* left alone the resampler is back at its rate (Beacon).                  *)
HandsBack ==
    /\ part = "beacon" => Beacons!RampsAfterBeacon
    /\ part = "one rate" => OneRate!ResamplerFits

(* A beacon holds the receiver's audio back for a while only (Beacon).     *)
SpeakerComesBack == Beacons!SpeakerComesBack

-----------------------------------------------------------------------------
(* The player: types and OpenHasPlayer are inductive together.             *)
AudioInv == Audio!TypeOK /\ Audio!OpenHasPlayer

\* From the claim to the end the loop holds a beacon that was queued and the
\* rate of a mode; and a beacon that ended is remembered, by the arm of the
\* ramp until a block is read, by the ramp after that.
Claimed(rates) == loop # "idle" => bc \in 1..queued /\ rate \in rates
Remembers == first /\ ~relArm => fade

(* The beacon: its types, what the loop holds, and the ramp.               *)
BeaconInv == Beacons!TypeOK /\ Claimed(Rates) /\ Remembers
OneRateInv == OneRate!TypeOK /\ Claimed({OnlyRate}) /\ Remembers

SoundInv ==
    /\ part \in {"audio", "beacon", "one rate"}
    /\ part = "audio" => AudioInv
    /\ part = "beacon" => BeaconInv
    /\ part = "one rate" => OneRateInv

-----------------------------------------------------------------------------

(* Every step of a writer, a player, its waiter, the healer and Close      *)
(* keeps the player's invariant.                                           *)
LEMMA AudioStep ==
    ASSUME AudioInv, Audio!Next
    PROVE  AudioInv'
<1> USE DEF AudioInv, Audio!TypeOK, Audio!OpenHasPlayer, Audio!players, Audio!flags,
        Audio!heal, Audio!history, Audio!Living
<1>1. CASE Audio!Write
  BY <1>1 DEF Audio!Write
<1>2. CASE Audio!Written
  BY <1>2 DEF Audio!Written
<1>3. ASSUME NEW p \in Players, Audio!Dies(p) PROVE AudioInv'
  BY <1>3 DEF Audio!Dies
<1>4. ASSUME NEW p \in Players, Audio!Hangs(p) PROVE AudioInv'
  BY <1>4 DEF Audio!Hangs
<1>5. ASSUME NEW p \in Players, Audio!Reap(p) PROVE AudioInv'
  BY <1>5 DEF Audio!Reap
<1>6. ASSUME NEW p \in Players, Audio!SelfHeal(p) PROVE AudioInv'
  <2>1. /\ player' = [player EXCEPT ![p] = "none"] /\ player[p] = "reaped" /\ failed' = failed \ {p}
        /\ UNCHANGED <<cmd, writing, closed, userClosed, closer, taken, busy>>
    BY <1>6 DEF Audio!SelfHeal
  <2>2. \/ UNCHANGED <<healing, healer, delay, tries>> /\ (missed' = missed \/ missed' = TRUE)
        \/ missed' = missed /\ Audio!NewChain
    BY <1>6 DEF Audio!SelfHeal
  <2>3. CASE UNCHANGED <<healing, healer, delay, tries>> /\ (missed' = missed \/ missed' = TRUE)
    <3>1. missed' \in BOOLEAN
      BY <2>3
    <3>2. QED  BY <2>1, <2>3, <3>1
  <2>4. CASE missed' = missed /\ Audio!NewChain
    BY <2>1, <2>4 DEF Audio!NewChain
  <2>5. QED  BY <2>2, <2>3, <2>4
<1>7. CASE Audio!Wake
  BY <1>7 DEF Audio!Wake
<1>8. ASSUME NEW p \in Players, Audio!Reopen(p) PROVE AudioInv'
  BY <1>8 DEF Audio!Reopen
<1>9. CASE Audio!ReopenFails
  BY <1>9 DEF Audio!ReopenFails
<1>10. CASE Audio!Leave
  BY <1>10 DEF Audio!Leave
<1>11. CASE Audio!CallClose
  BY <1>11 DEF Audio!CallClose
<1>12. CASE Audio!Close
  BY <1>12 DEF Audio!Close
<1>13. QED
  BY <1>1, <1>2, <1>3, <1>4, <1>5, <1>6, <1>7, <1>8, <1>9, <1>10, <1>11, <1>12
     DEF Audio!Next, Audio!Watch, Audio!Heal

(* Every step of the beacon's loop, of the receiver's blocks and of the    *)
(* mode's changes keeps the beacon's invariant.                            *)
LEMMA BeaconStep ==
    ASSUME BeaconInv, Beacons!Next
    PROVE  BeaconInv'
<1> USE SoundAssumption DEF BeaconInv, Claimed, Remembers, Beacons!TypeOK, Beacons!tones,
        Beacons!loops, Beacons!modes, Beacons!recv
<1>1. CASE Beacons!PlayBeacon
  BY <1>1 DEF Beacons!PlayBeacon
<1>2. CASE Beacons!Take
  BY <1>2 DEF Beacons!Take
<1>3. CASE Beacons!Claim
  BY <1>3 DEF Beacons!Claim
<1>4. CASE Beacons!To48
  BY <1>4 DEF Beacons!To48
<1>5. CASE Beacons!WriteBeacon
  BY <1>5 DEF Beacons!WriteBeacon
<1>6. CASE Beacons!Back
  BY <1>6 DEF Beacons!Back
<1>7. CASE Beacons!End
  <2>1. /\ loop' = "idle" /\ beacon' = 0 /\ on' = FALSE /\ relArm' = TRUE /\ first' = TRUE
        /\ bc' = 0 /\ rate' = 0 /\ loop = "end"
        /\ UNCHANGED <<queued, mode, tuning, inRate, block, fade, played>>
    BY <1>7 DEF Beacons!End
  <2>2. /\ {on', relArm', fade', first'} \subseteq BOOLEAN
        /\ inRate' \in Rates \cup {mode'}
    BY <2>1
  <2>3. QED  BY <2>1, <2>2
<1>8. CASE Beacons!ReadBlock
  BY <1>8 DEF Beacons!ReadBlock, Beacons!BeaconPlaying
<1>9. CASE Beacons!WriteBlock
  BY <1>9 DEF Beacons!WriteBlock
<1>10. CASE Beacons!SetMode
  BY <1>10 DEF Beacons!SetMode
<1>11. CASE Beacons!SetInputRate
  BY <1>11 DEF Beacons!SetInputRate
<1>12. QED
  BY <1>1, <1>2, <1>3, <1>4, <1>5, <1>6, <1>7, <1>8, <1>9, <1>10, <1>11
     DEF Beacons!Next, Beacons!Loop

(* The same where every mode has one rate.                                 *)
LEMMA OneRateStep ==
    ASSUME OneRateInv, OneRate!Next
    PROVE  OneRateInv'
<1> USE SoundAssumption DEF OneRateInv, Claimed, Remembers, OneRate!TypeOK, OneRate!tones,
        OneRate!loops, OneRate!modes, OneRate!recv
<1>1. CASE OneRate!PlayBeacon
  BY <1>1 DEF OneRate!PlayBeacon
<1>2. CASE OneRate!Take
  BY <1>2 DEF OneRate!Take
<1>3. CASE OneRate!Claim
  BY <1>3 DEF OneRate!Claim
<1>4. CASE OneRate!To48
  BY <1>4 DEF OneRate!To48
<1>5. CASE OneRate!WriteBeacon
  BY <1>5 DEF OneRate!WriteBeacon
<1>6. CASE OneRate!Back
  BY <1>6 DEF OneRate!Back
<1>7. CASE OneRate!End
  <2>1. /\ loop' = "idle" /\ beacon' = 0 /\ on' = FALSE /\ relArm' = TRUE /\ first' = TRUE
        /\ bc' = 0 /\ rate' = 0 /\ loop = "end"
        /\ UNCHANGED <<queued, mode, tuning, inRate, block, fade, played>>
    BY <1>7 DEF OneRate!End
  <2>2. /\ {on', relArm', fade', first'} \subseteq BOOLEAN
        /\ inRate' \in {OnlyRate} \cup {mode'}
    BY <2>1
  <2>3. QED  BY <2>1, <2>2
<1>8. CASE OneRate!ReadBlock
  BY <1>8 DEF OneRate!ReadBlock, OneRate!BeaconPlaying
<1>9. CASE OneRate!WriteBlock
  BY <1>9 DEF OneRate!WriteBlock
<1>10. CASE OneRate!SetMode
  BY <1>10 DEF OneRate!SetMode
<1>11. CASE OneRate!SetInputRate
  BY <1>11 DEF OneRate!SetInputRate
<1>12. QED
  BY <1>1, <1>2, <1>3, <1>4, <1>5, <1>6, <1>7, <1>8, <1>9, <1>10, <1>11
     DEF OneRate!Next, OneRate!Loop

-----------------------------------------------------------------------------

(* The invariant holds of whichever of the three runs.                     *)
THEOREM Inductive == FairSpec => []SoundInv
<1>1. Init => SoundInv
  <2> SUFFICES ASSUME Init PROVE SoundInv
    OBVIOUS
  <2>1. part = "audio" => AudioInv
    <3>1. Audio!Init
      BY DEF Init
    <3>2. {writing, closed, userClosed, healing, taken, missed} \subseteq BOOLEAN
      BY <3>1 DEF Audio!Init
    <3>3. PICK p \in Players : cmd = p /\ player = [q \in Players |-> IF q = p THEN "alive" ELSE "none"]
      BY <3>1 DEF Audio!Init
    <3>4. QED  BY <3>1, <3>2, <3>3 DEF Audio!Init, AudioInv, Audio!TypeOK, Audio!OpenHasPlayer
  <2>2. part = "beacon" => BeaconInv
    <3>1. SUFFICES ASSUME Beacons!Init PROVE BeaconInv
      BY DEF Init
    <3>2. {on, relArm, fade, first} \subseteq BOOLEAN
      BY <3>1 DEF Beacons!Init
    <3>3. QED  BY <3>1, <3>2, SoundAssumption DEF Beacons!Init, BeaconInv, Beacons!TypeOK, Claimed, Remembers
  <2>3. part = "one rate" => OneRateInv
    <3>1. SUFFICES ASSUME OneRate!Init PROVE OneRateInv
      BY DEF Init
    <3>2. {on, relArm, fade, first} \subseteq BOOLEAN
      BY <3>1 DEF OneRate!Init
    <3>3. QED  BY <3>1, <3>2, SoundAssumption DEF OneRate!Init, OneRateInv, OneRate!TypeOK, Claimed, Remembers
  <2>4. QED  BY <2>1, <2>2, <2>3 DEF Init, SoundInv
<1>2. SoundInv /\ [Next]_vars => SoundInv'
  <2> SUFFICES ASSUME SoundInv, [Next]_vars PROVE SoundInv'
    OBVIOUS
  <2>1. CASE InAudio(Audio!Next)
    BY <2>1, AudioStep DEF InAudio, SoundInv
  <2>2. CASE InBeacon(Beacons!Next)
    BY <2>2, BeaconStep DEF InBeacon, SoundInv
  <2>3. CASE InOneRate(OneRate!Next)
    BY <2>3, OneRateStep DEF InOneRate, SoundInv
  <2>4. CASE UNCHANGED vars
    <3>1. part' = part /\ UNCHANGED output /\ UNCHANGED tones
      BY <2>4 DEF vars
    <3>2. AudioInv => AudioInv'
      BY <3>1 DEF output, AudioInv, Audio!TypeOK, Audio!OpenHasPlayer
    <3>3. BeaconInv => BeaconInv'
      BY <3>1 DEF tones, BeaconInv, Beacons!TypeOK, Claimed, Remembers
    <3>4. OneRateInv => OneRateInv'
      BY <3>1 DEF tones, OneRateInv, OneRate!TypeOK, Claimed, Remembers
    <3>5. QED  BY <3>1, <3>2, <3>3, <3>4 DEF SoundInv
  <2>5. QED  BY <2>1, <2>2, <2>3, <2>4 DEF Next
<1>3. QED  BY <1>1, <1>2, PTL DEF FairSpec

(* The player, its healer, the beacon's loop and the resampler stay within *)
(* their types: the healer's pause among six values, the resampler's rate  *)
(* among the modes' and the beacon's.                                      *)
THEOREM TypeCorrect == FairSpec => []TypeOK
<1>1. SoundInv => TypeOK
  BY DEF SoundInv, TypeOK, AudioInv, BeaconInv
<1>2. QED  BY <1>1, Inductive, PTL

(* An output that is open has a player, or one whose exit is still to be   *)
(* seen (startNamed, reopen, Close).                                       *)
THEOREM OpenHasPlayerHolds == FairSpec => []OpenHasPlayer
<1>1. SoundInv => OpenHasPlayer
  BY DEF SoundInv, OpenHasPlayer, AudioInv
<1>2. QED  BY <1>1, Inductive, PTL

(* After a beacon the receiver's first block is ramped; where the modes    *)
(* have one rate the resampler is back at it (beaconLoop, session).        *)
THEOREM HandsBackHolds == FairSpec => []HandsBack
<1>1. SoundInv => HandsBack
  <2> SUFFICES ASSUME SoundInv PROVE HandsBack
    OBVIOUS
  <2>1. part = "beacon" => Beacons!RampsAfterBeacon
    BY DEF SoundInv, BeaconInv, Remembers, Beacons!RampsAfterBeacon
  <2>2. part = "one rate" => OneRate!ResamplerFits
    BY DEF SoundInv, OneRateInv, OneRate!TypeOK, OneRate!ResamplerFits
  <2>3. QED  BY <2>1, <2>2 DEF HandsBack
<1>2. QED  BY <1>1, Inductive, PTL
=============================================================================
