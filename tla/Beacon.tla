------------------------------- MODULE Beacon -------------------------------
(***************************************************************************)
(* The speaker shared by the receiver and the APRS beacon                  *)
(* (internal/radio/radio.go).  PlayBeacon queues the tones, beaconLoop     *)
(* plays them at 48 kHz, session's loop holds its own audio back ("ducks") *)
(* while BeaconPlaying, and SetMode changes the rate of the receiver's     *)
(* audio, and after releasing r.mu that of the output's resampler.         *)
(* Rates are in kHz; beacons are numbered as they are queued.              *)
(***************************************************************************)
EXTENDS Naturals

CONSTANTS
    MaxBeacons,   \* bound: the beacons queued in a behaviour
    ModeRates     \* the audio rates of the modes the user picks from

VARIABLES
    queued,   \* beacons queued so far
    beacon,   \* r.beacon, 0 if nil
    on,       \* r.beaconOn
    relArm,   \* r.relArm
    loop,     \* beaconLoop: "idle", "claim", "to48", "write", "back", "end"
    bc,       \* the beacon it plays, 0 if none
    rate,     \* the rate it goes back to
    mode,     \* the audio rate of r.mode
    tuning,   \* SetMode's caller: 0, or the rate it is about to set
    inRate,   \* the output's resampler
    rx,       \* session: 0, or the rate of the block it is about to write
    fade,     \* resumeFade > 0: the block will be ramped
    played,   \* history: the beacons written to the output
    first     \* history: no block was read for the speaker since a beacon ended

tones == <<queued, beacon, on, relArm>>
loops == <<loop, bc, rate>>
modes == <<mode, tuning>>
recv  == <<rx, fade, first>>
vars  == <<tones, loops, modes, inRate, recv, played>>

BeaconPlaying == beacon # 0 \/ on

Init ==
    /\ queued = 0 /\ beacon = 0 /\ on = FALSE /\ relArm = FALSE
    /\ loop = "idle" /\ bc = 0 /\ rate = 0
    /\ mode \in ModeRates /\ tuning = 0 /\ inRate = mode
    /\ rx = 0 /\ fade = FALSE /\ first = FALSE /\ played = {}

PlayBeacon ==
    /\ queued < MaxBeacons
    /\ queued' = queued + 1 /\ beacon' = queued + 1
    /\ UNCHANGED <<on, relArm, loops, modes, inRate, recv, played>>

-----------------------------------------------------------------------------
(* beaconLoop *)

Take ==
    /\ loop = "idle" /\ beacon # 0 /\ ~on
    /\ loop' = "claim" /\ bc' = beacon /\ rate' = mode
    /\ on' = TRUE
    /\ UNCHANGED <<queued, beacon, relArm, modes, inRate, recv, played>>

\* r.beaconPos = len(bc)
Claim ==
    /\ loop = "claim" /\ loop' = "to48"
    /\ UNCHANGED <<tones, bc, rate, modes, inRate, recv, played>>

To48 ==
    /\ loop = "to48" /\ loop' = "write"
    /\ inRate' = 48
    /\ UNCHANGED <<tones, bc, rate, modes, recv, played>>

WriteBeacon ==
    /\ loop = "write" /\ loop' = "back"
    /\ played' = played \cup {bc}
    /\ UNCHANGED <<tones, bc, rate, modes, inRate, recv>>

Back ==
    /\ loop = "back" /\ loop' = "end"
    /\ inRate' = rate
    /\ UNCHANGED <<tones, bc, rate, modes, recv, played>>

\* Bug form: the flag that a beacon plays is not cleared.
EndStillOn ==
    /\ loop = "end" /\ loop' = "idle"
    /\ beacon' = 0 /\ relArm' = TRUE /\ first' = TRUE
    /\ bc' = 0 /\ rate' = 0
    /\ UNCHANGED <<queued, on, modes, inRate, rx, fade, played>>

End ==
    /\ loop = "end" /\ loop' = "idle"
    /\ beacon' = 0 /\ on' = FALSE /\ relArm' = TRUE /\ first' = TRUE
    /\ bc' = 0 /\ rate' = 0
    /\ UNCHANGED <<queued, modes, inRate, rx, fade, played>>

-----------------------------------------------------------------------------
(* session's loop: what it reads of the beacon, and the write that follows *)

\* Bug form: only a block that was held back arms the ramp.
ReadBlockDucked ==
    /\ rx = 0
    /\ rx' = IF BeaconPlaying THEN 0 ELSE mode
    /\ fade' = (fade \/ BeaconPlaying) /\ relArm' = FALSE
    /\ UNCHANGED <<queued, beacon, on, loops, modes, inRate, first, played>>

ReadBlock ==
    /\ rx = 0
    /\ rx' = IF BeaconPlaying THEN 0 ELSE mode
    /\ fade' = (fade \/ relArm \/ BeaconPlaying) /\ relArm' = FALSE
    /\ UNCHANGED <<queued, beacon, on, loops, modes, inRate, first, played>>

WriteBlock ==
    /\ rx # 0
    /\ rx' = 0 /\ fade' = FALSE
    /\ first' = (first /\ relArm)
    /\ UNCHANGED <<tones, loops, modes, inRate, played>>

-----------------------------------------------------------------------------
(* SetMode: the mode under r.mu, the resampler after it. *)

SetMode ==
    /\ tuning = 0
    /\ \E r \in ModeRates \ {mode} : mode' = r /\ tuning' = r
    /\ UNCHANGED <<tones, loops, inRate, recv, played>>

SetInputRate ==
    /\ tuning # 0
    /\ inRate' = tuning /\ tuning' = 0
    /\ UNCHANGED <<tones, loops, mode, recv, played>>

-----------------------------------------------------------------------------

Loop == Take \/ Claim \/ To48 \/ WriteBeacon \/ Back \/ End

Next == PlayBeacon \/ Loop \/ ReadBlock \/ WriteBlock \/ SetMode \/ SetInputRate

Spec == Init /\ [][Next]_vars

\* The loop's ticker fires, and the pipe of the output is consumed.
FairSpec == Spec /\ WF_vars(Loop)

-----------------------------------------------------------------------------

TypeOK ==
    /\ queued \in 0..MaxBeacons /\ beacon \in 0..queued /\ bc \in 0..queued
    /\ {on, relArm, fade, first} \subseteq BOOLEAN
    /\ loop \in {"idle", "claim", "to48", "write", "back", "end"}
    /\ mode \in ModeRates /\ {rate, tuning, rx} \subseteq ModeRates \cup {0}
    /\ inRate \in ModeRates \cup {IF loop \in {"write", "back"} THEN 48 ELSE mode}
    /\ played \subseteq 1..queued

(* The first block that follows a beacon, read after it ended, is ramped:  *)
(* "resuming mid-waveform clicks" (session, relArm, resumeFade).           *)
RampsAfterBeacon == rx # 0 /\ first /\ ~relArm => fade

(* The speaker comes back: a queued beacon holds the receiver's audio back *)
(* for a while only (BeaconPlaying, beaconLoop).                           *)
SpeakerComesBack == BeaconPlaying ~> ~BeaconPlaying

(* The resampler is at the rate of the receiver's audio whenever nobody is *)
(* about to change it (SetInputRate "reconfigures the resampler for the    *)
(* DSP audio rate").                                                       *)
ResamplerFits == loop = "idle" /\ tuning = 0 => inRate = mode

(* The beacon is played at its own rate (beaconLoop).                      *)
BeaconAtItsRate == loop = "write" => inRate = 48

(* "duck the demod audio so they never mix": no block is written between   *)
(* the start of the beacon and its end (session).                          *)
NeverMix == loop \in {"write", "back"} => rx = 0

(* New-rate audio never meets the old-rate resampler (SetMode, "Update the *)
(* resampler INSIDE the lock").                                            *)
BlockMeetsItsRate == rx # 0 /\ ~BeaconPlaying => inRate = rx

(* PlayBeacon queues: every beacon is played.                              *)
BeaconIsPlayed == \A b \in 1..MaxBeacons : (beacon = b) ~> (b \in played)
=============================================================================
