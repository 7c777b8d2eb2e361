------------------------------- MODULE Monitors -------------------------------
(***************************************************************************)
(* The decoders that listen on the side (dsp.go): a block of signal reaches *)
(* them over the branch that demodulates for them, or, when the user       *)
(* listens to sideband at 8 kHz, over the user's own audio.  Changing the  *)
(* mode makes a new chain, to which the radio attaches what is on.         *)
(***************************************************************************)
EXTENDS Integers, FiniteSets

CONSTANTS MaxSteps

Detectors == {"ft8", "rtty", "wefax", "cw", "cwTap", "f8tsTap", "sstv"}
Tapped == Detectors \ {"sstv"}        \* those the user's own audio is handed to
Widths == {2700, 3400, 6000}

VARIABLES
    mode, bw,       \* "SSB", "AM", "NFM", "WFM"; of SSB
    on, aprs,       \* the detectors that are on; APRS decoding
    has,            \* the chain's
    fed,            \* how often each got the last block
    heard,          \* history: the block went to what the chain has now
    steps

vars == <<mode, bw, on, aprs, has, fed, heard, steps>>

OutRate(m, w) == IF m = "SSB" /\ w > 3400 THEN 16 ELSE 8
InSideband == mode = "SSB" /\ OutRate(mode, bw) = 8

\* What a new chain is given: SSTV only along with APRS.
Attached == IF aprs THEN on ELSE on \ {"sstv"}

Init ==
    /\ mode = "SSB" /\ bw = 2700 /\ on = {} /\ aprs = FALSE /\ has = {}
    /\ fed = [d \in Detectors |-> 0] /\ heard = FALSE /\ steps = 0

Step == steps < MaxSteps /\ steps' = steps + 1 /\ heard' = FALSE /\ UNCHANGED fed

SetMode(m) ==
    /\ Step /\ ("ft8" \in on => m = "SSB")
    /\ mode' = m /\ bw' \in (IF m = "SSB" THEN Widths ELSE {bw})
    /\ has' = Attached /\ UNCHANGED <<on, aprs>>
Switch(d) ==
    /\ Step /\ (d = "ft8" /\ d \notin on => mode = "SSB")     \* it is put in USB first
    /\ on' = (on \ {d}) \cup ({d} \ on)
    /\ has' = (has \ ({d} \ {"rtty"})) \cup ({d} \ on)      \* RTTY is never detached
    /\ UNCHANGED <<mode, bw, aprs>>
SwitchAprs == Step /\ aprs' = ~aprs /\ UNCHANGED <<mode, bw, on, has>>

Fed(S) == [d \in Detectors |-> IF d \in S THEN 1 ELSE 0]
FeedMonitors(S) == Fed(S)
ProcessSSB(S) == IF OutRate(mode, bw) = 8 /\ S \cap Tapped # {} THEN Fed(S \cap Tapped) ELSE Fed({})

ProcessNarrow ==    \* bug: the branch is left out for all sideband
    /\ steps < MaxSteps /\ steps' = steps + 1 /\ heard' = TRUE
    /\ LET branch == IF has # {} /\ mode # "SSB" THEN FeedMonitors(has) ELSE Fed({})
           own    == IF mode = "SSB" THEN ProcessSSB(has) ELSE Fed({})
       IN  fed' = [d \in Detectors |-> branch[d] + own[d]]
    /\ UNCHANGED <<mode, bw, on, aprs, has>>
Process ==
    /\ steps < MaxSteps /\ steps' = steps + 1 /\ heard' = TRUE
    /\ LET branch == IF has # {} /\ ~InSideband THEN FeedMonitors(has) ELSE Fed({})
           own    == IF mode = "SSB" THEN ProcessSSB(has) ELSE Fed({})
       IN  fed' = [d \in Detectors |-> branch[d] + own[d]]
    /\ UNCHANGED <<mode, bw, on, aprs, has>>

Next ==
    \/ \E m \in {"SSB", "AM", "NFM", "WFM"} : SetMode(m)
    \/ \E d \in Detectors : Switch(d)
    \/ SwitchAprs \/ Process

Spec == Init /\ [][Next]_vars

-----------------------------------------------------------------------------

TypeOK ==
    /\ on \subseteq Detectors /\ has \subseteq on \cup {"rtty"} /\ fed \in [Detectors -> 0..1]

(* Whatever the user listens to, and at whatever rate, a block reaches     *)
(* every decoder that is on once: over one of the two paths, and not over  *)
(* both.  (SSTV apart.)                                                    *)
FedOnce == heard => \A d \in on \ {"sstv"} : fed[d] = 1

\* Refuted: on sideband the SSTV decoder gets nothing, and a change of mode
\* loses it (dsp.go:621: "the dedicated branch below feeds the detectors in
\* every mode").
SstvFed == heard /\ "sstv" \in on => fed["sstv"] = 1
==============================================================================
