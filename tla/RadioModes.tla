----------------------------- MODULE RadioModes -----------------------------
(***************************************************************************)
(* The decoders of the receiver and the DSP chain they are attached to     *)
(* (internal/radio/radio.go).  The UI and the web page switch decoders,    *)
(* modes, bandwidths and rates through methods of Radio; most take r.mu    *)
(* for the flags, remember r.chain, let go of r.mu and then attach or      *)
(* detach.  Every rebuild makes a new chain and re-attaches what it        *)
(* remembers to.                                                           *)
(*                                                                         *)
(* A call in progress is the sequence of the steps it still has to take;   *)
(* its step under r.mu is one action.                                      *)
(***************************************************************************)
EXTENDS Naturals, Sequences

CONSTANTS
    Thread,         \* the goroutines that call: the UI's and the web server's
    Feature,        \* the decoders and effects in use
    ZeroBandwidth   \* whether a caller may pass a bandwidth of zero or less

Mode == {"USB", "NFM", "AM"}

VARIABLES
    mode,       \* r.mode
    want,       \* the features whose flag is on: what the ...Enabled methods report
    has,        \* the features attached to the live chain
    todo,       \* each thread: the steps left of its call
    stale,      \* the threads whose remembered chain is not the live one
    held,       \* r.mu was left locked
    watch,      \* the rate watchdog: "idle", or the mode it read and will set
    reconnect,  \* a session restart is on its way (SetCaptureRate)
    raced       \* history: features two threads switched at the same time

vars == <<mode, want, has, todo, stale, held, watch, reconnect, raced>>

Task(d, a) == [do |-> d, arg |-> a]

Call ==
    {Task("mode", m) : m \in Mode} \cup {Task("rate", "new"), Task("bandwidth", "some")}
        \cup [do : Feature, arg : {"on", "off"}]
        \cup IF ZeroBandwidth THEN {Task("bandwidth", "zero")} ELSE {}

Settled == (\A t \in Thread : todo[t] = <<>>) /\ watch = "idle"

Init ==
    /\ mode \in Mode /\ want = {} /\ has = {}
    /\ todo = [t \in Thread |-> <<>>] /\ stale = {} /\ held = FALSE
    /\ watch = "idle" /\ reconnect = FALSE /\ raced = {}

Enter(t) ==
    /\ todo[t] = <<>>
    /\ \E c \in Call :
         todo' = [todo EXCEPT ![t] = IF c = Task("ais", "on") THEN <<Task("noft8", "now"), c>> ELSE <<c>>]
    /\ UNCHANGED <<mode, want, has, stale, held, watch, reconnect, raced>>

-----------------------------------------------------------------------------
(* The chains the rebuilds make *)

Fx == {"nr", "wefax"}

\* applyAudioFx on a chain that has S: RTTY is attached, never detached.
ApplyAudioFx(S, on) == (S \ Fx) \cup (on \cap (Fx \cup {"rtty"}))

ModeChain      == ApplyAudioFx({}, want) \cup (want \cap {"ft8", "ais", "aprs"})
BandwidthChain == ApplyAudioFx({}, want) \cup (want \cap {"ft8", "aprs"})
RateChain      == ApplyAudioFx({}, want) \cup (want \cap {"ft8"})
SessionChain   == want \cap {"ft8", "ais", "aprs"}

Rebuild(chain) == has' = chain /\ stale' = Thread

-----------------------------------------------------------------------------
(* The steps of a call *)

At(t, d) == todo[t] # <<>> /\ Head(todo[t]).do = d /\ ~held

Arg(t) == Head(todo[t]).arg

On(t) == Arg(t) = "on"

Then(t, s) == todo' = [todo EXCEPT ![t] = s \o Tail(@)]

\* The features a call of another thread is about to attach or detach.
Switching(t) ==
    {f \in Feature : \E u \in Thread \ {t} : \E i \in DOMAIN todo[u] :
        todo[u][i] \in {Task("attach", f), Task("detach", f)}}

Rejected(m) ==
    \/ "ft8" \in want /\ m \notin {"USB", mode}
    \/ "ais" \in want /\ m \notin {"NFM", mode}

SetModeTo(m) ==
    IF Rejected(m)
      THEN UNCHANGED <<mode, has, stale>>
      ELSE mode' = m /\ Rebuild(ModeChain)

SetMode(t) ==
    /\ At(t, "mode")
    /\ SetModeTo(Arg(t))
    /\ Then(t, <<>>)
    /\ UNCHANGED <<want, held, watch, reconnect, raced>>

SetBandwidth(t) ==
    /\ At(t, "bandwidth")
    /\ IF Arg(t) = "some"
         THEN Rebuild(BandwidthChain) /\ UNCHANGED held
         ELSE held' = TRUE /\ UNCHANGED <<has, stale>>
    /\ Then(t, <<>>)
    /\ UNCHANGED <<mode, want, watch, reconnect, raced>>

\* The new rate is stored under the lock; one that is set already ends the call.
SetCaptureRate(t) ==
    /\ At(t, "rate")
    /\ \/ Then(t, <<>>)
       \/ Then(t, <<Task("rebuild", "now")>>)
    /\ UNCHANGED <<mode, want, has, stale, held, watch, reconnect, raced>>

CaptureRebuild(t) ==
    /\ At(t, "rebuild")
    /\ Rebuild(RateChain) /\ reconnect' = TRUE
    /\ Then(t, <<>>)
    /\ UNCHANGED <<mode, want, held, watch, raced>>

SetAudioFx(t, f) ==
    /\ At(t, f)
    /\ want' = IF On(t) THEN want \cup {f} ELSE want \ {f}
    /\ has' = ApplyAudioFx(has, want')
    /\ Then(t, <<>>)
    /\ UNCHANGED <<mode, stale, held, watch, reconnect, raced>>

SetNoiseReduction(t) == "nr" \in Feature    /\ SetAudioFx(t, "nr")
SetWefaxEnabled(t)   == "wefax" \in Feature /\ SetAudioFx(t, "wefax")
SetRTTYEnabled(t)    == "rtty" \in Feature  /\ SetAudioFx(t, "rtty")

\* The flag and the mode that goes with it, then the attachment without the lock.
SetDecoder(t, f, home) ==
    /\ At(t, f)
    /\ want' = IF On(t) THEN want \cup {f} ELSE want \ {f}
    /\ stale' = stale \ {t}
    /\ Then(t, <<Task(IF On(t) THEN "attach" ELSE "detach", f)>>
                 \o IF On(t) /\ mode \notin home THEN <<Task("mode", CHOOSE m \in home : TRUE)>> ELSE <<>>)
    /\ raced' = IF f \in Switching(t) THEN raced \cup {f} ELSE raced
    /\ UNCHANGED <<mode, has, held, watch, reconnect>>

SetFT8Enabled(t)   == "ft8" \in Feature  /\ SetDecoder(t, "ft8", {"USB"})
SetAISRFEnabled(t) == "ais" \in Feature  /\ SetDecoder(t, "ais", {"NFM"})
SetAPRSEnabled(t)  == "aprs" \in Feature /\ SetDecoder(t, "aprs", Mode)

\* Bug form: the check is made again after FT8 was turned off.
DropFT8Again(t) ==
    /\ At(t, "noft8")
    /\ Then(t, IF "ft8" \in want THEN <<Task("ft8", "off"), Task("noft8", "now")>> ELSE <<>>)
    /\ UNCHANGED <<mode, want, has, stale, held, watch, reconnect, raced>>

\* SetAISRFEnabled begins with FT8Enabled, and with SetFT8Enabled(false) if it is on.
DropFT8(t) ==
    /\ At(t, "noft8")
    /\ Then(t, IF "ft8" \in want THEN <<Task("ft8", "off")>> ELSE <<>>)
    /\ UNCHANGED <<mode, want, has, stale, held, watch, reconnect, raced>>

Attach(t) ==
    /\ todo[t] # <<>> /\ Head(todo[t]).do \in {"attach", "detach"}
    /\ has' = IF t \in stale THEN has
              ELSE IF Head(todo[t]).do = "attach" THEN has \cup {Arg(t)} ELSE has \ {Arg(t)}
    /\ Then(t, <<>>)
    /\ UNCHANGED <<mode, want, stale, held, watch, reconnect, raced>>

-----------------------------------------------------------------------------
(* The session's goroutine: the chain of a new session, and the watchdog   *)
(* that re-dimensions the DSP with SetMode(Mode()).                        *)

\* Bug form: a new session forgets the APRS monitor.
SetupNoAprs ==
    /\ watch = "idle" /\ ~held
    /\ Rebuild(want \cap {"ft8", "ais"}) /\ reconnect' = FALSE
    /\ UNCHANGED <<mode, want, todo, held, watch, raced>>

Setup ==
    /\ watch = "idle" /\ ~held
    /\ Rebuild(SessionChain) /\ reconnect' = FALSE
    /\ UNCHANGED <<mode, want, todo, held, watch, raced>>

WatchdogRead ==
    /\ watch = "idle" /\ ~held
    /\ watch' = mode
    /\ UNCHANGED <<mode, want, has, todo, stale, held, reconnect, raced>>

WatchdogSet ==
    /\ watch # "idle" /\ ~held
    /\ SetModeTo(watch) /\ watch' = "idle"
    /\ UNCHANGED <<want, todo, held, reconnect, raced>>

-----------------------------------------------------------------------------

Step(t) ==
    \/ SetMode(t) \/ SetBandwidth(t) \/ SetCaptureRate(t) \/ CaptureRebuild(t)
    \/ SetNoiseReduction(t) \/ SetWefaxEnabled(t) \/ SetRTTYEnabled(t)
    \/ SetFT8Enabled(t) \/ SetAISRFEnabled(t) \/ SetAPRSEnabled(t)
    \/ DropFT8(t) \/ Attach(t)

Next ==
    \/ \E t \in Thread : Enter(t) \/ Step(t)
    \/ Setup \/ WatchdogRead \/ WatchdogSet

Spec == Init /\ [][Next]_vars

\* Every goroutine runs on while it can, and r.mu is granted in the end.
FairSpec == Spec /\ \A t \in Thread : SF_vars(Step(t))

-----------------------------------------------------------------------------

TypeOK ==
    /\ mode \in Mode /\ want \subseteq Feature /\ has \subseteq Feature
    /\ stale \subseteq Thread /\ raced \subseteq Feature
    /\ {held, reconnect} \subseteq BOOLEAN /\ watch \in Mode \cup {"idle"}
    /\ \A t \in Thread : Len(todo[t]) <= 2

(* A decoder that is reported on is attached to the live chain once all    *)
(* calls returned and the pending reconnect is done, and one reported off  *)
(* is not, unless two threads switched it at once (SetMode, SetBandwidth,  *)
(* SetCaptureRate, session's setup, SetFT8Enabled, SetAPRSEnabled).        *)
AttachedUnlessRaced ==
    Settled /\ ~reconnect => \A f \in Feature \ raced : f \in want <=> f \in has

(* AIS RF "locks the mode to NFM" (SetAISRFEnabled, SetMode).              *)
AisLocksNfm == Settled /\ "ais" \in want => mode = "NFM"

(* "Every chain rebuild must run it: SetMode, SetBandwidth, SetCaptureRate *)
(* and session setup": the effects that are on are on the live chain       *)
(* (applyAudioFx).                                                         *)
EffectsSurviveRebuilds == Settled /\ ~reconnect => has \cap Fx = want \cap Fx

(* What the ...Enabled methods report is what runs.                        *)
AttachedAsReported ==
    Settled /\ ~reconnect => \A f \in Feature : f \in want <=> f \in has

(* "While FT8 is active the mode is locked to USB" (SetMode).              *)
Ft8LocksUsb == Settled /\ "ft8" \in want => mode = "USB"

(* The watchdog only rebuilds: it leaves the mode as it is.                *)
RedimensionKeepsMode == [][watch # "idle" /\ watch' = "idle" => mode' = mode]_vars

(* Every call returns (all of Radio's methods take r.mu).                  *)
CallsReturn == \A t \in Thread : todo[t] # <<>> ~> todo[t] = <<>>
=============================================================================
