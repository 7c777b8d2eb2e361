---------------------------- MODULE CaptureRate -----------------------------
(***************************************************************************)
(* The capture rate (internal/radio/radio.go, internal/dsp/dsp.go): the    *)
(* rate chosen (r.iqRate), the one the DSP is dimensioned for (dsp.IQRate),*)
(* the one the live chain was built with, and the one the rtl_tcp server   *)
(* really streams at.  They are changed by SetCaptureRate, by the ADS-B    *)
(* switch, by the setup of a session and by the watchdog that measures the *)
(* stream.  Rates are in thousands of samples per second.                  *)
(***************************************************************************)
EXTENDS Naturals, Sequences

CONSTANTS
    Thread,    \* the goroutines that call: the UI's and the web server's
    Asked      \* the rates callers ask SetCaptureRate for

\* The rates SetCaptureRate accepts, and those the watchdog knows.
Offered == {256, 1024, 1536, 1792, 2048, 2400, 2560, 2880, 3200}
Known   == Offered \cup {640}

VARIABLES
    iqRate,    \* r.iqRate
    dspRate,   \* dsp.IQRate, a package variable
    chain,     \* the rate the live chain was dimensioned for
    server,    \* the rate the server streams at
    session,   \* "down", "setup" (its chain is built), "up"
    pending,   \* ratePendingSnap, 0 if none
    watch,     \* the watchdog: "measure", "rebuild", "done"
    adsb,      \* r.adsbRFOn
    adsbBk,    \* r.adsbRateBk, 0 if none
    todo,      \* each thread: the steps left of its call
    mine       \* the threads whose remembered client is the session's

stream == <<server, session>>
dog    == <<pending, watch>>
adsbs  == <<adsb, adsbBk>>
calls  == <<todo, mine>>
vars   == <<iqRate, dspRate, chain, stream, dog, adsbs, calls>>

Task(d, a) == [do |-> d, arg |-> a]

Settled == \A t \in Thread : todo[t] = <<>>

Init ==
    /\ iqRate = 2048 /\ dspRate = 2048 /\ chain = 2048 /\ server = 2048
    /\ session = "down" /\ pending = 0 /\ watch = "measure"
    /\ adsb = FALSE /\ adsbBk = 0
    /\ todo = [t \in Thread |-> <<>>] /\ mine = {}

Enter(t) ==
    /\ todo[t] = <<>>
    /\ \E c \in {Task("rate", h) : h \in Asked} \cup {Task("adsb", on) : on \in 0..1} \cup {Task("mode", 0)} :
         todo' = [todo EXCEPT ![t] = <<c>>]
    /\ UNCHANGED <<iqRate, dspRate, chain, stream, dog, adsbs, mine>>

At(t, d) == todo[t] # <<>> /\ Head(todo[t]).do = d

Arg(t) == Head(todo[t]).arg

Then(t, s) == todo' = [todo EXCEPT ![t] = s \o Tail(@)]

-----------------------------------------------------------------------------
(* SetCaptureRate: the choice, the package variable, the chain, the client *)

SetCaptureRate(t) ==
    /\ At(t, "rate")
    /\ IF Arg(t) \in Offered \ {iqRate}
         THEN iqRate' = Arg(t) /\ Then(t, <<Task("dsp", Arg(t)), Task("rebuild", 0)>>)
         ELSE Then(t, <<>>) /\ UNCHANGED iqRate
    /\ UNCHANGED <<dspRate, chain, stream, dog, adsbs, mine>>

SetIQRate(t) ==
    /\ At(t, "dsp")
    /\ dspRate' = Arg(t)
    /\ Then(t, <<>>)
    /\ UNCHANGED <<iqRate, chain, stream, dog, adsbs, mine>>

CaptureRebuild(t) ==
    /\ At(t, "rebuild")
    /\ chain' = dspRate
    /\ mine' = IF session = "down" THEN mine \ {t} ELSE mine \cup {t}
    /\ Then(t, <<Task("close", 0)>>)
    /\ UNCHANGED <<iqRate, dspRate, stream, dog, adsbs>>

CloseClient(t) ==
    /\ At(t, "close")
    /\ IF t \in mine
         THEN session' = "down" /\ mine' = {} /\ server' \in {server, 2048}
         ELSE UNCHANGED <<stream, mine>>
    /\ Then(t, <<>>)
    /\ UNCHANGED <<iqRate, dspRate, chain, dog, adsbs>>

\* SetMode and SetBandwidth rebuild the chain for the package variable.
SetMode(t) ==
    /\ At(t, "mode")
    /\ chain' = dspRate
    /\ Then(t, <<>>)
    /\ UNCHANGED <<iqRate, dspRate, stream, dog, adsbs, mine>>

-----------------------------------------------------------------------------
(* SetADSBRFEnabled *)

AdsbBackup(on) == IF ~on THEN 0 ELSE IF adsbBk = 0 THEN iqRate ELSE adsbBk

SetADSBRFEnabled(t) ==
    /\ At(t, "adsb")
    /\ adsb' = (Arg(t) = 1)
    /\ adsbBk' = AdsbBackup(Arg(t) = 1)
    /\ Then(t, IF Arg(t) = 1 THEN <<Task("adsbrate", 0)>>
               ELSE IF adsbBk # 0 /\ iqRate = 2400 THEN <<Task("rate", adsbBk)>>
               ELSE <<>>)
    /\ UNCHANGED <<iqRate, dspRate, chain, stream, dog, mine>>

ForceAdsbRate(t) ==
    /\ At(t, "adsbrate")
    /\ Then(t, IF dspRate # 2400 THEN <<Task("rate", 2400)>> ELSE <<>>)
    /\ UNCHANGED <<iqRate, dspRate, chain, stream, dog, adsbs, mine>>

-----------------------------------------------------------------------------
(* The session's goroutine *)

SetupChain ==
    /\ session = "down" /\ watch # "rebuild"
    /\ session' = "setup" /\ chain' = dspRate
    /\ pending' = 0 /\ watch' = "measure"
    /\ UNCHANGED <<iqRate, dspRate, server, adsbs, calls>>

\* The default rate is never sent: the server is taken to stream at it.
SetupRate ==
    /\ session = "setup"
    /\ session' = "up"
    /\ server' = IF iqRate # 2048 THEN iqRate ELSE server
    /\ UNCHANGED <<iqRate, dspRate, chain, dog, adsbs, calls>>

\* A server that is restarted streams at its default again.
SessionEnds ==
    /\ session # "down"
    /\ session' = "down" /\ mine' = {} /\ server' \in {server, 2048}
    /\ UNCHANGED <<iqRate, dspRate, chain, dog, adsbs, todo>>

\* The first known rate within 15 % of the measured one, 0 if none is.
Snap(actual) ==
    LET near == {k \in Known : 85 * k <= 100 * actual /\ 100 * actual <= 115 * k}
    IN  IF near = {} THEN 0 ELSE CHOOSE k \in near : \A l \in near : k <= l

\* The verdict of a window: confirmed, or a mismatch seen once, or twice.
Measure ==
    /\ session = "up" /\ watch = "measure"
    /\ LET snap == Snap(server) IN
         IF snap \in {0, dspRate}
           THEN watch' = "done" /\ UNCHANGED <<pending, dspRate>>
           ELSE IF pending = snap
           THEN dspRate' = snap /\ watch' = "rebuild" /\ UNCHANGED pending
           ELSE pending' = snap /\ UNCHANGED <<watch, dspRate>>
    /\ UNCHANGED <<iqRate, chain, stream, adsbs, calls>>

\* Bug form: the chain that runs keeps its dimensions.
RedimensionLater ==
    /\ watch = "rebuild"
    /\ watch' = "done"
    /\ UNCHANGED <<iqRate, dspRate, chain, stream, pending, adsbs, calls>>

Redimension ==
    /\ watch = "rebuild"
    /\ chain' = dspRate /\ watch' = "done"
    /\ UNCHANGED <<iqRate, dspRate, stream, pending, adsbs, calls>>

-----------------------------------------------------------------------------

Step(t) ==
    \/ SetCaptureRate(t) \/ SetIQRate(t) \/ CaptureRebuild(t) \/ CloseClient(t)
    \/ SetMode(t) \/ SetADSBRFEnabled(t) \/ ForceAdsbRate(t)

Next ==
    \/ \E t \in Thread : Enter(t) \/ Step(t)
    \/ SetupChain \/ SetupRate \/ SessionEnds \/ Measure \/ Redimension

Spec == Init /\ [][Next]_vars

-----------------------------------------------------------------------------

TypeOK ==
    /\ {iqRate, server} \subseteq Offered /\ {dspRate, chain} \subseteq Known
    /\ session \in {"down", "setup", "up"} /\ watch \in {"measure", "rebuild", "done"}
    /\ pending \in Known \cup {0} /\ adsbBk \in Offered \cup {0} /\ adsb \in BOOLEAN
    /\ mine \subseteq Thread /\ \A t \in Thread : Len(todo[t]) <= 2

(* Once the watchdog has its verdict and no change is under way, the chain *)
(* that runs is dimensioned for the rate the stream was taken for, whoever *)
(* changed what in which order (session's watchdog, SetCaptureRate,        *)
(* SetMode).                                                               *)
ChainFitsVerdict ==
    session = "up" /\ watch = "done" /\ Settled => chain = Snap(server)

(* The watchdog exists to "re-dimension the DSP to match" what the server  *)
(* really streams (session).                                               *)
ChainFitsStream ==
    session = "up" /\ watch = "done" /\ Settled => chain = server

(* ADS-B turned off "restores the previous rate" (SetADSBRFEnabled), for   *)
(* callers that ask for no other rate.                                     *)
AdsbRestoresRate == Settled /\ ~adsb => iqRate = 2048

(* The rate chosen is the one the session asked the server for             *)
(* (SetCaptureRate: "the next session opens with a SetSampleRate").        *)
ServerAsChosen == session = "up" /\ Settled => server = iqRate

(* ADS-B runs at "2.4 MSPS, the rate the demodulator requires"             *)
(* (SetADSBRFEnabled).                                                     *)
AdsbAtItsRate == session = "up" /\ watch = "done" /\ Settled /\ adsb => dspRate = 2400
=============================================================================
