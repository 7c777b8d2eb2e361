------------------------------- MODULE Tuner --------------------------------
(***************************************************************************)
(* Where the receiver listens (internal/radio/radio.go): the dial (freqHz),*)
(* the hardware's centre frequency (loHz), the passband offset of the DSP  *)
(* chain, the APRS branch's offset and the direct-sampling switch, kept    *)
(* together with what the rtl_tcp server was last told.  How far the dial  *)
(* and the APRS channel may sit from the LO follows the capture rate and   *)
(* the mode's bandwidth.                                                   *)
(*                                                                         *)
(* Threads: the callers of the setters (the UI loop, and the web page's    *)
(* handler, which its own mutex makes one thread) and the Run goroutine,   *)
(* whose session setup snapshots the dial under the lock and sends it      *)
(* afterwards, and whose rate watchdog rebuilds the chain.  Frequencies,   *)
(* rates and bandwidths are numbers in one unit (kHz in the runs).         *)
(***************************************************************************)
EXTENDS Integers

CONSTANTS
    Thread,       \* callers of the setters
    Freqs,        \* frequencies they ask for
    Start,        \* the dial at start
    AprsFreqs,    \* APRS channels
    Rates,        \* capture rates
    If2,          \* [Rates -> Nat]: dsp.IF2Rate at each
    Bandwidths,   \* of the modes
    DsModes,      \* preferences: -1 by the frequency, 0 tuner, 2 direct sampling
    HFEdge,       \* below it the dongle samples directly (24 MHz)
    ServerKeeps,  \* the server keeps its direct-sampling mode across clients
    MaxDepth,     \* bound: deeper nested calls are not told apart
    MaxSession    \* bound: connections made in a behaviour

ASSUME TunerAssumption ==
    /\ Freqs \subseteq Int /\ Start \in Int /\ AprsFreqs \subseteq Int
    /\ Rates \subseteq Nat /\ If2 \in [Rates -> Nat] /\ Bandwidths \subseteq Nat
    /\ DsModes \subseteq {-1, 0, 2} /\ HFEdge \in Int
    /\ ServerKeeps \in BOOLEAN
    /\ MaxDepth \in Nat \ {0} /\ MaxSession \in Nat

VARIABLES
    freq, lo,        \* r.freqHz, r.loHz
    chainOff,        \* the passband offset of r.chain
    held,            \* the callers whose copy of r.chain still is r.chain
    iqRate, rate, bw,  \* r.iqRate, dsp.IQRate, r.mode.BwHz
    dsMode, hf,      \* r.dsMode, r.hfApplied
    aprsOn, aprsFreq, aprsOff, \* r.aprsRFOn, r.aprsFreqHz, r.aprsOff
    client,          \* r.client: 0 none, else the session that owns it
    conn,            \* the connection that is open: 0 none
    sid,             \* sessions dialled so far
    sess,            \* the session: its position, what setup and watchdog read
    th,              \* the callers: position and locals
    srvFreq, srvDs,  \* the server: what it was told last
    raced,           \* history: in this session a caller met another one, or the setup
    crossed,         \* history: since the APRS branch was placed one met another, or the watchdog
    dsSwitched       \* history: the preference switched in this session

dial    == <<freq, lo, chainOff, held>>
window  == <<iqRate, rate, bw>>
switch  == <<dsMode, hf>>
aprs    == <<aprsOn, aprsFreq, aprsOff>>
link    == <<client, conn, sid>>
server  == <<srvFreq, srvDs>>
history == <<raced, crossed, dsSwitched>>
vars == <<dial, window, switch, aprs, link, sess, th, server, history>>

Dist(a, b) == IF a < b THEN b - a ELSE a - b

\* How far the dial may sit from the LO, and how far the APRS channel may.
OffsetLimit ==
    LET lim == (45 * rate) \div 100 IN IF 2 * bw < lim THEN lim - bw ELSE lim
IF2Window == (45 * If2[rate]) \div 100

\* Bug form: the preference itself goes to the server.
DirectSamplingForRaw(m, hz) == IF m = -1 /\ hz < HFEdge THEN 2 ELSE m

DirectSamplingFor(m, hz) ==
    IF m # -1 THEN m ELSE IF hz < HFEdge THEN 2 ELSE 0

Idle == [pc |-> "idle", hz |-> 0, want |-> 0, sw |-> FALSE, cl |-> 0, depth |-> 0]

\* Past its commands a call keeps its depth only.
Past(t, l) == [Idle EXCEPT !.pc = l, !.depth = th[t].depth]

AllIdle == \A t \in Thread : th[t].pc = "idle"

Deeper(d) == IF d < MaxDepth THEN d + 1 ELSE MaxDepth - 1

\* What the setup and the watchdog read is forgotten once used.
NoSession == [pc |-> "down", freq |-> 0, lo |-> 0, own |-> FALSE, want |-> 0, bw |-> 0,
              measured |-> FALSE]

SettingUp == sess.pc \in {"offset", "want", "ds", "tune"}

Init ==
    /\ freq = Start /\ lo = Start /\ chainOff = 0 /\ held = {}
    /\ iqRate \in Rates /\ rate = iqRate /\ bw \in Bandwidths
    /\ dsMode = -1 /\ hf = 0 /\ aprsOn = FALSE /\ aprsFreq \in AprsFreqs /\ aprsOff = 0
    /\ client = 0 /\ conn = 0 /\ sid = 0
    /\ sess = NoSession
    /\ th = [t \in Thread |-> Idle]
    /\ srvFreq = 0 /\ srvDs = 0
    /\ raced = FALSE /\ crossed = FALSE /\ dsSwitched = FALSE

-----------------------------------------------------------------------------
(* The setters.  Step(t, r) moves caller t to the record r. *)

Step(t, r) == th' = [th EXCEPT ![t] = r]

\* A caller that enters while another one, or the setup, is half way.
Meets(t) == \E u \in Thread \ {t} : th[u].pc # "idle"
Overlap(t) == raced' = (raced \/ SettingUp \/ Meets(t))

\* Its call places the APRS branch anew, or leaves it where it is.
Places(t)  == crossed' = Meets(t)
Crosses(t) == crossed' = (crossed \/ Meets(t))

\* SetFreq's section under the lock: a passband move, or a retune of the LO.
SetFreqBody(t, hz, depth) ==
    LET near == client # 0 /\ Dist(hz, lo) <= OffsetLimit
        want == DirectSamplingFor(dsMode, hz)
    IN  /\ freq' = hz
        /\ \/ /\ near
              /\ chainOff' = hz - lo
              /\ Step(t, [Idle EXCEPT !.pc = "sync", !.depth = depth])
              /\ UNCHANGED <<lo, hf, held>>
           \/ /\ ~near
              /\ lo' = hz /\ hf' = want
              /\ Step(t, [pc |-> "zero", hz |-> hz, want |-> want, sw |-> want # hf,
                          cl |-> client, depth |-> depth])
              /\ held' = held \cup {t}
              /\ UNCHANGED chainOff
        /\ UNCHANGED <<window, dsMode, aprsOn, aprsFreq>>

SetFreq(t, hz) ==
    /\ th[t].pc = "idle"
    /\ SetFreqBody(t, hz, 0)
    /\ Overlap(t) /\ Places(t)
    /\ UNCHANGED <<aprsOff, link, sess, server, dsSwitched>>

\* Bug form: the fresh LO keeps the old passband offset.
ZeroOffsetSkipped(t) ==
    /\ th[t].pc = "zero"
    /\ Step(t, IF th[t].cl = 0 THEN Past(t, "sync")
               ELSE [th[t] EXCEPT !.pc = IF th[t].sw THEN "ds" ELSE "tune"])
    /\ UNCHANGED <<dial, window, switch, aprs, link, sess, server, history>>

\* After the unlock: chain.SetOffsetHz(0) on the chain that was read.
ZeroOffset(t) ==
    /\ th[t].pc = "zero"
    /\ chainOff' = IF t \in held THEN 0 ELSE chainOff
    /\ held' = held \ {t}
    /\ Step(t, IF th[t].cl = 0 THEN Past(t, "sync")
               ELSE [th[t] EXCEPT !.pc = IF th[t].sw THEN "ds" ELSE "tune"])
    /\ UNCHANGED <<freq, lo, window, switch, aprs, link, sess, server, history>>

\* A command that fails closes the client, so that the session reconnects.
SendFails(t, next) ==
    /\ conn' = IF conn = th[t].cl THEN 0 ELSE conn
    /\ Step(t, Past(t, next))
    /\ UNCHANGED server

SendDs(t) ==
    /\ th[t].pc = "ds"
    /\ \/ /\ conn = th[t].cl /\ srvDs' = th[t].want
          /\ Step(t, [th[t] EXCEPT !.pc = "tune"])
          /\ UNCHANGED <<conn, srvFreq>>
       \/ SendFails(t, "sync")
    /\ UNCHANGED <<dial, window, switch, aprs, client, sid, sess, history>>

SendTune(t) ==
    /\ th[t].pc = "tune"
    /\ \/ /\ conn = th[t].cl /\ srvFreq' = th[t].hz
          /\ Step(t, Past(t, "sync"))
          /\ UNCHANGED <<conn, srvDs>>
       \/ SendFails(t, "sync")
    /\ UNCHANGED <<dial, window, switch, aprs, client, sid, sess, history>>

\* syncAPRSOffset, deferred by SetFreq: it may call SetFreq again.
SyncAPRS(t) ==
    /\ th[t].pc = "sync"
    /\ \/ /\ ~aprsOn
          /\ Step(t, [th[t] EXCEPT !.pc = "return"])
          /\ UNCHANGED <<dial, window, switch, aprsOn, aprsFreq>>
       \/ /\ aprsOn /\ Dist(aprsFreq, lo) <= IF2Window
          /\ Step(t, [th[t] EXCEPT !.pc = "store", !.hz = aprsFreq - lo])
          /\ UNCHANGED <<dial, window, switch, aprsOn, aprsFreq>>
       \/ /\ aprsOn /\ Dist(aprsFreq, lo) > IF2Window
          /\ SetFreqBody(t, aprsFreq, Deeper(th[t].depth))
    /\ UNCHANGED <<aprsOff, link, sess, server, history>>

\* The offset it read under the lock is stored under a second one.
StoreOffset(t) ==
    /\ th[t].pc = "store"
    /\ aprsOff' = th[t].hz
    /\ Step(t, Past(t, "return"))
    /\ UNCHANGED <<dial, window, switch, aprsOn, aprsFreq, link, sess, server, history>>

\* A call returns; a nested one returns into the syncAPRSOffset that made it.
Return(t) ==
    /\ th[t].pc = "return"
    /\ \/ /\ th[t].depth > 0
          /\ aprsOff' = 0
          /\ Step(t, [th[t] EXCEPT !.depth = @ - 1])
       \/ /\ th[t].depth = 0
          /\ Step(t, Idle)
          /\ UNCHANGED aprsOff
    /\ UNCHANGED <<dial, window, switch, aprsOn, aprsFreq, link, sess, server, history>>

\* Bug form: the channel is not looked for when APRS comes on.
SetAPRSEnabledNoSync(t, on) ==
    /\ th[t].pc = "idle"
    /\ aprsOn' = on
    /\ Overlap(t) /\ IF on THEN Places(t) ELSE Crosses(t)
    /\ UNCHANGED <<dial, window, switch, aprsFreq, aprsOff, link, sess, th, server, dsSwitched>>

SetAPRSEnabled(t, on) ==
    /\ th[t].pc = "idle"
    /\ aprsOn' = on
    /\ IF on THEN Step(t, [Idle EXCEPT !.pc = "sync"]) /\ Places(t) ELSE UNCHANGED th /\ Crosses(t)
    /\ Overlap(t)
    /\ UNCHANGED <<dial, window, switch, aprsFreq, aprsOff, link, sess, server, dsSwitched>>

SetAPRSFreq(t, hz) ==
    /\ th[t].pc = "idle"
    /\ aprsFreq' = hz
    /\ Step(t, [Idle EXCEPT !.pc = "sync"])
    /\ Overlap(t) /\ Places(t)
    /\ UNCHANGED <<dial, window, switch, aprsOn, aprsOff, link, sess, server, dsSwitched>>

\* A fresh chain at an offset; who copied the old one holds a dead one.
NewChain(off) == chainOff' = off /\ held' = {}
Disown == sess' = [sess EXCEPT !.own = FALSE]

\* SetMode and SetBandwidth, under one lock.
SetPassband(t, w) ==
    /\ th[t].pc = "idle"
    /\ bw' = w /\ NewChain(freq - lo) /\ Disown
    /\ Overlap(t) /\ Crosses(t)
    /\ UNCHANGED <<freq, lo, iqRate, rate, switch, aprs, link, th, server, dsSwitched>>

\* SetCaptureRate: the wish under the lock, the DSP's rate outside it, a fresh
\* chain that listens on the LO under a second one, and the connection closed.
SetCaptureRate(t, hz) ==
    /\ th[t].pc = "idle" /\ iqRate # hz
    /\ iqRate' = hz
    /\ Step(t, [Idle EXCEPT !.pc = "rate", !.hz = hz])
    /\ Overlap(t) /\ Crosses(t)
    /\ UNCHANGED <<dial, rate, bw, switch, aprs, link, sess, server, dsSwitched>>

CaptureRate(t) ==
    /\ th[t].pc = "rate"
    /\ rate' = th[t].hz
    /\ Step(t, [th[t] EXCEPT !.pc = "rebuild"])
    /\ UNCHANGED <<dial, iqRate, bw, switch, aprs, link, sess, server, history>>

CaptureRebuild(t) ==
    /\ th[t].pc = "rebuild"
    /\ NewChain(0) /\ Disown
    /\ Step(t, [Idle EXCEPT !.pc = IF client = 0 THEN "return" ELSE "close", !.cl = client])
    /\ UNCHANGED <<freq, lo, window, switch, aprs, link, server, history>>

CaptureClose(t) ==
    /\ th[t].pc = "close"
    /\ SendFails(t, "return")
    /\ UNCHANGED <<dial, window, switch, aprs, client, sid, sess, history>>

\* SetDirectSamplingMode: its section under the lock, then two commands.
SetDsMode(t, m) ==
    /\ th[t].pc = "idle"
    /\ LET want == DirectSamplingFor(m, freq) IN
         /\ dsMode' = m /\ hf' = want
         /\ IF client # 0 /\ want # hf
              THEN /\ Step(t, [Idle EXCEPT !.pc = "mds", !.hz = freq, !.want = want, !.cl = client])
                   /\ dsSwitched' = TRUE
              ELSE UNCHANGED <<th, dsSwitched>>
    /\ Overlap(t) /\ Crosses(t)
    /\ UNCHANGED <<dial, window, aprs, link, sess, server>>

ModeSendDs(t) ==
    /\ th[t].pc = "mds"
    /\ \/ /\ conn = th[t].cl /\ srvDs' = th[t].want
          /\ Step(t, [th[t] EXCEPT !.pc = "mtune"])
          /\ UNCHANGED <<conn, srvFreq>>
       \/ SendFails(t, "return")
    /\ UNCHANGED <<dial, window, switch, aprs, client, sid, sess, history>>

\* The error of this last SetFrequency is dropped: the client stays.
ModeSendTune(t) ==
    /\ th[t].pc = "mtune"
    /\ srvFreq' \in {srvFreq} \cup (IF conn = th[t].cl THEN {th[t].hz} ELSE {})
    /\ Step(t, Past(t, "return"))
    /\ UNCHANGED <<dial, window, switch, aprs, link, sess, srvDs, history>>

Setter(t) ==
    \/ \E hz \in Freqs : SetFreq(t, hz)
    \/ \E on \in BOOLEAN : SetAPRSEnabled(t, on)
    \/ \E hz \in AprsFreqs : SetAPRSFreq(t, hz)
    \/ \E w \in Bandwidths : SetPassband(t, w)
    \/ \E hz \in Rates : SetCaptureRate(t, hz)
    \/ \E m \in DsModes : SetDsMode(t, m)

Continue(t) ==
    \/ ZeroOffset(t) \/ SendDs(t) \/ SendTune(t) \/ SyncAPRS(t) \/ StoreOffset(t) \/ Return(t)
    \/ CaptureRate(t) \/ CaptureRebuild(t) \/ CaptureClose(t)
    \/ ModeSendDs(t) \/ ModeSendTune(t)

-----------------------------------------------------------------------------
(* The session. *)

At(l) == sess' = [sess EXCEPT !.pc = l]

\* A connection; the server may keep what the last client told it.
Dial ==
    /\ sess.pc = "down" /\ sid < MaxSession
    /\ sid' = sid + 1 /\ conn' = sid + 1
    /\ At("locked")
    /\ srvDs' = IF ServerKeeps THEN srvDs ELSE 0
    /\ raced' = ~AllIdle /\ dsSwitched' = FALSE
    /\ UNCHANGED <<dial, window, switch, aprs, client, th, srvFreq, crossed>>

\* setup's first section under the lock: the fresh chain, the snapshot.
SetupLocked ==
    /\ sess.pc = "locked"
    /\ client' = sid
    /\ NewChain(0)
    /\ sess' = [sess EXCEPT !.pc = "offset", !.freq = freq, !.lo = lo, !.own = TRUE]
    /\ raced' = (raced \/ ~AllIdle)
    /\ UNCHANGED <<freq, lo, window, switch, aprs, conn, sid, th, server, crossed, dsSwitched>>

\* chain.SetOffsetHz(freq - lo) from the snapshot, outside the lock, on the chain
\* it made.
SetupOffset ==
    /\ sess.pc = "offset"
    /\ chainOff' = IF sess.own /\ sess.freq # sess.lo THEN sess.freq - sess.lo ELSE chainOff
    /\ sess' = [sess EXCEPT !.pc = "want", !.own = FALSE, !.freq = 0]
    /\ UNCHANGED <<freq, lo, held, window, switch, aprs, link, th, server, history>>

SetupWant ==
    /\ sess.pc = "want"
    /\ LET want == DirectSamplingFor(dsMode, sess.lo) IN
         /\ hf' = want
         /\ sess' = [sess EXCEPT !.want = want, !.pc = IF want # 0 THEN "ds" ELSE "tune"]
    /\ UNCHANGED <<dial, window, dsMode, aprs, link, th, server, history>>

SetupDs ==
    /\ sess.pc = "ds" /\ conn = sid
    /\ srvDs' = sess.want
    /\ At("tune")
    /\ UNCHANGED <<dial, window, switch, aprs, link, th, srvFreq, history>>

SetupTune ==
    /\ sess.pc = "tune" /\ conn = sid
    /\ srvFreq' = sess.lo
    /\ sess' = [NoSession EXCEPT !.pc = "stream"]
    /\ UNCHANGED <<dial, window, switch, aprs, link, th, srvDs, history>>

\* A command of the setup fails: session returns before it defers its
\* cleanup, so r.client keeps naming this session's client.
SetupFails ==
    /\ sess.pc \in {"want", "ds", "tune"}
    /\ conn' = 0
    /\ sess' = NoSession
    /\ UNCHANGED <<dial, window, switch, aprs, client, sid, th, server, history>>

\* The watchdog, once a session, when the stream's rate is another one than the
\* DSP's: dsp.SetIQRate, then SetMode of the mode it read.
WatchRate ==
    /\ sess.pc = "stream" /\ ~sess.measured
    /\ rate' \in Rates \ {rate}
    /\ sess' = [sess EXCEPT !.pc = "watch", !.bw = bw, !.measured = TRUE]
    /\ crossed' = (crossed \/ ~AllIdle)
    /\ UNCHANGED <<dial, iqRate, bw, switch, aprs, link, th, server, raced, dsSwitched>>

WatchMode ==
    /\ sess.pc = "watch"
    /\ bw' = sess.bw /\ NewChain(freq - lo)
    /\ sess' = [sess EXCEPT !.pc = "stream", !.bw = 0]
    /\ UNCHANGED <<freq, lo, iqRate, rate, switch, aprs, link, th, server, history>>

\* The read loop ends: the connection is lost or a setter closed it.
SessionEnds ==
    /\ sess.pc = "stream"
    /\ conn' = 0
    /\ client' = IF client = sid THEN 0 ELSE client
    /\ sess' = NoSession
    /\ UNCHANGED <<dial, window, switch, aprs, sid, th, server, history>>

Session ==
    \/ Dial \/ SetupLocked \/ SetupOffset \/ SetupWant \/ SetupDs \/ SetupTune
    \/ SetupFails \/ WatchRate \/ WatchMode \/ SessionEnds

Next == Session \/ \E t \in Thread : Setter(t) \/ Continue(t)

Spec == Init /\ [][Next]_vars

\* A caller that is inside a setter is scheduled.
FairSpec == Spec /\ \A t \in Thread : WF_vars(Continue(t))

-----------------------------------------------------------------------------

CallPc == {"idle", "zero", "ds", "tune", "sync", "store", "return", "mds", "mtune",
           "rate", "rebuild", "close"}

\* A caller's locals: it has seen sessions up to c.
Call(c) ==
    [pc : CallPc, hz : Int, want : {0, 2}, sw : BOOLEAN, cl : 0..c, depth : 0..MaxDepth]

Sess == [pc : {"down", "locked", "offset", "want", "ds", "tune", "stream", "watch"},
         freq : Int, lo : Int, own : BOOLEAN, want : {0, 2}, bw : Nat, measured : BOOLEAN]

TypeOK ==
    /\ freq \in Int /\ lo \in Int /\ chainOff \in Int /\ held \subseteq Thread
    /\ iqRate \in Rates /\ rate \in Rates /\ bw \in Bandwidths
    /\ dsMode \in {-1, 0, 2} /\ hf \in {0, 2}
    /\ aprsOn \in BOOLEAN /\ aprsFreq \in AprsFreqs /\ aprsOff \in Int
    /\ client \in 0..sid /\ conn \in {0, sid} /\ sid \in 0..MaxSession
    /\ sess \in Sess /\ (sess.pc = "watch" => sess.bw \in Bandwidths)
    /\ th \in [Thread -> Call(sid)]
    /\ \A t \in Thread : th[t].pc = "rate" => th[t].hz \in Rates
    /\ srvFreq \in Int /\ srvDs \in {0, 2}
    /\ raced \in BOOLEAN /\ crossed \in BOOLEAN /\ dsSwitched \in BOOLEAN

Streaming == sess.pc \in {"stream", "watch"} /\ conn = sid

(* Once a session streams and no call is under way, the receiver listens   *)
(* where the dial says: the server's tuning plus the chain's offset is the *)
(* dial, whatever the rate, the mode and the watchdog did to the chain.    *)
(* Excepted are sessions in which two callers overlapped or the direct-    *)
(* sampling preference was switched, until the next one: see               *)
(* TunedDespiteOverlap and TunedAfterSwitch.                               *)
TunedRight ==
    Streaming /\ AllIdle /\ ~raced /\ ~dsSwitched => srvFreq + chainOff = freq

(* With APRS on and no call under way, the APRS branch listens on the APRS *)
(* channel, however the receiver was tuned since (syncAPRSOffset); unless  *)
(* callers overlapped since the last call that placed it.                  *)
AprsOnChannel ==
    aprsOn /\ AllIdle /\ ~crossed => lo + aprsOff = aprsFreq

(* The dial is in the receive window of the hardware's centre frequency    *)
(* ("how far the listening frequency may sit from the LO before a hardware *)
(* retune is required").  A lower rate or a wider mode narrows the window  *)
(* and retunes nothing.                                                    *)
OffsetInWindow == AllIdle => Dist(freq, lo) <= OffsetLimit

(* "syncAPRSOffset keeps the APRS channel inside the receive window": the  *)
(* rate changes without it.                                                *)
AprsInWindow == aprsOn /\ AllIdle => Dist(aprsFreq, lo) <= IF2Window

(* Two callers never leave the dial wrong ("Radio is safe for concurrent   *)
(* use: the UI thread calls the setters and Snapshot while the Run         *)
(* goroutine streams").                                                    *)
TunedDespiteOverlap ==
    Streaming /\ AllIdle /\ ~dsSwitched => srvFreq + chainOff = freq

(* Switching the direct-sampling preference re-arms the tuner where it was *)
(* ("re-sending the frequency so the tuner path re-arms after a switch").  *)
TunedAfterSwitch ==
    Streaming /\ AllIdle /\ ~raced => srvFreq + chainOff = freq

(* hfApplied is "direct-sampling mode currently set on the server".        *)
HfAppliedIsServers ==
    Streaming /\ AllIdle /\ ~raced => srvDs = hf

(* Every call of a setter returns: syncAPRSOffset moves the LO onto the    *)
(* channel when it falls outside the window, and is done.                  *)
CallsReturn == \A t \in Thread : (th[t].pc # "idle") ~> (th[t].pc = "idle")
=============================================================================
