---------------------------- MODULE TunerProofs -----------------------------
(***************************************************************************)
(* Proofs about Tuner: its type invariant, and that as long as the callers *)
(* do not overlap a streaming receiver listens where the dial says and its *)
(* APRS branch on the APRS channel, whatever becomes of the rate, the      *)
(* bandwidth and the session, for any set of callers, any frequencies and  *)
(* any rates.                                                              *)
(***************************************************************************)
EXTENDS Tuner, TLAPS

-----------------------------------------------------------------------------
(* Lemmas about the callers' locals. *)

LEMMA IdleCall == \A c \in Nat : Idle \in Call(c)
  BY TunerAssumption DEF TunerAssumption, Call, CallPc, Idle

\* What an assignment to one or two of the locals keeps.
LEMMA CallFields ==
    ASSUME NEW c \in Nat, NEW r \in Call(c)
    PROVE  /\ r.pc \in CallPc /\ r.hz \in Int /\ r.want \in {0, 2} /\ r.sw \in BOOLEAN
           /\ r.cl \in 0..c /\ r.depth \in 0..MaxDepth
           /\ \A l \in CallPc : [r EXCEPT !.pc = l] \in Call(c)
           /\ \A l \in CallPc, z \in Int : /\ [r EXCEPT !.pc = l, !.hz = z] \in Call(c)
                                         /\ [r EXCEPT !.pc = l, !.hz = z].pc = l
           /\ \A l \in CallPc, k \in 0..c : [r EXCEPT !.pc = l, !.cl = k] \in Call(c)
           /\ \A l \in CallPc, d \in 0..MaxDepth : [r EXCEPT !.pc = l, !.depth = d] \in Call(c)
           /\ r.depth > 0 => /\ [r EXCEPT !.depth = @ - 1] \in Call(c)
                             /\ [r EXCEPT !.depth = @ - 1].pc = r.pc
  <1>1. /\ r.pc \in CallPc /\ r.hz \in Int /\ r.want \in {0, 2} /\ r.sw \in BOOLEAN
        /\ r.cl \in 0..c /\ r.depth \in 0..MaxDepth
    BY DEF Call
  <1>2. ASSUME NEW q \in Call(c), NEW l \in CallPc PROVE [q EXCEPT !.pc = l] \in Call(c)
    BY DEF Call
  <1>3. ASSUME NEW q \in Call(c), NEW z \in Int PROVE [q EXCEPT !.hz = z] \in Call(c)
    BY DEF Call
  <1>4. ASSUME NEW q \in Call(c), NEW k \in 0..c PROVE [q EXCEPT !.cl = k] \in Call(c)
    BY DEF Call
  <1>5. ASSUME NEW q \in Call(c), NEW d \in 0..MaxDepth PROVE [q EXCEPT !.depth = d] \in Call(c)
    BY DEF Call
  <1>6. ASSUME r.depth > 0
        PROVE  [r EXCEPT !.depth = @ - 1] \in Call(c) /\ [r EXCEPT !.depth = @ - 1].pc = r.pc
    <2>1. r.depth - 1 \in 0..MaxDepth
      BY <1>1, <1>6, TunerAssumption DEF TunerAssumption
    <2>2. [r EXCEPT !.depth = @ - 1].pc = r.pc
      BY DEF Call
    <2> QED BY <2>1, <2>2, <1>5
  <1>7. ASSUME NEW l \in CallPc
        PROVE  /\ \A z \in Int : /\ [r EXCEPT !.pc = l, !.hz = z] \in Call(c)
                                  /\ [r EXCEPT !.pc = l, !.hz = z].pc = l
               /\ \A k \in 0..c : [r EXCEPT !.pc = l, !.cl = k] \in Call(c)
               /\ \A d \in 0..MaxDepth : [r EXCEPT !.pc = l, !.depth = d] \in Call(c)
    <2>1. [r EXCEPT !.pc = l] \in Call(c)
      BY <1>2
    <2>2. \A z \in Int : [r EXCEPT !.pc = l, !.hz = z].pc = l
      BY DEF Call
    <2> QED BY <2>1, <2>2, <1>3, <1>4, <1>5
  <1> QED BY <1>1, <1>2, <1>6, <1>7

LEMMA CallGrows == ASSUME NEW c \in Nat, NEW c2 \in Nat, c <= c2 PROVE Call(c) \subseteq Call(c2)
  <1>1. 0..c \subseteq 0..c2
    OBVIOUS
  <1> QED BY <1>1 DEF Call

LEMMA StepTyped ==
    ASSUME NEW t \in Thread, NEW R, th \in [Thread -> R], NEW r \in R, Step(t, r)
    PROVE  /\ th' \in [Thread -> R] /\ th'[t] = r
           /\ \A u \in Thread \ {t} : th'[u] = th[u]
  BY DEF Step

LEMMA DirectSamplingTyped == \A m \in {-1, 0, 2}, hz \in Int : DirectSamplingFor(m, hz) \in {0, 2}
  BY TunerAssumption DEF TunerAssumption, DirectSamplingFor

LEMMA SessFields ==
    /\ NoSession \in Sess /\ NoSession.pc = "down"
    /\ [NoSession EXCEPT !.pc = "stream"] \in Sess /\ [NoSession EXCEPT !.pc = "stream"].pc = "stream"
    /\ \A q \in Sess :
          /\ [q EXCEPT !.pc = "want", !.own = FALSE, !.freq = 0] \in Sess
          /\ [q EXCEPT !.pc = "want", !.own = FALSE, !.freq = 0].pc = "want"
          /\ [q EXCEPT !.pc = "want", !.own = FALSE, !.freq = 0].lo = q.lo
  <1>1. NoSession \in Sess /\ NoSession.pc = "down"
    BY DEF Sess, NoSession
  <1>2. ASSUME NEW q \in Sess
        PROVE  /\ [q EXCEPT !.pc = "stream"] \in Sess /\ [q EXCEPT !.pc = "stream"].pc = "stream"
               /\ [q EXCEPT !.pc = "want"] \in Sess /\ [q EXCEPT !.pc = "want"].pc = "want"
               /\ [q EXCEPT !.pc = "want"].lo = q.lo
    BY DEF Sess
  <1>3. ASSUME NEW q \in Sess
        PROVE  /\ [q EXCEPT !.own = FALSE] \in Sess
               /\ [q EXCEPT !.own = FALSE].pc = q.pc /\ [q EXCEPT !.own = FALSE].lo = q.lo
    BY DEF Sess
  <1>4. ASSUME NEW q \in Sess
        PROVE  /\ [q EXCEPT !.freq = 0] \in Sess
               /\ [q EXCEPT !.freq = 0].pc = q.pc /\ [q EXCEPT !.freq = 0].lo = q.lo
    BY DEF Sess
  <1>5. ASSUME NEW q \in Sess
        PROVE  /\ [q EXCEPT !.pc = "want", !.own = FALSE, !.freq = 0] \in Sess
               /\ [q EXCEPT !.pc = "want", !.own = FALSE, !.freq = 0].pc = "want"
               /\ [q EXCEPT !.pc = "want", !.own = FALSE, !.freq = 0].lo = q.lo
    <2> DEFINE a == [q EXCEPT !.pc = "want"]
               b == [a EXCEPT !.own = FALSE]
               d == [b EXCEPT !.freq = 0]
    <2>1. a \in Sess /\ a.pc = "want" /\ a.lo = q.lo
      BY <1>2
    <2> HIDE DEF a
    <2>2. b \in Sess /\ b.pc = "want" /\ b.lo = q.lo
      BY <2>1, <1>3
    <2> HIDE DEF b
    <2>3. d \in Sess /\ d.pc = "want" /\ d.lo = q.lo
      BY <2>2, <1>4
    <2> QED BY <2>3 DEF a, b
  <1> QED BY <1>1, <1>2, <1>5

\* The frequencies, rates and preferences that are asked for.
LEMMA Asked ==
    /\ \A hz \in Freqs \cup AprsFreqs \cup Rates \cup {Start} : hz \in Int
    /\ \A m \in DsModes : m \in {-1, 0, 2}
    /\ \A w \in Bandwidths : w \in Nat
  BY TunerAssumption DEF TunerAssumption

\* What every step but a few leaves typed: the callers.
CallersTyped ==
    /\ th \in [Thread -> Call(sid)]
    /\ \A t \in Thread : th[t].pc = "rate" => th[t].hz \in Rates

\* A caller moves to a record of its type that is no wish for a rate, or one.
LEMMA CallersStep ==
    ASSUME CallersTyped, UNCHANGED sid, NEW t \in Thread, NEW r \in Call(sid), Step(t, r),
           r.pc = "rate" => r.hz \in Rates
    PROVE  CallersTyped'
  <1>1. th' \in [Thread -> Call(sid)] /\ th'[t] = r /\ \A u \in Thread \ {t} : th'[u] = th[u]
    BY StepTyped DEF CallersTyped
  <1>2. ASSUME NEW u \in Thread, th'[u].pc = "rate" PROVE th'[u].hz \in Rates
    BY <1>1, <1>2 DEF CallersTyped
  <1> QED BY <1>1, <1>2 DEF CallersTyped

\* SetFreq's section under the lock, typed.
LEMMA BodyTyped ==
    ASSUME TypeOK, CallersTyped, UNCHANGED sid,
           NEW t \in Thread, NEW hz \in Int, NEW d \in 0..MaxDepth, SetFreqBody(t, hz, d)
    PROVE  /\ freq' \in Int /\ lo' \in Int /\ chainOff' \in Int /\ held' \subseteq Thread
           /\ UNCHANGED <<window, dsMode, aprsOn, aprsFreq>>
           /\ hf' \in {0, 2}
           /\ CallersTyped'
  <1> DEFINE want == DirectSamplingFor(dsMode, hz)
             far == [pc |-> "zero", hz |-> hz, want |-> want, sw |-> want # hf,
                     cl |-> client, depth |-> d]
             near == [Idle EXCEPT !.pc = "sync", !.depth = d]
  <1>0. sid \in Nat /\ "sync" \in CallPc
    BY TunerAssumption DEF TypeOK, TunerAssumption, CallPc
  <1>1. want \in {0, 2}
    BY DirectSamplingTyped DEF TypeOK
  <1>2. far \in Call(sid) /\ far.pc = "zero"
    BY <1>1 DEF Call, CallPc, TypeOK
  <1>3. near \in Call(sid) /\ near.pc = "sync"
    <2>1. Idle \in Call(sid)
      BY <1>0, IdleCall
    <2> QED BY <1>0, <2>1, CallFields DEF Idle
  <1>4. Step(t, far) \/ Step(t, near)
    BY DEF SetFreqBody
  <1>5. CallersTyped'
    BY <1>2, <1>3, <1>4, CallersStep
  <1>6. held' \subseteq Thread
    BY DEF SetFreqBody, TypeOK
  <1> QED BY <1>1, <1>5, <1>6 DEF SetFreqBody, TypeOK

(* Type correctness of the tuner's state, for any callers (radio.go). *)
THEOREM TypeCorrect == Spec => []TypeOK
<1>0. TypeOK => CallersTyped
  BY DEF TypeOK, CallersTyped
<1>1. Init => TypeOK
  <2> SUFFICES ASSUME Init PROVE TypeOK
    OBVIOUS
  <2>1. CallersTyped
    BY IdleCall DEF Init, CallersTyped, Idle
  <2>2. NoSession \in Sess /\ NoSession.pc = "down"
    BY SessFields
  <2>3. 0 \in 0..MaxSession
    BY TunerAssumption DEF TunerAssumption
  <2>4. /\ freq \in Int /\ lo \in Int /\ chainOff \in Int /\ held \subseteq Thread
        /\ aprsOff \in Int /\ client \in 0..sid /\ conn \in {0, sid} /\ sid \in 0..MaxSession
        /\ srvFreq \in Int /\ srvDs \in {0, 2} /\ dsMode \in {-1, 0, 2} /\ hf \in {0, 2}
    BY <2>3, Asked DEF Init
  <2>5. sess \in Sess /\ sess.pc # "watch"
    BY <2>2 DEF Init
  <2> QED BY <2>1, <2>4, <2>5 DEF Init, TypeOK, CallersTyped
<1>2. ASSUME TypeOK, [Next]_vars PROVE TypeOK'
  <2> DEFINE R == Call(sid)
  <2>t. CallersTyped /\ Idle \in R /\ sid \in Nat
    BY <1>0, <1>2, IdleCall, TunerAssumption DEF TypeOK, TunerAssumption
  <2>l. /\ "idle" \in CallPc /\ "ds" \in CallPc /\ "tune" \in CallPc /\ "sync" \in CallPc
        /\ "store" \in CallPc /\ "return" \in CallPc /\ "mtune" \in CallPc
        /\ "rate" \in CallPc /\ "rebuild" \in CallPc /\ "close" \in CallPc
    BY DEF CallPc
  <2>f. ASSUME NEW t \in Thread
        PROVE  /\ th[t] \in R /\ th[t].hz \in Int /\ th[t].want \in {0, 2}
               /\ th[t].cl \in 0..sid /\ th[t].depth \in 0..MaxDepth
               /\ \A l \in CallPc : [th[t] EXCEPT !.pc = l] \in R /\ [th[t] EXCEPT !.pc = l].pc = l
               /\ \A l \in CallPc : Past(t, l) \in R /\ Past(t, l).pc = l
    <3>1. th[t] \in R
      BY <2>t DEF CallersTyped
    <3>2. /\ th[t].hz \in Int /\ th[t].want \in {0, 2}
          /\ th[t].cl \in 0..sid /\ th[t].depth \in 0..MaxDepth
          /\ \A l \in CallPc : [th[t] EXCEPT !.pc = l] \in R
      BY <3>1, <2>t, CallFields
    <3>3. \A l \in CallPc : [th[t] EXCEPT !.pc = l].pc = l
      BY <3>1 DEF Call
    <3>4. \A l \in CallPc : Past(t, l) \in R /\ Past(t, l).pc = l
      BY <3>2, <2>t, CallFields DEF Past, Idle
    <3> QED BY <3>1, <3>2, <3>3, <3>4
  <2>1. CASE Session
    <3>1. CASE Dial
      <4>1. R \subseteq Call(sid')
        BY <3>1, <2>t, CallGrows DEF Dial
      <4>2. CallersTyped'
        BY <4>1, <2>t, <3>1 DEF Dial, CallersTyped
      <4>3. /\ sid' \in 0..MaxSession /\ conn' \in {0, sid'} /\ client' \in 0..sid'
            /\ srvDs' \in {0, 2}
        BY <3>1, <1>2, TunerAssumption DEF Dial, TypeOK, TunerAssumption
      <4>4. raced' \in BOOLEAN /\ dsSwitched' \in BOOLEAN /\ crossed' \in BOOLEAN
        BY <3>1, <1>2 DEF Dial, AllIdle, TypeOK
      <4>5. sess' \in Sess /\ sess'.pc = "locked"
        BY <3>1, <1>2 DEF Dial, At, TypeOK, Sess
      <4> QED BY <4>2, <4>3, <4>4, <4>5, <3>1, <1>2
          DEF Dial, TypeOK, CallersTyped, dial, window, switch, aprs
    <3>2. CASE SetupLocked
      <4>1. CallersTyped'
        BY <2>t, <3>2 DEF SetupLocked, CallersTyped
      <4>2. sess' \in Sess /\ sess'.pc = "offset"
        BY <3>2, <1>2 DEF SetupLocked, TypeOK, Sess
      <4>3. client' \in 0..sid' /\ chainOff' \in Int /\ held' \subseteq Thread
        BY <3>2, <1>2, <2>t DEF SetupLocked, NewChain, TypeOK
      <4>4. raced' \in BOOLEAN
        BY <3>2, <1>2 DEF SetupLocked, AllIdle, TypeOK
      <4> QED BY <4>1, <4>2, <4>3, <4>4, <3>2, <1>2
          DEF SetupLocked, TypeOK, CallersTyped, window, switch, aprs, server
    <3>3. CASE SetupOffset
      <4>1. chainOff' \in Int
        BY <3>3, <1>2 DEF SetupOffset, TypeOK, Sess
      <4>2. sess' \in Sess /\ sess'.pc = "want"
        <5>1. sess \in Sess
          BY <1>2 DEF TypeOK
        <5> QED BY <3>3, <5>1, SessFields DEF SetupOffset
      <4> QED BY <4>1, <4>2, <3>3, <1>2
          DEF SetupOffset, TypeOK, window, switch, aprs, link, server, history
    <3>4. CASE SetupWant
      <4>1. DirectSamplingFor(dsMode, sess.lo) \in {0, 2}
        BY <1>2, DirectSamplingTyped DEF TypeOK, Sess
      <4>2. sess' \in Sess /\ sess'.pc # "watch" /\ hf' \in {0, 2}
        BY <3>4, <4>1, <1>2 DEF SetupWant, TypeOK, Sess
      <4> QED BY <4>2, <3>4, <1>2 DEF SetupWant, TypeOK, dial, window, aprs, link, server, history
    <3>5. CASE SetupDs
      <4>1. sess' \in Sess /\ sess'.pc = "tune" /\ srvDs' \in {0, 2}
        BY <3>5, <1>2 DEF SetupDs, At, TypeOK, Sess
      <4> QED BY <4>1, <3>5, <1>2 DEF SetupDs, TypeOK, dial, window, switch, aprs, link, history
    <3>6. CASE SetupTune
      <4>1. sess' \in Sess /\ sess'.pc = "stream" /\ srvFreq' \in Int
        <5>1. sess \in Sess
          BY <1>2 DEF TypeOK
        <5> QED BY <3>6, <5>1, SessFields DEF SetupTune, Sess
      <4> QED BY <4>1, <3>6, <1>2 DEF SetupTune, TypeOK, dial, window, switch, aprs, link, history
    <3>7. CASE SetupFails \/ SessionEnds
      <4>1. sess' \in Sess /\ sess'.pc = "down"
        BY <3>7, SessFields DEF SetupFails, SessionEnds
      <4>2. conn' = 0 /\ client' \in 0..sid
        BY <3>7, <1>2, <2>t DEF SetupFails, SessionEnds, TypeOK
      <4> QED BY <4>1, <4>2, <3>7, <1>2
          DEF SetupFails, SessionEnds, TypeOK, dial, window, switch, aprs, server, history
    <3>8. CASE WatchRate
      <4>1. sess' \in Sess /\ sess'.bw \in Bandwidths
        BY <3>8, <1>2, Asked DEF WatchRate, TypeOK, Sess
      <4>2. rate' \in Rates /\ crossed' \in BOOLEAN
        BY <3>8, <1>2 DEF WatchRate, AllIdle, TypeOK
      <4> QED BY <4>1, <4>2, <3>8, <1>2 DEF WatchRate, TypeOK, dial, switch, aprs, link, server
    <3>9. CASE WatchMode
      <4>1. sess' \in Sess /\ sess'.pc = "stream"
        BY <3>9, <1>2 DEF WatchMode, TypeOK, Sess
      <4>2. bw' \in Bandwidths /\ chainOff' \in Int /\ held' = {}
        BY <3>9, <1>2 DEF WatchMode, NewChain, TypeOK
      <4> QED BY <4>1, <4>2, <3>9, <1>2 DEF WatchMode, TypeOK, switch, aprs, link, server, history
    <3> QED BY <2>1, <3>1, <3>2, <3>3, <3>4, <3>5, <3>6, <3>7, <3>8, <3>9 DEF Session
  <2>h. ASSUME NEW t \in Thread
        PROVE  (raced \/ SettingUp \/ Meets(t)) \in BOOLEAN /\ Meets(t) \in BOOLEAN
               /\ (crossed \/ Meets(t)) \in BOOLEAN
    BY DEF SettingUp, Meets
  <2>2. ASSUME NEW t \in Thread, NEW hz \in Freqs, SetFreq(t, hz) PROVE TypeOK'
    <3>1. hz \in Int /\ 0 \in 0..MaxDepth
      BY Asked, TunerAssumption DEF TunerAssumption
    <3>2. /\ freq' \in Int /\ lo' \in Int /\ chainOff' \in Int /\ held' \subseteq Thread
          /\ UNCHANGED <<window, dsMode, aprsOn, aprsFreq>> /\ hf' \in {0, 2} /\ CallersTyped'
      BY <1>2, <2>t, <2>2, <3>1, BodyTyped DEF SetFreq, link
    <3>3. raced' \in BOOLEAN /\ crossed' \in BOOLEAN
      BY <2>2, <2>h DEF SetFreq, Overlap, Places
    <3> QED BY <1>2, <2>2, <3>2, <3>3 DEF SetFreq, window, link, server, TypeOK, CallersTyped
  <2>3. ASSUME NEW t \in Thread,
               \/ \E on \in BOOLEAN : SetAPRSEnabled(t, on)
               \/ \E hz \in AprsFreqs : SetAPRSFreq(t, hz)
        PROVE  TypeOK'
    <3> DEFINE r == [Idle EXCEPT !.pc = "sync"]
    <3>1. r \in R /\ r.pc = "sync"
      BY <2>t, <2>l, CallFields DEF Idle
    <3>2. UNCHANGED th \/ Step(t, r)
      BY <2>3 DEF SetAPRSEnabled, SetAPRSFreq
    <3>3. CallersTyped'
      BY <2>t, <2>3, <3>1, <3>2, CallersStep DEF SetAPRSEnabled, SetAPRSFreq, CallersTyped, link
    <3>4. raced' \in BOOLEAN /\ crossed' \in BOOLEAN
      BY <2>3, <2>h DEF SetAPRSEnabled, SetAPRSFreq, Overlap, Places, Crosses
    <3>5. aprsOn' \in BOOLEAN /\ aprsFreq' \in AprsFreqs /\ aprsOff' = aprsOff
      BY <1>2, <2>3 DEF SetAPRSEnabled, SetAPRSFreq, TypeOK
    <3> QED BY <1>2, <2>3, <3>3, <3>4, <3>5
        DEF SetAPRSEnabled, SetAPRSFreq, TypeOK, CallersTyped, dial, window, switch, link, server
  <2>4. ASSUME NEW t \in Thread, NEW m \in DsModes, SetDsMode(t, m) PROVE TypeOK'
    <3> DEFINE want == DirectSamplingFor(m, freq)
               r == [Idle EXCEPT !.pc = "mds", !.hz = freq, !.want = want, !.cl = client]
    <3>1. want \in {0, 2} /\ m \in {-1, 0, 2}
      BY <1>2, Asked, DirectSamplingTyped DEF TypeOK
    <3>2. r \in R /\ r.pc = "mds"
      BY <1>2, <2>t, <3>1 DEF Call, CallPc, Idle, TypeOK
    <3>3. CallersTyped'
      BY <2>t, <2>4, <3>2, CallersStep DEF SetDsMode, CallersTyped, link
    <3>4. raced' \in BOOLEAN /\ crossed' \in BOOLEAN /\ dsSwitched' \in BOOLEAN
      BY <1>2, <2>4, <2>h DEF SetDsMode, Overlap, Crosses, TypeOK
    <3> QED BY <1>2, <2>4, <3>1, <3>3, <3>4
        DEF SetDsMode, TypeOK, CallersTyped, dial, window, aprs, link, server
  <2>5. ASSUME NEW t \in Thread, NEW w \in Bandwidths, SetPassband(t, w) PROVE TypeOK'
    <3>1. sess' \in Sess /\ sess'.pc = sess.pc /\ sess'.bw = sess.bw
      BY <1>2, <2>5 DEF SetPassband, Disown, TypeOK, Sess
    <3>2. chainOff' \in Int /\ held' = {}
      BY <1>2, <2>5 DEF SetPassband, NewChain, TypeOK
    <3>3. raced' \in BOOLEAN /\ crossed' \in BOOLEAN
      BY <2>5, <2>h DEF SetPassband, Overlap, Crosses
    <3> QED BY <1>2, <2>5, <3>1, <3>2, <3>3 DEF SetPassband, TypeOK, switch, aprs, link, server
  <2>6. ASSUME NEW t \in Thread, NEW hz \in Rates, SetCaptureRate(t, hz) PROVE TypeOK'
    <3> DEFINE r == [Idle EXCEPT !.pc = "rate", !.hz = hz]
    <3>1. r \in R /\ r.hz = hz
      BY <2>t, <2>l, Asked, CallFields DEF Idle
    <3>2. CallersTyped'
      BY <2>t, <2>6, <3>1, CallersStep DEF SetCaptureRate, link
    <3>3. raced' \in BOOLEAN /\ crossed' \in BOOLEAN
      BY <2>6, <2>h DEF SetCaptureRate, Overlap, Crosses
    <3> QED BY <1>2, <2>6, <3>2, <3>3
        DEF SetCaptureRate, TypeOK, CallersTyped, dial, switch, aprs, link, server
  <2>7. ASSUME NEW t \in Thread, CaptureRate(t) \/ CaptureRebuild(t) \/ CaptureClose(t) PROVE TypeOK'
    <3>1. CASE CaptureRate(t)
      <4>1. rate' \in Rates
        BY <2>t, <3>1 DEF CaptureRate, CallersTyped
      <4>2. CallersTyped'
        BY <2>t, <2>l, <2>f, <3>1, CallersStep DEF CaptureRate, link
      <4> QED BY <1>2, <3>1, <4>1, <4>2
          DEF CaptureRate, TypeOK, CallersTyped, dial, switch, aprs, link, server, history
    <3>2. CASE CaptureRebuild(t)
      <4> DEFINE r(l) == [Idle EXCEPT !.pc = l, !.cl = client]
      <4>1. \A l \in {"return", "close"} : r(l) \in R /\ r(l).pc = l
        <5>1. client \in 0..sid
          BY <1>2 DEF TypeOK
        <5>2. ASSUME NEW l \in {"return", "close"} PROVE r(l) \in R
          <6>1. Idle \in R /\ l \in CallPc
            BY <2>t, <2>l
          <6> QED BY <6>1, <5>1 DEF Call
        <5> QED BY <5>2 DEF Idle
      <4>2. PICK l \in {"return", "close"} : Step(t, r(l))
        BY <3>2 DEF CaptureRebuild
      <4>3. CallersTyped'
        BY <2>t, <3>2, <4>1, <4>2, CallersStep DEF CaptureRebuild, link
      <4>4. sess' \in Sess /\ sess'.pc = sess.pc /\ sess'.bw = sess.bw
        BY <1>2, <3>2 DEF CaptureRebuild, Disown, TypeOK, Sess
      <4> QED BY <1>2, <3>2, <4>3, <4>4
          DEF CaptureRebuild, NewChain, TypeOK, CallersTyped, window, switch, aprs, link, server, history
    <3>3. CASE CaptureClose(t)
      <4>1. CallersTyped'
        BY <2>t, <2>l, <2>f, <3>3, CallersStep DEF CaptureClose, SendFails
      <4>2. conn' \in {0, sid}
        BY <1>2, <3>3 DEF CaptureClose, SendFails, TypeOK
      <4> QED BY <1>2, <3>3, <4>1, <4>2
          DEF CaptureClose, SendFails, TypeOK, CallersTyped, dial, window, switch, aprs, server, history
    <3> QED BY <2>7, <3>1, <3>2, <3>3
  <2>8. ASSUME NEW t \in Thread, ZeroOffset(t) PROVE TypeOK'
    <3>1. PICK l \in {"ds", "tune", "sync"} : Step(t, Past(t, l)) \/ Step(t, [th[t] EXCEPT !.pc = l])
      BY <2>8 DEF ZeroOffset
    <3>2. CallersTyped'
      BY <2>t, <2>l, <2>f, <2>8, <3>1, CallersStep DEF ZeroOffset, link
    <3>3. chainOff' \in Int /\ held' \subseteq Thread
      BY <1>2, <2>8 DEF ZeroOffset, TypeOK
    <3> QED BY <1>2, <2>8, <3>2, <3>3
        DEF ZeroOffset, TypeOK, CallersTyped, window, switch, aprs, link, server, history
  <2>9. ASSUME NEW t \in Thread, SendDs(t) \/ SendTune(t) \/ ModeSendDs(t) \/ ModeSendTune(t)
        PROVE TypeOK'
    <3>1. PICK l \in {"tune", "sync", "mtune", "return"} :
             Step(t, Past(t, l)) \/ Step(t, [th[t] EXCEPT !.pc = l])
      BY <2>9 DEF SendDs, SendTune, ModeSendDs, ModeSendTune, SendFails
    <3>2. /\ srvFreq' \in Int /\ srvDs' \in {0, 2} /\ conn' \in {0, sid}
          /\ UNCHANGED <<dial, window, switch, aprs, client, sid, sess, history>>
      BY <1>2, <2>f, <2>9
      DEF SendDs, SendTune, ModeSendDs, ModeSendTune, SendFails, TypeOK, link, server
    <3>3. CallersTyped'
      BY <2>t, <2>l, <2>f, <3>1, <3>2, CallersStep
    <3> QED BY <1>2, <3>2, <3>3 DEF TypeOK, CallersTyped, dial, window, switch, aprs, history
  <2>10. ASSUME NEW t \in Thread, SyncAPRS(t) PROVE TypeOK'
    <3>0. th[t].depth \in 0..MaxDepth /\ lo \in Int /\ aprsFreq \in AprsFreqs
      BY <1>2, <2>f DEF TypeOK
    <3>1. Deeper(th[t].depth) \in 0..MaxDepth /\ aprsFreq \in Int /\ aprsFreq - lo \in Int
      BY <3>0, Asked, TunerAssumption DEF Deeper, TunerAssumption
    <3>2. CASE SetFreqBody(t, aprsFreq, Deeper(th[t].depth))
      <4>1. /\ freq' \in Int /\ lo' \in Int /\ chainOff' \in Int /\ held' \subseteq Thread
            /\ UNCHANGED <<window, dsMode, aprsOn, aprsFreq>> /\ hf' \in {0, 2} /\ CallersTyped'
        BY <1>2, <2>t, <2>10, <3>1, <3>2, BodyTyped DEF SyncAPRS, link
      <4> QED BY <1>2, <2>10, <4>1 DEF SyncAPRS, window, TypeOK, CallersTyped, link, server, history
    <3>3. CASE /\ Step(t, [th[t] EXCEPT !.pc = "return"])
                  \/ Step(t, [th[t] EXCEPT !.pc = "store", !.hz = aprsFreq - lo])
               /\ UNCHANGED <<dial, window, switch, aprsOn, aprsFreq>>
      <4>1. /\ [th[t] EXCEPT !.pc = "store", !.hz = aprsFreq - lo] \in R
            /\ [th[t] EXCEPT !.pc = "store", !.hz = aprsFreq - lo].pc = "store"
        <5>1. th[t] \in R /\ sid \in Nat /\ "store" \in CallPc /\ aprsFreq - lo \in Int
          BY <2>t, <2>l, <2>f, <3>1
        <5> QED BY <5>1 DEF Call
      <4>2. CallersTyped'
        BY <2>t, <2>l, <2>f, <2>10, <3>3, <4>1, CallersStep DEF SyncAPRS, link
      <4> QED BY <1>2, <2>10, <3>3, <4>2
          DEF SyncAPRS, TypeOK, CallersTyped, dial, window, switch, link, server, history
    <3> QED BY <2>10, <3>2, <3>3 DEF SyncAPRS
  <2>11. ASSUME NEW t \in Thread, StoreOffset(t) PROVE TypeOK'
    <3>1. CallersTyped'
      BY <2>t, <2>l, <2>f, <2>11, CallersStep DEF StoreOffset, link
    <3> QED BY <1>2, <2>11, <2>f, <3>1
        DEF StoreOffset, TypeOK, CallersTyped, dial, window, switch, link, server, history
  <2>12. ASSUME NEW t \in Thread, Return(t) PROVE TypeOK'
    <3>1. th[t].depth > 0 => /\ [th[t] EXCEPT !.depth = @ - 1] \in R
                             /\ [th[t] EXCEPT !.depth = @ - 1].pc = th[t].pc
      BY <2>t, <2>f, CallFields
    <3>2. CallersTyped'
      BY <2>t, <2>12, <3>1, CallersStep DEF Return, Idle, link
    <3> QED BY <1>2, <2>12, <3>2
        DEF Return, TypeOK, CallersTyped, dial, window, switch, link, server, history
  <2>13. CASE UNCHANGED vars
    BY <1>2, <2>13 DEF vars, TypeOK, dial, window, switch, aprs, link, server, history
  <2> QED
    BY <1>2, <2>1, <2>2, <2>3, <2>4, <2>5, <2>6, <2>7, <2>8, <2>9, <2>10, <2>11, <2>12, <2>13
    DEF Next, Setter, Continue
<1> QED BY <1>1, <1>2, PTL DEF Spec


-----------------------------------------------------------------------------
(* TunedRight.  While no two callers, nor a caller and the setup, have     *)
(* overlapped and the preference was not switched (Calm), at most one of   *)
(* them is half way; what it has still to do is what separates the server  *)
(* and the chain from the dial.                                            *)

Calm == ~raced /\ ~dsSwitched

Busy(t) == th[t].pc \in {"zero", "ds", "tune"}

\* Where a session's connection and the client pointer stand.
LinkInv ==
    /\ sess.pc \in {"offset", "want", "ds", "tune", "stream", "watch"} => client = sid
    /\ sess.pc = "down" => conn = 0
    /\ sess.pc # "down" => sid > 0

\* Nobody overlaps.
AloneInv ==
    ~raced => /\ \A t, u \in Thread : t # u => th[t].pc = "idle" \/ th[u].pc = "idle"
              /\ SettingUp => AllIdle

\* What the setup has still to tell the server and the chain.
SetupInv ==
    Calm => /\ sess.pc = "offset" => sess.freq = freq /\ sess.lo = lo /\ sess.own /\ chainOff = 0
            /\ sess.pc \in {"want", "ds", "tune"} => sess.lo = lo /\ chainOff = freq - lo

\* What the caller inside a setter has still to tell them: inside SetFreq the
\* new LO; inside SetCaptureRate, with a chain on the LO, that it ends the session.
CallInv ==
    Calm /\ Streaming =>
        /\ (\A t \in Thread : ~Busy(t) /\ th[t].pc # "close") => srvFreq = lo /\ chainOff = freq - lo
        /\ \A t \in Thread :
              /\ th[t].pc \notin {"mds", "mtune"}
              /\ Busy(t) => /\ th[t].hz = lo /\ lo = freq /\ th[t].cl = sid
                            /\ t \in held \/ chainOff = 0
              /\ th[t].pc \in {"ds", "tune"} => chainOff = 0
              /\ th[t].pc = "close" => th[t].cl = sid

IInv == LinkInv /\ AloneInv /\ SetupInv /\ CallInv

\* Any step of a setter's start, and any later one: what it leaves alone.
LEMMA SetterFrame ==
    ASSUME TypeOK, NEW t \in Thread, Setter(t)
    PROVE  /\ UNCHANGED <<client, sid, conn, server>> /\ sess' \in {sess, [sess EXCEPT !.own = FALSE]}
           /\ dsSwitched => dsSwitched'
           /\ Overlap(t) /\ (Places(t) \/ Crosses(t))
           /\ th[t].pc = "idle" /\ \A u \in Thread \ {t} : th'[u] = th[u]
  <1>1. CASE \E hz \in Freqs : SetFreq(t, hz)
    BY <1>1 DEF SetFreq, SetFreqBody, Step, link, TypeOK
  <1>2. CASE \E on \in BOOLEAN : SetAPRSEnabled(t, on)
    BY <1>2 DEF SetAPRSEnabled, Step, link, TypeOK
  <1>3. CASE \E hz \in AprsFreqs : SetAPRSFreq(t, hz)
    BY <1>3 DEF SetAPRSFreq, Step, link, TypeOK
  <1>4. CASE \E w \in Bandwidths : SetPassband(t, w)
    BY <1>4 DEF SetPassband, Disown, Step, link, TypeOK
  <1>5. CASE \E hz \in Rates : SetCaptureRate(t, hz)
    BY <1>5 DEF SetCaptureRate, Step, link, TypeOK
  <1>6. CASE \E m \in DsModes : SetDsMode(t, m)
    BY <1>6 DEF SetDsMode, Step, link, TypeOK
  <1> QED BY <1>1, <1>2, <1>3, <1>4, <1>5, <1>6 DEF Setter

LEMMA ContinueFrame ==
    ASSUME TypeOK, NEW t \in Thread, Continue(t)
    PROVE  /\ UNCHANGED <<client, sid, history>> /\ sess' \in {sess, [sess EXCEPT !.own = FALSE]}
           /\ conn' \in {conn, 0}
           /\ th[t].pc # "idle" /\ \A u \in Thread \ {t} : th'[u] = th[u]
  <1>1. CASE ZeroOffset(t) \/ StoreOffset(t) \/ Return(t)
    BY <1>1 DEF ZeroOffset, StoreOffset, Return, Step, link, TypeOK
  <1>2. CASE SendDs(t) \/ SendTune(t) \/ ModeSendDs(t) \/ ModeSendTune(t) \/ CaptureClose(t)
    BY <1>2 DEF SendDs, SendTune, ModeSendDs, ModeSendTune, CaptureClose, SendFails, Step, link, TypeOK
  <1>3. CASE SyncAPRS(t)
    BY <1>3 DEF SyncAPRS, SetFreqBody, Step, link, TypeOK
  <1>4. CASE CaptureRate(t) \/ CaptureRebuild(t)
    BY <1>4 DEF CaptureRate, CaptureRebuild, Disown, Step, link, TypeOK
  <1> QED BY <1>1, <1>2, <1>3, <1>4 DEF Continue

\* Any step of a caller.
LEMMA CallerFrame ==
    ASSUME TypeOK, NEW t \in Thread, Setter(t) \/ Continue(t)
    PROVE  /\ client' = client /\ sid' = sid
           /\ sess'.pc = sess.pc /\ sess'.freq = sess.freq /\ sess'.lo = sess.lo
           /\ conn' \in {conn, 0}
           /\ raced => raced'
           /\ dsSwitched => dsSwitched'
           /\ \A u \in Thread \ {t} : th'[u] = th[u]
           /\ th[t].pc = "idle" => Overlap(t)
  <1>1. sess' \in {sess, [sess EXCEPT !.own = FALSE]}
    BY SetterFrame, ContinueFrame
  <1>2. sess'.pc = sess.pc /\ sess'.freq = sess.freq /\ sess'.lo = sess.lo
    BY <1>1 DEF TypeOK, Sess
  <1>3. CASE Setter(t)
    BY <1>2, <1>3, SetterFrame DEF Overlap
  <1>4. CASE Continue(t)
    BY <1>2, <1>4, ContinueFrame DEF history
  <1> QED BY <1>3, <1>4

LEMMA LinkStep == ASSUME TypeOK, LinkInv, [Next]_vars PROVE LinkInv'
  <1>0. sid \in Nat
    BY TunerAssumption DEF TypeOK, TunerAssumption
  <1>1. ASSUME NEW t \in Thread, Setter(t) \/ Continue(t) PROVE LinkInv'
    BY <1>1, CallerFrame DEF LinkInv
  <1>2. CASE Session
    <2>1. CASE Dial
      BY <2>1, <1>0 DEF Dial, At, link, LinkInv, TypeOK, Sess
    <2>2. CASE SetupLocked
      BY <2>2, <1>0 DEF SetupLocked, link, LinkInv, TypeOK, Sess
    <2>3. CASE SetupOffset
      <3>1. sess'.pc = "want"
        <4>1. sess \in Sess
          BY DEF TypeOK
        <4> QED BY <2>3, <4>1, SessFields DEF SetupOffset
      <3> QED BY <2>3, <3>1 DEF SetupOffset, link, LinkInv
    <2>4. CASE SetupWant
      BY <2>4, <1>0 DEF SetupWant, link, LinkInv, TypeOK, Sess
    <2>5. CASE SetupDs
      BY <2>5, <1>0 DEF SetupDs, At, link, LinkInv, TypeOK, Sess
    <2>6. CASE SetupTune
      BY <2>6, <1>0, SessFields DEF SetupTune, link, LinkInv, TypeOK
    <2>7. CASE SetupFails \/ SessionEnds
      BY <2>7, SessFields DEF SetupFails, SessionEnds, LinkInv
    <2>8. CASE WatchRate
      BY <2>8, <1>0 DEF WatchRate, link, LinkInv, TypeOK, Sess
    <2>9. CASE WatchMode
      BY <2>9, <1>0 DEF WatchMode, link, LinkInv, TypeOK, Sess
    <2> QED BY <1>2, <2>1, <2>2, <2>3, <2>4, <2>5, <2>6, <2>7, <2>8, <2>9 DEF Session
  <1>3. CASE UNCHANGED vars
    BY <1>3 DEF vars, link, LinkInv
  <1> QED BY <1>1, <1>2, <1>3 DEF Next

\* The session moves nobody, and never forgets a meeting but with a new connection.
LEMMA SessionFrame ==
    ASSUME TypeOK, Session
    PROVE  /\ UNCHANGED <<freq, lo, aprs, th>>
           /\ crossed => crossed'
           /\ ~raced' /\ raced => AllIdle /\ sess'.pc = "locked"
           /\ SettingUp' => SettingUp \/ (~raced' => AllIdle)
  <1>1. CASE Dial
    BY <1>1 DEF Dial, At, dial, SettingUp, TypeOK, Sess
  <1>2. CASE SetupLocked
    BY <1>2 DEF SetupLocked, AllIdle
  <1>3. CASE SetupOffset \/ SetupDs \/ SetupWant
    BY <1>3 DEF SetupOffset, SetupDs, SetupWant, dial, history, SettingUp
  <1>4. CASE SetupTune
    BY <1>4, SessFields DEF SetupTune, dial, history, SettingUp
  <1>5. CASE SetupFails \/ SessionEnds
    <2>1. sess'.pc = "down"
      BY <1>5, SessFields DEF SetupFails, SessionEnds
    <2> QED BY <1>5, <2>1 DEF SetupFails, SessionEnds, dial, history, SettingUp
  <1>6. CASE WatchRate
    BY <1>6 DEF WatchRate, dial, SettingUp, TypeOK, Sess
  <1>7. CASE WatchMode
    BY <1>7 DEF WatchMode, history, SettingUp, TypeOK, Sess
  <1> QED BY <1>1, <1>2, <1>3, <1>4, <1>5, <1>6, <1>7 DEF Session

LEMMA AloneStep == ASSUME TypeOK, AloneInv, [Next]_vars PROVE AloneInv'
  <1>1. ASSUME NEW t \in Thread, Setter(t) \/ Continue(t) PROVE AloneInv'
    <2>1. ~raced' => ~raced
      BY <1>1, CallerFrame
    <2>2. SettingUp' = SettingUp
      BY <1>1, CallerFrame DEF SettingUp
    <2>3. \A u \in Thread \ {t} : th'[u].pc = th[u].pc
      BY <1>1, CallerFrame
    <2>4. CASE th[t].pc = "idle"
      <3>1. raced' = (raced \/ SettingUp \/ \E u \in Thread \ {t} : th[u].pc # "idle")
        BY <1>1, <2>4, CallerFrame DEF Overlap, Meets
      <3> QED BY <2>2, <2>3, <3>1 DEF AloneInv, AllIdle
    <2>5. CASE th[t].pc # "idle"
      BY <2>1, <2>2, <2>3, <2>5 DEF AloneInv, AllIdle
    <2> QED BY <2>4, <2>5
  <1>2. CASE Session
    BY <1>2, SessionFrame DEF AloneInv, AllIdle, SettingUp
  <1>3. CASE UNCHANGED vars
    BY <1>3 DEF vars, history, AloneInv, AllIdle, SettingUp
  <1> QED BY <1>1, <1>2, <1>3 DEF Next

LEMMA SetupStep == ASSUME TypeOK, AloneInv, SetupInv, [Next]_vars PROVE SetupInv'
  <1>1. ASSUME NEW t \in Thread, Setter(t) \/ Continue(t) PROVE SetupInv'
    <2> SUFFICES ASSUME Calm', sess'.pc \in {"offset", "want", "ds", "tune"} PROVE FALSE
      BY DEF SetupInv
    <2>1. ~raced /\ SettingUp
      BY <1>1, CallerFrame DEF Calm, SettingUp
    <2>2. th[t].pc = "idle"
      BY <2>1 DEF AloneInv, AllIdle
    <2>3. raced'
      BY <1>1, <2>1, <2>2, CallerFrame DEF Overlap
    <2> QED BY <2>3 DEF Calm
  <1>2. CASE Session
    <2>1. CASE Dial
      BY <2>1 DEF Dial, At, SetupInv, TypeOK, Sess
    <2>2. CASE SetupLocked
      BY <2>2 DEF SetupLocked, NewChain, SetupInv, TypeOK, Sess
    <2>3. CASE SetupOffset
      <3>1. sess'.pc = "want" /\ sess'.lo = sess.lo
        <4>1. sess \in Sess
          BY DEF TypeOK
        <4> QED BY <2>3, <4>1, SessFields DEF SetupOffset
      <3>2. Calm' => Calm
        BY <2>3 DEF SetupOffset, history, Calm
      <3>3. Calm => chainOff' = freq - lo
        BY <2>3 DEF SetupOffset, SetupInv, TypeOK
      <3> QED BY <2>3, <3>1, <3>2, <3>3 DEF SetupOffset, SetupInv
    <2>4. CASE SetupWant
      BY <2>4 DEF SetupWant, dial, history, SetupInv, Calm, TypeOK, Sess
    <2>5. CASE SetupDs
      BY <2>5 DEF SetupDs, At, dial, history, SetupInv, Calm, TypeOK, Sess
    <2>6. CASE SetupTune
      BY <2>6, SessFields DEF SetupTune, SetupInv
    <2>7. CASE SetupFails \/ SessionEnds
      BY <2>7, SessFields DEF SetupFails, SessionEnds, SetupInv
    <2>8. CASE WatchRate \/ WatchMode
      BY <2>8 DEF WatchRate, WatchMode, SetupInv, TypeOK, Sess
    <2> QED BY <1>2, <2>1, <2>2, <2>3, <2>4, <2>5, <2>6, <2>7, <2>8 DEF Session
  <1>3. CASE UNCHANGED vars
    BY <1>3 DEF vars, dial, history, SetupInv, Calm
  <1> QED BY <1>1, <1>2, <1>3 DEF Next

\* While a session streams, a caller that is half way is the only one.
LEMMA CallStep ==
    ASSUME TypeOK, LinkInv, AloneInv, AloneInv', SetupInv, CallInv, [Next]_vars PROVE CallInv'
  <1> SUFFICES ASSUME Calm', Streaming' PROVE CallInv'
    BY DEF CallInv
  <1>0. th \in [Thread -> Call(sid)]
    BY DEF TypeOK
  <1>1. ASSUME NEW t \in Thread, Setter(t) \/ Continue(t) PROVE CallInv'
    <2>1. /\ Calm /\ Streaming /\ client = sid /\ conn = sid /\ sid > 0 /\ conn' # 0 /\ sid' = sid
      BY <1>1, CallerFrame DEF Calm, Streaming, LinkInv, TypeOK
    <2>2. \A u \in Thread \ {t} :
             /\ th'[u] = th[u]
             /\ th[t].pc # "idle" \/ th'[t].pc # "idle" => th'[u].pc = "idle"
      <3>1. ~raced /\ ~raced'
        BY <2>1 DEF Calm
      <3> QED BY <1>1, <3>1, CallerFrame DEF AloneInv
    <2>3. ASSUME th[t].pc = "idle"
          PROVE  AllIdle /\ srvFreq = lo /\ chainOff = freq - lo
      <3>1. Overlap(t)
        BY <1>1, <2>3, CallerFrame
      <3>2. AllIdle
        BY <2>3, <3>1 DEF Overlap, Meets, Calm, AllIdle
      <3> QED BY <2>1, <3>2 DEF CallInv, Busy, AllIdle
    <2>4. ASSUME th[t].pc \in {"sync", "store", "return", "rate", "rebuild"}
          PROVE  srvFreq = lo /\ chainOff = freq - lo
      <3>1. \A u \in Thread \ {t} : th[u].pc = "idle"
        BY <2>4, <2>2
      <3> QED BY <2>1, <2>4, <3>1 DEF CallInv, Busy
    <2>5. ASSUME NEW r, Step(t, r), r.pc \notin {"idle", "mds", "mtune"},
                 r.pc \notin {"zero", "ds", "tune", "close"} => srvFreq' = lo' /\ chainOff' = freq' - lo',
                 r.pc \in {"zero", "ds", "tune"} =>
                    r.hz = lo' /\ lo' = freq' /\ r.cl = sid /\ (t \in held' \/ chainOff' = 0),
                 r.pc \in {"ds", "tune"} => chainOff' = 0,
                 r.pc = "close" => r.cl = sid
          PROVE  CallInv'
      <3>1. th'[t] = r
        BY <1>0, <2>5 DEF Step
      <3>2. \A u \in Thread \ {t} : th'[u].pc = "idle"
        BY <2>2, <2>5, <3>1
      <3> QED BY <2>1, <2>5, <3>1, <3>2 DEF CallInv, Busy
    <2>6. ASSUME NEW hz \in Int, NEW d, SetFreqBody(t, hz, d),
                 srvFreq = lo /\ chainOff = freq - lo, srvFreq' = srvFreq
          PROVE  CallInv'
      <3> DEFINE want == DirectSamplingFor(dsMode, hz)
                 far == [pc |-> "zero", hz |-> hz, want |-> want, sw |-> want # hf,
                         cl |-> client, depth |-> d]
                 near == [Idle EXCEPT !.pc = "sync", !.depth = d]
      <3>1. near.pc = "sync" /\ far.pc = "zero"
        BY DEF Idle
      <3>2. CASE Step(t, near) /\ freq' = hz /\ chainOff' = hz - lo /\ lo' = lo
        BY <3>1, <3>2, <2>5, <2>6
      <3>3. CASE Step(t, far) /\ freq' = hz /\ lo' = hz /\ t \in held'
        BY <3>1, <3>3, <2>1, <2>5
      <3> QED BY <2>6, <3>2, <3>3 DEF SetFreqBody
    <2>7. ASSUME NEW r, Step(t, r), th[t].pc \in {"idle", "sync", "store", "return", "rate"},
                 r.pc \in {"idle", "sync", "store", "return", "rate", "rebuild"},
                 UNCHANGED <<freq, lo, chainOff, srvFreq>>
          PROVE  CallInv'
      <3>1. th'[t] = r
        BY <1>0, <2>7 DEF Step
      <3>2. \A u \in Thread \ {t} : th'[u] = th[u]
        BY <2>2
      <3>3. srvFreq = lo /\ chainOff = freq - lo
        BY <2>3, <2>4, <2>7
      <3>4. \A u \in Thread \ {t} : th'[u].pc = "idle"
        BY <2>2, <2>3, <2>7 DEF AllIdle
      <3> QED BY <2>7, <3>1, <3>2, <3>3, <3>4 DEF CallInv, Busy
    <2>8. ASSUME th[t].pc = "idle", UNCHANGED <<freq, lo, srvFreq, th>>,
                 chainOff' \in {chainOff, freq - lo}
          PROVE  CallInv'
      BY <2>3, <2>8 DEF CallInv, Busy, AllIdle
    <2>9. ASSUME NEW hz \in Freqs, SetFreq(t, hz) PROVE CallInv'
      BY <2>3, <2>6, <2>9, Asked DEF SetFreq, server
    <2>10. ASSUME \/ \E on \in BOOLEAN : SetAPRSEnabled(t, on)
                  \/ \E hz \in AprsFreqs : SetAPRSFreq(t, hz)
           PROVE  CallInv'
      <3>1. th[t].pc = "idle" /\ UNCHANGED <<freq, lo, chainOff, srvFreq>>
        BY <2>10 DEF SetAPRSEnabled, SetAPRSFreq, dial, server
      <3>2. [Idle EXCEPT !.pc = "sync"].pc = "sync"
        BY DEF Idle
      <3>3. UNCHANGED th \/ Step(t, [Idle EXCEPT !.pc = "sync"])
        BY <2>10 DEF SetAPRSEnabled, SetAPRSFreq
      <3> QED BY <2>7, <2>8, <3>1, <3>2, <3>3
    <2>11. ASSUME NEW w \in Bandwidths, SetPassband(t, w) PROVE CallInv'
      BY <2>8, <2>11 DEF SetPassband, NewChain, server
    <2>12. ASSUME NEW hz \in Rates, SetCaptureRate(t, hz) PROVE CallInv'
      <3>1. [Idle EXCEPT !.pc = "rate", !.hz = hz].pc = "rate"
        BY DEF Idle
      <3> QED BY <2>7, <2>12, <3>1 DEF SetCaptureRate, dial, server
    <2>13. ASSUME NEW m \in DsModes, SetDsMode(t, m) PROVE CallInv'
      <3>1. UNCHANGED th
        BY <2>13 DEF SetDsMode, Calm
      <3> QED BY <2>8, <2>13, <3>1 DEF SetDsMode, dial, server
    <2>14. ASSUME ZeroOffset(t) PROVE CallInv'
      <3>1. /\ th[t].pc = "zero" /\ th[t].hz = lo /\ lo = freq /\ th[t].cl = sid
            /\ t \in held \/ chainOff = 0
        BY <2>1, <2>14 DEF ZeroOffset, CallInv, Busy
      <3>2. PICK l \in {"ds", "tune"} : Step(t, [th[t] EXCEPT !.pc = l])
        BY <2>1, <2>14, <3>1 DEF ZeroOffset
      <3>3. /\ [th[t] EXCEPT !.pc = l].pc = l /\ [th[t] EXCEPT !.pc = l].hz = th[t].hz
            /\ [th[t] EXCEPT !.pc = l].cl = th[t].cl
        BY <1>0 DEF Call
      <3>4. chainOff' = 0 /\ freq' = freq /\ lo' = lo
        BY <2>14, <3>1 DEF ZeroOffset
      <3> QED BY <2>5, <3>1, <3>2, <3>3, <3>4
    <2>15. ASSUME SendDs(t) PROVE CallInv'
      <3>1. /\ th[t].pc = "ds" /\ th[t].hz = lo /\ lo = freq /\ th[t].cl = sid /\ chainOff = 0
        BY <2>1, <2>15 DEF SendDs, CallInv, Busy
      <3>2. Step(t, [th[t] EXCEPT !.pc = "tune"])
        BY <2>1, <2>15, <3>1 DEF SendDs, SendFails
      <3>3. /\ [th[t] EXCEPT !.pc = "tune"].pc = "tune" /\ [th[t] EXCEPT !.pc = "tune"].hz = th[t].hz
            /\ [th[t] EXCEPT !.pc = "tune"].cl = th[t].cl
        BY <1>0 DEF Call
      <3> QED BY <2>5, <2>15, <3>1, <3>2, <3>3 DEF SendDs, dial
    <2>16. ASSUME SendTune(t) PROVE CallInv'
      <3>1. /\ th[t].pc = "tune" /\ th[t].hz = lo /\ lo = freq /\ th[t].cl = sid /\ chainOff = 0
        BY <2>1, <2>16 DEF SendTune, CallInv, Busy
      <3>2. Step(t, Past(t, "sync")) /\ srvFreq' = th[t].hz
        BY <2>1, <2>16, <3>1 DEF SendTune, SendFails
      <3>3. Past(t, "sync").pc = "sync"
        BY DEF Past, Idle
      <3>4. chainOff' = freq' - lo' /\ lo' = lo
        BY <2>16, <3>1 DEF SendTune, dial, TypeOK
      <3> QED BY <2>5, <3>1, <3>2, <3>3, <3>4
    <2>17. ASSUME SyncAPRS(t) PROVE CallInv'
      <3>1. srvFreq = lo /\ chainOff = freq - lo /\ srvFreq' = srvFreq /\ th[t].pc = "sync"
        BY <2>4, <2>17 DEF SyncAPRS, server
      <3>2. CASE SetFreqBody(t, aprsFreq, Deeper(th[t].depth))
        <4>1. aprsFreq \in Int
          BY Asked DEF TypeOK
        <4> QED BY <2>6, <3>1, <3>2, <4>1
      <3>3. CASE /\ \/ Step(t, [th[t] EXCEPT !.pc = "return"])
                    \/ Step(t, [th[t] EXCEPT !.pc = "store", !.hz = aprsFreq - lo])
                 /\ UNCHANGED dial
        <4>1. /\ [th[t] EXCEPT !.pc = "return"].pc = "return"
              /\ [th[t] EXCEPT !.pc = "store", !.hz = aprsFreq - lo].pc = "store"
          BY <1>0 DEF Call
        <4> QED BY <2>7, <3>1, <3>3, <4>1 DEF dial
      <3> QED BY <2>17, <3>2, <3>3 DEF SyncAPRS
    <2>18. ASSUME StoreOffset(t) \/ Return(t) PROVE CallInv'
      <3>1. \/ Step(t, Past(t, "return")) \/ Step(t, Idle)
            \/ Step(t, [th[t] EXCEPT !.depth = @ - 1]) /\ th[t].pc = "return"
        BY <2>18 DEF StoreOffset, Return
      <3>2. /\ Past(t, "return").pc = "return" /\ Idle.pc = "idle"
            /\ [th[t] EXCEPT !.depth = @ - 1].pc = th[t].pc
        BY <1>0 DEF Call, Idle, Past
      <3> QED BY <2>7, <2>18, <3>1, <3>2 DEF StoreOffset, Return, dial, server
    <2>19. ASSUME CaptureRate(t) PROVE CallInv'
      <3>1. [th[t] EXCEPT !.pc = "rebuild"].pc = "rebuild"
        BY <1>0 DEF Call
      <3> QED BY <2>7, <2>19, <3>1 DEF CaptureRate, dial, server
    <2>20. ASSUME CaptureRebuild(t) PROVE CallInv'
      <3> DEFINE r == [Idle EXCEPT !.pc = "close", !.cl = client]
      <3>0. client = sid /\ sid # 0
        BY <2>1
      <3>1. Step(t, r)
        BY <2>20, <3>0 DEF CaptureRebuild
      <3>2. r.pc = "close" /\ r.cl = sid
        BY <3>0 DEF Idle
      <3> QED BY <2>5, <3>1, <3>2
    <2>21. ~CaptureClose(t)
      <3>1. CaptureClose(t) => th[t].cl = sid /\ conn' = 0
        BY <2>1 DEF CaptureClose, SendFails, CallInv
      <3> QED BY <2>1, <3>1
    <2>22. ~ModeSendDs(t) /\ ~ModeSendTune(t)
      BY <2>1 DEF CallInv, ModeSendDs, ModeSendTune
    <2> QED
      BY <1>1, <2>9, <2>10, <2>11, <2>12, <2>13, <2>14, <2>15, <2>16, <2>17, <2>18, <2>19, <2>20,
         <2>21, <2>22
      DEF Setter, Continue
  <1>2. CASE Session
    <2>1. CASE Dial \/ SetupLocked \/ SetupOffset \/ SetupWant \/ SetupDs \/ SetupFails \/ SessionEnds
      <3>1. sess'.pc \notin {"stream", "watch"}
        <4>1. CASE SetupOffset
          <5>1. sess \in Sess
            BY DEF TypeOK
          <5> QED BY <4>1, <5>1, SessFields DEF SetupOffset
        <4>2. CASE Dial \/ SetupLocked \/ SetupWant \/ SetupDs
          BY <4>2 DEF Dial, SetupLocked, SetupWant, SetupDs, At, TypeOK, Sess
        <4>3. CASE SetupFails \/ SessionEnds
          BY <4>3, SessFields DEF SetupFails, SessionEnds
        <4> QED BY <2>1, <4>1, <4>2, <4>3
      <3> QED BY <3>1 DEF Streaming
    <2>2. CASE SetupTune
      <3>1. AllIdle /\ sess.lo = lo /\ chainOff = freq - lo
        BY <2>2 DEF SetupTune, history, Calm, AloneInv, SetupInv, SettingUp
      <3> QED BY <2>2, <3>1 DEF SetupTune, dial, CallInv, Busy, AllIdle
    <2>3. CASE WatchRate
      <3>1. Calm /\ Streaming
        BY <2>3 DEF WatchRate, link, Calm, Streaming
      <3> QED BY <2>3, <3>1 DEF WatchRate, dial, link, server, CallInv, Busy
    <2>4. CASE WatchMode
      <3>1. Calm /\ Streaming
        BY <2>4 DEF WatchMode, link, history, Calm, Streaming
      <3>2. UNCHANGED <<freq, lo, sid, srvFreq, th>> /\ chainOff' = freq - lo
        BY <2>4 DEF WatchMode, NewChain, link, server
      <3>3. ASSUME NEW t \in Thread, Busy(t) PROVE th[t].hz = lo /\ lo = freq /\ th[t].cl = sid
        BY <3>1, <3>3 DEF CallInv
      <3>4. lo \in Int
        BY DEF TypeOK
      <3> QED BY <3>1, <3>2, <3>3, <3>4 DEF CallInv, Busy
    <2> QED BY <1>2, <2>1, <2>2, <2>3, <2>4 DEF Session
  <1>3. CASE UNCHANGED vars
    BY <1>3 DEF vars, dial, link, server, history, CallInv, Calm, Streaming, Busy
  <1> QED BY <1>1, <1>2, <1>3 DEF Next

(* IInv is inductive (radio.go: SetFreq, SetMode, SetCaptureRate, session). *)
THEOREM Inductive == Spec => []IInv
<1>1. Init => IInv
  <2> SUFFICES ASSUME Init PROVE IInv
    OBVIOUS
  <2>1. sess.pc = "down" /\ conn = 0
    BY SessFields DEF Init
  <2>2. \A t \in Thread : th[t].pc = "idle"
    BY DEF Init, Idle
  <2> QED BY <2>1, <2>2
      DEF IInv, LinkInv, AloneInv, SetupInv, CallInv, Streaming, SettingUp
<1>2. TypeOK /\ IInv /\ [Next]_vars => IInv'
  BY LinkStep, AloneStep, SetupStep, CallStep DEF IInv
<1> QED BY <1>1, <1>2, TypeCorrect, PTL DEF Spec

(* A streaming receiver whose callers did not overlap in its session       *)
(* listens where the dial says, whatever rate, mode and watchdog did to    *)
(* the chain (SetFreq, rebuildChain, session), for any callers,            *)
(* frequencies, rates and bandwidths.                                      *)
THEOREM TunedRightHolds == Spec => []TunedRight
<1>1. TypeOK /\ IInv => TunedRight
  <2> SUFFICES ASSUME TypeOK, IInv, Streaming, AllIdle, Calm PROVE srvFreq + chainOff = freq
    BY DEF TunedRight, Calm
  <2>1. srvFreq = lo /\ chainOff = freq - lo
    BY DEF IInv, CallInv, AllIdle, Busy
  <2> QED BY <2>1 DEF TypeOK
<1> QED BY <1>1, TypeCorrect, Inductive, PTL

-----------------------------------------------------------------------------
(* The APRS channel.  Since the branch was placed no two callers overlapped, *)
(* nor a caller and the watchdog (~crossed); what the caller inside a setter *)
(* has still to do about the channel goes by where it is: on the way to      *)
(* syncAPRSOffset nothing is promised; between its two sections it holds the *)
(* offset; a call that was made by syncAPRSOffset has put the LO onto the    *)
(* channel, or asks again.                                                   *)

CrossInv ==
    ~crossed => \A t, u \in Thread : t # u => th[t].pc = "idle" \/ th[u].pc = "idle"

Elsewhere == {"mds", "mtune", "rate", "rebuild", "close"}

Owed(r) ==
    /\ r.pc \in Elsewhere => r.depth = 0
    /\ r.pc \in Elsewhere \cup {"return"} /\ r.depth = 0 => lo + aprsOff = aprsFreq
    /\ r.pc = "store" => r.hz = aprsFreq - lo
    /\ r.depth > 0 /\ r.pc \in {"zero", "ds", "tune", "store", "return"} => lo = aprsFreq
    /\ r.depth > 0 /\ r.pc = "sync" => lo = aprsFreq \/ ~(Dist(aprsFreq, lo) <= IF2Window)

AprsInv ==
    ~crossed /\ aprsOn =>
        /\ AllIdle => lo + aprsOff = aprsFreq
        /\ \A t \in Thread : Owed(th[t])

\* The same of what it has become, after a step.
OwedNext(r) ==
    /\ r.pc \in Elsewhere => r.depth = 0
    /\ r.pc \in Elsewhere \cup {"return"} /\ r.depth = 0 => lo' + aprsOff' = aprsFreq'
    /\ r.pc = "store" => r.hz = aprsFreq' - lo'
    /\ r.depth > 0 /\ r.pc \in {"zero", "ds", "tune", "store", "return"} => lo' = aprsFreq'
    /\ r.depth > 0 /\ r.pc = "sync" => lo' = aprsFreq' \/ ~(Dist(aprsFreq', lo') <= IF2Window')

LEMMA CrossStep == ASSUME TypeOK, CrossInv, [Next]_vars PROVE CrossInv'
  <1>1. ASSUME NEW t \in Thread, Setter(t) PROVE CrossInv'
    <2>1. \A u \in Thread \ {t} : th'[u] = th[u]
      BY <1>1, SetterFrame
    <2>2. crossed' = Meets(t) \/ crossed' = (crossed \/ Meets(t))
      BY <1>1, SetterFrame DEF Places, Crosses
    <2> QED BY <2>1, <2>2 DEF Meets, CrossInv
  <1>2. ASSUME NEW t \in Thread, Continue(t) PROVE CrossInv'
    BY <1>2, ContinueFrame DEF history, CrossInv
  <1>3. CASE Session
    BY <1>3, SessionFrame DEF CrossInv
  <1>4. CASE UNCHANGED vars
    BY <1>4 DEF vars, history, CrossInv
  <1> QED BY <1>1, <1>2, <1>3, <1>4 DEF Next

LEMMA AprsStep ==
    ASSUME TypeOK, CrossInv, CrossInv', AprsInv, [Next]_vars PROVE AprsInv'
  <1> SUFFICES ASSUME ~crossed', aprsOn' PROVE AprsInv'
    BY DEF AprsInv
  <1>0. /\ th \in [Thread -> Call(sid)] /\ lo \in Int /\ aprsFreq \in Int
        /\ \A t \in Thread : th[t].depth \in Nat /\ th[t].hz \in Int
    <2>1. th \in [Thread -> Call(sid)] /\ lo \in Int /\ aprsFreq \in Int
      BY Asked DEF TypeOK
    <2> QED BY <2>1, TunerAssumption DEF TunerAssumption, Call
  <1>1. ASSUME NEW t \in Thread, NEW r, Step(t, r), r.pc # "idle", OwedNext(r) PROVE AprsInv'
    <2>1. th'[t] = r
      BY <1>0, <1>1 DEF Step
    <2>2. \A u \in Thread \ {t} : th'[u].pc = "idle"
      BY <1>1, <2>1 DEF CrossInv
    <2> QED BY <1>1, <2>1, <2>2 DEF AprsInv, AllIdle, Owed, OwedNext, Elsewhere
  <1>2. ASSUME NEW t \in Thread, NEW hz \in Int, NEW d \in Nat, SetFreqBody(t, hz, d),
               d > 0 => hz = aprsFreq /\ ~(Dist(aprsFreq, lo) <= IF2Window)
        PROVE  AprsInv'
    <2> DEFINE want == DirectSamplingFor(dsMode, hz)
               far == [pc |-> "zero", hz |-> hz, want |-> want, sw |-> want # hf,
                       cl |-> client, depth |-> d]
               near == [Idle EXCEPT !.pc = "sync", !.depth = d]
    <2>0. aprsFreq' = aprsFreq /\ IF2Window' = IF2Window
      BY <1>2 DEF SetFreqBody, window, IF2Window
    <2>1. near.pc = "sync" /\ near.depth = d /\ far.pc = "zero" /\ far.depth = d
      BY DEF Idle
    <2>2. CASE Step(t, near) /\ lo' = lo
      <3>1. OwedNext(near)
        BY <1>2, <2>0, <2>1, <2>2 DEF OwedNext, Elsewhere
      <3> QED BY <1>1, <2>1, <2>2, <3>1
    <2>3. CASE Step(t, far) /\ lo' = hz
      <3>1. OwedNext(far)
        BY <1>2, <2>0, <2>1, <2>3 DEF OwedNext, Elsewhere
      <3> QED BY <1>1, <2>1, <2>3, <3>1
    <2> QED BY <1>2, <2>2, <2>3 DEF SetFreqBody
  <1>3. ASSUME NEW t \in Thread, Setter(t) PROVE AprsInv'
    <2>0. Idle.depth = 0 /\ th[t].pc = "idle"
      BY <1>3, SetterFrame DEF Idle
    <2>1. \A u \in Thread \ {t} : th[u].pc = "idle"
      BY <1>3, SetterFrame DEF Places, Crosses, Meets
    <2>2. AllIdle
      BY <2>0, <2>1 DEF AllIdle
    <2>3. ASSUME Crosses(t), UNCHANGED <<lo, aprs>> PROVE lo' + aprsOff' = aprsFreq'
      BY <2>2, <2>3 DEF Crosses, AprsInv, aprs
    <2>4. CASE \E hz \in Freqs : SetFreq(t, hz)
      BY <1>2, <2>4, Asked DEF SetFreq
    <2>5. CASE \/ \E on \in BOOLEAN : SetAPRSEnabled(t, on)
               \/ \E hz \in AprsFreqs : SetAPRSFreq(t, hz)
      <3> DEFINE r == [Idle EXCEPT !.pc = "sync"]
      <3>1. Step(t, r)
        BY <2>5 DEF SetAPRSEnabled, SetAPRSFreq
      <3>2. r.pc = "sync" /\ r.depth = 0
        BY DEF Idle
      <3>3. OwedNext(r)
        BY <3>2 DEF OwedNext, Elsewhere
      <3> QED BY <1>1, <3>1, <3>2, <3>3
    <2>6. CASE \E w \in Bandwidths : SetPassband(t, w)
      <3>1. UNCHANGED <<lo, aprs, th>> /\ Crosses(t)
        BY <2>6 DEF SetPassband
      <3> QED BY <2>2, <2>3, <3>1 DEF AprsInv, AllIdle, Owed, Elsewhere
    <2>7. ASSUME NEW hz \in Rates, SetCaptureRate(t, hz) PROVE AprsInv'
      <3> DEFINE r == [Idle EXCEPT !.pc = "rate", !.hz = hz]
      <3>1. UNCHANGED <<lo, aprs>> /\ Crosses(t) /\ Step(t, r)
        BY <2>7 DEF SetCaptureRate, dial
      <3>2. r.pc = "rate" /\ r.depth = 0
        BY DEF Idle
      <3>3. OwedNext(r)
        BY <2>3, <3>1, <3>2 DEF OwedNext, Elsewhere
      <3> QED BY <1>1, <3>1, <3>2, <3>3
    <2>8. ASSUME NEW m \in DsModes, SetDsMode(t, m) PROVE AprsInv'
      <3> DEFINE r == [Idle EXCEPT !.pc = "mds", !.hz = freq, !.want = DirectSamplingFor(m, freq),
                                   !.cl = client]
      <3>1. UNCHANGED <<lo, aprs>> /\ Crosses(t)
        BY <2>8 DEF SetDsMode, dial
      <3>2. CASE Step(t, r)
        <4>1. r.pc = "mds" /\ r.depth = 0
          BY DEF Idle
        <4>2. OwedNext(r)
          BY <2>3, <3>1, <4>1 DEF OwedNext, Elsewhere
        <4> QED BY <1>1, <3>2, <4>1, <4>2
      <3>3. CASE UNCHANGED th
        BY <2>2, <2>3, <3>1, <3>3 DEF AprsInv, AllIdle, Owed, Elsewhere
      <3> QED BY <2>8, <3>2, <3>3 DEF SetDsMode
    <2> QED BY <1>3, <2>4, <2>5, <2>6, <2>7, <2>8 DEF Setter
  <1>4. ASSUME NEW t \in Thread, Continue(t) PROVE AprsInv'
    <2>0. /\ th[t].pc # "idle" /\ ~crossed
          /\ \A u \in Thread \ {t} : th'[u] = th[u] /\ th[u].pc = "idle"
      <3>1. /\ th[t].pc # "idle" /\ ~crossed /\ \A u \in Thread \ {t} : th'[u] = th[u]
        BY <1>4, ContinueFrame DEF history
      <3> QED BY <3>1 DEF CrossInv
    <2>1. ASSUME aprsOn PROVE Owed(th[t])
      BY <2>0, <2>1 DEF AprsInv
    <2>2. ASSUME NEW l \in CallPc \ {"idle"},
                 Step(t, Past(t, l)) \/ Step(t, [th[t] EXCEPT !.pc = l]),
                 UNCHANGED <<lo, aprs>>,
                 \/ l \in {"ds", "tune", "sync"} /\ th[t].pc \in {"zero", "ds", "tune"}
                 \/ l \in Elsewhere \cup {"return"} /\ th[t].pc \in Elsewhere
          PROVE  AprsInv'
      <3>1. PICK r \in {Past(t, l), [th[t] EXCEPT !.pc = l]} : Step(t, r)
        BY <2>2
      <3>2. r.pc = l /\ r.depth = th[t].depth
        BY <1>0, <3>1 DEF Call, Past, Idle
      <3>3. Owed(th[t]) /\ l \in {"ds", "tune", "sync", "return"} \cup Elsewhere
        BY <2>1, <2>2 DEF aprs
      <3>4. OwedNext(r)
        BY <1>0, <2>2, <3>2, <3>3 DEF Owed, OwedNext, Elsewhere, aprs
      <3> QED BY <1>1, <2>2, <3>1, <3>2, <3>4
    <2>3. CASE ZeroOffset(t) \/ SendDs(t) \/ SendTune(t)
      <3>1. th[t].pc \in {"zero", "ds", "tune"} /\ UNCHANGED <<lo, aprs>>
        BY <2>3 DEF ZeroOffset, SendDs, SendTune, dial
      <3>2. PICK l \in {"ds", "tune", "sync"} :
               Step(t, Past(t, l)) \/ Step(t, [th[t] EXCEPT !.pc = l])
        BY <2>3 DEF ZeroOffset, SendDs, SendTune, SendFails
      <3>3. l \in CallPc \ {"idle"}
        BY DEF CallPc
      <3>4. l \in {"ds", "tune", "sync"} /\ th[t].pc \in {"zero", "ds", "tune"}
        BY <3>1
      <3> QED BY <2>2, <3>1, <3>2, <3>3, <3>4
    <2>4. CASE ModeSendDs(t) \/ ModeSendTune(t) \/ CaptureClose(t) \/ CaptureRate(t)
      <3>1. th[t].pc \in Elsewhere /\ UNCHANGED <<lo, aprs>>
        BY <2>4 DEF ModeSendDs, ModeSendTune, CaptureClose, CaptureRate, dial, Elsewhere
      <3>2. PICK l \in {"mtune", "return", "rebuild"} :
               Step(t, Past(t, l)) \/ Step(t, [th[t] EXCEPT !.pc = l])
        BY <2>4 DEF ModeSendDs, ModeSendTune, CaptureClose, CaptureRate, SendFails
      <3> QED BY <2>2, <3>1, <3>2 DEF CallPc, Elsewhere
    <2>5. CASE CaptureRebuild(t)
      <3> DEFINE r(l) == [Idle EXCEPT !.pc = l, !.cl = client]
      <3>1. PICK l \in {"return", "close"} : Step(t, r(l))
        BY <2>5 DEF CaptureRebuild
      <3>2. th[t].pc = "rebuild" /\ UNCHANGED <<lo, aprs>>
        BY <2>5 DEF CaptureRebuild
      <3>3. r(l).pc = l /\ r(l).depth = 0
        BY DEF Idle
      <3>4. lo + aprsOff = aprsFreq
        BY <2>1, <3>2 DEF Owed, Elsewhere, aprs
      <3>5. OwedNext(r(l))
        BY <3>2, <3>3, <3>4 DEF OwedNext, Elsewhere, aprs
      <3> QED BY <1>1, <3>1, <3>3, <3>5
    <2>6. CASE SyncAPRS(t)
      <3>0. aprsOn /\ th[t].pc = "sync"
        BY <2>6 DEF SyncAPRS, SetFreqBody
      <3>1. CASE Dist(aprsFreq, lo) <= IF2Window
        <4> DEFINE r == [th[t] EXCEPT !.pc = "store", !.hz = aprsFreq - lo]
        <4>0. IF2Window \in Int /\ Dist(aprsFreq, lo) \in Int
          <5>1. If2[rate] \in Nat
            BY TunerAssumption DEF TunerAssumption, TypeOK
          <5> QED BY <1>0, <5>1 DEF IF2Window, Dist
        <4>1. Step(t, r) /\ lo' = lo /\ aprsFreq' = aprsFreq /\ rate' = rate
          BY <2>6, <3>0, <3>1, <4>0 DEF SyncAPRS, dial, window
        <4>2. r.pc = "store" /\ r.hz = aprsFreq - lo /\ r.depth = th[t].depth
          BY <1>0 DEF Call
        <4>3. Owed(th[t])
          BY <2>1, <3>0
        <4>4. OwedNext(r)
          BY <3>0, <3>1, <4>1, <4>2, <4>3 DEF Owed, OwedNext, Elsewhere
        <4> QED BY <1>1, <4>1, <4>2, <4>4
      <3>2. CASE ~(Dist(aprsFreq, lo) <= IF2Window)
        <4>1. SetFreqBody(t, aprsFreq, Deeper(th[t].depth))
          BY <2>6, <3>0, <3>2 DEF SyncAPRS
        <4>2. Deeper(th[t].depth) \in Nat
          BY <1>0, TunerAssumption DEF Deeper, TunerAssumption
        <4> QED BY <1>0, <1>2, <3>2, <4>1, <4>2
      <3> QED BY <3>1, <3>2
    <2>7. CASE StoreOffset(t)
      <3> DEFINE r == Past(t, "return")
      <3>1. /\ th[t].pc = "store" /\ Step(t, r) /\ UNCHANGED <<lo, aprsOn, aprsFreq>>
            /\ aprsOff' = th[t].hz /\ aprsOn
        BY <2>7 DEF StoreOffset, dial
      <3>2. r.pc = "return" /\ r.depth = th[t].depth
        BY DEF Past, Idle
      <3>3. Owed(th[t])
        BY <2>1, <3>1
      <3>4. OwedNext(r)
        BY <1>0, <3>1, <3>2, <3>3 DEF Owed, OwedNext, Elsewhere
      <3> QED BY <1>1, <3>1, <3>2, <3>4
    <2>8. CASE Return(t)
      <3>1. th[t].pc = "return" /\ UNCHANGED <<lo, aprsFreq>> /\ aprsOn /\ Owed(th[t])
        BY <2>1, <2>8 DEF Return, dial
      <3>2. CASE th[t].depth > 0
        <4> DEFINE r == [th[t] EXCEPT !.depth = @ - 1]
        <4>1. Step(t, r) /\ aprsOff' = 0
          BY <2>8, <3>2 DEF Return
        <4>2. r.pc = "return" /\ r.depth = th[t].depth - 1
          BY <1>0, <3>1 DEF Call
        <4>3. OwedNext(r)
          BY <1>0, <3>1, <3>2, <4>1, <4>2 DEF Owed, OwedNext, Elsewhere
        <4> QED BY <1>1, <4>1, <4>2, <4>3
      <3>3. CASE ~(th[t].depth > 0)
        <4>1. th[t].depth = 0 /\ Step(t, Idle) /\ aprsOff' = aprsOff
          BY <1>0, <2>8, <3>3 DEF Return
        <4>2. th'[t] = Idle /\ \A u \in Thread \ {t} : th'[u].pc = "idle"
          BY <1>0, <2>0, <4>1 DEF Step
        <4>3. lo' + aprsOff' = aprsFreq'
          BY <3>1, <4>1 DEF Owed
        <4> QED BY <4>2, <4>3 DEF AprsInv, Owed, Elsewhere, Idle
      <3> QED BY <3>2, <3>3
    <2> QED BY <1>4, <2>3, <2>4, <2>5, <2>6, <2>7, <2>8 DEF Continue
  <1>5. CASE Session
    <2>1. UNCHANGED <<lo, aprs, th>> /\ ~crossed
      BY <1>5, SessionFrame
    <2>2. CASE rate' = rate
      BY <2>1, <2>2 DEF AprsInv, AllIdle, Owed, IF2Window, aprs
    <2>3. CASE AllIdle
      BY <2>1, <2>3 DEF AprsInv, AllIdle, Owed, Elsewhere, aprs
    <2>4. rate' = rate \/ AllIdle
      BY <1>5 DEF Session, Dial, SetupLocked, SetupOffset, SetupWant, SetupDs, SetupTune,
         SetupFails, SessionEnds, WatchRate, WatchMode, window
    <2> QED BY <2>2, <2>3, <2>4
  <1>6. CASE UNCHANGED vars
    BY <1>6 DEF vars, dial, window, aprs, history, AprsInv, AllIdle, Owed, IF2Window
  <1> QED BY <1>3, <1>4, <1>5, <1>6 DEF Next

(* The APRS branch listens on its channel, whatever the callers tune to    *)
(* and to whatever rate, in whatever session, and however often            *)
(* syncAPRSOffset calls SetFreq again; unless they overlapped since it was *)
(* placed (SetFreq, SetAPRSFreq, syncAPRSOffset).                          *)
THEOREM AprsOnChannelHolds == Spec => []AprsOnChannel
<1>1. Init => AprsInv /\ CrossInv
  BY DEF Init, AprsInv, CrossInv, Idle
<1>2. TypeOK /\ CrossInv /\ [Next]_vars => CrossInv'
  BY CrossStep
<1>3. TypeOK /\ CrossInv /\ CrossInv' /\ AprsInv /\ [Next]_vars => AprsInv'
  BY AprsStep
<1>4. AprsInv => AprsOnChannel
  BY DEF AprsInv, AprsOnChannel
<1> QED BY <1>1, <1>2, <1>3, <1>4, TypeCorrect, PTL DEF Spec
=============================================================================
