----------------------------- MODULE LiveProofs -----------------------------
(***************************************************************************)
(* Theorems about what MCLive runs, for any hosts, browsers, views and     *)
(* bounds: the web server's listener, commands, audio and logs; the        *)
(* receive session; the radar's feed; the queue and the resampler of a     *)
(* decoder's process; the map.  The parts share no state: each has its     *)
(* invariant, and the last section puts them together.                     *)
(***************************************************************************)
EXTENDS MCLive, SequenceTheorems, TLAPS

State  == {"spawned", "bound", "serving", "gone"}
Server == [port : Ports, st : State, shut : BOOLEAN]

(***************************************************************************)
(* The listener.  ServedWhereChosen compares what is served with what was  *)
(* chosen once all is quiet; what makes it so is that every server but the *)
(* one in s.srv has been shut down, whatever its goroutine has done of it, *)
(* and that s.srv is shut down exactly while s.mu is held for it.          *)
(***************************************************************************)
ListenType ==
    /\ port \in Ports /\ enabled \in BOOLEAN /\ unlucky \in BOOLEAN
    /\ stopping \in {"no", "stop", "restart"}
    /\ inst \in Seq(Server)
    /\ srv \in 0..Len(inst)

\* A start of the listener is a server, and its sampler.
Counted == samplers = Len(inst) /\ Len(inst) <= MaxStarts
           /\ (stopping = "restart" => Len(inst) < MaxStarts)

\* s.srv is a server while one is wanted, or not yet shut down.
Registered ==
    /\ srv # 0 <=> enabled \/ stopping = "stop"
    /\ stopping = "restart" => enabled
    /\ stopping = "stop" => ~enabled
    /\ srv # 0 => IF stopping = "no" THEN inst[srv].port = port /\ ~inst[srv].shut
                                     ELSE inst[srv].shut

\* What was shut down does not serve; what was not is gone only by bad luck.
Servers ==
    \A i \in 1..Len(inst) :
       /\ i # srv => inst[i].shut
       /\ inst[i].shut => inst[i].st # "serving"
       /\ ~inst[i].shut /\ inst[i].st = "gone" => unlucky

ListenInv == ListenType /\ Counted /\ Registered /\ Servers

(* A start leaves every other server shut down.                            *)
LEMMA Starts ==
    ASSUME ListenInv, NEW p, p = port', Web!StartLocked(p), p \in Ports,
           \A i \in 1..Len(inst) : inst[i].shut,
           enabled' = TRUE, unlucky' = unlucky, Len(inst) < MaxStarts
    PROVE  ListenInv'
<1> DEFINE new == [port |-> p, st |-> "spawned", shut |-> FALSE]
<1>1. /\ inst' = Append(inst, new) /\ srv' = Len(inst) + 1
      /\ samplers' = samplers + 1 /\ stopping' = "no"
  BY DEF Web!StartLocked
<1>2. new \in Server
  BY DEF State, Server
<1>3. /\ Len(inst') = Len(inst) + 1 /\ inst'[Len(inst) + 1] = new
      /\ \A i \in 1..Len(inst) : inst'[i] = inst[i]
      /\ inst' \in Seq(Server)
  BY <1>1, <1>2 DEF ListenInv, ListenType
<1>4. ListenType' /\ Counted'
  <2>1. Len(inst) \in Nat /\ MaxStarts \in Nat
    BY LiveAssumption, LenProperties DEF ListenInv, ListenType
  <2>2. srv' \in 0..Len(inst') /\ Len(inst') <= MaxStarts /\ samplers' = Len(inst')
    BY <1>1, <1>3, <2>1 DEF ListenInv, Counted
  <2>3. stopping' = "no" /\ enabled' \in BOOLEAN /\ unlucky' \in BOOLEAN
    BY <1>1 DEF ListenInv, ListenType
  <2>4. QED  BY <1>3, <2>2, <2>3 DEF ListenType, Counted
<1>5. Registered'
  BY <1>1, <1>3 DEF Registered, ListenInv, ListenType
<1>6. Servers'
  BY <1>1, <1>3 DEF Servers, ListenInv, ListenType
<1>7. QED  BY <1>4, <1>5, <1>6 DEF ListenInv

(* The first half of a stop shuts down the server that was registered.     *)
LEMMA Stops ==
    ASSUME ListenInv, stopping = "no", enabled,
           NEW next \in {"stop", "restart"}, Web!BeginStop(next),
           next = "stop" => ~enabled', next = "restart" => enabled' /\ Len(inst) < MaxStarts,
           enabled' \in BOOLEAN, port' \in Ports, unlucky' = unlucky
    PROVE  ListenInv'
<1> DEFINE was == inst[srv]
<1>1. /\ srv \in 1..Len(inst) /\ srv' = srv /\ samplers' = samplers /\ stopping' = next
  BY DEF ListenInv, ListenType, Registered, Web!BeginStop
<1>2. /\ Len(inst') = Len(inst)
      /\ \A i \in 1..Len(inst) : i # srv => inst'[i] = inst[i]
      /\ inst'[srv].shut = TRUE /\ inst'[srv].st # "serving"
      /\ inst' \in Seq(Server)
  <2>1. inst' = [inst EXCEPT ![srv] = [was EXCEPT !.shut = TRUE, !.st = IF @ = "serving" THEN "gone" ELSE @]]
    BY <1>1 DEF Web!BeginStop, ListenInv, ListenType
  <2>2. was \in Server
    BY <1>1, ElementOfSeq DEF ListenInv, ListenType
  <2> DEFINE now == [was EXCEPT !.shut = TRUE, !.st = IF @ = "serving" THEN "gone" ELSE @]
  <2>3. now \in Server /\ now.shut = TRUE /\ now.st # "serving"
    BY <2>2 DEF State, Server
  <2>4. inst' = [inst EXCEPT ![srv] = now]
    BY <2>1
  <2> HIDE DEF now, was
  <2>5. QED  BY <1>1, <2>3, <2>4, ExceptSeq DEF ListenInv, ListenType
<1>3. ListenType' /\ Counted'
  BY <1>1, <1>2 DEF ListenInv, ListenType, Counted
<1>4. Registered'
  BY <1>1, <1>2 DEF Registered, ListenInv, ListenType
<1>5. Servers'
  BY <1>1, <1>2 DEF Servers, ListenInv, ListenType
<1>6. QED  BY <1>3, <1>4, <1>5 DEF ListenInv

(* Every step of the console, of a server's goroutine and of a browser     *)
(* keeps the listener's invariant.                                         *)
LEMMA ListenStep ==
    ASSUME ListenInv, Web!Listening
    PROVE  ListenInv'
<1> USE DEF ListenInv, ListenType, Counted, Registered, Servers
<1>1. ASSUME NEW on \in BOOLEAN, Web!SetEnabled(on) PROVE ListenInv'
  <2>1. CASE on
    <3>1. \A i \in 1..Len(inst) : inst[i].shut
      <4>1. ~enabled /\ stopping = "no"
        BY <1>1, <2>1 DEF Web!SetEnabled
      <4>2. QED  BY <4>1
    <3>2. QED  BY <1>1, <2>1, <3>1, Starts DEF Web!SetEnabled
  <2>2. CASE ~on
    BY <1>1, <2>2, Stops DEF Web!SetEnabled
  <2>3. QED  BY <2>1, <2>2
<1>2. ASSUME NEW p \in Ports, Web!SetPort(p) PROVE ListenInv'
  <2>1. CASE enabled
    BY <1>2, <2>1, Stops DEF Web!SetPort
  <2>2. CASE ~enabled
    BY <1>2, <2>2 DEF Web!SetPort
  <2>3. QED  BY <2>1, <2>2
<1>3. CASE Web!EndStop
  <2>1. \A i \in 1..Len(inst) : inst[i].shut
    BY <1>3 DEF Web!EndStop
  <2>2. CASE stopping = "restart"
    BY <1>3, <2>1, <2>2, Starts DEF Web!EndStop
  <2>3. CASE stopping = "stop"
    BY <1>3, <2>1, <2>3 DEF Web!EndStop
  <2>4. QED  BY <1>3, <2>2, <2>3 DEF Web!EndStop
<1>4. ASSUME NEW i \in Web!Inst, Web!Listen(i) PROVE ListenInv'
  <2>1. i \in 1..Len(inst)
    BY <1>4 DEF Web!Inst
  <2>2. /\ Len(inst') = Len(inst)
        /\ \A j \in 1..Len(inst) : j # i => inst'[j] = inst[j]
        /\ inst' \in Seq(Server)
        /\ inst'[i].shut = inst[i].shut /\ inst'[i].port = inst[i].port
    <3> DEFINE st == IF inst[i].shut \/ (inst[i].st = "spawned" /\ Web!Taken(i)) THEN "gone"
                     ELSE IF inst[i].st = "spawned" THEN "bound" ELSE "serving"
               now == [inst[i] EXCEPT !.st = st]
    <3>1. inst' = [inst EXCEPT ![i] = now]
      BY <1>4, <2>1 DEF Web!Listen
    <3>2. st \in State
      BY DEF State
    <3> HIDE DEF st
    <3>3. /\ now \in Server
          /\ now.shut = inst[i].shut /\ now.port = inst[i].port
      <4>1. inst[i] \in Server
        BY <2>1, ElementOfSeq DEF ListenInv, ListenType
      <4>2. QED  BY <4>1, <3>2 DEF Server
    <3> HIDE DEF now
    <3>4. QED  BY <2>1, <3>1, <3>3, ExceptSeq DEF ListenInv, ListenType
  <2>3. /\ inst'[i].shut => inst'[i].st # "serving"
        /\ ~inst'[i].shut /\ inst'[i].st = "gone" => unlucky'
    BY <1>4, <2>1 DEF Web!Listen, State
  <2>4. UNCHANGED <<enabled, port, srv, stopping, samplers>> /\ unlucky' \in BOOLEAN /\ (unlucky => unlucky')
    BY <1>4 DEF Web!Listen
  <2>5. ListenType' /\ Counted'
    BY <2>1, <2>2, <2>4
  <2>6. Registered'
    BY <2>1, <2>2, <2>4
  <2>7. Servers'
    BY <2>1, <2>2, <2>3, <2>4
  <2>8. QED  BY <2>5, <2>6, <2>7
<1>5. CASE UNCHANGED <<enabled, port, inst, srv, stopping, samplers, unlucky>>
  BY <1>5
<1>6. QED
  BY <1>1, <1>2, <1>3, <1>4, <1>5 DEF Web!Listening, Web!Answer, Web!Request

(* ServedWhereChosen is what the invariant says of a moment of quiet.      *)
LEMMA ListenServes ==
    ASSUME ListenInv PROVE Web!ServedWhereChosen
<1> SUFFICES ASSUME stopping = "no", \A i \in Web!Inst : inst[i].st \in {"serving", "gone"}
             PROVE  LET ports == {inst[i].port : i \in {i \in Web!Inst : inst[i].st = "serving"}}
                    IN  /\ ports \subseteq (IF enabled THEN {port} ELSE {})
                        /\ enabled /\ ~unlucky => port \in ports
  BY DEF Web!ServedWhereChosen
<1> USE DEF ListenInv, ListenType, Registered, Servers, Web!Inst
<1>1. \A i \in Web!Inst : inst[i].st = "serving" => enabled /\ inst[i].port = port
  OBVIOUS
<1>2. enabled /\ ~unlucky => srv \in Web!Inst /\ inst[srv].st = "serving" /\ inst[srv].port = port
  OBVIOUS
<1>3. QED  BY <1>1, <1>2

-----------------------------------------------------------------------------
(* The audio.  What a browser got and what waits for it are one run of     *)
(* blocks, up to the last.                                                 *)

Ear == [on : BOOLEAN, q : Seq(Nat), got : Seq(Nat), since : Nat, missed : BOOLEAN]

Since(n, m) == [i \in 1..(m - n) |-> n + i]

StreamInv ==
    /\ pushed \in Nat /\ ear \in [Browsers -> Ear]
    /\ \A c \in Browsers :
         /\ Len(ear[c].q) <= ChanCap
         /\ ear[c].on => ear[c].since <= pushed
         /\ ear[c].on /\ ~ear[c].missed => ear[c].got \o ear[c].q = Since(ear[c].since, pushed)

LEMMA SinceIs ==
    ASSUME NEW n \in Nat, NEW m \in Nat, n <= m
    PROVE  /\ Since(n, m) \in Seq(Nat) /\ Len(Since(n, m)) = m - n
           /\ \A i \in 1..(m - n) : Since(n, m)[i] = n + i
BY DEF Since

(* An element more at the end, and one moved from one to the other.        *)
LEMMA AppendLast ==
    ASSUME NEW S, NEW s \in Seq(S), NEW t \in Seq(S), NEW x \in S
    PROVE  s \o Append(t, x) = Append(s \o t, x)
<1>1. s \o Append(t, x) \in Seq(S) /\ Append(s \o t, x) \in Seq(S)
  OBVIOUS
<1>2. Len(s \o Append(t, x)) = Len(Append(s \o t, x))
  OBVIOUS
<1>3. \A i \in 1..Len(s \o Append(t, x)) : (s \o Append(t, x))[i] = Append(s \o t, x)[i]
  OBVIOUS
<1>4. QED  BY <1>1, <1>2, <1>3, SeqEqual

LEMMA Moved ==
    ASSUME NEW S, NEW s \in Seq(S), NEW t \in Seq(S), t # <<>>
    PROVE  Append(s, Head(t)) \o Tail(t) = s \o t
<1>1. Append(s, Head(t)) \o Tail(t) \in Seq(S) /\ s \o t \in Seq(S)
  OBVIOUS
<1>2. Len(Append(s, Head(t)) \o Tail(t)) = Len(s \o t)
  OBVIOUS
<1>3. \A i \in 1..Len(s \o t) : (Append(s, Head(t)) \o Tail(t))[i] = (s \o t)[i]
  OBVIOUS
<1>4. QED  BY <1>1, <1>2, <1>3, SeqEqual

(* A block more.                                                           *)
LEMMA OneMore ==
    ASSUME NEW n \in Nat, NEW m \in Nat, n <= m
    PROVE  Append(Since(n, m), m + 1) = Since(n, m + 1)
<1> DEFINE a == Append(Since(n, m), m + 1)
           b == Since(n, m + 1)
<1>1. a \in Seq(Nat) /\ Len(a) = m + 1 - n /\ a[m + 1 - n] = m + 1
      /\ \A i \in 1..(m - n) : a[i] = n + i
  <2> DEFINE s == Since(n, m)
  <2>1. s \in Seq(Nat) /\ Len(s) = m - n /\ \A i \in 1..(m - n) : s[i] = n + i
    BY SinceIs
  <2>2. a = Append(s, m + 1)
    OBVIOUS
  <2> HIDE DEF a, s
  <2>3. a \in Seq(Nat) /\ Len(a) = Len(s) + 1
    BY <2>1, <2>2, AppendProperties
  <2>4. a[Len(s) + 1] = m + 1 /\ \A i \in 1..Len(s) : a[i] = s[i]
    BY <2>1, <2>2, AppendProperties
  <2>5. QED  BY <2>1, <2>3, <2>4
<1>2. b \in Seq(Nat) /\ Len(b) = m + 1 - n /\ \A i \in 1..(m + 1 - n) : b[i] = n + i
  <2>1. m + 1 \in Nat /\ n <= m + 1
    OBVIOUS
  <2>2. QED  BY <2>1, SinceIs
<1> HIDE DEF a, b
<1>3. \A i \in 1..Len(a) : a[i] = b[i]
  BY <1>1, <1>2
<1>4. a = b
  BY <1>1, <1>2, <1>3, SeqEqual
<1>5. QED  BY <1>4 DEF a, b

(* Every block and every browser's step keeps the invariant of the audio.  *)
LEMMA StreamStep ==
    ASSUME StreamInv, Web!Streaming
    PROVE  StreamInv'
<1> USE DEF StreamInv
<1>1. CASE Web!Push
  <2>1. pushed' = pushed + 1 /\ pushed' \in Nat
    BY <1>1 DEF Web!Push
  <2>2. CASE \A c \in Browsers : ~ear[c].on
    BY <1>1, <2>1, <2>2 DEF Web!Push
  <2>3. CASE ~ \A c \in Browsers : ~ear[c].on
    <3> DEFINE Hears(c) == IF ~ear[c].on THEN ear[c]
                           ELSE IF Len(ear[c].q) < ChanCap
                                THEN [ear[c] EXCEPT !.q = Append(@, pushed + 1)]
                                ELSE [ear[c] EXCEPT !.missed = TRUE]
    <3>1. ear' = [c \in Browsers |-> Hears(c)]
      BY <1>1, <2>3 DEF Web!Push
    <3>2. ASSUME NEW c \in Browsers
          PROVE  /\ Hears(c) \in Ear /\ Len(Hears(c).q) <= ChanCap
                 /\ Hears(c).on => Hears(c).since <= pushed + 1
                 /\ Hears(c).on /\ ~Hears(c).missed =>
                      Hears(c).got \o Hears(c).q = Since(Hears(c).since, pushed + 1)
      <4>1. ear[c] \in Ear
        OBVIOUS
      <4>2. CASE ~ear[c].on
        BY <4>1, <4>2
      <4>3. CASE ear[c].on /\ Len(ear[c].q) < ChanCap
        <5>1. Hears(c) = [ear[c] EXCEPT !.q = Append(@, pushed + 1)]
          BY <4>3
        <5>2. /\ Hears(c).q = Append(ear[c].q, pushed + 1) /\ Hears(c).on = ear[c].on
              /\ Hears(c).got = ear[c].got /\ Hears(c).since = ear[c].since
              /\ Hears(c).missed = ear[c].missed /\ Hears(c) \in Ear
          <6>1. ear[c].q \in Seq(Nat) /\ Append(ear[c].q, pushed + 1) \in Seq(Nat)
            BY <4>1, AppendProperties DEF Ear
          <6>2. QED  BY <4>1, <5>1, <6>1 DEF Ear
        <5> HIDE DEF Hears
        <5>3. Len(Hears(c).q) <= ChanCap
          <6>1. Hears(c).q = Append(ear[c].q, pushed + 1)
            BY <5>2
          <6>2. ear[c].q \in Seq(Nat) /\ pushed + 1 \in Nat
            BY <4>1 DEF Ear
          <6>3. Len(Hears(c).q) = Len(ear[c].q) + 1 /\ Len(ear[c].q) \in Nat
            BY <6>1, <6>2, AppendProperties, LenProperties
          <6>4. ChanCap \in Nat
            BY LiveAssumption
          <6>5. QED  BY <4>3, <6>3, <6>4
        <5>4. ~ear[c].missed => ear[c].got \o Append(ear[c].q, pushed + 1) = Since(ear[c].since, pushed + 1)
          <6>1. /\ ear[c].got \in Seq(Nat) /\ ear[c].q \in Seq(Nat) /\ ear[c].since \in Nat
                /\ pushed + 1 \in Nat
            BY <4>1 DEF Ear
          <6>2. ear[c].got \o Append(ear[c].q, pushed + 1) = Append(ear[c].got \o ear[c].q, pushed + 1)
            <7> DEFINE b == pushed + 1
                       g == ear[c].got
                       q == ear[c].q
            <7>1. b \in Nat /\ g \in Seq(Nat) /\ q \in Seq(Nat)
              BY <6>1
            <7> HIDE DEF b, g, q
            <7>2. g \o Append(q, b) = Append(g \o q, b)
              BY <7>1, AppendLast
            <7>3. QED  BY <7>2 DEF b, g, q
          <6>3. Append(Since(ear[c].since, pushed), pushed + 1) = Since(ear[c].since, pushed + 1)
            BY <4>3, <6>1, OneMore
          <6>4. QED  BY <4>3, <6>2, <6>3
        <5>5. ear[c].since <= pushed + 1
          <6>1. ear[c].since \in Nat /\ ear[c].since <= pushed
            BY <4>1, <4>3 DEF Ear
          <6>2. QED  BY <6>1
        <5>6. QED  BY <4>3, <5>2, <5>3, <5>4, <5>5
      <4>4. CASE ear[c].on /\ ~(Len(ear[c].q) < ChanCap)
        <5>1. Hears(c) = [ear[c] EXCEPT !.missed = TRUE]
          BY <4>4
        <5>2. /\ Hears(c).q = ear[c].q /\ Hears(c).since = ear[c].since
              /\ Hears(c).missed /\ Hears(c) \in Ear
          BY <4>1, <5>1 DEF Ear
        <5> HIDE DEF Hears
        <5>3. ear[c].since <= pushed + 1
          <6>1. ear[c].since \in Nat /\ ear[c].since <= pushed
            BY <4>1, <4>4 DEF Ear
          <6>2. QED  BY <6>1
        <5>4. QED  BY <5>2, <5>3
      <4>5. QED  BY <4>2, <4>3, <4>4
    <3> HIDE DEF Hears
    <3>3. QED  BY <2>1, <3>1, <3>2
  <2>4. QED  BY <2>2, <2>3
<1>2. ASSUME NEW c \in Browsers, Web!Join(c) PROVE StreamInv'
  <2> DEFINE new == [Web!Deaf EXCEPT !.on = TRUE, !.since = pushed]
  <2>1. ear' = [ear EXCEPT ![c] = new] /\ pushed' = pushed
    BY <1>2 DEF Web!Join
  <2>2. /\ new \in Ear /\ new.on /\ new.since = pushed /\ new.q = <<>> /\ new.got = <<>>
    <3>1. <<>> \in Seq(Nat)
      OBVIOUS
    <3>2. QED  BY <3>1 DEF Web!Deaf, Ear
  <2>3. <<>> \o <<>> = Since(pushed, pushed)
    BY SinceIs, SeqEqual, EmptySeq
  <2>4. Len(new.q) <= ChanCap
    BY <2>2, LiveAssumption
  <2> HIDE DEF new
  <2>5. new.on => new.since <= pushed
    BY <2>2
  <2>6. new.got \o new.q = Since(new.since, pushed)
    BY <2>2, <2>3
  <2>7. QED  BY <2>1, <2>2, <2>4, <2>5, <2>6
<1>3. ASSUME NEW c \in Browsers, Web!Send(c) PROVE StreamInv'
  <2> DEFINE new == [ear[c] EXCEPT !.q = Tail(@), !.got = Append(@, Head(ear[c].q))]
  <2>1. ear' = [ear EXCEPT ![c] = new] /\ pushed' = pushed /\ ear[c].q # <<>>
    BY <1>3 DEF Web!Send
  <2>2. ear[c] \in Ear
    OBVIOUS
  <2>3. /\ new \in Ear /\ new.on = ear[c].on /\ new.since = ear[c].since /\ new.missed = ear[c].missed
        /\ new.q = Tail(ear[c].q) /\ new.got = Append(ear[c].got, Head(ear[c].q))
    <3>1. ear[c].q \in Seq(Nat) /\ ear[c].got \in Seq(Nat)
      BY <2>2 DEF Ear
    <3>2. Tail(ear[c].q) \in Seq(Nat) /\ Append(ear[c].got, Head(ear[c].q)) \in Seq(Nat)
      BY <2>1, <3>1, HeadTailProperties, AppendProperties
    <3>3. QED  BY <2>2, <3>2 DEF Ear
  <2> HIDE DEF new
  <2>4. new.got \o new.q = ear[c].got \o ear[c].q /\ Len(new.q) <= ChanCap
    <3>1. ear[c].q \in Seq(Nat) /\ ear[c].got \in Seq(Nat)
      BY <2>2 DEF Ear
    <3>2. Len(Tail(ear[c].q)) = Len(ear[c].q) - 1 /\ Len(ear[c].q) \in Nat
      BY <2>1, <3>1, HeadTailProperties, LenProperties
    <3>3. ChanCap \in Nat
      BY LiveAssumption
    <3>4. Len(ear[c].q) <= ChanCap
      OBVIOUS
    <3>5. Append(ear[c].got, Head(ear[c].q)) \o Tail(ear[c].q) = ear[c].got \o ear[c].q
      BY <2>1, <3>1, Moved
    <3>6. new.got \o new.q = ear[c].got \o ear[c].q
      BY <2>3, <3>5
    <3>7. Len(new.q) = Len(Tail(ear[c].q))
      BY <2>3
    <3>8. Len(new.q) <= ChanCap
      BY <3>2, <3>3, <3>4, <3>7
    <3>9. QED  BY <3>6, <3>8
  <2>5. QED  BY <2>1, <2>3, <2>4
<1>4. ASSUME NEW c \in Browsers, Web!Hangs(c) PROVE StreamInv'
  <2> DEFINE new == [ear[c] EXCEPT !.on = FALSE, !.since = MaxBlocks]
  <2>1. ear' = [ear EXCEPT ![c] = new] /\ pushed' = pushed
    BY <1>4 DEF Web!Hangs
  <2>2. new \in Ear /\ ~new.on /\ new.q = ear[c].q
    BY LiveAssumption DEF Ear
  <2> HIDE DEF new
  <2>3. QED  BY <2>1, <2>2
<1>5. QED
  BY <1>1, <1>2, <1>3, <1>4 DEF Web!Streaming

-----------------------------------------------------------------------------
(* The logs.  A log is the end of what was logged: as much of it as there  *)
(* is room for.                                                            *)

LogInv ==
    /\ log \in Seq(Nat) /\ lines \in Seq(Nat)
    /\ Len(log) <= LogCap /\ Len(log) <= Len(lines)
    /\ Len(log) < LogCap => Len(log) = Len(lines)
    /\ \A i \in 1..Len(log) : log[i] = lines[Len(lines) - Len(log) + i]

LEMMA LogStep ==
    ASSUME LogInv, Web!Logging
    PROVE  LogInv'
<1>1. CASE Web!AddFT8
  <2> DEFINE l == Append(log, Len(lines) + 1)
  <2>1. /\ lines' = Append(lines, Len(lines) + 1)
        /\ log' = IF Len(l) > LogCap THEN SubSeq(l, Len(l) - LogCap + 1, Len(l)) ELSE l
    BY <1>1 DEF Web!AddFT8
  <2>2. /\ l \in Seq(Nat) /\ Len(l) = Len(log) + 1 /\ l[Len(l)] = Len(lines) + 1
        /\ \A i \in 1..Len(log) : l[i] = log[i]
    BY DEF LogInv
  <2>3. /\ lines' \in Seq(Nat) /\ Len(lines') = Len(lines) + 1 /\ lines'[Len(lines) + 1] = Len(lines) + 1
        /\ \A i \in 1..Len(lines) : lines'[i] = lines[i]
    BY <2>1 DEF LogInv
  <2> HIDE DEF l
  <2>4. \A i \in 1..Len(l) : l[i] = lines'[Len(lines') - Len(l) + i]
    <3>1. Len(log) \in Nat /\ Len(lines) \in Nat
      BY LenProperties DEF LogInv
    <3>2. \A i \in 1..Len(log) : l[i] = lines'[Len(lines') - Len(l) + i]
      <4> TAKE i \in 1..Len(log)
      <4>1. /\ Len(lines) - Len(log) + i \in 1..Len(lines)
            /\ Len(lines') - Len(l) + i = Len(lines) - Len(log) + i
        BY <2>2, <2>3, <3>1 DEF LogInv
      <4>2. QED  BY <2>2, <2>3, <4>1 DEF LogInv
    <3>3. l[Len(l)] = lines'[Len(lines') - Len(l) + Len(l)]
      BY <2>2, <2>3, <3>1
    <3>4. \A i \in 1..Len(l) : i \in 1..Len(log) \/ i = Len(l)
      BY <2>2, <3>1
    <3>5. QED  BY <3>2, <3>3, <3>4
  <2>5. CASE Len(l) > LogCap
    <3>1. LogCap \in Nat \ {0} /\ Len(l) = LogCap + 1
      <4>1. LogCap \in Nat \ {0} /\ Len(log) \in Nat
        BY LiveAssumption, LenProperties DEF LogInv
      <4>2. QED  BY <2>2, <2>5, <4>1 DEF LogInv
    <3>2. /\ log' \in Seq(Nat) /\ Len(log') = LogCap
          /\ \A i \in 1..LogCap : log'[i] = l[i + 1]
      BY <2>1, <2>2, <2>5, <3>1
    <3>3. \A i \in 1..Len(log') : log'[i] = lines'[Len(lines') - Len(log') + i]
      <4> TAKE i \in 1..Len(log')
      <4>0. Len(lines') \in Nat
        BY <2>3, LenProperties
      <4>1. Len(lines') - Len(l) + (i + 1) = Len(lines') - Len(log') + i /\ i + 1 \in 1..Len(l)
        BY <4>0, <3>1, <3>2
      <4>2. QED  BY <2>4, <3>1, <3>2, <4>1
    <3>4. Len(log) \in Nat /\ Len(lines) \in Nat /\ Len(log) <= Len(lines)
      BY LenProperties DEF LogInv
    <3>5. QED  BY <2>2, <2>3, <3>1, <3>2, <3>3, <3>4 DEF LogInv
  <2>6. CASE ~(Len(l) > LogCap)
    <3>1. log' = l
      BY <2>1, <2>6
    <3>2. LogCap \in Nat \ {0} /\ Len(log) \in Nat /\ Len(lines) \in Nat
      BY LiveAssumption, LenProperties DEF LogInv
    <3>3. QED  BY <2>2, <2>3, <2>4, <2>6, <3>1, <3>2 DEF LogInv
  <2>7. QED  BY <2>5, <2>6
<1>2. CASE Web!ResetFT8
  BY <1>2, LiveAssumption DEF Web!ResetFT8, LogInv
<1>3. QED  BY <1>1, <1>2 DEF Web!Logging

LEMMA LogNewest ==
    ASSUME LogInv PROVE Web!NewestKept
<1>1. CASE Len(log) = Len(lines)
  <2>1. log = lines
    BY <1>1 DEF LogInv
  <2>2. QED  BY <2>1 DEF Web!NewestKept
<1>2. CASE Len(log) = LogCap
  <2>1. Web!IsSuffix(log, lines)
    BY SMTT(30) DEF LogInv, Web!IsSuffix, Web!IsPrefix, Web!Reverse
  <2>2. QED  BY <1>2, <2>1 DEF Web!NewestKept
<1>3. QED  BY <1>1, <1>2, LiveAssumption DEF LogInv

-----------------------------------------------------------------------------
(* The commands.  What was asked for is there, or owed by the queue to the *)
(* UI: one change of the range at most, which has the edges that were      *)
(* asked for, and of the screen's changes the last that counts.            *)

Pair == [{"mn", "mx"} -> 0..Highest]
Task == [kind : {"range", "panel"}, v : Nat, to : Pair]
Req  == [kind : {"none", "mn", "mx", "panel", "aprs"}, v : Nat, read : Pair]

Ranging(t) == t.kind = "range"
Counts(t)  == t.kind = "panel" /\ t.v <= 2

RangeOwed(ts, r, a) ==
    /\ \A i, j \in 1..Len(ts) : Ranging(ts[i]) /\ Ranging(ts[j]) => i = j
    /\ \A i \in 1..Len(ts) : Ranging(ts[i]) => ts[i].to = a
    /\ (\A i \in 1..Len(ts) : ~Ranging(ts[i])) => r = a

PanelOwed(ts, p, w) ==
    \/ (\A i \in 1..Len(ts) : ~Counts(ts[i])) /\ p = w
    \/ \E i \in 1..Len(ts) : /\ Counts(ts[i]) /\ ts[i].v = w
                             /\ \A j \in 1..Len(ts) : j > i => ~Counts(ts[j])

CommandType ==
    /\ range \in Pair /\ asked \in Pair /\ panel \in 0..2 /\ wished \in 0..2
    /\ tasks \in Seq(Task) /\ Len(tasks) <= TaskCap
    /\ req \in [Browsers -> Req] /\ excused \in BOOLEAN

\* cmdMu is held by the one request that is under way.
OneRequest == \A c \in Browsers : req[c].kind # "none" <=> cmdMu = c

\* A request has read the range that is there, and is the only one to change it.
ReadsRange ==
    \A c \in Browsers : req[c].kind \in {"mn", "mx"} /\ ~excused =>
        (\A i \in 1..Len(tasks) : ~Ranging(tasks[i])) /\ req[c].read = range

WithinTop == \A c \in Browsers : req[c].kind \in {"mn", "mx"} => req[c].v \in 0..Highest

CommandInv ==
    /\ CommandType /\ OneRequest /\ WithinTop /\ ReadsRange
    /\ ~excused => RangeOwed(tasks, range, asked) /\ PanelOwed(tasks, panel, wished)

(* What a task that is posted, or run, leaves owed.                        *)
LEMMA PostedRange ==
    ASSUME NEW ts \in Seq(Task), NEW t \in Task, NEW r, NEW a,
           RangeOwed(ts, r, a)
    PROVE  /\ ~Ranging(t) => RangeOwed(Append(ts, t), r, a)
           /\ Ranging(t) /\ (\A i \in 1..Len(ts) : ~Ranging(ts[i])) => RangeOwed(Append(ts, t), r, t.to)
<1> DEFINE us == Append(ts, t)
<1>1. /\ Len(us) = Len(ts) + 1 /\ us[Len(ts) + 1] = t /\ Len(ts) \in Nat
      /\ \A i \in 1..Len(ts) : us[i] = ts[i]
  OBVIOUS
<1> HIDE DEF us
<1>2. /\ ~Ranging(t) => RangeOwed(us, r, a)
      /\ Ranging(t) /\ (\A i \in 1..Len(ts) : ~Ranging(ts[i])) => RangeOwed(us, r, t.to)
  BY <1>1 DEF RangeOwed
<1>3. QED  BY <1>2 DEF us

LEMMA RunRange ==
    ASSUME NEW ts \in Seq(Task), NEW r, NEW a, RangeOwed(ts, r, a), ts # <<>>
    PROVE  RangeOwed(Tail(ts), IF Ranging(Head(ts)) THEN Head(ts).to ELSE r, a)
<1> DEFINE us == Tail(ts)
<1>1. /\ Len(us) = Len(ts) - 1 /\ Head(ts) = ts[1] /\ Len(ts) \in Nat \ {0}
      /\ \A i \in 1..Len(us) : us[i] = ts[i + 1]
  OBVIOUS
<1> HIDE DEF us
<1>2. \A i \in 1..Len(us) : i + 1 \in 1..Len(ts) /\ i + 1 # 1
  BY <1>1
<1>3. /\ \A i, j \in 1..Len(us) : Ranging(us[i]) /\ Ranging(us[j]) => i = j
      /\ \A i \in 1..Len(us) : Ranging(us[i]) => us[i].to = a
  <2>1. ASSUME NEW i \in 1..Len(us), NEW j \in 1..Len(us), Ranging(us[i]), Ranging(us[j])
        PROVE  i = j
    <3>1. /\ us[i] = ts[i + 1] /\ us[j] = ts[j + 1]
          /\ i + 1 \in 1..Len(ts) /\ j + 1 \in 1..Len(ts)
      BY <1>1, <1>2
    <3>2. i + 1 = j + 1
      BY <2>1, <3>1 DEF RangeOwed
    <3>3. QED  BY <3>2
  <2>2. ASSUME NEW i \in 1..Len(us), Ranging(us[i]) PROVE us[i].to = a
    <3>1. us[i] = ts[i + 1] /\ i + 1 \in 1..Len(ts)
      BY <1>1, <1>2
    <3>2. QED  BY <2>2, <3>1 DEF RangeOwed
  <2>3. QED  BY <2>1, <2>2
<1>4. ASSUME \A i \in 1..Len(us) : ~Ranging(us[i])
      PROVE  (IF Ranging(Head(ts)) THEN Head(ts).to ELSE r) = a
  <2>1. \A i \in 1..Len(ts) : i # 1 => ~Ranging(ts[i])
    <3> TAKE i \in 1..Len(ts)
    <3>1. i # 1 => i - 1 \in 1..Len(us) /\ us[i - 1] = ts[i]
      BY <1>1
    <3>2. QED  BY <1>4, <3>1
  <2>2. QED  BY <1>1, <2>1 DEF RangeOwed
<1>5. QED  BY <1>3, <1>4 DEF RangeOwed, us

LEMMA PostedPanel ==
    ASSUME NEW ts \in Seq(Task), NEW t \in Task, NEW p, NEW w,
           PanelOwed(ts, p, w)
    PROVE  PanelOwed(Append(ts, t), p, IF Counts(t) THEN t.v ELSE w)
<1> DEFINE us == Append(ts, t)
<1>1. /\ Len(us) = Len(ts) + 1 /\ us[Len(ts) + 1] = t /\ Len(ts) \in Nat
      /\ \A i \in 1..Len(ts) : us[i] = ts[i]
  OBVIOUS
<1> HIDE DEF us
<1>2. CASE Counts(t)
  BY <1>1, <1>2 DEF PanelOwed, us
<1>3. CASE ~Counts(t)
  <2>1. CASE (\A i \in 1..Len(ts) : ~Counts(ts[i])) /\ p = w
    BY <1>1, <1>3, <2>1 DEF PanelOwed, us
  <2>2. ASSUME NEW i \in 1..Len(ts), Counts(ts[i]), ts[i].v = w,
               \A j \in 1..Len(ts) : j > i => ~Counts(ts[j])
        PROVE  PanelOwed(us, p, w)
    BY <1>1, <1>3, <2>2 DEF PanelOwed
  <2>3. QED  BY <1>3, <2>1, <2>2 DEF PanelOwed, us
<1>4. QED  BY <1>2, <1>3

LEMMA RunPanel ==
    ASSUME NEW ts \in Seq(Task), NEW p, NEW w, PanelOwed(ts, p, w), ts # <<>>
    PROVE  PanelOwed(Tail(ts), IF Counts(Head(ts)) THEN Head(ts).v ELSE p, w)
<1> DEFINE us == Tail(ts)
           q  == IF Counts(Head(ts)) THEN Head(ts).v ELSE p
<1>1. /\ Len(us) = Len(ts) - 1 /\ Head(ts) = ts[1] /\ Len(ts) \in Nat \ {0}
      /\ \A i \in 1..Len(us) : us[i] = ts[i + 1]
  OBVIOUS
<1>2. q = IF Counts(ts[1]) THEN ts[1].v ELSE p
  BY <1>1
<1> HIDE DEF us, q
<1>3. \A i \in 1..Len(us) : i + 1 \in 1..Len(ts) /\ i + 1 > 1
  BY <1>1
<1>4. CASE (\A i \in 1..Len(ts) : ~Counts(ts[i])) /\ p = w
  BY <1>1, <1>2, <1>3, <1>4 DEF PanelOwed
<1>5. ASSUME NEW i \in 1..Len(ts), Counts(ts[i]), ts[i].v = w,
             \A j \in 1..Len(ts) : j > i => ~Counts(ts[j])
      PROVE  PanelOwed(us, q, w)
  <2>1. CASE i = 1
    BY <1>1, <1>2, <1>3, <1>5, <2>1 DEF PanelOwed
  <2>2. CASE i # 1
    <3>1. i - 1 \in 1..Len(us) /\ us[i - 1] = ts[i]
      BY <1>1, <2>2
    <3>2. \A j \in 1..Len(us) : j > i - 1 => ~Counts(us[j])
      BY <1>1, <1>3, <1>5
    <3>3. QED  BY <1>5, <3>1, <3>2 DEF PanelOwed
  <2>3. QED  BY <2>1, <2>2
<1>6. QED  BY <1>4, <1>5 DEF PanelOwed, us, q

(* A request takes cmdMu, and reads the range.                             *)
LEMMA TakeStep ==
    ASSUME CommandInv, NEW c \in Browsers, NEW k \in {"mn", "mx", "panel", "aprs"}, NEW v \in {0, 1, 3},
           k # "panel" => v <= Highest, Web!Take(c, k, v)
    PROVE  CommandInv'
<1> DEFINE new == [kind |-> k, v |-> v, read |-> range]
<1>1. /\ cmdMu = "nobody" /\ cmdMu' = c /\ req' = [req EXCEPT ![c] = new]
      /\ UNCHANGED <<range, tasks, asked, panel, wished>>
      /\ excused' = (excused \/ (k \in {"mn", "mx"} /\ \E i \in 1..Len(tasks) : Ranging(tasks[i])))
  BY DEF Web!Take, Web!Nobody, Web!Edges, Ranging
<1>2. new \in Req /\ new.kind = k /\ new.v = v /\ new.read = range
  BY DEF Req, CommandInv, CommandType
<1> HIDE DEF new
<1>3. CommandType'
  BY <1>1, <1>2 DEF CommandInv, CommandType
<1>4. c # "nobody" /\ \A d \in Browsers : req[d].kind = "none"
  BY <1>1, LiveAssumption DEF CommandInv, OneRequest
<1>5. req'[c] = new /\ \A d \in Browsers : d # c => req'[d].kind = "none"
  BY <1>1, <1>4 DEF CommandInv, CommandType
<1>6. OneRequest' /\ WithinTop'
  <2>1. OneRequest'
    BY <1>1, <1>2, <1>4, <1>5 DEF OneRequest
  <2>2. k \in {"mn", "mx"} => v \in 0..Highest
    BY LiveAssumption
  <2>3. QED  BY <1>2, <1>5, <2>1, <2>2 DEF WithinTop
<1>7. ReadsRange'
  BY <1>1, <1>2, <1>5 DEF ReadsRange
<1>8. ~excused' => RangeOwed(tasks, range, asked)' /\ PanelOwed(tasks, panel, wished)'
  BY <1>1 DEF CommandInv
<1>9. QED  BY <1>3, <1>6, <1>7, <1>8 DEF CommandInv

(* A request ends: what it changes is asked for, and posted if there is    *)
(* room.                                                                   *)
LEMMA FinishStep ==
    ASSUME CommandInv, NEW c \in Browsers, Web!Finish(c)
    PROVE  CommandInv'
<1>1. /\ req[c] \in Req /\ req[c].kind # "none" /\ cmdMu = c /\ cmdMu' = "nobody"
      /\ req' = [req EXCEPT ![c] = Web!NoReq] /\ UNCHANGED <<range, panel>>
  BY DEF Web!Finish, Web!Nobody, CommandInv, CommandType, OneRequest
<1>2. Web!NoReq \in Req /\ Web!NoReq.kind = "none"
  BY LiveAssumption DEF Web!NoReq, Req, Pair
<1>3. \A d \in Browsers : req'[d].kind = "none"
  BY <1>1, <1>2 DEF CommandInv, CommandType, OneRequest
<1>4. OneRequest' /\ WithinTop' /\ ReadsRange'
  BY <1>1, <1>3, LiveAssumption DEF OneRequest, WithinTop, ReadsRange
<1>5. req' \in [Browsers -> Req]
  BY <1>1, <1>2 DEF CommandInv, CommandType
<1>6. ASSUME NEW t \in Task, Web!Post(t)
      PROVE  /\ tasks' \in Seq(Task) /\ Len(tasks') <= TaskCap
             /\ Len(tasks) # TaskCap => tasks' = Append(tasks, t)
  <2>1. TaskCap \in Nat /\ Len(tasks) \in Nat /\ Len(tasks) <= TaskCap /\ tasks \in Seq(Task)
    BY LiveAssumption, LenProperties DEF CommandInv, CommandType
  <2>2. Append(tasks, t) \in Seq(Task) /\ Len(Append(tasks, t)) = Len(tasks) + 1
    BY <2>1, <1>6, AppendProperties
  <2>3. QED  BY <1>6, <2>1, <2>2 DEF Web!Post
<1>7. CASE req[c].kind \in {"mn", "mx"}
  <2> DEFINE to == [req[c].read EXCEPT ![req[c].kind] = req[c].v]
             t  == [kind |-> "range", v |-> 0, to |-> to]
  <2>1. /\ Web!Post(t) /\ asked' = [asked EXCEPT ![req[c].kind] = req[c].v]
        /\ excused' = (excused \/ Len(tasks) = TaskCap) /\ UNCHANGED wished
    BY <1>7 DEF Web!Finish, Web!Edges
  <2>2. req[c].v \in 0..Highest /\ req[c].read \in Pair /\ asked \in Pair
    BY <1>1, <1>7 DEF CommandInv, CommandType, WithinTop, Req
  <2>3. to \in Pair /\ asked' \in Pair
    BY <1>7, <2>1, <2>2 DEF Pair
  <2>4. t \in Task /\ Ranging(t) /\ t.to = to /\ ~Counts(t)
    BY <2>3 DEF Task, Ranging, Counts
  <2>5. ASSUME ~excused' PROVE RangeOwed(tasks', range', asked')
    <3>1. ~excused /\ Len(tasks) # TaskCap
      BY <2>1, <2>5
    <3>2. /\ \A i \in 1..Len(tasks) : ~Ranging(tasks[i])
          /\ req[c].read = range /\ RangeOwed(tasks, range, asked)
      BY <1>7, <3>1 DEF CommandInv, ReadsRange
    <3>3. range = asked
      BY <3>2 DEF RangeOwed
    <3>4. to = asked'
      BY <2>1, <3>2, <3>3
    <3> HIDE DEF t, to
    <3>5. tasks' = Append(tasks, t)
      BY <1>6, <2>1, <2>4, <3>1
    <3>6. RangeOwed(Append(tasks, t), range, t.to)
      BY <2>4, <3>2, PostedRange DEF CommandInv, CommandType
    <3>7. QED  BY <1>1, <2>4, <3>4, <3>5, <3>6
  <2>6. ASSUME ~excused' PROVE PanelOwed(tasks', panel', wished')
    <3>1. ~excused /\ Len(tasks) # TaskCap
      BY <2>1, <2>6
    <3> HIDE DEF t, to
    <3>2. tasks' = Append(tasks, t)
      BY <1>6, <2>1, <2>4, <3>1
    <3>3. PanelOwed(Append(tasks, t), panel, wished)
      BY <2>4, <3>1, PostedPanel DEF CommandInv, CommandType
    <3>4. QED  BY <1>1, <2>1, <3>2, <3>3
  <2> HIDE DEF t, to
  <2>7. CommandType'
    BY <1>1, <1>5, <1>6, <2>1, <2>3, <2>4 DEF CommandInv, CommandType
  <2>8. QED  BY <1>4, <2>5, <2>6, <2>7 DEF CommandInv
<1>8. CASE req[c].kind = "panel"
  <2> DEFINE t == [kind |-> "panel", v |-> req[c].v, to |-> range]
  <2>1. /\ Web!Post(t) /\ excused' = (excused \/ Len(tasks) = TaskCap) /\ UNCHANGED asked
        /\ wished' = IF req[c].v <= 2 THEN req[c].v ELSE wished
    BY <1>8 DEF Web!Finish, Web!Edges
  <2>2. t \in Task /\ ~Ranging(t) /\ t.v = req[c].v /\ (Counts(t) <=> req[c].v <= 2) /\ req[c].v \in Nat
    BY <1>1 DEF Task, Ranging, Counts, Req, CommandInv, CommandType
  <2> HIDE DEF t
  <2>3. ASSUME ~excused' PROVE RangeOwed(tasks', range', asked') /\ PanelOwed(tasks', panel', wished')
    <3>1. ~excused /\ Len(tasks) # TaskCap
      BY <2>1, <2>3
    <3>2. tasks' = Append(tasks, t)
      BY <1>6, <2>1, <2>2, <3>1
    <3>3. RangeOwed(Append(tasks, t), range, asked)
      BY <2>2, <3>1, PostedRange DEF CommandInv, CommandType
    <3>4. PanelOwed(Append(tasks, t), panel, IF Counts(t) THEN t.v ELSE wished)
      BY <2>2, <3>1, PostedPanel DEF CommandInv, CommandType
    <3>5. wished' = IF Counts(t) THEN t.v ELSE wished
      BY <2>1, <2>2
    <3>6. QED  BY <1>1, <2>1, <3>2, <3>3, <3>4, <3>5
  <2>4. wished' \in 0..2
    BY <2>1, <2>2 DEF CommandInv, CommandType
  <2>5. CommandType'
    BY <1>1, <1>5, <1>6, <2>1, <2>2, <2>4 DEF CommandInv, CommandType
  <2>6. QED  BY <1>4, <2>3, <2>5 DEF CommandInv
<1>9. CASE req[c].kind = "aprs"
  <2>1. UNCHANGED <<tasks, asked, excused, wished>>
    BY <1>9 DEF Web!Finish, Web!Edges
  <2>2. CommandType'
    BY <1>1, <1>5, <2>1 DEF CommandInv, CommandType
  <2>3. QED  BY <1>1, <1>4, <2>1, <2>2 DEF CommandInv
<1>10. QED
  BY <1>1, <1>7, <1>8, <1>9 DEF Req

(* The UI runs the oldest task.                                            *)
LEMMA RunStep ==
    ASSUME CommandInv, Web!RunTask
    PROVE  CommandInv'
<1> DEFINE t == Head(tasks)
<1>1. /\ tasks # <<>> /\ tasks' = Tail(tasks) /\ tasks \in Seq(Task)
      /\ UNCHANGED <<cmdMu, req, asked, excused, wished>>
  BY DEF Web!RunTask, CommandInv, CommandType
<1>2. /\ t \in Task /\ tasks' \in Seq(Task) /\ Len(tasks') <= TaskCap
      /\ \A i \in 1..Len(tasks') : i + 1 \in 1..Len(tasks) /\ tasks'[i] = tasks[i + 1]
  <2>1. Len(tasks) \in Nat /\ Len(tasks) <= TaskCap /\ TaskCap \in Nat
    BY <1>1, LenProperties, LiveAssumption DEF CommandInv, CommandType
  <2>2. QED  BY <1>1, <2>1, HeadTailProperties
<1>3. /\ range' = IF Ranging(t) THEN t.to ELSE range
      /\ panel' = IF Counts(t) THEN t.v ELSE panel
  <2>1. t.kind \in {"range", "panel"}
    BY <1>2 DEF Task
  <2>2. QED  BY <2>1 DEF Web!RunTask, Ranging, Counts
<1>4. CommandType'
  <2>1. t.to \in Pair /\ t.v \in Nat
    BY <1>2 DEF Task
  <2> HIDE DEF t
  <2>2. range' \in Pair
    BY <1>3, <2>1 DEF CommandInv, CommandType
  <2>3. panel' \in 0..2
    BY <1>3, <2>1 DEF CommandInv, CommandType, Counts
  <2>4. QED  BY <1>1, <1>2, <2>2, <2>3 DEF CommandInv, CommandType
<1>5. OneRequest' /\ WithinTop'
  BY <1>1 DEF CommandInv, OneRequest, WithinTop
<1>6. ReadsRange'
  <2> SUFFICES ASSUME NEW c \in Browsers, req[c].kind \in {"mn", "mx"}, ~excused
               PROVE  (\A i \in 1..Len(tasks') : ~Ranging(tasks'[i])) /\ req[c].read = range'
    BY <1>1 DEF ReadsRange
  <2>1. (\A i \in 1..Len(tasks) : ~Ranging(tasks[i])) /\ req[c].read = range
    BY DEF CommandInv, ReadsRange
  <2>2. ~Ranging(t)
    <3>1. t = tasks[1] /\ 1 \in 1..Len(tasks)
      BY <1>1
    <3>2. QED  BY <2>1, <3>1
  <2>3. QED  BY <1>2, <1>3, <2>1, <2>2
<1>7. ASSUME ~excused' PROVE RangeOwed(tasks', range', asked') /\ PanelOwed(tasks', panel', wished')
  <2>1. RangeOwed(tasks, range, asked) /\ PanelOwed(tasks, panel, wished)
    BY <1>1, <1>7 DEF CommandInv
  <2>2. RangeOwed(Tail(tasks), IF Ranging(t) THEN t.to ELSE range, asked)
    BY <1>1, <2>1, RunRange
  <2>3. PanelOwed(Tail(tasks), IF Counts(t) THEN t.v ELSE panel, wished)
    BY <1>1, <2>1, RunPanel
  <2>4. QED  BY <1>1, <1>3, <2>2, <2>3
<1>8. QED  BY <1>4, <1>5, <1>6, <1>7 DEF CommandInv

(* The user turns an edge of the range in the menu.                        *)
LEMMA TurnStep ==
    ASSUME CommandInv, NEW e \in {"mn", "mx"}, NEW d, Web!Turn(e, d)
    PROVE  CommandInv'
<1>1. PICK to : range' = [range EXCEPT ![e] = to] /\ asked' = [asked EXCEPT ![e] = to] /\ to \in 0..Highest
  <2>1. range[e] \in 0..Highest /\ Highest \in Nat
    BY LiveAssumption DEF CommandInv, CommandType, Pair
  <2> DEFINE to == IF d = "up" THEN (IF range[e] < Highest THEN range[e] + 1 ELSE Highest)
                               ELSE IF range[e] > 0 THEN range[e] - 1 ELSE 0
  <2>2. to \in 0..Highest
    BY <2>1
  <2>3. range' = [range EXCEPT ![e] = to] /\ asked' = [asked EXCEPT ![e] = to]
    BY DEF Web!Turn
  <2> HIDE DEF to
  <2>4. QED  BY <2>2, <2>3
<1>2. /\ excused' = (excused \/ Web!Underway) /\ UNCHANGED <<tasks, cmdMu, req, panel, wished>>
  BY DEF Web!Turn
<1>3. CommandType'
  BY <1>1, <1>2 DEF CommandInv, CommandType, Pair, Web!Underway
<1>4. OneRequest' /\ WithinTop'
  BY <1>2 DEF CommandInv, OneRequest, WithinTop
<1>5. ASSUME ~excused'
      PROVE  /\ \A c \in Browsers : req[c].kind \notin {"mn", "mx"}
             /\ \A i \in 1..Len(tasks) : ~Ranging(tasks[i])
  BY <1>2, <1>5 DEF Web!Underway, CommandInv, OneRequest, Ranging
<1>6. ReadsRange'
  BY <1>2, <1>5 DEF ReadsRange
<1>7. ASSUME ~excused' PROVE RangeOwed(tasks', range', asked') /\ PanelOwed(tasks', panel', wished')
  <2>1. ~excused /\ RangeOwed(tasks, range, asked) /\ PanelOwed(tasks, panel, wished)
    BY <1>2, <1>7 DEF CommandInv
  <2>2. range = asked
    BY <1>5, <1>7, <2>1 DEF RangeOwed
  <2>3. RangeOwed(tasks, range', asked')
    BY <1>1, <1>5, <1>7, <2>2 DEF RangeOwed
  <2>4. QED  BY <1>2, <2>1, <2>3
<1>8. QED  BY <1>3, <1>4, <1>6, <1>7 DEF CommandInv

LEMMA CommandStep ==
    ASSUME CommandInv, Web!Commanding
    PROVE  CommandInv'
<1>1. CASE Web!Saved
  BY <1>1 DEF Web!Saved, CommandInv, CommandType, OneRequest, WithinTop, ReadsRange
<1>2. CASE Web!PowerKey
  <2>1. /\ panel' = (panel + 1) % 3 /\ wished' = panel'
        /\ excused' = (excused \/ tasks # <<>> \/ cmdMu # "nobody")
        /\ UNCHANGED <<range, tasks, cmdMu, req, asked>>
    BY <1>2 DEF Web!PowerKey, Web!Nobody
  <2>2. CommandType'
    BY <2>1 DEF CommandInv, CommandType
  <2>3. OneRequest' /\ WithinTop' /\ ReadsRange'
    BY <2>1 DEF CommandInv, OneRequest, WithinTop, ReadsRange
  <2>4. ~excused' => PanelOwed(tasks', panel', wished') /\ RangeOwed(tasks', range', asked')
    <3>1. SUFFICES ASSUME ~excused' PROVE PanelOwed(tasks', panel', wished') /\ RangeOwed(tasks', range', asked')
      OBVIOUS
    <3>2. tasks' = <<>> /\ ~excused
      BY <2>1, <3>1
    <3>3. PanelOwed(<<>>, panel', panel')
      BY DEF PanelOwed
    <3>4. RangeOwed(tasks, range, asked)
      BY <3>2 DEF CommandInv
    <3>5. QED  BY <2>1, <3>2, <3>3, <3>4
  <2>5. QED  BY <2>2, <2>3, <2>4 DEF CommandInv
<1>3. QED
  BY <1>1, <1>2, FinishStep, TakeStep, RunStep, TurnStep DEF Web!Commanding, Web!Edges

(* EdgesKept is what the invariant says of a moment at which nothing is    *)
(* under way.                                                              *)
LEMMA CommandKeeps ==
    ASSUME CommandInv PROVE Web!EdgesKept
BY DEF CommandInv, RangeOwed, PanelOwed, Web!EdgesKept

-----------------------------------------------------------------------------
(* The receive session.  Neither of its safety properties is inductive.    *)
(* That nothing is left open between sessions needs that only the          *)
(* session's own connection is ever open (Owned), and holds as long as no  *)
(* setup command times out on a live connection.  That the chosen host is  *)
(* obeyed needs to know, of every position of the session, where its       *)
(* target and its client stand to what SetHost has read (Bound).           *)

Engaged == run \in {"register", "setup", "stream"}

(* A session has a connection exactly from the dial to its end, and it is  *)
(* open to nobody but the target.                                          *)
Owned ==
    /\ Engaged => cur \in ConnId /\ (Open(cur) => conn[cur] = target)
    /\ ~Engaged => cur = None

(* What the session connects to is the host, unless SetHost came late;     *)
(* from the registration on SetHost knows the client and is about to close *)
(* it.                                                                     *)
Bound ==
    /\ run \in {"setup", "stream"} => client = cur
    /\ run \in {"spawn", "dial", "register"} /\ ~late => target = host
    /\ run \in {"setup", "stream"} /\ Open(cur) /\ ~late =>
          target = host \/ (menu # "idle" /\ closing = cur)

SessionInv == TypeOK /\ Owned /\ Bound

(* Only the session's own connection is open.                              *)
OneOpen == OpenConns \subseteq {cur}

-----------------------------------------------------------------------------

(* Hang and KillUsb close connections and open none.                       *)
LEMMA ClosingKeepsType ==
  ASSUME TypeOK
  PROVE  /\ \A c : Hang(c) => conn' \in [ConnId -> Hosts]
         /\ KillUsb => conn' \in [ConnId -> Hosts] /\ usbUp' \in BOOLEAN
BY DEF TypeOK, Hang, KillUsb, Hosts

LEMMA SessionInitType == Init => TypeOK
BY DEF Init, TypeOK, Hosts

(* Every variable keeps its type.                                          *)
LEMMA SessionTypeStep == TypeOK /\ [Next]_vars => TypeOK'
<1> SUFFICES ASSUME TypeOK, [Next]_vars PROVE TypeOK'
  OBVIOUS
<1> USE DEF TypeOK, runVars, menuVars
<1>1. CASE UNCHANGED vars
  BY <1>1 DEF vars
<1>2. CASE Idle \/ Begin \/ ReadHost \/ EnsureUsb \/ DialFails
  BY <1>2 DEF Idle, Begin, ReadHost, EnsureUsb, DialFails
<1>3. ASSUME NEW c \in ConnId, DialOK(c)
      PROVE  TypeOK'
  BY <1>3 DEF DialOK
<1>4. CASE Register \/ SetupOK
  BY <1>4 DEF Register, SetupOK
<1>5. CASE SetupFails \/ StreamEnds
  BY <1>5, ClosingKeepsType DEF SetupFails, StreamEnds
<1>6. CASE Failed
  BY <1>6, ClosingKeepsType DEF Failed
<1>7. CASE Waited
  BY <1>7 DEF Waited
<1>8. ASSUME NEW h \in Hosts, SetHost(h)
      PROVE  TypeOK'
  BY <1>8 DEF SetHost
<1>9. CASE ReleaseUsb \/ CloseOld
  BY <1>9, ClosingKeepsType DEF ReleaseUsb, CloseOld
<1>10. CASE Outage
  BY <1>10, ClosingKeepsType DEF Outage, Lost, UsbDies
<1> QED BY <1>1, <1>2, <1>3, <1>4, <1>5, <1>6, <1>7, <1>8, <1>9, <1>10 DEF Next, Run, Menu

(* Type correctness of the session, with its back-off of at most 15 s.     *)
THEOREM SessionTypes == Spec => []TypeOK
BY SessionInitType, SessionTypeStep, PTL DEF Spec

-----------------------------------------------------------------------------

(* A step that only closes connections keeps Owned and Bound.              *)
LEMMA ClosingFrame ==
  ASSUME SessionInv, TypeOK',
         \A c \in ConnId : conn'[c] \in {conn[c], Off},
         UNCHANGED <<run, target, cur, client, host, late>>,
         UNCHANGED <<menu, closing>> \/ (closing' = closing /\ menu = "release" /\ menu' = "close")
  PROVE  SessionInv'
BY DEF SessionInv, TypeOK, Owned, Bound, Engaged, Open

LEMMA SessionStep == SessionInv /\ [Next]_vars => SessionInv'
<1> SUFFICES ASSUME SessionInv, [Next]_vars PROVE SessionInv'
  OBVIOUS
<1>0. TypeOK /\ TypeOK' /\ None \notin ConnId
  BY SessionTypeStep, RadioSessionAssumption DEF SessionInv, RadioSessionAssumption
<1>1. CASE UNCHANGED vars
  BY <1>0, <1>1, ClosingFrame DEF vars, runVars, menuVars, SessionInv, Owned, Bound, Engaged, Open
<1>2. CASE Idle \/ Begin \/ ReadHost \/ EnsureUsb \/ DialFails \/ Waited
  BY <1>0, <1>2 DEF SessionInv, Owned, Bound, Engaged, Open, menuVars,
     Idle, Begin, ReadHost, EnsureUsb, DialFails, Waited
<1>3. ASSUME NEW c \in ConnId, DialOK(c)
      PROVE  SessionInv'
  <2>1. conn'[c] = target /\ cur' = c /\ run = "dial" /\ run' = "register"
    BY <1>0, <1>3 DEF DialOK, TypeOK
  <2> QED BY <1>0, <1>3, <2>1 DEF SessionInv, Owned, Bound, Engaged, Open, DialOK, menuVars
<1>4. CASE Register \/ SetupOK
  BY <1>0, <1>4 DEF SessionInv, Owned, Bound, Engaged, Open, menuVars, Register, SetupOK
<1>5. CASE SetupFails \/ StreamEnds
  BY <1>0, <1>5 DEF SessionInv, Owned, Bound, Engaged, SetupFails, StreamEnds, menuVars
<1>6. CASE Failed
  BY <1>0, <1>6 DEF SessionInv, Owned, Bound, Engaged, Failed, menuVars
<1>7. ASSUME NEW h \in Hosts, SetHost(h)
      PROVE  SessionInv'
  BY <1>0, <1>7 DEF SessionInv, Owned, Bound, Engaged, Open, SetHost, runVars
<1>8. CASE ReleaseUsb
  BY <1>0, <1>8, ClosingFrame DEF ReleaseUsb, KillUsb, TypeOK, runVars
<1>9. CASE CloseOld
  <2>1. \A c \in ConnId : conn'[c] = (IF c = closing THEN Off ELSE conn[c])
    BY <1>0, <1>9 DEF CloseOld, Hang, TypeOK
  <2> QED BY <1>0, <1>9, <2>1 DEF SessionInv, Owned, Bound, Engaged, Open, CloseOld, runVars
<1>10. CASE Outage
  BY <1>0, <1>10, ClosingFrame DEF Outage, Lost, UsbDies, Hang, KillUsb, TypeOK, runVars, menuVars
<1> QED BY <1>1, <1>2, <1>3, <1>4, <1>5, <1>6, <1>7, <1>8, <1>9, <1>10 DEF Next, Run, Menu

(* The inductive invariant.                                                *)
THEOREM SessionInductive == Spec => []SessionInv
<1>1. Init => SessionInv
  BY SessionInitType DEF SessionInv, Init, Owned, Bound, Engaged
<1> QED BY <1>1, SessionStep, PTL DEF Spec

(* A host that is chosen reaches the receiver, but for a choice that comes *)
(* between the session's reading of the host and its registration (radio.go*)
(* SetHost, session): for any hosts, any number of connections, and        *)
(* whether or not setup commands time out.                                 *)
THEOREM HostObeyedHolds == Spec => []HostObeyedUnlessLate
<1>1. SessionInv => HostObeyedUnlessLate
  BY DEF SessionInv, Owned, Bound, Engaged, HostObeyedUnlessLate, Streaming
<1> QED BY <1>1, SessionInductive, PTL

(* Between two sessions nothing is open, if no setup command times out on  *)
(* a live connection (session's cleanup, CloseGraceful).                   *)
THEOREM NothingLeftOpenHolds == ASSUME ~Stalls PROVE Spec => []NothingLeftOpen
<1>1. Init => OneOpen
  BY DEF Init, OneOpen, OpenConns, Open
<1>2. SessionInv /\ OneOpen /\ [Next]_vars => OneOpen'
  <2> SUFFICES ASSUME SessionInv, OneOpen, [Next]_vars PROVE OneOpen'
    OBVIOUS
  <2>1. TypeOK /\ TypeOK' /\ None \notin ConnId
    BY SessionTypeStep, RadioSessionAssumption DEF SessionInv, RadioSessionAssumption
  <2>2. ASSUME cur' = cur, \A c \in ConnId : conn'[c] \in {conn[c], Off}
        PROVE  OneOpen'
    BY <2>2 DEF OneOpen, OpenConns, Open
  <2>3. CASE UNCHANGED <<cur, conn>>
    BY <2>2, <2>3
  <2>4. ASSUME NEW c \in ConnId, DialOK(c)
        PROVE  OneOpen'
    <3>1. cur = None /\ cur' = c /\ \A d \in ConnId \ {c} : conn'[d] = conn[d]
      BY <2>1, <2>4 DEF DialOK, SessionInv, Owned, Engaged, TypeOK
    <3> QED BY <2>1, <3>1 DEF OneOpen, OpenConns, Open
  <2>5. CASE SetupFails \/ StreamEnds
    BY <2>1, <2>5 DEF SetupFails, StreamEnds, Hang, TypeOK, OneOpen, OpenConns, Open
  <2>6. CASE Failed \/ ReleaseUsb \/ UsbDies
    BY <2>1, <2>2, <2>3, <2>6 DEF Failed, ReleaseUsb, UsbDies, KillUsb, TypeOK, runVars
  <2>7. CASE CloseOld \/ \E c \in ConnId : Lost(c)
    BY <2>1, <2>2, <2>7 DEF CloseOld, Lost, Hang, TypeOK, runVars
  <2> QED BY <2>3, <2>4, <2>5, <2>6, <2>7 DEF Next, Run, Menu, Outage, vars, runVars, menuVars,
      Idle, Begin, ReadHost, EnsureUsb, DialFails, Register, SetupOK, Waited, SetHost
<1>3. SessionInv /\ OneOpen => NothingLeftOpen
  BY RadioSessionAssumption
     DEF RadioSessionAssumption, SessionInv, Owned, Engaged, OneOpen, OpenConns, NothingLeftOpen
<1> QED BY <1>1, <1>2, <1>3, SessionInductive, PTL DEF Spec

-----------------------------------------------------------------------------
(* The feed of the radar, and the queue of a decoder's process.            *)

FeedInv == Feed!TypeOK /\ server \in [FeedHosts -> {"serves", "silent", "down"}]
           /\ (phase = "dialling" => at \in FeedHosts)

LEMMA FeedStep ==
    ASSUME FeedInv, Feed!Next
    PROVE  FeedInv'
<1> USE DEF FeedInv, Feed!TypeOK, Feed!outside
<1>1. CASE Feed!SetHost
  BY <1>1 DEF Feed!SetHost
<1>2. CASE Feed!Turn
  BY <1>2 DEF Feed!Turn
<1>3. CASE Feed!Cancel
  BY <1>3 DEF Feed!Cancel
<1>4. CASE Feed!Top
  BY <1>4 DEF Feed!Top
<1>5. CASE Feed!Dial
  BY <1>5 DEF Feed!Dial
<1>6. CASE Feed!Read
  BY <1>6 DEF Feed!Read
<1>7. CASE Feed!Wait
  BY <1>7 DEF Feed!Wait
<1>8. QED
  BY <1>1, <1>2, <1>3, <1>4, <1>5, <1>6, <1>7 DEF Feed!Next, Feed!Run

QueueInv ==
    /\ Engine!TypeOK /\ queue \in Seq(Nat) /\ msgs \in Seq(Nat) /\ fed \in Nat

\* A line more makes a list of lines longer by one.
LEMMA Longer ==
    ASSUME NEW S, NEW s \in Seq(S), NEW x \in S
    PROVE  Append(s, x) \in Seq(S) /\ Len(Append(s, x)) = Len(s) + 1 /\ Append(s, x) # <<>>
<1> DEFINE a == Append(s, x)
<1>1. a \in Seq(S) /\ Len(a) = Len(s) + 1
  OBVIOUS
<1>2. Len(s) \in Nat /\ Len(<<>>) = 0
  OBVIOUS
<1>3. Len(a) # 0
  BY <1>1, <1>2
<1> HIDE DEF a
<1>4. a # <<>>
  BY <1>2, <1>3, Zenon
<1>5. QED  BY <1>1, <1>4 DEF a

\* A queue with room takes a chunk; a full one takes none.
LEMMA Pushed ==
    ASSUME NEW cap \in Nat, NEW q \in Seq(Nat), Len(q) <= cap, NEW x \in Nat,
           NEW r, r = IF Len(q) = cap THEN q ELSE Append(q, x)
    PROVE  r \in Seq(Nat) /\ Len(r) <= cap
<1>1. Append(q, x) \in Seq(Nat) /\ Len(Append(q, x)) = Len(q) + 1
  BY Longer
<1>2. Len(q) \in Nat
  BY LenProperties
<1> DEFINE a == Append(q, x)
<1>3. CASE Len(q) = cap
  BY <1>3
<1>4. CASE Len(q) # cap
  <2>1. r = a
    BY <1>4
  <2> HIDE DEF a
  <2>2. Len(r) = Len(q) + 1 /\ r \in Seq(Nat)
    BY <1>1, <2>1 DEF a
  <2>3. QED  BY <1>2, <1>4, <2>2
<1>5. QED  BY <1>3, <1>4

\* What is left of a list of lines without its first.
LEMMA Shorter ==
    ASSUME NEW cap \in Nat, NEW q \in Seq(Nat), Len(q) <= cap, q # <<>>
    PROVE  Tail(q) \in Seq(Nat) /\ Len(Tail(q)) <= cap
<1> DEFINE t == Tail(q)
<1>1. Len(q) \in Nat /\ t \in Seq(Nat) /\ Len(t) = Len(q) - 1
  BY LenProperties, HeadTailProperties
<1> HIDE DEF t
<1>2. Len(t) <= cap
  BY <1>1
<1>3. QED  BY <1>1, <1>2 DEF t

\* A list of messages with a new one, and without its oldest when it was full.
LEMMA Bounded ==
    ASSUME NEW cap \in Nat, NEW q \in Seq(Nat), Len(q) <= cap, NEW x \in Nat,
           NEW m, m = Append(q, x)
    PROVE  /\ Len(m) > cap => Tail(m) \in Seq(Nat) /\ Len(Tail(m)) <= cap
           /\ ~(Len(m) > cap) => m \in Seq(Nat) /\ Len(m) <= cap
<1>1. m \in Seq(Nat) /\ Len(m) = Len(q) + 1 /\ m # <<>>
  BY Longer
<1>2. Len(q) \in Nat
  BY LenProperties
<1>3. cap + 1 \in Nat /\ Len(m) <= cap + 1
  BY <1>1, <1>2
<1>4. Tail(m) \in Seq(Nat) /\ Len(Tail(m)) = Len(m) - 1
  BY <1>1, HeadTailProperties
<1>5. Len(Tail(m)) <= cap
  BY <1>1, <1>3, <1>4
<1>6. ~(Len(m) > cap) => Len(m) <= cap
  BY <1>1, <1>2
<1>7. QED  BY <1>1, <1>4, <1>5, <1>6

\* A push that finds the queue full drops; a full list of messages forgets its oldest.
LEMMA QueueStep ==
    ASSUME QueueInv, Engine!Running
    PROVE  QueueInv' /\ UNCHANGED <<len, pos, came, outs>>
<1>1. /\ queue \in Seq(Nat) /\ Len(queue) <= QueueCap
      /\ msgs \in Seq(Nat) /\ Len(msgs) <= MsgCap
      /\ fed \in Nat /\ pipe \in 0..PipeCap
      /\ writer \in {"idle", "writing", "ended"} /\ pos \in 0..1
  BY DEF QueueInv, Engine!TypeOK
<1>2. QueueCap \in Nat /\ MsgCap \in Nat /\ PipeCap \in Nat
  BY LiveAssumption
<1>3. SUFFICES /\ queue' \in Seq(Nat) /\ Len(queue') <= QueueCap
               /\ msgs' \in Seq(Nat) /\ Len(msgs') <= MsgCap
               /\ fed' \in Nat /\ pipe' \in 0..PipeCap
               /\ writer' \in {"idle", "writing", "ended"}
               /\ UNCHANGED <<len, pos, came, outs>>
  BY <1>1 DEF QueueInv, Engine!TypeOK
<1>4. CASE Engine!Feed
  <2>1. /\ queue' = IF Len(queue) = QueueCap THEN queue ELSE Append(queue, fed)
        /\ fed' = fed + 1 /\ UNCHANGED <<pipe, writer, msgs, len, pos, came, outs>>
    BY <1>4, Zenon DEF Engine!Feed, Engine!samples
  <2>2. queue' \in Seq(Nat) /\ Len(queue') <= QueueCap
    BY <1>1, <1>2, <2>1, Pushed, Zenon
  <2>3. fed' \in Nat
    BY <1>1, <2>1
  <2>4. QED  BY <1>1, <2>1, <2>2, <2>3, Zenon
<1>5. CASE Engine!Take
  <2>1. /\ queue # <<>> /\ queue' = Tail(queue) /\ writer' = IF dead THEN "idle" ELSE "writing"
        /\ UNCHANGED <<fed, pipe, msgs, len, pos, came, outs>>
    BY <1>5, Zenon DEF Engine!Take, Engine!samples
  <2>2. queue' \in Seq(Nat) /\ Len(queue') <= QueueCap
    BY <1>1, <1>2, <2>1, Shorter, Zenon
  <2>3. writer' \in {"idle", "writing", "ended"}
    BY <2>1
  <2>4. QED  BY <1>1, <2>1, <2>2, <2>3, Zenon
<1>6. CASE Engine!Ended
  <2>1. writer' = "ended" /\ UNCHANGED <<fed, queue, pipe, msgs, len, pos, came, outs>>
    BY <1>6 DEF Engine!Ended, Engine!samples
  <2>2. QED  BY <1>1, <2>1
<1>7. CASE Engine!Written
  <2>1. /\ writer' = "idle" /\ UNCHANGED <<fed, queue, msgs, len, pos, came, outs>>
        /\ pipe' = pipe \/ (pipe < PipeCap /\ pipe' = pipe + 1)
    BY <1>7 DEF Engine!Written, Engine!samples
  <2>2. pipe' \in 0..PipeCap
    BY <1>1, <1>2, <2>1
  <2>3. QED  BY <1>1, <2>1, <2>2, Zenon
<1>8. CASE Engine!Decodes
  <2> DEFINE m == Append(msgs, fed)
  <2>1. msgs' = msgs \/ (Len(m) > MsgCap /\ msgs' = Tail(m)) \/ (~(Len(m) > MsgCap) /\ msgs' = m)
    BY <1>8 DEF Engine!Decodes
  <2>2. pipe' = pipe - 1 /\ pipe > 0 /\ UNCHANGED <<fed, queue, writer, len, pos, came, outs>>
    BY <1>8 DEF Engine!Decodes, Engine!samples
  <2>3. /\ Len(m) > MsgCap => Tail(m) \in Seq(Nat) /\ Len(Tail(m)) <= MsgCap
        /\ ~(Len(m) > MsgCap) => m \in Seq(Nat) /\ Len(m) <= MsgCap
    BY <1>1, <1>2, Bounded, Zenon
  <2> HIDE DEF m
  <2>4. msgs' \in Seq(Nat) /\ Len(msgs') <= MsgCap
    BY <1>1, <2>1, <2>3, Zenon
  <2>5. pipe' \in 0..PipeCap
    BY <1>1, <1>2, <2>2
  <2>6. QED  BY <1>1, <2>2, <2>4, <2>5, Zenon
<1>9. CASE Engine!Busy \/ Engine!Dies \/ Engine!Waited \/ Engine!Close
  <2>1. UNCHANGED <<fed, queue, pipe, writer, msgs, len, pos, came, outs>>
    BY <1>9 DEF Engine!Busy, Engine!Dies, Engine!Waited, Engine!Close, Engine!samples
  <2>2. QED  BY <1>1, <2>1
<1>10. CASE Engine!Fetch
  <2>1. msgs' = <<>> /\ UNCHANGED <<fed, queue, pipe, writer, len, pos, came, outs>>
    BY <1>10 DEF Engine!Fetch, Engine!samples
  <2>2. msgs' \in Seq(Nat) /\ Len(msgs') <= MsgCap
    BY <1>2, <2>1
  <2>3. QED  BY <1>1, <2>1, <2>2, Zenon
<1>11. QED
  BY <1>4, <1>5, <1>6, <1>7, <1>8, <1>9, <1>10 DEF Engine!Running, Engine!Writer

\* The resampler: every sample that came is taken, skipped or kept.
SamplesInv ==
    /\ {len, came, outs} \subseteq Nat /\ pos \in 0..1
    /\ 2 * (came - len) + pos = 5 * outs

(* One chunk: how many samples are taken of what is there, and where the   *)
(* next one starts.                                                        *)
LEMMA Flushed ==
    ASSUME NEW l \in Nat, NEW p \in 0..1, NEW n, n = (2 * (l - 1) - p) \div 5, l >= 4, ~(n <= 0)
    PROVE  /\ n \in Nat
           /\ LET to == p + 5 * n
                  keep == IF to \div 2 > l THEN l ELSE to \div 2
              IN  keep \in Nat /\ keep <= l /\ to - 2 * keep \in 0..1
<1>1. n \in Nat /\ 5 * n <= 2 * (l - 1) - p
  OBVIOUS
<1> DEFINE to == p + 5 * n
<1>2. to \in Nat /\ to <= 2 * (l - 1)
  BY <1>1
<1> HIDE DEF to
<1>3. to \div 2 \in Nat /\ to - 2 * (to \div 2) \in 0..1 /\ ~(to \div 2 > l)
  BY <1>2
<1>4. QED  BY <1>1, <1>3 DEF to

LEMMA SamplesStep ==
    ASSUME SamplesInv, Engine!Resampling
    PROVE  SamplesInv' /\ UNCHANGED <<fed, queue, pipe, writer, msgs>>
<1>1. PICK c \in ChunkLens : came' = came + c /\ Engine!Flush(len + c) /\ UNCHANGED Engine!sound
  BY DEF Engine!Resampling
<1> DEFINE l == len + c
           n == (2 * (l - 1) - pos) \div 5
           to == pos + 5 * n
           keep == IF to \div 2 > l THEN l ELSE to \div 2
<1>2. c \in Nat /\ l \in Nat /\ came \in Nat /\ outs \in Nat /\ pos \in 0..1 /\ len \in Nat
  BY LiveAssumption DEF SamplesInv
<1>3. CASE l < 4 \/ n <= 0
  <2>1. len' = l /\ UNCHANGED <<pos, outs>>
    BY <1>1, <1>3 DEF Engine!Flush
  <2>2. QED  BY <1>1, <1>2, <2>1 DEF SamplesInv, Engine!sound
<1>4. CASE ~(l < 4 \/ n <= 0)
  <2>1. outs' = outs + n /\ len' = l - keep /\ pos' = to - 2 * keep
    BY <1>1, <1>4 DEF Engine!Flush
  <2>2. n \in Nat /\ keep \in Nat /\ keep <= l /\ to - 2 * keep \in 0..1 /\ to = pos + 5 * n
    BY <1>2, <1>4, Flushed
  <2> HIDE DEF n, keep, to
  <2>3. len' \in Nat /\ came' \in Nat /\ outs' \in Nat /\ pos' \in 0..1
    BY <1>1, <1>2, <2>1, <2>2
  <2>4. 2 * (came' - len') + pos' = 5 * outs'
    BY <1>1, <1>2, <2>1, <2>2 DEF SamplesInv
  <2>5. QED  BY <1>1, <2>3, <2>4 DEF SamplesInv, Engine!sound
<1>5. QED  BY <1>3, <1>4

LEMMA EngineTypes ==
    ASSUME QueueInv, SamplesInv PROVE Engine!TypeOK /\ Engine!EveryFiveHalves
<1>1. Engine!TypeOK
  BY DEF QueueInv
<1>2. len \in Nat /\ came \in Nat /\ outs \in Nat /\ pos \in Nat /\ pos <= 1
      /\ 2 * (came - len) + pos = 5 * outs
  BY DEF SamplesInv
<1>3. outs > 0 => 5 * (outs - 1) + 2 <= 2 * came
  BY <1>2
<1>4. QED  BY <1>1, <1>2, <1>3 DEF Engine!EveryFiveHalves
-----------------------------------------------------------------------------
(* The map: what a goroutine has still to fetch, has on its way and has    *)
(* drawn are tiles around the spot it was started for, and so is a mosaic. *)

Nothing == [at |-> "none"]

Covered(C) == UNION {C[s] : s \in {0, 1}}
Tile(V, C) == V \X Covered(C)
Job(C, f) ==
    /\ f \in [at : {"next", "write", "wrote", "landed"}, spot : {0, 1}, tile : {"none"} \cup Covered(C),
              todo : SUBSET Covered(C), got : SUBSET Covered(C)]
    /\ f.todo \subseteq C[f.spot] /\ f.got \subseteq C[f.spot]
    /\ f.at \in {"write", "wrote"} => f.tile \in C[f.spot]

Fetches(V, C, f) == f = [k \in V |-> f[k]] /\ \A k \in V : f[k] = Nothing \/ Job(C, f[k])
Mosaics(V, C, m) ==
    m = [k \in V |-> m[k]] /\ \A k \in V : m[k] = Nothing \/ (m[k].at = "made" /\ m[k].got \subseteq C[m[k].spot])

MapInv(V, C) ==
    /\ view \in V /\ pan \in {0, 1} /\ Fetches(V, C, fetch) /\ Mosaics(V, C, mosaic)
    /\ disk \in [Tile(V, C) -> {"none", "part", "whole"}] /\ mem \in [Tile(V, C) -> BOOLEAN]

\* The steps of a goroutine, of the view k.
LEMMA Running ==
    ASSUME NEW V, NEW C, NEW f, Fetches(V, C, f), NEW k \in V, f[k].at # "none"
    PROVE  Job(C, f[k])
BY DEF Fetches, Nothing

LEMMA Begun ==
    ASSUME NEW V, NEW C, NEW f, Fetches(V, C, f), NEW k \in V, NEW j, Job(C, j)
    PROVE  Fetches(V, C, [f EXCEPT ![k] = j])
BY DEF Fetches

LEMMA Ends ==
    ASSUME NEW V, NEW C, NEW f, Fetches(V, C, f), NEW k \in V
    PROVE  Fetches(V, C, [f EXCEPT ![k] = Nothing])
BY DEF Fetches

LEMMA Told ==
    ASSUME NEW V, NEW C, NEW f, Fetches(V, C, f), NEW k \in V, Job(C, f[k]),
           NEW a \in {"write", "wrote", "landed"}, NEW t,
           IF a = "landed" THEN t = "none" ELSE t \in C[f[k].spot]
    PROVE  Fetches(V, C, [f EXCEPT ![k].at = a, ![k].tile = t])
<1> DEFINE j == [f[k] EXCEPT !.at = a, !.tile = t]
<1>1. f[k].spot \in {0, 1} /\ C[f[k].spot] \subseteq Covered(C)
  BY DEF Job, Covered
<1>2. t \in {"none"} \cup Covered(C) /\ (a # "landed" => t \in C[f[k].spot])
  BY <1>1
<1>3. Job(C, j)
  BY <1>2 DEF Job
<1>4. [f EXCEPT ![k].at = a, ![k].tile = t] = [f EXCEPT ![k] = j]
  BY DEF Fetches
<1> HIDE DEF j
<1>5. QED  BY <1>3, <1>4, Begun

LEMMA Drew ==
    ASSUME NEW V, NEW C, NEW f, Fetches(V, C, f), NEW k \in V, Job(C, f[k]), NEW t \in C[f[k].spot]
    PROVE  Fetches(V, C, [f EXCEPT ![k].at = "next", ![k].todo = @ \ {t}, ![k].got = @ \cup {t}])
<1> DEFINE j == [f[k] EXCEPT !.at = "next", !.todo = @ \ {t}, !.got = @ \cup {t}]
<1>1. t \in Covered(C)
  BY DEF Job, Covered
<1>2. /\ f[k].got \cup {t} \in SUBSET Covered(C) /\ f[k].got \cup {t} \subseteq C[f[k].spot]
      /\ f[k].todo \ {t} \in SUBSET Covered(C) /\ f[k].todo \ {t} \subseteq C[f[k].spot]
  BY <1>1 DEF Job
<1>3. Job(C, j)
  BY <1>2 DEF Job
<1>4. [f EXCEPT ![k].at = "next", ![k].todo = @ \ {t}, ![k].got = @ \cup {t}] = [f EXCEPT ![k] = j]
  BY DEF Fetches
<1> HIDE DEF j
<1>5. QED  BY <1>3, <1>4, Begun

LEMMA Missed ==
    ASSUME NEW V, NEW C, NEW f, Fetches(V, C, f), NEW k \in V, Job(C, f[k]), NEW t
    PROVE  Fetches(V, C, [f EXCEPT ![k].todo = @ \ {t}])
<1> DEFINE j == [f[k] EXCEPT !.todo = @ \ {t}]
<1>1. Job(C, j)
  BY DEF Job
<1>2. [f EXCEPT ![k].todo = @ \ {t}] = [f EXCEPT ![k] = j]
  BY DEF Fetches
<1> HIDE DEF j
<1>3. QED  BY <1>1, <1>2, Begun

LEMMA Made ==
    ASSUME NEW V, NEW C, NEW m, Mosaics(V, C, m), NEW k \in V, NEW f, Job(C, f)
    PROVE  Mosaics(V, C, [m EXCEPT ![k] = [at |-> "made", spot |-> f.spot, got |-> f.got]])
BY DEF Mosaics, Job

LEMMA NothingMade ==
    ASSUME NEW V, NEW C
    PROVE  Fetches(V, C, [k \in V |-> Nothing]) /\ Mosaics(V, C, [k \in V |-> Nothing])
BY DEF Fetches, Mosaics

(* The same invariant holds of the map alone and of the map beside a       *)
(* browser; a goroutine may be anywhere when the view is panned, switched  *)
(* or cleared.                                                             *)
LEMMA TilesStep ==
    ASSUME MapInv(MapViews, MapCover), Tiles!Next
    PROVE  MapInv(MapViews, MapCover)'
<1> USE DEF MapInv
<1>1. CASE Tiles!Pan \/ Tiles!Switch \/ Tiles!Clear
  <2>1. fetch' = fetch /\ view' \in MapViews /\ pan' \in {0, 1}
    BY <1>1 DEF Tiles!Pan, Tiles!Switch, Tiles!Clear, Tiles!Key
  <2>2. mosaic' = mosaic \/ mosaic' = [k \in MapViews |-> Nothing]
    BY <1>1 DEF Tiles!Pan, Tiles!Switch, Tiles!Clear, Tiles!Nothing, Nothing
  <2>3. /\ disk' \in [Tile(MapViews, MapCover) -> {"none", "part", "whole"}]
        /\ mem' \in [Tile(MapViews, MapCover) -> BOOLEAN]
    BY <1>1 DEF Tiles!Pan, Tiles!Switch, Tiles!Clear, Tiles!Key, Tiles!Tile, Tile, Covered
  <2>4. QED  BY <2>1, <2>2, <2>3, NothingMade
<1>2. CASE Tiles!Frame
  <2>1. Job(MapCover, Tiles!Begin)
    BY DEF Tiles!Begin, Job, Covered
  <2>2. Fetches(MapViews, MapCover, [fetch EXCEPT ![view] = Tiles!Begin])
    BY <2>1, Begun
  <2>3. QED  BY <1>2, <2>2 DEF Tiles!Frame
<1>3. CASE Tiles!Serving
  BY <1>3 DEF Tiles!Serving, Tiles!Web, Tiles!Serve, Tiles!Ask, Tiles!Keep
<1>4. CASE Tiles!Restart
  <2>1. /\ view' = view /\ pan' = 0 /\ disk' = disk
        /\ fetch' = [k \in MapViews |-> Nothing] /\ mosaic' = [k \in MapViews |-> Nothing]
    BY <1>4 DEF Tiles!Restart, Tiles!Fresh, Tiles!Nothing, Nothing
  <2>2. mem' \in [Tile(MapViews, MapCover) -> BOOLEAN]
    BY <1>4 DEF Tiles!Restart, Tiles!Fresh, Tiles!Tile, Tile, Covered
  <2>3. QED  BY <2>1, <2>2, NothingMade
<1>5. ASSUME NEW k \in MapViews, Tiles!Fetching(k) PROVE MapInv(MapViews, MapCover)'
  <2>1. view' = view /\ pan' = pan
    BY <1>5 DEF Tiles!Fetching, Tiles!Goroutine
  <2>2. CASE Tiles!Lands(k)
    <3>1. CASE Tiles!At(k, "next")
      <4>1. Job(MapCover, fetch[k])
        BY <3>1, Running DEF Tiles!At
      <4>2. /\ fetch' = [fetch EXCEPT ![k].at = "landed", ![k].tile = "none"]
            /\ mosaic' = [mosaic EXCEPT ![k] = [at |-> "made", spot |-> fetch[k].spot, got |-> fetch[k].got]]
            /\ UNCHANGED <<mem, disk>>
        BY <2>2, <3>1 DEF Tiles!Lands, Tiles!At, Tiles!To
      <4>3. Fetches(MapViews, MapCover, fetch')
        BY <4>1, <4>2, Told
      <4>4. Mosaics(MapViews, MapCover, mosaic')
        BY <4>1, <4>2, Made
      <4>5. QED  BY <2>1, <4>2, <4>3, <4>4
    <3>2. CASE ~Tiles!At(k, "next")
      <4>1. fetch' = [fetch EXCEPT ![k] = Nothing] /\ UNCHANGED <<mosaic, mem, disk>>
        BY <2>2, <3>2 DEF Tiles!Lands, Tiles!Nothing, Nothing
      <4>2. Fetches(MapViews, MapCover, fetch')
        BY <4>1, Ends
      <4>3. QED  BY <2>1, <4>1, <4>2
    <3>3. QED  BY <3>1, <3>2
  <2>3. ASSUME Tiles!At(k, "next"), NEW t \in fetch[k].todo,
               Tiles!FromCache(k, t) \/ Tiles!Failed(k, t) \/ Tiles!Fetched(k, t)
        PROVE  MapInv(MapViews, MapCover)'
    <3>1. Job(MapCover, fetch[k]) /\ t \in MapCover[fetch[k].spot]
      BY <2>3, Running DEF Tiles!At, Job
    <3>2. /\ mosaic' = mosaic /\ disk' = disk
          /\ \/ fetch' = [fetch EXCEPT ![k].at = "next", ![k].todo = @ \ {t}, ![k].got = @ \cup {t}]
             \/ fetch' = [fetch EXCEPT ![k].todo = @ \ {t}]
             \/ fetch' = [fetch EXCEPT ![k].at = "write", ![k].tile = t]
          /\ mem' \in [Tile(MapViews, MapCover) -> BOOLEAN]
      BY <2>3 DEF Tiles!FromCache, Tiles!Failed, Tiles!Fetched, Tiles!Drawn, Tiles!To
    <3>3. Fetches(MapViews, MapCover, fetch')
      <4>1. Fetches(MapViews, MapCover, [fetch EXCEPT ![k].at = "next", ![k].todo = @ \ {t}, ![k].got = @ \cup {t}])
        BY <3>1, Drew
      <4>2. Fetches(MapViews, MapCover, [fetch EXCEPT ![k].todo = @ \ {t}])
        BY <3>1, Missed
      <4>3. Fetches(MapViews, MapCover, [fetch EXCEPT ![k].at = "write", ![k].tile = t])
        BY <3>1, Told
      <4>4. QED  BY <3>2, <4>1, <4>2, <4>3
    <3>4. QED  BY <2>1, <3>2, <3>3
  <2>4. ASSUME fetch[k].at \in {"write", "wrote"}, NEW t, t = fetch[k].tile, Tiles!Writes(k, t)
        PROVE  MapInv(MapViews, MapCover)'
    <3>1. Job(MapCover, fetch[k]) /\ t \in MapCover[fetch[k].spot]
      BY <2>4, Running DEF Job
    <3>2. /\ mosaic' = mosaic /\ mem' = mem
          /\ \/ fetch' = [fetch EXCEPT ![k].at = "next", ![k].todo = @ \ {t}, ![k].got = @ \cup {t}]
             \/ fetch' = [fetch EXCEPT ![k].at = "wrote", ![k].tile = t]
          /\ disk' \in [Tile(MapViews, MapCover) -> {"none", "part", "whole"}]
      BY <2>4 DEF Tiles!Writes, Tiles!Drawn, Tiles!To
    <3>3. Fetches(MapViews, MapCover, fetch')
      <4>1. Fetches(MapViews, MapCover, [fetch EXCEPT ![k].at = "next", ![k].todo = @ \ {t}, ![k].got = @ \cup {t}])
        BY <3>1, Drew
      <4>2. Fetches(MapViews, MapCover, [fetch EXCEPT ![k].at = "wrote", ![k].tile = t])
        BY <3>1, Told
      <4>3. QED  BY <3>2, <4>1, <4>2
    <3>4. QED  BY <2>1, <3>2, <3>3
  <2>5. QED  BY <1>5, <2>2, <2>3, <2>4 DEF Tiles!Fetching
<1>6. QED  BY <1>1, <1>2, <1>3, <1>4, <1>5 DEF Tiles!Next

LEMMA TilesTypes ==
    ASSUME MapInv(MapViews, MapCover) PROVE Tiles!TypeOK
<1>1. \A k \in MapViews : fetch[k] # Tiles!Nothing => fetch[k].spot \in {0, 1} /\ fetch[k].todo \subseteq MapCover[fetch[k].spot]
  BY DEF MapInv, Fetches, Job, Tiles!Nothing, Nothing
<1>2. \A k \in MapViews : mosaic[k] # Tiles!Nothing => mosaic[k].got \subseteq MapCover[mosaic[k].spot]
  BY DEF MapInv, Mosaics, Tiles!Nothing, Nothing
<1>3. Tiles!Tile = Tile(MapViews, MapCover)
  BY DEF Tiles!Tile, Tile, Covered
<1>4. QED  BY <1>1, <1>2, <1>3 DEF MapInv, Tiles!TypeOK

LEMMA PageStep ==
    ASSUME MapInv(PageViews, PageCover), Page!Next
    PROVE  MapInv(PageViews, PageCover)'
<1> USE DEF MapInv
<1>1. CASE Page!Pan \/ Page!Switch \/ Page!Clear
  <2>1. fetch' = fetch /\ view' \in PageViews /\ pan' \in {0, 1}
    BY <1>1 DEF Page!Pan, Page!Switch, Page!Clear, Page!Key
  <2>2. mosaic' = mosaic \/ mosaic' = [k \in PageViews |-> Nothing]
    BY <1>1 DEF Page!Pan, Page!Switch, Page!Clear, Page!Nothing, Nothing
  <2>3. /\ disk' \in [Tile(PageViews, PageCover) -> {"none", "part", "whole"}]
        /\ mem' \in [Tile(PageViews, PageCover) -> BOOLEAN]
    BY <1>1 DEF Page!Pan, Page!Switch, Page!Clear, Page!Key, Page!Tile, Tile, Covered
  <2>4. QED  BY <2>1, <2>2, <2>3, NothingMade
<1>2. CASE Page!Frame
  <2>1. Job(PageCover, Page!Begin)
    BY DEF Page!Begin, Job, Covered
  <2>2. Fetches(PageViews, PageCover, [fetch EXCEPT ![view] = Page!Begin])
    BY <2>1, Begun
  <2>3. QED  BY <1>2, <2>2 DEF Page!Frame
<1>3. CASE Page!Serving
  BY <1>3 DEF Page!Serving, Page!Web, Page!Serve, Page!Ask, Page!Keep
<1>4. CASE Page!Restart
  <2>1. /\ view' = view /\ pan' = 0 /\ disk' = disk
        /\ fetch' = [k \in PageViews |-> Nothing] /\ mosaic' = [k \in PageViews |-> Nothing]
    BY <1>4 DEF Page!Restart, Page!Fresh, Page!Nothing, Nothing
  <2>2. mem' \in [Tile(PageViews, PageCover) -> BOOLEAN]
    BY <1>4 DEF Page!Restart, Page!Fresh, Page!Tile, Tile, Covered
  <2>3. QED  BY <2>1, <2>2, NothingMade
<1>5. ASSUME NEW k \in PageViews, Page!Fetching(k) PROVE MapInv(PageViews, PageCover)'
  <2>1. view' = view /\ pan' = pan
    BY <1>5 DEF Page!Fetching, Page!Goroutine
  <2>2. CASE Page!Lands(k)
    <3>1. CASE Page!At(k, "next")
      <4>1. Job(PageCover, fetch[k])
        BY <3>1, Running DEF Page!At
      <4>2. /\ fetch' = [fetch EXCEPT ![k].at = "landed", ![k].tile = "none"]
            /\ mosaic' = [mosaic EXCEPT ![k] = [at |-> "made", spot |-> fetch[k].spot, got |-> fetch[k].got]]
            /\ UNCHANGED <<mem, disk>>
        BY <2>2, <3>1 DEF Page!Lands, Page!At, Page!To
      <4>3. Fetches(PageViews, PageCover, fetch')
        BY <4>1, <4>2, Told
      <4>4. Mosaics(PageViews, PageCover, mosaic')
        BY <4>1, <4>2, Made
      <4>5. QED  BY <2>1, <4>2, <4>3, <4>4
    <3>2. CASE ~Page!At(k, "next")
      <4>1. fetch' = [fetch EXCEPT ![k] = Nothing] /\ UNCHANGED <<mosaic, mem, disk>>
        BY <2>2, <3>2 DEF Page!Lands, Page!Nothing, Nothing
      <4>2. Fetches(PageViews, PageCover, fetch')
        BY <4>1, Ends
      <4>3. QED  BY <2>1, <4>1, <4>2
    <3>3. QED  BY <3>1, <3>2
  <2>3. ASSUME Page!At(k, "next"), NEW t \in fetch[k].todo,
               Page!FromCache(k, t) \/ Page!Failed(k, t) \/ Page!Fetched(k, t)
        PROVE  MapInv(PageViews, PageCover)'
    <3>1. Job(PageCover, fetch[k]) /\ t \in PageCover[fetch[k].spot]
      BY <2>3, Running DEF Page!At, Job
    <3>2. /\ mosaic' = mosaic /\ disk' = disk
          /\ \/ fetch' = [fetch EXCEPT ![k].at = "next", ![k].todo = @ \ {t}, ![k].got = @ \cup {t}]
             \/ fetch' = [fetch EXCEPT ![k].todo = @ \ {t}]
             \/ fetch' = [fetch EXCEPT ![k].at = "write", ![k].tile = t]
          /\ mem' \in [Tile(PageViews, PageCover) -> BOOLEAN]
      BY <2>3 DEF Page!FromCache, Page!Failed, Page!Fetched, Page!Drawn, Page!To
    <3>3. Fetches(PageViews, PageCover, fetch')
      <4>1. Fetches(PageViews, PageCover, [fetch EXCEPT ![k].at = "next", ![k].todo = @ \ {t}, ![k].got = @ \cup {t}])
        BY <3>1, Drew
      <4>2. Fetches(PageViews, PageCover, [fetch EXCEPT ![k].todo = @ \ {t}])
        BY <3>1, Missed
      <4>3. Fetches(PageViews, PageCover, [fetch EXCEPT ![k].at = "write", ![k].tile = t])
        BY <3>1, Told
      <4>4. QED  BY <3>2, <4>1, <4>2, <4>3
    <3>4. QED  BY <2>1, <3>2, <3>3
  <2>4. ASSUME fetch[k].at \in {"write", "wrote"}, NEW t, t = fetch[k].tile, Page!Writes(k, t)
        PROVE  MapInv(PageViews, PageCover)'
    <3>1. Job(PageCover, fetch[k]) /\ t \in PageCover[fetch[k].spot]
      BY <2>4, Running DEF Job
    <3>2. /\ mosaic' = mosaic /\ mem' = mem
          /\ \/ fetch' = [fetch EXCEPT ![k].at = "next", ![k].todo = @ \ {t}, ![k].got = @ \cup {t}]
             \/ fetch' = [fetch EXCEPT ![k].at = "wrote", ![k].tile = t]
          /\ disk' \in [Tile(PageViews, PageCover) -> {"none", "part", "whole"}]
      BY <2>4 DEF Page!Writes, Page!Drawn, Page!To
    <3>3. Fetches(PageViews, PageCover, fetch')
      <4>1. Fetches(PageViews, PageCover, [fetch EXCEPT ![k].at = "next", ![k].todo = @ \ {t}, ![k].got = @ \cup {t}])
        BY <3>1, Drew
      <4>2. Fetches(PageViews, PageCover, [fetch EXCEPT ![k].at = "wrote", ![k].tile = t])
        BY <3>1, Told
      <4>3. QED  BY <3>2, <4>1, <4>2
    <3>4. QED  BY <2>1, <3>2, <3>3
  <2>5. QED  BY <1>5, <2>2, <2>3, <2>4 DEF Page!Fetching
<1>6. QED  BY <1>1, <1>2, <1>3, <1>4, <1>5 DEF Page!Next

LEMMA PageTypes ==
    ASSUME MapInv(PageViews, PageCover) PROVE Page!TypeOK
<1>1. \A k \in PageViews : fetch[k] # Page!Nothing => fetch[k].spot \in {0, 1} /\ fetch[k].todo \subseteq PageCover[fetch[k].spot]
  BY DEF MapInv, Fetches, Job, Page!Nothing, Nothing
<1>2. \A k \in PageViews : mosaic[k] # Page!Nothing => mosaic[k].got \subseteq PageCover[mosaic[k].spot]
  BY DEF MapInv, Mosaics, Page!Nothing, Nothing
<1>3. Page!Tile = Tile(PageViews, PageCover)
  BY DEF Page!Tile, Tile, Covered
<1>4. QED  BY <1>1, <1>2, <1>3 DEF MapInv, Page!TypeOK

-----------------------------------------------------------------------------
(* The run.  Its parts share no state, so the invariants hold together,    *)
(* whichever part moves; the two maps have their variables in common.      *)

WebInv == ListenInv /\ CommandInv /\ StreamInv /\ LogInv

LiveInv ==
    /\ SessionInv /\ FeedInv /\ QueueInv /\ SamplesInv /\ WebInv
    /\ part = "tiles" => MapInv(MapViews, MapCover)
    /\ part # "tiles" => MapInv(PageViews, PageCover)

(* What does not move keeps what is known of it.                           *)
LEMMA SessionKept == ASSUME SessionInv, UNCHANGED session PROVE SessionInv'
BY SessionStep DEF session

LEMMA FeedKept == ASSUME FeedInv, UNCHANGED feed PROVE FeedInv'
BY DEF feed, FeedInv, Feed!TypeOK

LEMMA MapKept ==
    ASSUME UNCHANGED <<tiles, part>>,
           part = "tiles" => MapInv(MapViews, MapCover), part # "tiles" => MapInv(PageViews, PageCover)
    PROVE  /\ (part = "tiles" => MapInv(MapViews, MapCover))'
           /\ (part # "tiles" => MapInv(PageViews, PageCover))'
BY DEF tiles, MapInv

LEMMA EngineKept ==
    ASSUME QueueInv, SamplesInv, UNCHANGED engine PROVE QueueInv' /\ SamplesInv'
BY DEF engine, QueueInv, SamplesInv, Engine!TypeOK

LEMMA ListenKept == ASSUME ListenInv, UNCHANGED Web!listening PROVE ListenInv'
BY DEF ListenInv, ListenType, Counted, Registered, Servers, Web!listening

LEMMA CommandKept == ASSUME CommandInv, UNCHANGED Web!commands PROVE CommandInv'
BY DEF CommandInv, CommandType, OneRequest, WithinTop, ReadsRange, Web!commands

LEMMA StreamKept == ASSUME StreamInv, UNCHANGED Web!streaming PROVE StreamInv'
BY DEF StreamInv, Web!streaming

LEMMA LogKept == ASSUME LogInv, UNCHANGED Web!logging PROVE LogInv'
BY DEF LogInv, Web!logging

LEMMA WebStep ==
    ASSUME WebInv, Web!Listening \/ Web!Commanding \/ Web!Streaming \/ Web!Logging
    PROVE  WebInv'
<1> USE DEF WebInv
<1>1. CASE Web!Listening
  BY <1>1, ListenStep, CommandKept, StreamKept, LogKept DEF Web!Listening
<1>2. CASE Web!Commanding
  BY <1>2, ListenKept, CommandStep, StreamKept, LogKept DEF Web!Commanding
<1>3. CASE Web!Streaming
  BY <1>3, ListenKept, CommandKept, StreamStep, LogKept DEF Web!Streaming
<1>4. CASE Web!Logging
  BY <1>4, ListenKept, CommandKept, StreamKept, LogStep DEF Web!Logging
<1>5. QED  BY <1>1, <1>2, <1>3, <1>4

LEMMA WebKept == ASSUME WebInv, UNCHANGED web PROVE WebInv'
<1>1. UNCHANGED <<Web!listening, Web!commands, Web!streaming, Web!logging>>
  BY DEF web, content, Web!listening, Web!commands, Web!streaming, Web!logging
<1>2. QED  BY <1>1, ListenKept, CommandKept, StreamKept, LogKept DEF WebInv

LEMMA WebBegins == ASSUME Web!Init PROVE WebInv
<1>1. ListenInv
  <2>1. /\ enabled = FALSE /\ port \in Ports /\ inst = <<>> /\ srv = 0 /\ stopping = "no"
        /\ samplers = 0 /\ unlucky = FALSE
    BY DEF Web!Init, Web!InitListening
  <2>2. inst \in Seq(Server) /\ Len(inst) = 0
    BY <2>1
  <2>3. ListenType /\ Counted
    <3>1. MaxStarts \in Nat
      BY LiveAssumption
    <3>2. Counted
      BY <2>1, <2>2, <3>1 DEF Counted
    <3>3. enabled \in BOOLEAN /\ unlucky \in BOOLEAN
      BY <2>1
    <3>4. srv \in 0..Len(inst)
      <4>1. srv = 0 /\ Len(inst) = 0
        BY <2>1, <2>2
      <4>2. QED  BY <4>1
    <3>5. QED  BY <2>1, <2>2, <3>2, <3>3, <3>4 DEF ListenType
  <2>4. Registered /\ Servers
    BY <2>1, <2>2 DEF Registered, Servers
  <2>5. QED  BY <2>3, <2>4 DEF ListenInv
<1>2. CommandInv
  <2>1. /\ range \in Pair /\ asked = range /\ tasks = <<>> /\ tasks \in Seq(Task) /\ Len(tasks) = 0
        /\ cmdMu = "nobody" /\ req = [c \in Browsers |-> Web!NoReq]
        /\ excused = FALSE /\ panel = 0 /\ wished = 0
    BY LiveAssumption DEF Web!Init, Web!InitCommands, Web!Nobody, Pair
  <2>2. Web!NoReq \in Req /\ Web!NoReq.kind = "none"
    BY LiveAssumption DEF Web!NoReq, Req, Pair
  <2> HIDE DEF Web!NoReq
  <2>3. CommandType
    <3>1. TaskCap \in Nat
      BY LiveAssumption
    <3>2. req \in [Browsers -> Req]
      BY <2>1, <2>2
    <3>3. panel \in 0..2 /\ wished \in 0..2 /\ Len(tasks) <= TaskCap
      BY <2>1, <3>1
    <3>4. asked \in Pair /\ excused \in BOOLEAN
      BY <2>1
    <3>5. QED  BY <2>1, <3>2, <3>3, <3>4 DEF CommandType
  <2>4. OneRequest /\ WithinTop /\ ReadsRange
    BY <2>1, <2>2, LiveAssumption DEF OneRequest, WithinTop, ReadsRange
  <2>5. RangeOwed(tasks, range, asked) /\ PanelOwed(tasks, panel, wished)
    BY <2>1 DEF RangeOwed, PanelOwed
  <2>6. QED  BY <2>3, <2>4, <2>5 DEF CommandInv
<1>3. StreamInv
  <2>1. pushed = 0 /\ ear = [c \in Browsers |-> Web!Deaf]
    BY DEF Web!Init, Web!InitStreaming
  <2>2. Web!Deaf \in Ear /\ Web!Deaf.on = FALSE /\ Len(Web!Deaf.q) = 0
    BY DEF Web!Deaf, Ear
  <2> HIDE DEF Web!Deaf
  <2>3. ear \in [Browsers -> Ear] /\ \A c \in Browsers : ear[c] = Web!Deaf
    BY <2>1, <2>2
  <2>4. 0 <= ChanCap
    BY LiveAssumption
  <2>5. QED  BY <2>1, <2>2, <2>3, <2>4 DEF StreamInv
<1>4. LogInv
  BY LiveAssumption DEF Web!Init, Web!InitLogging, LogInv
<1>5. QED  BY <1>1, <1>2, <1>3, <1>4 DEF WebInv

LEMMA LiveBegins == ASSUME AllInit PROVE LiveInv
<1>1. SessionInv
  BY SessionInitType DEF AllInit, SessionRest, SessionInv, Init, Owned, Bound, Engaged
<1>2. FeedInv
  BY DEF AllInit, FeedRest, Feed!Init, FeedInv, Feed!TypeOK
<1>3. QueueInv /\ SamplesInv
  BY LiveAssumption DEF AllInit, Engine!Init, QueueInv, SamplesInv, Engine!TypeOK
<1>4. WebInv
  BY WebBegins DEF AllInit
<1>5. ASSUME Tiles!Init PROVE MapInv(MapViews, MapCover)
  BY <1>5, NothingMade DEF Tiles!Init, MapInv, Tiles!Nothing, Nothing, Tiles!Tile, Tile, Covered
<1>6. ASSUME Page!Init PROVE MapInv(PageViews, PageCover)
  BY <1>6, NothingMade DEF Page!Init, MapInv, Page!Nothing, Nothing, Page!Tile, Tile, Covered
<1>7. QED  BY <1>1, <1>2, <1>3, <1>4, <1>5, <1>6 DEF AllInit, LiveInv

LEMMA LiveStep == ASSUME LiveInv, [AllNext]_AllVars PROVE LiveInv'
<1> USE DEF LiveInv
<1>1. CASE Rest \/ UNCHANGED AllVars
  BY <1>1, SessionKept, FeedKept, MapKept, EngineKept, WebKept DEF Rest, AllVars
<1>2. CASE InSession(Next)
  BY <1>2, SessionStep, FeedKept, MapKept, EngineKept, WebKept DEF InSession
<1>3. CASE InFeed(Feed!Next)
  BY <1>3, SessionKept, FeedStep, MapKept, EngineKept, WebKept DEF InFeed
<1>4. CASE InTiles(Tiles!Next)
  BY <1>4, SessionKept, FeedKept, TilesStep, EngineKept, WebKept DEF InTiles
<1>5. CASE InPage(Page!Next)
  BY <1>5, SessionKept, FeedKept, PageStep, EngineKept, WebKept DEF InPage
<1>6. CASE InEngine(Engine!Running)
  <2>1. QueueInv' /\ SamplesInv'
    BY <1>6, QueueStep DEF InEngine, SamplesInv
  <2>2. QED  BY <1>6, <2>1, SessionKept, FeedKept, MapKept, WebKept DEF InEngine
<1>7. CASE InChunks(Engine!Resampling)
  <2>1. QueueInv' /\ SamplesInv'
    BY <1>7, SamplesStep DEF InChunks, SamplesInv, QueueInv, Engine!TypeOK
  <2>2. QED  BY <1>7, <2>1, SessionKept, FeedKept, MapKept, WebKept DEF InChunks
<1>8. CASE \/ InWeb("listener", Web!Listening) \/ InWeb("commands", Web!Commanding)
           \/ InWeb("audio", Web!Streaming) \/ InWeb("log", Web!Logging)
  BY <1>8, SessionKept, FeedKept, MapKept, EngineKept, WebStep DEF InWeb
<1>9. QED  BY <1>1, <1>2, <1>3, <1>4, <1>5, <1>6, <1>7, <1>8 DEF AllNext

(* The invariant holds of whichever part runs.                             *)
THEOREM Inductive == AllSpec => []LiveInv
BY LiveBegins, LiveStep, PTL DEF AllSpec

(* Every part stays within its types and bounds, and the resampler takes   *)
(* every fifth half sample however the sound is cut (deepcw.go, flush).    *)
THEOREM TypeCorrect == AllSpec => []LiveTypeOK
<1>1. LiveInv => LiveTypeOK
  <2> SUFFICES ASSUME LiveInv PROVE LiveTypeOK
    OBVIOUS
  <2>1. TypeOK /\ Feed!TypeOK
    BY DEF LiveInv, SessionInv, FeedInv
  <2>2. Engine!TypeOK /\ Engine!EveryFiveHalves
    BY EngineTypes DEF LiveInv
  <2>3. part = "tiles" => Tiles!TypeOK
    BY TilesTypes DEF LiveInv
  <2>4. part = "page" => Page!TypeOK
    BY PageTypes DEF LiveInv
  <2>5. Web!TypeOK
    BY DEF LiveInv, WebInv, ListenInv, ListenType, Counted, CommandInv, CommandType, Pair,
           StreamInv, LogInv, Web!TypeOK, Web!Edges
  <2>6. QED  BY <2>1, <2>2, <2>3, <2>4, <2>5 DEF LiveTypeOK
<1>2. QED  BY <1>1, Inductive, PTL

(* Of the page: it is served where it was told to be (server.go:           *)
(* SetEnabled, SetPort); the changes of both sides end as they were made   *)
(* (handleCmd); a browser that kept up has every block (audio.go); a log   *)
(* holds the newest lines.                                                 *)
THEOREM PageFollowsHolds == AllSpec => []PageFollows
<1>1. LiveInv => PageFollows
  <2> SUFFICES ASSUME LiveInv PROVE PageFollows
    OBVIOUS
  <2>1. Web!ServedWhereChosen /\ Web!EdgesKept /\ Web!NewestKept
    BY ListenServes, CommandKeeps, LogNewest DEF LiveInv, WebInv
  <2>2. Web!KeepsUp
    BY DEF LiveInv, WebInv, StreamInv, Web!KeepsUp, Since
  <2>3. QED  BY <2>1, <2>2 DEF PageFollows
<1>2. QED  BY <1>1, Inductive, PTL
=============================================================================
