---------------------------- MODULE ServicesProofs ---------------------------
(***************************************************************************)
(* Proofs about the parts beside the receiver (MCServices), for any number *)
(* of savers, stations, spots, packets, aircraft's frames and list entries *)
(* and any budgets.  The parts share no state and one of them runs in a    *)
(* behaviour, so each has an invariant of its own, which every step of the *)
(* union keeps; the theorems about the union are at the end.               *)
(***************************************************************************)
EXTENDS MCServices, FiniteSetTheorems, SequenceTheorems, TLAPS

-----------------------------------------------------------------------------
(* The framer (BeastDecoder)                                               *)

FramerInv ==
    /\ scanning \in BOOLEAN
    /\ Len(sent) <= Frames /\ \E V : sent \in Seq(V)
    /\ \A i \in DOMAIN sent : sent[i] \in SentFrames \cup {Beast!Broken}
    /\ \E V : out \in Seq(V)
    /\ \A i \in DOMAIN out : out[i][1] \in {1, 2} /\ Len(out[i][2]) = Beast!Need(out[i][1])

LEMMA Grows ==
    ASSUME NEW s, NEW e, \E V : s \in Seq(V)
    PROVE  /\ \E V : Append(s, e) \in Seq(V)
           /\ Len(s) \in Nat /\ Len(Append(s, e)) = Len(s) + 1
           /\ \A i \in DOMAIN Append(s, e) :
                 (i \in DOMAIN s /\ Append(s, e)[i] = s[i]) \/ Append(s, e)[i] = e
  <1>1. PICK V : s \in Seq(V)
    OBVIOUS
  <1>2. s \in Seq(V \cup {e}) /\ e \in V \cup {e}
    BY <1>1, SeqMonotonic
  <1>3. Append(s, e) \in Seq(V \cup {e}) /\ Len(Append(s, e)) = Len(s) + 1 /\ Len(s) \in Nat
    BY <1>2
  <1>4. \A i \in DOMAIN Append(s, e) :
           (i \in DOMAIN s /\ Append(s, e)[i] = s[i]) \/ Append(s, e)[i] = e
    BY <1>2
  <1> QED BY <1>3, <1>4

LEMMA Needs ==
    Beast!Need(1) \in Nat /\ Beast!Need(2) \in Nat
  BY DEF Beast!Need

LEMMA FramerStep ==
    ASSUME FramerInv, Beast!Next \/ UNCHANGED framer
    PROVE  FramerInv'
  <1>a. Frames \in Nat
    BY ServicesAssumption DEF ServicesAssumption
  <1>0. CASE UNCHANGED framer
    BY <1>0 DEF FramerInv, framer
  <1>1. ASSUME NEW e \in SentFrames \cup {Beast!Broken}, sent' = Append(sent, e),
               Len(sent) < Frames, UNCHANGED <<scanning, out>>
        PROVE  FramerInv'
    <2>1. /\ \E V : sent' \in Seq(V)
          /\ Len(sent) \in Nat /\ Len(sent') = Len(sent) + 1
          /\ \A i \in DOMAIN sent' : (i \in DOMAIN sent /\ sent'[i] = sent[i]) \/ sent'[i] = e
      BY <1>1, Grows DEF FramerInv
    <2> QED BY <1>a, <1>1, <2>1 DEF FramerInv
  <1>2. CASE Beast!Send
    <2>1. PICK f \in SentFrames : sent' = Append(sent, f)
      BY <1>2 DEF Beast!Send
    <2> QED BY <1>1, <1>2, <2>1 DEF Beast!Send
  <1>3. CASE Beast!Cut
    <2>1. sent' = Append(sent, Beast!Broken) /\ Len(sent) < Frames /\ UNCHANGED <<scanning, out>>
      BY <1>3 DEF Beast!Cut
    <2> QED BY <1>1, <2>1
  <1>4. CASE Beast!Feed
    BY <1>4 DEF Beast!Feed, FramerInv
  <1>5. CASE Beast!Scan
    <2> DEFINE b == Beast!FromSync(buf)
               n == Beast!Need(b[2])
    <2>1. /\ scanning' \in BOOLEAN
          /\ out' = out \/ (b[2] \in {1, 2} /\ out' = Append(out, <<b[2], Beast!Body(b, n)>>))
          /\ UNCHANGED sent
      <3>1. scanning \in BOOLEAN
        BY DEF FramerInv
      <3> QED BY <1>5, <3>1 DEF Beast!Scan
    <2> HIDE DEF b
    <2>2. CASE out' = out
      BY <2>1, <2>2 DEF FramerInv
    <2>3. CASE b[2] \in {1, 2} /\ out' = Append(out, <<b[2], Beast!Body(b, n)>>)
      <3>1. n \in Nat
        <4>1. b[2] = 1 \/ b[2] = 2
          BY <2>3
        <4> QED BY <2>1, <4>1, Needs
      <3>2. Len(Beast!Body(b, n)) = n
        BY <3>1 DEF Beast!Body
      <3> DEFINE e == <<b[2], Beast!Body(b, n)>>
      <3>3. e[1] \in {1, 2} /\ Len(e[2]) = Beast!Need(e[1])
        BY <2>1, <2>3, <3>2
      <3> HIDE DEF e
      <3>4. out' = Append(out, e)
        BY <2>3 DEF e
      <3>5. /\ \E V : out' \in Seq(V)
            /\ \A i \in DOMAIN out' : (i \in DOMAIN out /\ out'[i] = out[i]) \/ out'[i] = e
        BY <3>4, Grows DEF FramerInv
      <3> QED BY <2>1, <3>3, <3>5 DEF FramerInv
    <2> QED BY <2>1, <2>2, <2>3
  <1> QED BY <1>0, <1>2, <1>3, <1>4, <1>5 DEF Beast!Next

-----------------------------------------------------------------------------
(* The store of aircraft (CprStore)                                        *)

HeardFrame == [bad : 0..MaxBad, age : 0..(Window + 1)]

(* The frame that came last is kept; intact frames alone place nothing     *)
(* wrong; two frames too far apart place nothing at all.                   *)
PairInv ==
    /\ Cpr!TypeOK
    /\ cpr \in [Cpr!Parity -> SUBSET HeardFrame]
    /\ last \in [parity : Cpr!Parity, bad : 0..Cpr!Both, age : 0..(Window + 1)]
    /\ last.bad # Cpr!Both => cpr[last.parity] = {[bad |-> last.bad, age |-> last.age]}
    /\ fix # Cpr!Apart
    /\ bads = 0 => /\ \A p \in Cpr!Parity : \A f \in cpr[p] : f.bad = Cpr!Right
                   /\ fix \in {Cpr!Right, Cpr!NoFix}

LEMMA FixCodes ==
    /\ MaxBad \in Nat /\ Cpr!Right = 0 /\ Cpr!Both = MaxBad + 1
    /\ Cpr!Apart = MaxBad + 2 /\ Cpr!NoFix = MaxBad + 3
  BY ServicesAssumption DEF ServicesAssumption, Cpr!Right, Cpr!Both, Cpr!Apart, Cpr!NoFix

LEMMA InitPair == Cpr!Init => PairInv
  <1> SUFFICES ASSUME Cpr!Init PROVE PairInv
    OBVIOUS
  <1> USE ServicesAssumption, FixCodes DEF ServicesAssumption, Cpr!Init
  <1>1. last \in [parity : Cpr!Parity, bad : 0..Cpr!Both, age : 0..(Window + 1)]
        /\ last.bad = Cpr!Both
    BY DEF Cpr!Parity
  <1>2. \A p \in Cpr!Parity : cpr[p] = {}
    OBVIOUS
  <1>4. fix \in 0..Cpr!NoFix /\ fixAge \in 0..Gap /\ unheard \in 0..(Ttl3 + 1) /\ bads \in 0..MaxBad
    OBVIOUS
  <1>5. last.parity \in Cpr!Parity /\ last.bad \in 0..Cpr!Both /\ clean \in BOOLEAN
    BY <1>1
  <1>6. \A p \in Cpr!Parity : \A f \in cpr[p] : f.bad \in 0..MaxBad /\ f.age \in 0..(Window + 1)
    BY <1>2
  <1>3. Cpr!TypeOK
    BY <1>4, <1>5, <1>6 DEF Cpr!TypeOK
  <1> QED BY <1>1, <1>2, <1>3 DEF PairInv

(* What two frames decode to.                                              *)
LEMMA DecodedIs ==
    ASSUME NEW f \in HeardFrame, NEW g \in HeardFrame, NEW s \in BOOLEAN, g.age <= Window,
           NEW pos \in Cpr!Decoded(f, g, s)
    PROVE  /\ pos \in 0..Cpr!NoFix /\ pos # Cpr!Apart
           /\ f.bad = Cpr!Right /\ g.bad = Cpr!Right =>
                 pos = IF s THEN Cpr!NoFix ELSE Cpr!Right
  <1> USE ServicesAssumption DEF ServicesAssumption, HeardFrame, Cpr!Right, Cpr!Both, Cpr!Apart, Cpr!NoFix
  <1>1. CASE f.bad = 0 /\ g.bad = 0
    BY <1>1 DEF Cpr!Decoded
  <1>2. CASE f.bad # 0 /\ g.bad # 0
    BY <1>2 DEF Cpr!Decoded
  <1>3. CASE ~(f.bad = 0 /\ g.bad = 0) /\ ~(f.bad # 0 /\ g.bad # 0)
    <2>1. Cpr!Decoded(f, g, s) = {f.bad + g.bad, Cpr!NoFix}
      BY <1>3 DEF Cpr!Decoded
    <2> QED BY <1>3, <2>1
  <1> QED BY <1>1, <1>2, <1>3

(* One position frame: what becomes of the frames and of the fix.          *)
LEMMA FixIs ==
    ASSUME PairInv, NEW p \in Cpr!Parity, NEW s \in BOOLEAN, NEW f \in HeardFrame, f.age = 0,
           Cpr!Fix(p, f, s)
    PROVE  /\ cpr' \in [Cpr!Parity -> SUBSET HeardFrame] /\ cpr'[p] = {f}
           /\ \A q \in Cpr!Parity \ {p} : cpr'[q] \subseteq cpr[q]
           /\ fix' \in 0..Cpr!NoFix /\ fix' # Cpr!Apart /\ fixAge' \in 0..Gap
           /\ bads = 0 /\ f.bad = Cpr!Right => fix' \in {Cpr!Right, Cpr!NoFix}
           /\ \A g : cpr[Cpr!Other(p)] = {g} /\ g.bad = Cpr!Right /\ f.bad = Cpr!Right
                     /\ g.age <= Window /\ ~s =>
                 fix' # Cpr!NoFix /\ (fix' = Cpr!Right => fixAge' = 0)
  <1> USE ServicesAssumption DEF ServicesAssumption
  <1>0. Cpr!Other(p) \in Cpr!Parity \ {p} /\ \A q \in Cpr!Parity \ {p} : q = Cpr!Other(p)
    BY DEF Cpr!Other, Cpr!Parity
  <1>1. CASE cpr[Cpr!Other(p)] = {} \/ \E g \in cpr[Cpr!Other(p)] : ~Cpr!Paired(f, g)
    <2>1. cpr' = [cpr EXCEPT ![p] = {f}] /\ UNCHANGED <<fix, fixAge>>
      BY <1>1 DEF Cpr!Fix
    <2> QED BY <1>0, <1>1, <2>1 DEF PairInv, Cpr!Paired, Cpr!TypeOK
  <1>2. CASE ~(cpr[Cpr!Other(p)] = {} \/ \E g \in cpr[Cpr!Other(p)] : ~Cpr!Paired(f, g))
    <2> DEFINE Takes(pos) ==
                 \/ /\ pos = Cpr!NoFix
                    /\ cpr' = [cpr EXCEPT ![p] = {f}] /\ UNCHANGED <<fix, fixAge>>
                 \/ /\ pos # Cpr!NoFix /\ Cpr!Implausible(pos)
                    /\ Cpr!Drop(p, f) /\ UNCHANGED <<fix, fixAge>>
                 \/ /\ pos # Cpr!NoFix /\ ~Cpr!Implausible(pos)
                    /\ cpr' = [cpr EXCEPT ![p] = {f}] /\ fix' = pos /\ fixAge' = 0
    <2>a. PICK g \in cpr[Cpr!Other(p)] : \E pos \in Cpr!Decoded(f, g, s) : Takes(pos)
      BY <1>2 DEF Cpr!Fix
    <2>1. PICK pos \in Cpr!Decoded(f, g, s) : Takes(pos)
      BY <2>a
    <2>2. g \in HeardFrame /\ g.age <= Window
      BY <1>0, <1>2, <2>1 DEF PairInv, Cpr!Paired
    <2>3. /\ pos \in 0..Cpr!NoFix /\ pos # Cpr!Apart
          /\ f.bad = Cpr!Right /\ g.bad = Cpr!Right => pos = IF s THEN Cpr!NoFix ELSE Cpr!Right
      BY <2>1, <2>2, DecodedIs
    <2>4. /\ cpr' \in [Cpr!Parity -> SUBSET HeardFrame] /\ cpr'[p] = {f}
          /\ \A q \in Cpr!Parity \ {p} : cpr'[q] \subseteq cpr[q]
      BY <1>0, <2>1 DEF PairInv, Cpr!Drop
    <2>5. fix' \in {fix, pos} /\ fixAge' \in {fixAge, 0}
      BY <2>1
    <2>6. bads = 0 => g.bad = Cpr!Right
      BY <1>0, <2>1 DEF PairInv
    <2>7. pos = Cpr!Right => (fix' = Cpr!Right => fixAge' = 0) /\ fix' # Cpr!NoFix
      BY <2>1 DEF Cpr!Implausible, Cpr!Right, Cpr!NoFix
    <2> QED BY <2>1, <2>3, <2>4, <2>5, <2>6, <2>7 DEF PairInv, Cpr!TypeOK
  <1> QED BY <1>1, <1>2

LEMMA PairStep ==
    ASSUME PairInv, Cpr!Next \/ UNCHANGED aircraft
    PROVE  /\ PairInv'
           /\ bads' = 0 => fix' \in {Cpr!Right, Cpr!NoFix}
           /\ Cpr!Position /\ clean' => /\ fix' \notin {Cpr!NoFix, Cpr!Apart}
                                        /\ fix' = Cpr!Right => fixAge' = 0
  <1> USE ServicesAssumption DEF ServicesAssumption
  <1>1. CASE UNCHANGED aircraft /\ ~Cpr!Position
    BY <1>1 DEF aircraft, PairInv, Cpr!TypeOK, HeardFrame
  <1>2. CASE Cpr!Tick /\ ~Cpr!Position
    <2> DEFINE Aged(f) == [f EXCEPT !.age = Cpr!UpTo(@ + 1, Window + 1)]
    <2>1. ASSUME NEW f \in HeardFrame PROVE Aged(f) \in HeardFrame /\ Aged(f).bad = f.bad
      BY DEF HeardFrame, Cpr!UpTo
    <2>2. \A p \in Cpr!Parity : cpr'[p] = {Aged(f) : f \in cpr[p]} /\ cpr[p] \subseteq HeardFrame
      BY <1>2 DEF Cpr!Tick, PairInv
    <2>3. cpr' \in [Cpr!Parity -> SUBSET HeardFrame]
          /\ \A p \in Cpr!Parity : \A f \in cpr'[p] : \E g \in cpr[p] : f = Aged(g)
      BY <1>2, <2>1, <2>2 DEF Cpr!Tick
    <2>4. last' \in [parity : Cpr!Parity, bad : 0..Cpr!Both, age : 0..(Window + 1)]
          /\ last'.bad = last.bad /\ last'.parity = last.parity
          /\ last'.age = Cpr!UpTo(last.age + 1, Window + 1)
      BY <1>2 DEF Cpr!Tick, PairInv, Cpr!UpTo
    <2>5. last'.bad # Cpr!Both => cpr'[last'.parity] = {[bad |-> last'.bad, age |-> last'.age]}
      <3>1. \A i, j : Aged([bad |-> i, age |-> j]) = [bad |-> i, age |-> Cpr!UpTo(j + 1, Window + 1)]
        OBVIOUS
      <3>2. last.bad # Cpr!Both =>
               cpr'[last.parity] = {Aged(f) : f \in {[bad |-> last.bad, age |-> last.age]}}
        BY <2>2 DEF PairInv
      <3> HIDE DEF Aged
      <3>3. last.bad # Cpr!Both => cpr'[last.parity] = {Aged([bad |-> last.bad, age |-> last.age])}
        BY <3>2
      <3> QED BY <2>4, <3>1, <3>3
    <2>6. UNCHANGED <<fix, bads, clean>> /\ fixAge' \in 0..Gap /\ unheard' \in 0..(Ttl3 + 1)
      BY <1>2 DEF Cpr!Tick, Cpr!UpTo, PairInv, Cpr!TypeOK
    <2>7. Cpr!TypeOK'
      BY <2>3, <2>4, <2>6 DEF PairInv, Cpr!TypeOK, HeardFrame
    <2>8. bads = 0 => \A p \in Cpr!Parity : \A f \in cpr'[p] : f.bad = Cpr!Right
      <3> SUFFICES ASSUME bads = 0, NEW p \in Cpr!Parity, NEW f \in cpr'[p] PROVE f.bad = Cpr!Right
        OBVIOUS
      <3>1. PICK g \in cpr[p] : f = Aged(g)
        BY <2>3
      <3>2. g \in HeardFrame /\ g.bad = Cpr!Right
        BY <2>2 DEF PairInv
      <3> HIDE DEF Aged
      <3> QED BY <2>1, <3>1, <3>2
    <2> QED BY <1>2, <2>3, <2>4, <2>5, <2>6, <2>7, <2>8 DEF PairInv
  <1>3. CASE Cpr!Prune /\ ~Cpr!Position
    <2> USE <1>3, FixCodes DEF Cpr!Prune
    <2>1. last' \in [parity : Cpr!Parity, bad : 0..Cpr!Both, age : 0..(Window + 1)]
          /\ last'.bad = Cpr!Both
      BY DEF Cpr!Parity
    <2>2. \A p \in Cpr!Parity : cpr'[p] = {}
      OBVIOUS
    <2>3. Cpr!TypeOK'
      <3>1. /\ fix' \in 0..Cpr!NoFix /\ fixAge' \in 0..Gap /\ unheard' \in 0..(Ttl3 + 1)
            /\ bads' \in 0..MaxBad
        BY DEF PairInv, Cpr!TypeOK
      <3>2. last'.parity \in Cpr!Parity /\ last'.bad \in 0..Cpr!Both /\ clean' \in BOOLEAN
        BY <2>1
      <3>3. \A p \in Cpr!Parity : \A f \in cpr'[p] : f.bad \in 0..MaxBad /\ f.age \in 0..(Window + 1)
        BY <2>2
      <3> QED BY <3>1, <3>2, <3>3 DEF Cpr!TypeOK
    <2>4. cpr' \in [Cpr!Parity -> SUBSET HeardFrame] /\ fix' = Cpr!NoFix
      OBVIOUS
    <2> QED BY <2>1, <2>2, <2>3, <2>4 DEF PairInv
  <1>4. CASE Cpr!Squitter /\ ~Cpr!Position
    BY <1>4 DEF Cpr!Squitter, PairInv, Cpr!TypeOK, HeardFrame
  <1>5. CASE Cpr!Position
    <2>1. PICK p \in Cpr!Parity, s \in BOOLEAN,
               bad \in {Cpr!Right} \cup (IF bads < MaxBad THEN {bads + 1} ELSE {}) :
             /\ Cpr!Fix(p, [bad |-> bad, age |-> 0], s)
             /\ bads' = (IF bad = Cpr!Right THEN bads ELSE bad)
             /\ last' = [parity |-> p, bad |-> bad, age |-> 0]
             /\ clean' = (/\ bad = Cpr!Right /\ last.bad = Cpr!Right /\ last.parity # p
                          /\ last.age <= Window /\ ~s)
      BY <1>5 DEF Cpr!Position
    <2> DEFINE f == [bad |-> bad, age |-> 0]
    <2>2. bad \in 0..MaxBad /\ f \in HeardFrame /\ f.age = 0 /\ f.bad = bad /\ bads' \in 0..MaxBad
      BY <2>1, FixCodes DEF PairInv, Cpr!TypeOK, HeardFrame
    <2>3. /\ cpr' \in [Cpr!Parity -> SUBSET HeardFrame] /\ cpr'[p] = {f}
          /\ \A q \in Cpr!Parity \ {p} : cpr'[q] \subseteq cpr[q]
          /\ fix' \in 0..Cpr!NoFix /\ fix' # Cpr!Apart /\ fixAge' \in 0..Gap
          /\ bads = 0 /\ f.bad = Cpr!Right => fix' \in {Cpr!Right, Cpr!NoFix}
          /\ \A g : cpr[Cpr!Other(p)] = {g} /\ g.bad = Cpr!Right /\ f.bad = Cpr!Right
                    /\ g.age <= Window /\ ~s =>
                fix' # Cpr!NoFix /\ (fix' = Cpr!Right => fixAge' = 0)
      BY <2>1, <2>2, FixIs
    <2>4. bads' = 0 => bads = 0 /\ f.bad = Cpr!Right
      BY <2>1, <2>2, FixCodes DEF PairInv, Cpr!TypeOK
    <2>5. /\ last' \in [parity : Cpr!Parity, bad : 0..Cpr!Both, age : 0..(Window + 1)]
          /\ cpr'[last'.parity] = {[bad |-> last'.bad, age |-> last'.age]}
      BY <2>1, <2>2, <2>3, FixCodes
    <2>6. unheard' = 0 /\ clean' \in BOOLEAN
      BY <1>5, <2>1 DEF Cpr!Position
    <2>7. Cpr!TypeOK'
      BY <2>2, <2>3, <2>5, <2>6 DEF Cpr!TypeOK, HeardFrame
    <2>8. bads' = 0 => \A q \in Cpr!Parity : \A g \in cpr'[q] : g.bad = Cpr!Right
      BY <2>3, <2>4 DEF PairInv
    <2>9. PairInv'
      BY <2>3, <2>4, <2>5, <2>7, <2>8 DEF PairInv
    <2>10. clean' => fix' # Cpr!NoFix /\ (fix' = Cpr!Right => fixAge' = 0)
      <3> SUFFICES ASSUME clean' PROVE fix' # Cpr!NoFix /\ (fix' = Cpr!Right => fixAge' = 0)
        OBVIOUS
      <3> DEFINE g == [bad |-> last.bad, age |-> last.age]
      <3>1. bad = Cpr!Right /\ last.bad = Cpr!Right /\ last.parity # p /\ last.age <= Window /\ ~s
        BY <2>1
      <3>2. last.parity = Cpr!Other(p) /\ last.bad # Cpr!Both
        BY <3>1, FixCodes DEF PairInv, Cpr!Parity, Cpr!Other
      <3>3. cpr[Cpr!Other(p)] = {g} /\ g.bad = Cpr!Right /\ g.age <= Window
        BY <3>1, <3>2 DEF PairInv
      <3> QED BY <2>2, <2>3, <3>1, <3>3
    <2> QED BY <2>3, <2>4, <2>9, <2>10
  <1> QED BY <1>1, <1>2, <1>3, <1>4, <1>5 DEF Cpr!Next

-----------------------------------------------------------------------------
(* Reports (PskReporter)                                                   *)

Increasing(s) == \A i, j \in DOMAIN s : i < j => s[i] < s[j]
Below(s, t) == \A i \in DOMAIN s, j \in DOMAIN t : s[i] < t[j]

Upto(s, n) == \A i \in DOMAIN s : s[i] <= n

(* What is read, what is on its way and what waits follow one another.     *)
InOrder ==
    /\ Increasing(read) /\ Increasing(Psk!InFlight) /\ Increasing(spots)
    /\ Below(read, Psk!InFlight) /\ Below(read, spots) /\ Below(Psk!InFlight, spots)

ReportsTyped ==
    /\ Psk!TypeOK
    /\ read \in Seq(Nat) /\ Psk!InFlight \in Seq(Nat) /\ spots \in Seq(Nat)
    /\ Upto(read, heard) /\ Upto(Psk!InFlight, heard) /\ Upto(spots, heard)
    /\ flight # <<>> => flight = <<flight[1]>>

ReportsInv ==
    /\ ReportsTyped /\ InOrder
    /\ seq + Len(spots) <= heard
    /\ flight # <<>> /\ sentPkts <= Described => flight[1].described
    /\ ~changed => known \in {"none", layout}

LEMMA JoinIncreasing ==
    ASSUME NEW s \in Seq(Nat), NEW t \in Seq(Nat), Increasing(s), Increasing(t), Below(s, t)
    PROVE  Increasing(s \o t)
  BY DEF Increasing, Below

LEMMA JoinBelow ==
    ASSUME NEW s \in Seq(Nat), NEW t \in Seq(Nat), NEW u \in Seq(Nat), Below(s, u), Below(t, u)
    PROVE  Below(s \o t, u)
  BY DEF Below

\* A part of a sequence that increases, and the rest.
LEMMA PartIncreasing ==
    ASSUME NEW s \in Seq(Nat), Increasing(s),
           NEW i \in 1..(Len(s) + 1), NEW j \in 0..Len(s), i <= j + 1
    PROVE  /\ SubSeq(s, i, j) \in Seq(Nat) /\ Len(SubSeq(s, i, j)) = j - i + 1
           /\ Increasing(SubSeq(s, i, j))
           /\ \A t : Below(t, s) => Below(t, SubSeq(s, i, j))
           /\ \A n : Upto(s, n) => Upto(SubSeq(s, i, j), n)
           /\ \A k \in DOMAIN SubSeq(s, i, j) :
                 k \in 1..(j - i + 1) /\ SubSeq(s, i, j)[k] = s[k + i - 1] /\ k + i - 1 \in DOMAIN s
  <1>1. SubSeq(s, i, j) = [k \in 1..(j - i + 1) |-> s[i + k - 1]]
    BY DEF SubSeq
  <1>2. \A k \in 1..(j - i + 1) : i + k - 1 \in 1..Len(s) /\ s[i + k - 1] \in Nat
    OBVIOUS
  <1>3. SubSeq(s, i, j) \in Seq(Nat) /\ Len(SubSeq(s, i, j)) = j - i + 1
    BY <1>1, <1>2
  <1>4. \A k \in DOMAIN SubSeq(s, i, j) : SubSeq(s, i, j)[k] = s[k + i - 1] /\ k + i - 1 \in DOMAIN s
    BY <1>1, <1>2
  <1>6. Increasing(SubSeq(s, i, j))
    <2> SUFFICES ASSUME NEW k \in DOMAIN SubSeq(s, i, j), NEW l \in DOMAIN SubSeq(s, i, j), k < l
                 PROVE  SubSeq(s, i, j)[k] < SubSeq(s, i, j)[l]
      BY DEF Increasing
    <2>1. k + i - 1 < l + i - 1
      BY <1>3
    <2> QED BY <1>4, <2>1 DEF Increasing
  <1>7. \A t : Below(t, s) => Below(t, SubSeq(s, i, j))
    BY <1>4 DEF Below
  <1>8. \A n : Upto(s, n) => Upto(SubSeq(s, i, j), n)
    BY <1>4 DEF Upto
  <1> QED BY <1>1, <1>3, <1>4, <1>6, <1>7, <1>8

LEMMA ReportsStep ==
    ASSUME ReportsInv, Psk!Next \/ UNCHANGED reports
    PROVE  ReportsInv' /\ (Psk!Arrives /\ gap' => sentPkts > Described /\ (known = "none" \/ changed))
  <1>a. /\ MaxBuffer \in Nat /\ MaxPerPkt \in Nat /\ Described \in Nat
        /\ MaxSpots \in Nat /\ MaxPkts \in Nat
    BY ServicesAssumption DEF ServicesAssumption
  <1>t. /\ heard \in Nat /\ seq \in Nat /\ sentPkts \in Nat /\ heard \in 0..MaxSpots
        /\ sentPkts \in 0..MaxPkts /\ Len(spots) <= MaxBuffer
        /\ read \in Seq(Nat) /\ Psk!InFlight \in Seq(Nat) /\ spots \in Seq(Nat)
        /\ seq + Len(spots) <= heard
    BY <1>a DEF ReportsInv, ReportsTyped, Psk!TypeOK
  <1>o. /\ Increasing(read) /\ Increasing(Psk!InFlight) /\ Increasing(spots)
        /\ Below(read, Psk!InFlight) /\ Below(read, spots) /\ Below(Psk!InFlight, spots)
        /\ Upto(read, heard) /\ Upto(Psk!InFlight, heard) /\ Upto(spots, heard)
    BY DEF ReportsInv, ReportsTyped, InOrder
  <1>0. ASSUME UNCHANGED <<spots, seq, sentPkts, heard, flight, known, read>>,
               enabled' \in BOOLEAN, station' \in BOOLEAN, layout' \in {"3", "5"},
               ~changed' => ~changed /\ UNCHANGED layout
        PROVE  ReportsInv'
    <2>1. Psk!InFlight' = Psk!InFlight
      BY <1>0 DEF Psk!InFlight
    <2>2. InOrder'
      BY <1>0, <1>o, <2>1 DEF InOrder
    <2>3. ReportsTyped'
      BY <1>0, <1>o, <1>t, <2>1 DEF ReportsInv, ReportsTyped, Psk!TypeOK
    <2> QED BY <1>0, <2>2, <2>3 DEF ReportsInv
  <1>1. CASE UNCHANGED reports
    <2>1. ReportsInv'
      BY <1>0, <1>1 DEF reports, ReportsInv, ReportsTyped, Psk!TypeOK
    <2> QED BY <1>1, <2>1 DEF reports, Psk!Arrives
  <1>2. CASE Psk!SetStation \/ Psk!SetEnabled
    <2>1. ReportsInv'
      BY <1>0, <1>2 DEF Psk!SetStation, Psk!SetEnabled, ReportsInv, ReportsTyped, Psk!TypeOK
    <2> QED BY <1>2, <2>1 DEF Psk!SetStation, Psk!SetEnabled, Psk!Arrives
  <1>3. CASE Psk!Add
    <2> DEFINE s == Append(spots, heard + 1)
    <2>1. s \in Seq(Nat) /\ Increasing(s) /\ Upto(s, heard + 1) /\ Len(s) = Len(spots) + 1
      BY <1>t, <1>o DEF Increasing, Upto
    <2>2. Below(read, s) /\ Below(Psk!InFlight, s)
      <3>1. \A k \in DOMAIN s : (k \in DOMAIN spots /\ s[k] = spots[k]) \/ s[k] = heard + 1
        BY <1>t
      <3>2. /\ \A k \in DOMAIN read : read[k] \in Nat /\ read[k] <= heard
            /\ \A k \in DOMAIN Psk!InFlight : Psk!InFlight[k] \in Nat /\ Psk!InFlight[k] <= heard
        BY <1>t, <1>o DEF Upto
      <3> HIDE DEF s
      <3>3. /\ \A k \in DOMAIN read : read[k] < heard + 1
            /\ \A k \in DOMAIN Psk!InFlight : Psk!InFlight[k] < heard + 1
        BY <1>t, <3>2
      <3> QED BY <1>o, <3>1, <3>3 DEF Below
    <2>4. /\ heard' = heard + 1 /\ heard' \in 0..MaxSpots
          /\ UNCHANGED <<enabled, station, layout, seq, sentPkts, flight, known, read, gap, changed>>
      BY <1>3, <1>a, <1>t DEF Psk!Add
    <2>8. \/ spots' = spots
          \/ spots' = s /\ Len(s) <= MaxBuffer
          \/ spots' = SubSeq(s, Len(s) - MaxBuffer + 1, Len(s)) /\ Len(s) > MaxBuffer
      <3>1. \/ spots' = spots
            \/ spots' = IF Len(s) > MaxBuffer THEN SubSeq(s, Len(s) - MaxBuffer + 1, Len(s)) ELSE s
        BY <1>3 DEF Psk!Add
      <3>2. Len(s) > MaxBuffer \/ Len(s) <= MaxBuffer
        BY <1>a, <1>t, <2>1
      <3> HIDE DEF s
      <3> QED BY <3>1, <3>2
    <2> HIDE DEF s
    <2>3. /\ spots' \in Seq(Nat) /\ Increasing(spots') /\ Upto(spots', heard + 1)
          /\ Below(read, spots') /\ Below(Psk!InFlight, spots')
          /\ Len(spots') <= MaxBuffer /\ Len(spots') <= Len(spots) + 1
      <3>1. CASE spots' = spots
        <4>1. Upto(spots', heard + 1)
          BY <1>t, <1>o, <3>1 DEF Upto
        <4> QED BY <1>t, <1>o, <3>1, <4>1
      <3>2. CASE spots' = s /\ Len(s) <= MaxBuffer
        BY <2>1, <2>2, <3>2
      <3>3. CASE spots' = SubSeq(s, Len(s) - MaxBuffer + 1, Len(s)) /\ Len(s) > MaxBuffer
        <4>1. /\ Len(s) - MaxBuffer + 1 \in 1..(Len(s) + 1) /\ Len(s) \in 0..Len(s)
              /\ Len(s) - MaxBuffer + 1 <= Len(s) + 1
              /\ Len(s) - (Len(s) - MaxBuffer + 1) + 1 = MaxBuffer
          BY <1>a, <1>t, <2>1, <3>3
        <4>2. Len(spots') = MaxBuffer /\ spots' \in Seq(Nat) /\ Increasing(spots')
          BY <2>1, <3>3, <4>1, PartIncreasing
        <4>3. Upto(spots', heard + 1) /\ Below(read, spots') /\ Below(Psk!InFlight, spots')
          BY <2>1, <2>2, <3>3, <4>1, PartIncreasing
        <4>4. MaxBuffer <= Len(spots) + 1
          BY <1>a, <1>t, <2>1, <3>3
        <4>5. Len(spots') <= MaxBuffer /\ Len(spots') <= Len(spots) + 1
          BY <1>a, <4>2, <4>4
        <4> QED BY <4>2, <4>3, <4>5
      <3> QED BY <2>8, <3>1, <3>2, <3>3
    <2>6. Psk!InFlight' = Psk!InFlight
      BY <2>4 DEF Psk!InFlight
    <2>5. Upto(read, heard + 1) /\ Upto(Psk!InFlight, heard + 1)
      BY <1>t, <1>o DEF Upto
    <2>7. seq + Len(spots') <= heard + 1
      BY <1>t, <2>3
    <2>9. InOrder'
      BY <1>o, <2>3, <2>4, <2>6 DEF InOrder
    <2>10. ReportsTyped'
      BY <1>t, <2>3, <2>4, <2>5, <2>6 DEF ReportsInv, ReportsTyped, Psk!TypeOK
    <2> QED BY <2>4, <2>7, <2>9, <2>10 DEF ReportsInv, Psk!Arrives
  <1>4. CASE Psk!Take
    <2> DEFINE m == IF Len(spots) < MaxPerPkt THEN Len(spots) ELSE MaxPerPkt
    <2>0. m \in 0..Len(spots) /\ 1 \in 1..(Len(spots) + 1) /\ 1 <= m + 1
          /\ m + 1 \in 1..(Len(spots) + 1) /\ Len(spots) \in 0..Len(spots)
          /\ m + 1 <= Len(spots) + 1 /\ m - 1 + 1 = m
      BY <1>a, <1>t
    <2>b. Psk!Batch = SubSeq(spots, 1, m)
      BY DEF Psk!Batch
    <2> HIDE DEF m
    <2>1. /\ Psk!Batch \in Seq(Nat) /\ Len(Psk!Batch) = m /\ Increasing(Psk!Batch)
          /\ Below(read, Psk!Batch) /\ Upto(Psk!Batch, heard)
          /\ \A k \in DOMAIN Psk!Batch : k \in 1..m /\ Psk!Batch[k] = spots[k] /\ k \in DOMAIN spots
      <3>1. /\ Psk!Batch \in Seq(Nat) /\ Len(Psk!Batch) = m /\ Increasing(Psk!Batch)
            /\ Below(read, Psk!Batch) /\ Upto(Psk!Batch, heard)
        BY <1>t, <1>o, <2>0, <2>b, PartIncreasing
      <3>2. \A k \in DOMAIN Psk!Batch : /\ k \in 1..m /\ Psk!Batch[k] = spots[k + 1 - 1]
                                         /\ k + 1 - 1 \in DOMAIN spots
        BY <1>t, <1>o, <2>0, <2>b, PartIncreasing
      <3>3. \A k \in 1..m : k + 1 - 1 = k
        BY <2>0
      <3> QED BY <3>1, <3>2, <3>3
    <2>2. /\ spots' = SubSeq(spots, m + 1, Len(spots))
          /\ flight' = <<[spots |-> Psk!Batch, described |-> sentPkts < Described]>>
          /\ seq' = seq + m /\ sentPkts' = sentPkts + 1 /\ sentPkts < MaxPkts
          /\ UNCHANGED <<enabled, station, layout, heard, known, read, gap, changed>>
      BY <1>4, <2>1 DEF Psk!Take
    <2>3. /\ spots' \in Seq(Nat) /\ Len(spots') = Len(spots) - m /\ Increasing(spots')
          /\ Below(read, spots') /\ Upto(spots', heard)
          /\ \A k \in DOMAIN spots' : k > 0 /\ spots'[k] = spots[k + m] /\ k + m \in DOMAIN spots
      <3>1. /\ spots' \in Seq(Nat) /\ Increasing(spots')
            /\ Len(spots') = Len(spots) - (m + 1) + 1
            /\ Below(read, spots') /\ Upto(spots', heard)
        BY <1>t, <1>o, <2>0, <2>2, PartIncreasing
      <3>2. \A k \in DOMAIN spots' : /\ k \in 1..(Len(spots) - (m + 1) + 1)
                                     /\ spots'[k] = spots[k + (m + 1) - 1]
                                     /\ k + (m + 1) - 1 \in DOMAIN spots
        BY <1>t, <1>o, <2>0, <2>2, PartIncreasing
      <3>3. \A k \in 1..(Len(spots) - (m + 1) + 1) : k > 0 /\ k + (m + 1) - 1 = k + m
        BY <1>t, <2>0
      <3>4. Len(spots) - (m + 1) + 1 = Len(spots) - m
        BY <1>t, <2>0
      <3> QED BY <3>1, <3>2, <3>3, <3>4
    <2>4. Below(Psk!Batch, spots')
      <3> SUFFICES ASSUME NEW i \in DOMAIN Psk!Batch, NEW j \in DOMAIN spots'
                   PROVE  Psk!Batch[i] < spots'[j]
        BY DEF Below
      <3>1. i < j + m
        BY <1>t, <2>0, <2>1, <2>3
      <3> QED BY <1>o, <2>1, <2>3, <3>1 DEF Increasing
    <2>5. Psk!InFlight' = Psk!Batch /\ flight' = <<flight'[1]>> /\ flight' # <<>>
          /\ flight'[1].described = (sentPkts < Described)
      BY <2>2 DEF Psk!InFlight
    <2>6. /\ seq' + Len(spots') = seq + Len(spots) /\ seq' \in 0..MaxSpots
          /\ Len(spots') <= MaxBuffer /\ sentPkts' \in 0..MaxPkts
      <3>1. m \in Nat /\ m <= Len(spots) /\ Len(spots) \in Nat
        BY <1>t, <2>0
      <3>2. seq' = seq + m /\ Len(spots') = Len(spots) - m /\ sentPkts' = sentPkts + 1 /\ sentPkts < MaxPkts
        BY <2>2, <2>3
      <3>3. seq + m + (Len(spots) - m) = seq + Len(spots) /\ seq + m \in 0..MaxSpots
        BY <1>a, <1>t, <3>1
      <3>4. Len(spots) - m <= MaxBuffer /\ sentPkts + 1 \in 0..MaxPkts
        BY <1>a, <1>t, <3>1, <3>2
      <3> QED BY <3>2, <3>3, <3>4
    <2>7. ReportsTyped'
      BY <1>t, <1>o, <2>1, <2>2, <2>3, <2>5, <2>6 DEF ReportsInv, ReportsTyped, Psk!TypeOK
    <2>8. InOrder'
      BY <1>o, <2>1, <2>2, <2>3, <2>4, <2>5 DEF InOrder
    <2>9. sentPkts' <= Described => flight'[1].described
      <3>1. sentPkts + 1 <= Described => sentPkts < Described
        BY <1>a, <1>t
      <3>2. sentPkts' = sentPkts + 1
        BY <2>2
      <3> QED BY <2>5, <3>1, <3>2
    <2>10. seq' + Len(spots') <= heard'
      BY <1>t, <2>2, <2>6
    <2> QED BY <2>2, <2>7, <2>8, <2>9, <2>10 DEF ReportsInv, Psk!Arrives
  <1>5. CASE Psk!Arrives \/ Psk!Lost
    <2>1. /\ flight # <<>> /\ flight' = <<>> /\ read' \in {read, read \o Psk!InFlight}
          /\ known' \in {"none", "3", "5"} /\ (~changed' => known' \in {"none", layout})
          /\ UNCHANGED <<enabled, station, layout, spots, seq, sentPkts, heard>>
      <3>1. CASE Psk!Arrives
        <4>1. /\ known' = (IF flight[1].described THEN layout ELSE known)
              /\ changed' = (changed /\ ~flight[1].described)
          BY <3>1 DEF Psk!Arrives
        <4>2. known' \in {"none", "3", "5"} /\ (~changed' => known' \in {"none", layout})
          BY <4>1 DEF ReportsInv, ReportsTyped, Psk!TypeOK
        <4> QED BY <3>1, <4>2 DEF Psk!Arrives, Psk!InFlight
      <3>2. CASE Psk!Lost
        BY <3>2 DEF Psk!Lost, ReportsInv, ReportsTyped, Psk!TypeOK
      <3> QED BY <1>5, <3>1, <3>2
    <2>2. Psk!InFlight' = <<>>
      BY <2>1 DEF Psk!InFlight
    <2>3. read' \in Seq(Nat) /\ Increasing(read') /\ Below(read', spots) /\ Upto(read', heard)
      <3>1. CASE read' = read
        BY <1>t, <1>o, <3>1
      <3>2. CASE read' = read \o Psk!InFlight
        <4>1. Increasing(read') /\ Below(read', spots)
          BY <1>t, <1>o, <3>2, JoinIncreasing, JoinBelow
        <4>2. Upto(read', heard)
          BY <1>t, <1>o, <3>2 DEF Upto
        <4> QED BY <1>t, <3>2, <4>1, <4>2
      <3> QED BY <2>1, <3>1, <3>2
    <2>4. /\ Increasing(<<>>) /\ Below(read', <<>>) /\ Below(<<>>, spots)
          /\ <<>> \in Seq(Nat) /\ Upto(<<>>, heard)
      BY DEF Increasing, Below, Upto
    <2>5. InOrder'
      BY <1>o, <2>1, <2>2, <2>3, <2>4 DEF InOrder
    <2>6. ReportsTyped'
      BY <1>t, <1>o, <2>1, <2>2, <2>3, <2>4 DEF ReportsInv, ReportsTyped, Psk!TypeOK
    <2>7. ReportsInv'
      BY <1>t, <2>1, <2>5, <2>6 DEF ReportsInv
    <2>8. ASSUME Psk!Arrives, gap' PROVE sentPkts > Described /\ (known = "none" \/ changed)
      <3>1. layout # (IF flight[1].described THEN layout ELSE known)
        BY <2>8 DEF Psk!Arrives
      <3>2. ~flight[1].described /\ layout # known
        BY <3>1
      <3>3. ~(sentPkts <= Described)
        BY <2>1, <3>2 DEF ReportsInv
      <3>4. known = "none" \/ changed
        BY <3>2 DEF ReportsInv
      <3> QED BY <1>a, <1>t, <3>3, <3>4
    <2> QED BY <2>7, <2>8
  <1> QED BY <1>1, <1>2, <1>3, <1>4, <1>5 DEF Psk!Next

LEMMA InOrderOnce ==
    ASSUME ReportsInv
    PROVE  Psk!SpotsOnce
  <1>1. /\ read \in Seq(Nat) /\ Psk!InFlight \in Seq(Nat) /\ spots \in Seq(Nat)
    BY DEF ReportsInv, ReportsTyped
  <1>2. Increasing(read \o Psk!InFlight) /\ Below(read \o Psk!InFlight, spots)
        /\ read \o Psk!InFlight \in Seq(Nat)
    BY <1>1, JoinIncreasing, JoinBelow DEF ReportsInv, InOrder
  <1>3. Increasing((read \o Psk!InFlight) \o spots)
    BY <1>1, <1>2, JoinIncreasing DEF ReportsInv, InOrder
  <1>4. Increasing(read \o Psk!InFlight \o spots)
    BY <1>3
  <1> QED BY <1>4 DEF Psk!SpotsOnce, Increasing

-----------------------------------------------------------------------------
(* The settings file (Settings)                                            *)

(* One saver at a time; between its renames there is no file in place.     *)
OneSaver ==
    /\ \A s, t \in Savers : pc[s] # "idle" /\ pc[t] # "idle" => s = t
    /\ \A s \in Savers : pc[s] = "swap" => path = Ini!None

(* What a saver is about to put in place is whole and not older than what  *)
(* is there.                                                               *)
SaverReady ==
    \A s \in Savers :
        /\ pc[s] = "write" => tmp.gen = writes[s] /\ writes[s] \in saved..mem
        /\ pc[s] \in {"close", "swap"} => tmp.keys = Whole /\ tmp.gen \in saved..mem

(* What loadConfig would return after a loss of power.                     *)
OnCard ==
    LET p == Ini!Left("path", path)
        b == Ini!Left("bak", bak)
    IN  IF p.keys = 0 /\ b.keys > p.keys THEN b ELSE p

Generations == kept <= saved /\ saved <= mem

Durable == cut = "no" /\ kept > 0 => OnCard.keys = Whole /\ OnCard.gen >= kept

FilesInv ==
    /\ OneSaver
    /\ cut # "yes" => Generations /\ SaverReady
    /\ Durable
    /\ Ini!SettingsSurvive

LEMMA FilesTyped ==
    ASSUME Ini!TypeOK
    PROVE  /\ path \in [gen : 0..MaxGen, keys : 0..Whole]
           /\ bak \in [gen : 0..MaxGen, keys : 0..Whole]
           /\ tmp \in [gen : 0..MaxGen, keys : 0..Whole]
           /\ Ini!Loaded \in [gen : 0..MaxGen, keys : 0..Whole]
  BY DEF Ini!TypeOK, Ini!File, Ini!Loaded

LEMMA SettingsTypeStep ==
    ASSUME Ini!TypeOK, Ini!Next \/ UNCHANGED settings
    PROVE  Ini!TypeOK'
  <1> USE ServicesAssumption DEF ServicesAssumption, Ini!TypeOK, Ini!File, Ini!files, Ini!savers, Ini!marks
  <1>1. CASE UNCHANGED settings
    BY <1>1 DEF settings
  <1>2. CASE Ini!Change
    BY <1>2 DEF Ini!Change
  <1>3. ASSUME NEW s \in Savers, Ini!Begin(s) PROVE Ini!TypeOK'
    BY <1>3 DEF Ini!Begin, Ini!Open
  <1>4. ASSUME NEW s \in Savers, Ini!WriteKey(s) PROVE Ini!TypeOK'
    BY <1>4 DEF Ini!WriteKey
  <1>5. ASSUME NEW s \in Savers, Ini!DiskFull(s) \/ Ini!Close(s) PROVE Ini!TypeOK'
    BY <1>5 DEF Ini!DiskFull, Ini!Close
  <1>6. ASSUME NEW s \in Savers, Ini!CloseFails(s) PROVE Ini!TypeOK'
    BY <1>6 DEF Ini!CloseFails, Ini!Unlock
  <1>7. ASSUME NEW s \in Savers, Ini!KeepOld(s) PROVE Ini!TypeOK'
    <2>0. 0 \in 0..MaxGen /\ 0 \in 0..Whole
      OBVIOUS
    <2>1. bak' \in Ini!File /\ path' \in Ini!File /\ tmp' = tmp
      BY <1>7, <2>0, FilesTyped DEF Ini!KeepOld, Ini!None
    <2>4. dirty' \subseteq {"path", "bak", "tmp"}
      BY <1>7 DEF Ini!KeepOld, Ini!Moved
    <2>2. cut' \in {"no", "risk", "yes"} /\ UNCHANGED <<mem, writes, lock, saved, kept>>
      BY <1>7 DEF Ini!KeepOld
    <2>3. /\ pc' \in [Savers -> {"idle", "write", "close", "swap"}]
          /\ lock' = {t \in Savers : pc'[t] # "idle"}
      BY <1>7 DEF Ini!KeepOld
    <2> QED BY <2>1, <2>2, <2>3, <2>4
  <1>8. ASSUME NEW s \in Savers, Ini!Swap(s) PROVE Ini!TypeOK'
    BY <1>8 DEF Ini!Swap, Ini!Unlock, Ini!Moved, Ini!None
  <1>9. ASSUME NEW s \in Savers, Ini!SwapFails(s) PROVE Ini!TypeOK'
    BY <1>9 DEF Ini!SwapFails, Ini!Unlock, Ini!Moved, Ini!None
  <1>10. CASE Ini!Flush
    BY <1>10 DEF Ini!Flush
  <1>11. CASE Ini!Restart
    BY <1>11, FilesTyped DEF Ini!Restart, Ini!Boot, Ini!Idle, Ini!Loaded
  <1>12. CASE Ini!PowerLoss
    BY <1>12 DEF Ini!PowerLoss, Ini!Boot, Ini!Idle, Ini!Loaded, Ini!Left
  <1> QED BY <1>1, <1>2, <1>3, <1>4, <1>5, <1>6, <1>7, <1>8, <1>9, <1>10, <1>11, <1>12
          DEF Ini!Next, Ini!Save

LEMMA SettingsStepInv ==
    ASSUME Ini!TypeOK, FilesInv, Ini!Next \/ UNCHANGED settings
    PROVE  FilesInv'
  <1> USE ServicesAssumption, FilesTyped
      DEF ServicesAssumption, FilesInv, OneSaver, SaverReady, OnCard, Generations, Durable,
          Ini!SettingsSurvive, Ini!Loaded, Ini!Left, Ini!TypeOK, Ini!files, Ini!savers, Ini!marks
  <1>1. CASE UNCHANGED settings
    BY <1>1 DEF settings
  <1>2. CASE Ini!Change
    BY <1>2 DEF Ini!Change
  <1>3. ASSUME NEW s \in Savers, Ini!Begin(s) PROVE FilesInv'
    BY <1>3 DEF Ini!Begin, Ini!Open
  <1>4. ASSUME NEW s \in Savers, Ini!WriteKey(s) PROVE FilesInv'
    BY <1>4 DEF Ini!WriteKey
  <1>5. ASSUME NEW s \in Savers, Ini!DiskFull(s) \/ Ini!Close(s) PROVE FilesInv'
    BY <1>5 DEF Ini!DiskFull, Ini!Close
  <1>6. ASSUME NEW s \in Savers, Ini!CloseFails(s) PROVE FilesInv'
    BY <1>6 DEF Ini!CloseFails, Ini!Unlock
  <1>7. ASSUME NEW s \in Savers, Ini!KeepOld(s) PROVE FilesInv'
    <2>1. /\ OneSaver' /\ (cut' # "yes" => Generations' /\ SaverReady')
      BY <1>7 DEF Ini!KeepOld, Ini!None
    <2>2. CASE path = Ini!None
      BY <1>7, <2>1, <2>2 DEF Ini!KeepOld, Ini!None
    <2>3. CASE path # Ini!None
      <3>1. /\ bak' = path /\ path' = Ini!None /\ dirty' = Ini!Moved("path", "bak")
            /\ saved' = saved /\ kept' = kept
            /\ cut' # "yes" => cut # "yes" /\ path.keys = Whole
            /\ cut' = "no" => cut = "no" /\ "path" \notin dirty
        BY <1>7, <2>3 DEF Ini!KeepOld
      <3>2. cut' # "yes" => Ini!Loaded = path /\ Ini!Loaded' = path
        BY <3>1 DEF Ini!None
      <3>3. cut' = "no" => OnCard = path /\ OnCard' = path
        BY <3>1 DEF Ini!None, Ini!Moved
      <3>4. Durable' /\ Ini!SettingsSurvive'
        BY <3>1, <3>2, <3>3
      <3> QED BY <2>1, <3>4
    <2> QED BY <2>2, <2>3
  <1>8. ASSUME NEW s \in Savers, Ini!Swap(s) PROVE FilesInv'
    <2>1. /\ path = Ini!None /\ path' = tmp /\ bak' = bak /\ dirty' = Ini!Moved("tmp", "path")
          /\ saved' = tmp.gen /\ kept' = kept /\ cut' = cut /\ mem' = mem
          /\ cut # "yes" => tmp.keys = Whole /\ tmp.gen \in saved..mem
      BY <1>8 DEF Ini!Swap
    <2>2. OneSaver' /\ (cut # "yes" => SaverReady')
      BY <1>8 DEF Ini!Swap, Ini!Unlock
    <2>3. cut # "yes" => Ini!Loaded' = tmp
      BY <2>1
    <2>4. cut = "no" /\ kept > 0 => OnCard' = IF "tmp" \in dirty THEN OnCard ELSE tmp
      <3>1. /\ Ini!Left("path", path) = path /\ path.keys = 0
            /\ Ini!Left("bak", bak)' = Ini!Left("bak", bak)
            /\ Ini!Left("path", path)' = IF "tmp" \in dirty THEN [tmp EXCEPT !.keys = 0] ELSE tmp
        BY <2>1 DEF Ini!None, Ini!Moved
      <3>2. cut = "no" /\ kept > 0 => OnCard = Ini!Left("bak", bak) /\ OnCard.keys = Whole
        BY <3>1
      <3> QED BY <2>1, <3>1, <3>2
    <2> QED BY <2>1, <2>2, <2>3, <2>4
  <1>9. ASSUME NEW s \in Savers, Ini!SwapFails(s) PROVE FilesInv'
    BY <1>9 DEF Ini!SwapFails, Ini!Unlock, Ini!Moved, Ini!None
  <1>10. CASE Ini!Flush
    BY <1>10 DEF Ini!Flush
  <1>11. CASE Ini!Restart
    BY <1>11 DEF Ini!Restart, Ini!Boot, Ini!Idle
  <1>12. CASE Ini!PowerLoss
    BY <1>12 DEF Ini!PowerLoss, Ini!Boot, Ini!Idle
  <1> QED BY <1>1, <1>2, <1>3, <1>4, <1>5, <1>6, <1>7, <1>8, <1>9, <1>10, <1>11, <1>12
          DEF Ini!Next, Ini!Save

-----------------------------------------------------------------------------
(* The APRS traffic (AprsTraffic)                                          *)

(* The stamp is no older than the beacon it announces, and a beacon of the *)
(* loop goes out when the last one is more than a minute old, unless the   *)
(* web page's goes out first.                                              *)
BeaconInv ==
    /\ txAge >= lastBeacon
    /\ "send" \in {loop, web} => lastBeacon = 0
    /\ loop = "send" => txRaced \/ txAge > Minute
    /\ txRaced \/ apart > Minute

(* The frames gated in the minute that runs, and those before it.          *)
Young == {g \in gates : g[2] <= gateMinute}
Elder == {g \in gates : g[2] > gateMinute}

GateInv ==
    /\ IsFiniteSet(gates) /\ gates \subseteq (Stations \ {Own}) \X (0..(Minute - 1))
    /\ \A g \in gates : gateLast[g[1]] <= g[2] /\ (g[2] = 0 => gateMinute < Minute)
    /\ \A g, h \in gates : g[1] = h[1] /\ g # h => g[2] + Guard <= h[2] \/ h[2] + Guard <= g[2]
    /\ Cardinality(Young) <= gateCount /\ Cardinality(Elder) <= Limit

TrafficInv == Aprs!TypeOK /\ BeaconInv /\ GateInv

LEMMA Minutes ==
    /\ Guard \in Nat \ {0} /\ Minute \in Nat \ {0} /\ Limit \in Nat \ {0} /\ Old \in Nat \ {0}
    /\ Minute <= 2 * Guard /\ Minute < Old
    /\ \A i \in 1..5 : Aprs!Intervals[i + 1] >= Minute
  <1>1. /\ Guard \in Nat \ {0} /\ Minute \in Nat \ {0} /\ Limit \in Nat \ {0} /\ Old \in Nat \ {0}
        /\ Minute <= 2 * Guard /\ Minute < Old
    BY ServicesAssumption DEF ServicesAssumption
  <1>2. ASSUME NEW i \in 1..5 PROVE Aprs!Intervals[i + 1] >= Minute
    <2>1. i \in {1, 2, 3, 4, 5}
      OBVIOUS
    <2> QED BY <1>1, <2>1 DEF Aprs!Intervals
  <1> QED BY <1>1, <1>2

LEMMA TrafficTypeStep ==
    ASSUME Aprs!TypeOK, Aprs!Next \/ UNCHANGED traffic
    PROVE  Aprs!TypeOK'
  <1>m. /\ Guard \in Nat /\ Minute \in Nat /\ Limit \in Nat \ {0} /\ Old \in Nat \ {0}
    BY Minutes
  <1>t. /\ igate \in BOOLEAN /\ playing \in BOOLEAN /\ txRaced \in BOOLEAN /\ crashed \in BOOLEAN
        /\ gateLast \in [Stations -> 0..Old] /\ gateCount \in 0..Limit
        /\ gateMinute \in 0..Old /\ lastBeacon \in 0..Old /\ txAge \in 0..Old /\ apart \in 0..Old
        /\ idx \in 0..6 /\ loop \in {"idle", "send"} /\ web \in {"idle", "send"}
    BY DEF Aprs!TypeOK, Aprs!Smart
  <1>o. \A a \in 0..Old : Aprs!Older(a) \in 0..Old
    BY <1>m DEF Aprs!Older
  <1>0. Old \in 0..Old /\ 0 \in 0..Old /\ {} \subseteq Nat
    BY <1>m
  <1>p. ASSUME NEW who, Aprs!Plays(who)
        PROVE  playing' \in BOOLEAN /\ txRaced' \in BOOLEAN /\ txAge' \in 0..Old /\ apart' \in 0..Old
    BY <1>t, <1>0, <1>p DEF Aprs!Plays
  <1>s. ASSUME /\ igate' \in BOOLEAN /\ playing' \in BOOLEAN /\ txRaced' \in BOOLEAN /\ crashed' \in BOOLEAN
               /\ gateLast' \in [Stations -> 0..Old] /\ gateCount' \in 0..Limit
               /\ gateMinute' \in 0..Old /\ lastBeacon' \in 0..Old /\ txAge' \in 0..Old /\ apart' \in 0..Old
               /\ idx' \in 0..6 /\ loop' \in {"idle", "send"} /\ web' \in {"idle", "send"}
        PROVE  Aprs!TypeOK'
    BY <1>s DEF Aprs!TypeOK, Aprs!Smart
  <1>1. CASE UNCHANGED traffic
    BY <1>t, <1>s, <1>1 DEF traffic
  <1>2. CASE Aprs!Tick
    BY <1>t, <1>s, <1>o, <1>2 DEF Aprs!Tick
  <1>3. CASE Aprs!SetIgate
    BY <1>t, <1>s, <1>3 DEF Aprs!SetIgate, Aprs!beacon
  <1>4. ASSUME NEW s \in Stations, NEW net \in BOOLEAN, Aprs!Heard(s, net) PROVE Aprs!TypeOK'
    <2>1. /\ igate' \in BOOLEAN /\ playing' \in BOOLEAN /\ txRaced' \in BOOLEAN /\ crashed' \in BOOLEAN
          /\ lastBeacon' \in 0..Old /\ txAge' \in 0..Old /\ apart' \in 0..Old
          /\ idx' \in 0..6 /\ loop' \in {"idle", "send"} /\ web' \in {"idle", "send"}
      BY <1>t, <1>4 DEF Aprs!Heard, Aprs!beacon
    <2>2. gateLast' \in [Stations -> 0..Old]
      BY <1>t, <1>0, <1>4 DEF Aprs!Heard
    <2>3. gateMinute' \in 0..Old
      BY <1>t, <1>0, <1>4 DEF Aprs!Heard
    <2>4. gateCount' \in 0..Limit
      BY <1>t, <1>m, <1>4 DEF Aprs!Heard
    <2> QED BY <1>s, <2>1, <2>2, <2>3, <2>4
  <1>5. CASE Aprs!SetBeacon
    BY <1>t, <1>s, <1>5 DEF Aprs!SetBeacon, Aprs!gate, Aprs!Smart
  <1>6. CASE Aprs!Due \/ Aprs!DueSmart
    BY <1>t, <1>0, <1>s, <1>6 DEF Aprs!Due, Aprs!DueSmart, Aprs!gate, Aprs!beacon
  <1>7. CASE Aprs!Send \/ Aprs!Now \/ Aprs!WebSends
    BY <1>t, <1>0, <1>s, <1>p, <1>7 DEF Aprs!Send, Aprs!Now, Aprs!WebSends, Aprs!gate
  <1>8. CASE Aprs!WebNow \/ Aprs!PlayEnds
    BY <1>t, <1>0, <1>s, <1>8 DEF Aprs!WebNow, Aprs!PlayEnds, Aprs!gate
  <1> QED BY <1>1, <1>2, <1>3, <1>4, <1>5, <1>6, <1>7, <1>8 DEF Aprs!Next, Aprs!Gating, Aprs!Beaconing

LEMMA BeaconKept ==
    ASSUME Aprs!TypeOK, BeaconInv, Aprs!Next \/ UNCHANGED traffic
    PROVE  BeaconInv'
  <1>m. Minute \in Nat \ {0} /\ Old \in Nat /\ Minute < Old /\ \A i \in 1..5 : Aprs!Intervals[i + 1] >= Minute
    BY Minutes
  <1>t. /\ lastBeacon \in 0..Old /\ txAge \in 0..Old /\ apart \in 0..Old
        /\ txRaced \in BOOLEAN /\ loop \in {"idle", "send"} /\ web \in {"idle", "send"}
    BY DEF Aprs!TypeOK
  <1>1. CASE UNCHANGED traffic
    BY <1>1 DEF BeaconInv, traffic
  <1>2. CASE Aprs!Tick
    BY <1>m, <1>t, <1>2 DEF Aprs!Tick, Aprs!Older, BeaconInv
  <1>3. CASE Aprs!SetIgate
    BY <1>3 DEF Aprs!SetIgate, Aprs!beacon, BeaconInv
  <1>4. ASSUME NEW s \in Stations, NEW net \in BOOLEAN, Aprs!Heard(s, net) PROVE BeaconInv'
    BY <1>4 DEF Aprs!Heard, Aprs!beacon, BeaconInv
  <1>5. CASE Aprs!SetBeacon
    BY <1>5 DEF Aprs!SetBeacon, Aprs!gate, BeaconInv
  <1>6. CASE Aprs!Due
    <2>1. lastBeacon > Minute
      <3>1. \A n \in {0, Minute, 2 * Minute, 5 * Minute, 10 * Minute, 30 * Minute} : n \in Nat
        BY <1>m
      <3>2. idx \in 1..5 /\ lastBeacon > Aprs!Intervals[idx + 1]
        BY <1>6 DEF Aprs!Due
      <3>3. Aprs!Intervals[idx + 1] \in Nat
        <4>1. idx \in {1, 2, 3, 4, 5}
          BY <3>2
        <4> QED BY <1>m, <4>1 DEF Aprs!Intervals
      <3> QED BY <1>m, <1>t, <3>2, <3>3
    <2> QED BY <1>m, <1>t, <1>6, <2>1 DEF Aprs!Due, BeaconInv
  <1>7. CASE Aprs!DueSmart
    BY <1>7 DEF Aprs!DueSmart, Aprs!beacon, BeaconInv
  <1>8. CASE Aprs!Send
    BY <1>m, <1>t, <1>8 DEF Aprs!Send, Aprs!Plays, BeaconInv
  <1>9. CASE Aprs!Now
    BY <1>m, <1>t, <1>9 DEF Aprs!Now, Aprs!Plays, BeaconInv
  <1>10. CASE Aprs!WebNow
    BY <1>m, <1>t, <1>10 DEF Aprs!WebNow, BeaconInv
  <1>11. CASE Aprs!WebSends
    <2>1. /\ web' = "idle" /\ loop' = loop /\ lastBeacon' = lastBeacon /\ txAge' = 0 /\ web = "send"
          /\ apart' = Old /\ txRaced' = (txRaced \/ {loop, web} = {"send"})
      BY <1>11 DEF Aprs!WebSends, Aprs!Plays
    <2>2. loop = "send" => txRaced'
      <3>1. loop = "send" => {loop, web} = {"send"}
        BY <2>1
      <3> QED BY <2>1, <3>1
    <2>3. lastBeacon = 0
      BY <2>1 DEF BeaconInv
    <2>4. "send" \in {loop', web'} => loop = "send"
      BY <2>1
    <2> QED BY <1>m, <1>t, <2>1, <2>2, <2>3, <2>4 DEF BeaconInv
  <1>12. CASE Aprs!PlayEnds
    BY <1>t, <1>12 DEF Aprs!PlayEnds, BeaconInv
  <1> QED BY <1>1, <1>2, <1>3, <1>4, <1>5, <1>6, <1>7, <1>8, <1>9, <1>10, <1>11, <1>12
          DEF Aprs!Next, Aprs!Gating, Aprs!Beaconing

\* A tick later there are no more frames than before.
LEMMA Shifted ==
    ASSUME NEW S, NEW T, IsFiniteSet(T), T \subseteq Stations \X Nat,
           \A g \in S : \E f \in T : g = <<f[1], f[2] + 1>>
    PROVE  IsFiniteSet(S) /\ Cardinality(S) <= Cardinality(T)
  <1> DEFINE Before == [g \in S |-> <<g[1], g[2] - 1>>]
  <1>1. \A g \in S : g[2] \in Nat /\ g = <<g[1], g[2]>> /\ <<g[1], g[2] - 1>> \in T
    <2> SUFFICES ASSUME NEW g \in S
                 PROVE  g[2] \in Nat /\ g = <<g[1], g[2]>> /\ <<g[1], g[2] - 1>> \in T
      OBVIOUS
    <2>1. PICK f \in T : g = <<f[1], f[2] + 1>>
      OBVIOUS
    <2>2. f = <<f[1], f[2]>> /\ f[2] \in Nat
      OBVIOUS
    <2>3. g[2] = f[2] + 1 /\ g[1] = f[1] /\ f[2] + 1 - 1 = f[2]
      BY <2>1, <2>2
    <2> QED BY <2>1, <2>2, <2>3
  <1>2. Before \in [S -> T]
    BY <1>1
  <1>3. ASSUME NEW g \in S, NEW h \in S, Before[g] = Before[h] PROVE g = h
    <2>1. g[1] = h[1] /\ g[2] - 1 = h[2] - 1
      BY <1>3
    <2>2. g[2] = h[2]
      BY <1>1, <2>1
    <2> QED BY <1>1, <2>1, <2>2
  <1>4. Before \in Injection(S, T)
    BY <1>2, <1>3 DEF Injection, IsInjective
  <1> QED BY <1>4, FS_Injection

LEMMA GateKept ==
    ASSUME Aprs!TypeOK, GateInv, Aprs!Next \/ UNCHANGED traffic
    PROVE  GateInv'
  <1>m. /\ Guard \in Nat \ {0} /\ Minute \in Nat \ {0} /\ Limit \in Nat \ {0} /\ Old \in Nat \ {0}
        /\ Minute < Old
    BY Minutes
  <1>t. gateLast \in [Stations -> 0..Old] /\ gateCount \in 0..Limit /\ gateMinute \in 0..Old
    BY DEF Aprs!TypeOK
  <1>g. /\ \A g \in gates : /\ g = <<g[1], g[2]>> /\ g[1] \in Stations /\ g[1] # Own
                            /\ g[2] \in Nat /\ g[2] < Minute /\ gateLast[g[1]] <= g[2]
                            /\ gateLast[g[1]] \in Nat /\ (g[2] = 0 => gateMinute < Minute)
        /\ gateMinute \in Nat /\ gateCount \in Nat
    BY <1>m, <1>t DEF GateInv
  <1>f. /\ IsFiniteSet(gates) /\ IsFiniteSet(Young) /\ IsFiniteSet(Elder)
        /\ Cardinality(Young) \in Nat /\ Cardinality(Elder) \in Nat
    <2>1. Young \in SUBSET gates /\ Elder \in SUBSET gates
      BY DEF Young, Elder
    <2>2. IsFiniteSet(gates)
      BY DEF GateInv
    <2>3. IsFiniteSet(Young) /\ IsFiniteSet(Elder)
      BY <2>1, <2>2, FS_Subset
    <2> QED BY <2>2, <2>3, FS_CardinalityType
  <1>0. ASSUME UNCHANGED <<gateLast, gateMinute, gateCount, gates>> PROVE GateInv'
    BY <1>0 DEF GateInv, Young, Elder
  <1>1. CASE Aprs!Tick
    <2>1. /\ gates' = {<<g[1], g[2] + 1>> : g \in {f \in gates : f[2] + 1 < Minute}}
          /\ gateLast' = [s \in Stations |-> Aprs!Older(gateLast[s])]
          /\ gateMinute' = Aprs!Older(gateMinute) /\ gateCount' = gateCount
      BY <1>1 DEF Aprs!Tick
    <2>2. \A g \in gates' : \E f \in gates : g = <<f[1], f[2] + 1>> /\ f[2] + 1 < Minute
      BY <2>1
    <2>3. gates \subseteq Stations \X Nat
      BY <1>g
    <2>4. IsFiniteSet(gates')
      BY <1>f, <2>2, <2>3, Shifted
    <2>5. gates' \subseteq (Stations \ {Own}) \X (0..(Minute - 1))
      BY <1>g, <1>m, <2>2
    <2>6. \A g \in gates' : gateLast'[g[1]] <= g[2] /\ g[2] # 0
      BY <1>g, <1>m, <2>1, <2>2 DEF Aprs!Older
    <2>7. \A g, h \in gates' : g[1] = h[1] /\ g # h => g[2] + Guard <= h[2] \/ h[2] + Guard <= g[2]
      <3> SUFFICES ASSUME NEW g \in gates', NEW h \in gates', g[1] = h[1], g # h
                   PROVE  g[2] + Guard <= h[2] \/ h[2] + Guard <= g[2]
        OBVIOUS
      <3>1. PICK f \in gates : g = <<f[1], f[2] + 1>>
        BY <2>2
      <3>2. PICK e \in gates : h = <<e[1], e[2] + 1>>
        BY <2>2
      <3>3. f[1] = e[1] /\ f # e
        BY <3>1, <3>2
      <3>4. f[2] + Guard <= e[2] \/ e[2] + Guard <= f[2]
        BY <3>3 DEF GateInv
      <3> QED BY <1>g, <1>m, <3>1, <3>2, <3>4
    <2>8. \A g \in Young' : \E f \in Young : g = <<f[1], f[2] + 1>>
      BY <1>g, <1>m, <2>1, <2>2 DEF Young, Aprs!Older
    <2>9. \A g \in Elder' : \E f \in Elder : g = <<f[1], f[2] + 1>>
      BY <1>g, <1>m, <2>1, <2>2 DEF Elder, Aprs!Older
    <2>10. Young \subseteq Stations \X Nat /\ Elder \subseteq Stations \X Nat
      BY <2>3 DEF Young, Elder
    <2>11. Cardinality(Young') <= Cardinality(Young) /\ IsFiniteSet(Young')
      BY <1>f, <2>8, <2>10, Shifted
    <2>12. Cardinality(Elder') <= Cardinality(Elder) /\ IsFiniteSet(Elder')
      BY <1>f, <2>9, <2>10, Shifted
    <2>13. Cardinality(Young') \in Nat /\ Cardinality(Elder') \in Nat
      BY <2>11, <2>12, FS_CardinalityType
    <2>14. Cardinality(Young') <= gateCount' /\ Cardinality(Elder') <= Limit
      BY <1>f, <1>g, <1>m, <2>1, <2>11, <2>12, <2>13 DEF GateInv
    <2> QED BY <2>4, <2>5, <2>6, <2>7, <2>14 DEF GateInv
  <1>2. ASSUME NEW s \in Stations, NEW net \in BOOLEAN, Aprs!Heard(s, net) PROVE GateInv'
    <2>1. s # Own /\ gateLast[s] >= Guard
      BY <1>2 DEF Aprs!Heard, Aprs!Passes
    <2>2. CASE ~(gateMinute >= Minute) /\ gateCount >= Limit
      BY <1>0, <1>2, <2>2 DEF Aprs!Heard
    <2>3. CASE gateMinute >= Minute \/ ~(gateCount >= Limit)
      <3>1. /\ gateLast' = [gateLast EXCEPT ![s] = 0] /\ gates' = gates \cup {<<s, 0>>}
            /\ gateMinute' = (IF gateMinute >= Minute THEN 0 ELSE gateMinute)
            /\ gateCount' = (IF gateMinute >= Minute THEN 1 ELSE gateCount + 1)
        BY <1>2, <1>m, <2>3 DEF Aprs!Heard
      <3>2. IsFiniteSet(gates')
        BY <1>f, <3>1, FS_AddElement
      <3>3. gates' \subseteq (Stations \ {Own}) \X (0..(Minute - 1))
        BY <1>g, <1>m, <2>1, <3>1
      <3>4. \A g \in gates' : gateLast'[g[1]] <= g[2] /\ (g[2] = 0 => gateMinute' < Minute)
        BY <1>g, <1>m, <1>t, <3>1
      <3>5. \A g \in gates : g[1] = s => Guard <= g[2]
        BY <1>g, <1>m, <2>1
      <3>6. \A g, h \in gates' : g[1] = h[1] /\ g # h => g[2] + Guard <= h[2] \/ h[2] + Guard <= g[2]
        <4> SUFFICES ASSUME NEW g \in gates', NEW h \in gates', g[1] = h[1], g # h
                     PROVE  g[2] + Guard <= h[2] \/ h[2] + Guard <= g[2]
          OBVIOUS
        <4>1. CASE g \in gates /\ h \in gates
          BY <4>1 DEF GateInv
        <4>2. CASE g = <<s, 0>> /\ h \in gates
          BY <1>m, <3>5, <4>2
        <4>3. CASE h = <<s, 0>> /\ g \in gates
          BY <1>m, <3>5, <4>3
        <4> QED BY <3>1, <4>1, <4>2, <4>3
      <3>7. Cardinality(Young') <= gateCount' /\ Cardinality(Elder') <= Limit
        <4>1. CASE gateMinute >= Minute
          <5>1. Young' = {<<s, 0>>}
            BY <1>g, <1>m, <3>1, <4>1 DEF Young
          <5>2. Elder' = Young
            BY <1>g, <1>m, <3>1, <4>1 DEF Young, Elder
          <5>3. Cardinality(Young') = 1
            BY <5>1, FS_Singleton
          <5>4. Cardinality(Young) <= gateCount /\ gateCount <= Limit
            BY <1>t, <1>m DEF GateInv
          <5>5. Cardinality(Young) <= Limit
            BY <1>f, <1>g, <1>m, <5>4
          <5> QED BY <3>1, <4>1, <5>2, <5>3, <5>5
        <4>2. CASE ~(gateMinute >= Minute)
          <5>1. Young' = Young \cup {<<s, 0>>}
            BY <1>g, <1>m, <3>1, <4>2 DEF Young
          <5>2. Elder' = Elder
            BY <1>g, <1>m, <3>1, <4>2 DEF Elder
          <5>3. Cardinality(Young') <= Cardinality(Young) + 1
            <6>1. Cardinality(Young') = IF <<s, 0>> \in Young THEN Cardinality(Young)
                                        ELSE Cardinality(Young) + 1
              BY <1>f, <5>1, FS_AddElement
            <6> QED BY <1>f, <6>1
          <5>4. Cardinality(Young') \in Nat
            BY <1>f, <5>1, FS_AddElement, FS_CardinalityType
          <5>5. Cardinality(Young) <= gateCount
            BY DEF GateInv
          <5>6. Cardinality(Young') <= gateCount + 1
            BY <1>f, <1>g, <5>3, <5>4, <5>5
          <5> QED BY <3>1, <4>2, <5>2, <5>6 DEF GateInv
        <4> QED BY <4>1, <4>2
      <3> QED BY <3>2, <3>3, <3>4, <3>6, <3>7 DEF GateInv
    <2> QED BY <2>2, <2>3
  <1>3. CASE Aprs!SetIgate
    BY <1>0, <1>3 DEF Aprs!SetIgate
  <1>4. CASE UNCHANGED traffic
    BY <1>0, <1>4 DEF traffic
  <1>5. CASE UNCHANGED Aprs!gate
    BY <1>0, <1>5 DEF Aprs!gate
  <1>6. Aprs!Beaconing => Aprs!Tick \/ UNCHANGED Aprs!gate
    BY DEF Aprs!Beaconing, Aprs!SetBeacon, Aprs!Due, Aprs!DueSmart, Aprs!Send, Aprs!Now,
           Aprs!WebNow, Aprs!WebSends, Aprs!PlayEnds
  <1> QED BY <1>1, <1>2, <1>3, <1>4, <1>5, <1>6 DEF Aprs!Next, Aprs!Gating

LEMMA GateBound ==
    ASSUME Aprs!TypeOK, GateInv
    PROVE  Aprs!GateHolds
  <1>m. /\ Guard \in Nat \ {0} /\ Minute \in Nat \ {0} /\ Limit \in Nat \ {0} /\ Old \in Nat \ {0}
        /\ Minute <= 2 * Guard
    BY Minutes
  <1>g. /\ \A g \in gates : /\ g = <<g[1], g[2]>> /\ g[1] \in Stations /\ g[1] # Own
                            /\ g[2] \in Nat /\ g[2] < Minute
        /\ gateMinute \in Nat /\ gateCount \in Nat /\ gateCount <= Limit
    BY <1>m DEF GateInv, Aprs!TypeOK
  <1>f. /\ IsFiniteSet(gates) /\ IsFiniteSet(Young) /\ IsFiniteSet(Elder)
        /\ Cardinality(Young) \in Nat /\ Cardinality(Elder) \in Nat
    <2>1. Young \in SUBSET gates /\ Elder \in SUBSET gates
      BY DEF Young, Elder
    <2>2. IsFiniteSet(gates)
      BY DEF GateInv
    <2>3. IsFiniteSet(Young) /\ IsFiniteSet(Elder)
      BY <2>1, <2>2, FS_Subset
    <2> QED BY <2>2, <2>3, FS_CardinalityType
  <1>1. Cardinality(gates) <= 2 * Limit
    <2>1. Young \cap Elder = {} /\ gates = Young \cup Elder
      BY <1>g DEF Young, Elder
    <2>2. Cardinality(gates) = Cardinality(Young) + Cardinality(Elder) - Cardinality(Young \cap Elder)
      BY <1>f, <2>1, FS_Union
    <2>3. Cardinality(Young \cap Elder) = 0
      BY <2>1, FS_EmptySet
    <2>4. Cardinality(Young) <= gateCount /\ Cardinality(Elder) <= Limit
      BY DEF GateInv
    <2> QED BY <1>f, <1>g, <1>m, <2>2, <2>3, <2>4
  <1>2. Cardinality(Aprs!Of(Own)) <= 0
    <2>1. Aprs!Of(Own) = {}
      BY <1>g DEF Aprs!Of
    <2> QED BY <2>1, FS_EmptySet
  <1>3. ASSUME NEW s \in Stations PROVE Cardinality(Aprs!Of(s)) <= 2
    <2>1. CASE Aprs!Of(s) = {}
      BY <2>1, FS_EmptySet
    <2>2. ASSUME NEW g \in Aprs!Of(s) PROVE Cardinality(Aprs!Of(s)) <= 2
      <3>1. CASE Aprs!Of(s) = {g}
        BY <3>1, FS_Singleton
      <3>2. ASSUME NEW h \in Aprs!Of(s), h # g PROVE Cardinality(Aprs!Of(s)) <= 2
        <4>1. ASSUME NEW e \in Aprs!Of(s) PROVE e \in {g, h}
          <5>1. /\ g \in gates /\ h \in gates /\ e \in gates
                /\ g[1] = s /\ h[1] = s /\ e[1] = s
            BY DEF Aprs!Of
          <5>2. SUFFICES ASSUME e # g, e # h PROVE FALSE
            OBVIOUS
          <5>3. /\ g[2] + Guard <= h[2] \/ h[2] + Guard <= g[2]
                /\ g[2] + Guard <= e[2] \/ e[2] + Guard <= g[2]
                /\ h[2] + Guard <= e[2] \/ e[2] + Guard <= h[2]
            BY <3>2, <5>1, <5>2 DEF GateInv
          <5>4. /\ g[2] \in Nat /\ h[2] \in Nat /\ e[2] \in Nat
                /\ g[2] < Minute /\ h[2] < Minute /\ e[2] < Minute
            BY <1>g, <5>1
          <5> QED BY <1>m, <5>3, <5>4
        <4>2. Aprs!Of(s) = {g, h}
          BY <3>2, <4>1
        <4>3. IsFiniteSet({g}) /\ Cardinality({g}) = 1
          BY FS_Singleton
        <4>4. Cardinality({g} \cup {h}) = 2
          BY <3>2, <4>3, FS_AddElement
        <4>5. {g} \cup {h} = {g, h}
          OBVIOUS
        <4> QED BY <4>2, <4>4, <4>5
      <3> QED BY <3>1, <3>2, <2>2
    <2> QED BY <2>1, <2>2
  <1>4. \A s \in Stations : Cardinality(Aprs!Of(s)) <= IF s = Own THEN 0 ELSE 2
    <2> TAKE s \in Stations
    <2>1. CASE s = Own
      BY <1>2, <2>1
    <2>2. CASE s # Own
      BY <1>3, <2>2
    <2> QED BY <2>1, <2>2
  <1> QED BY <1>1, <1>4 DEF Aprs!GateHolds, Aprs!Cardinality, Cardinality

-----------------------------------------------------------------------------
(* The screens (Menu)                                                      *)

(* The keyboard is open for an entry of a list, which it finds as long as  *)
(* it was (or has room for it), or for a row of a page.                    *)
KbOpen ==
    ui = "kb" =>
        \/ /\ target[1] \in Lists /\ cur < Console!Count(target[1])
           /\ target[1] # "bm" =>
                 (editIdx \in 0..(len[target[1]] - 1) \/ len[target[1]] < MaxLen)
           /\ target = <<target[1]>>
        \/ /\ target[1] \in DOMAIN Console!Rows \ Lists
           /\ target[2] \in 0..(Console!Rows[target[1]] - 1)

KbInRange == kbR \in 0..3 /\ kbC \in 0..(KbRow[kbR + 1] - 1)

ScreensInv ==
    Console!TypeOK /\ Console!RowsInRange /\ Console!EditsItsEntry /\ KbOpen /\ KbInRange

LEMMA Turned ==
    ASSUME NEW n \in Nat \ {0}, NEW i \in Nat
    PROVE  i % n \in 0..(n - 1)
  OBVIOUS

LEMMA RowsPositive == \A p \in DOMAIN Console!Rows : Console!Rows[p] \in Nat \ {0}
  BY DEF Console!Rows

LEMMA RowsOf ==
    /\ DOMAIN Console!Rows = {"root", "rx", "audio", "disp", "adsb", "gps", "aprs", "ft8",
                              "station", "sys", "ft8sub"}
    /\ Console!Rows["root"] = 11 /\ Console!Rows["ft8"] = 15
  BY DEF Console!Rows

LEMMA Closing ==
    DOMAIN Console!ClosesTo = {"bm", "beast", "ais", "radar", "aislog", "aprslog", "rtty", "sstv",
                               "map", "sysmon", "logs", "bands"}
  BY DEF Console!ClosesTo

LEMMA ClosesToRow ==
    \A s \in DOMAIN Console!ClosesTo :
        /\ Console!ClosesTo[s][1] \in DOMAIN Console!Rows
        /\ Console!ClosesTo[s][2] \in 0..(Console!Rows[Console!ClosesTo[s][1]] - 1)
  BY DEF Console!Rows, Console!ClosesTo

LEMMA KbRows ==
    \A p \in DOMAIN Console!Opens : \A i :
        <<i, "kb">> \in Console!Opens[p] =>
            p \in DOMAIN Console!Rows \ Lists /\ i \in 0..(Console!Rows[p] - 1)
  BY ServicesAssumption DEF ServicesAssumption, Console!Rows, Console!Opens

LEMMA ScreensStep ==
    ASSUME ScreensInv, Console!Next \/ UNCHANGED screens
    PROVE  ScreensInv'
  <1> USE ServicesAssumption, RowsPositive, Closing
      DEF ServicesAssumption, ScreensInv, KbOpen, KbInRange, Console!TypeOK, Console!RowsInRange,
          Console!EditsItsEntry, Console!Count, Console!Lead,
          Console!menu, Console!lists, Console!kb, Console!To, Console!Done
  <1>1. CASE UNCHANGED screens
    BY <1>1 DEF screens
  <1>2. CASE Console!MenuTap
    BY <1>2 DEF Console!MenuTap
  <1>3. CASE Console!MenuMove
    <2>1. PICK d \in {1, Console!Rows[page] - 1} : sel' = (sel + d) % Console!Rows[page]
      BY <1>3 DEF Console!MenuMove
    <2>2. Console!Rows[page] \in Nat \ {0} /\ sel + d \in Nat
      BY <2>1, RowsPositive
    <2>3. sel' \in 0..(Console!Rows[page] - 1)
      BY <2>1, <2>2, Turned
    <2> QED BY <1>3, <2>3 DEF Console!MenuMove
  <1>4. CASE Console!MenuOpen \/ Console!MenuBack
    BY <1>4, RowsOf DEF Console!MenuOpen, Console!MenuBack, Console!OpenPage, Console!OpenPageAt, Console!Pages
  <1>5. CASE Console!OpenScreen
    BY <1>5 DEF Console!OpenScreen
  <1>6. CASE Console!Close
    <2>1. page' \in DOMAIN Console!Rows /\ sel' \in 0..(Console!Rows[page'] - 1)
      BY <1>6, ClosesToRow DEF Console!Close
    <2> QED BY <1>6, <2>1 DEF Console!Close
  <1>7. CASE Console!Leave \/ Console!Logs
    BY <1>7 DEF Console!Leave, Console!Logs
  <1>8. CASE Console!ListMove
    BY <1>8, Turned DEF Console!ListMove
  <1>9. CASE Console!Choose
    BY <1>9, ClosesToRow DEF Console!Choose
  <1>10. CASE Console!AddBookmark
    BY <1>10 DEF Console!AddBookmark, Console!OnLast
  <1>11. CASE Console!Add
    BY <1>11 DEF Console!Add, Console!OnLast, Console!OpenKb
  <1>12. CASE Console!Edit
    BY <1>12 DEF Console!Edit, Console!OnEntry, Console!OpenKb
  <1>13. CASE Console!EditSetting
    <2>1. page \in DOMAIN Console!Rows \ Lists /\ sel \in 0..(Console!Rows[page] - 1)
      BY <1>13, KbRows DEF Console!EditSetting
    <2> QED BY <1>13, <2>1 DEF Console!EditSetting, Console!OpenKb
  <1>14. CASE Console!Delete
    BY <1>14 DEF Console!Delete, Console!OnEntry
  <1>15. CASE Console!KbMove
    BY <1>15, Turned DEF Console!KbMove
  <1>16. ASSUME NEW text \in BOOLEAN, Console!SaveEntry(text) PROVE ScreensInv'
    BY <1>16 DEF Console!SaveEntry
  <1>17. CASE Console!SaveOther
    BY <1>17 DEF Console!SaveOther
  <1> QED BY <1>1, <1>2, <1>3, <1>4, <1>5, <1>6, <1>7, <1>8, <1>9, <1>10, <1>11, <1>12, <1>13,
             <1>14, <1>15, <1>16, <1>17 DEF Console!Next

-----------------------------------------------------------------------------
(* The parts together                                                      *)

\* Every part keeps its invariant, the one that runs and those that rest.
PartsInv ==
    /\ FramerInv /\ PairInv /\ ReportsInv
    /\ Ini!TypeOK /\ FilesInv
    /\ TrafficInv /\ ScreensInv

LEMMA PartsInit ==
    AllInit => PartsInv
  <1> SUFFICES ASSUME AllInit PROVE PartsInv
    OBVIOUS
  <1> USE ServicesAssumption DEF ServicesAssumption
  <1>0. Beast!Init /\ Cpr!Init /\ Psk!Init /\ Ini!Init /\ Aprs!Init /\ Console!Init
    BY DEF AllInit, PskRest, IniRest, AprsRest, MenuRest
  <1>1. FramerInv
    <2>1. sent = <<>> /\ out = <<>> /\ scanning = FALSE
      BY <1>0 DEF Beast!Init
    <2>2. <<>> \in Seq({}) /\ Len(<<>>) = 0 /\ DOMAIN <<>> = {}
      OBVIOUS
    <2>3. (\E V : sent \in Seq(V)) /\ (\E V : out \in Seq(V))
      BY <2>1, <2>2
    <2>4. Frames \in Nat /\ Len(sent) <= Frames
      BY <2>1, <2>2
    <2>5. DOMAIN sent = {} /\ DOMAIN out = {}
      BY <2>1, <2>2
    <2> QED BY <2>1, <2>3, <2>4, <2>5 DEF FramerInv
  <1>2. PairInv
    BY <1>0, InitPair
  <1>3. ReportsInv
    <2>1. Psk!InFlight = <<>> /\ read = <<>> /\ spots = <<>>
      BY <1>0 DEF Psk!Init, Psk!InFlight
    <2>2. /\ Increasing(<<>>) /\ Below(<<>>, <<>>) /\ Upto(<<>>, heard)
          /\ <<>> \in Seq(Nat) /\ Len(<<>>) = 0
      BY DEF Increasing, Below, Upto
    <2>3. ReportsTyped
      BY <1>0, <2>1, <2>2 DEF ReportsTyped, Psk!TypeOK, Psk!Init
    <2>4. InOrder
      BY <2>1, <2>2 DEF InOrder
    <2> QED BY <1>0, <2>1, <2>2, <2>3, <2>4 DEF ReportsInv, Psk!Init
  <1>4. Ini!TypeOK
    <2>1. Ini!None \in Ini!File /\ [gen |-> 1, keys |-> Whole] \in Ini!File
      BY DEF Ini!None, Ini!File
    <2> QED BY <1>0, <2>1 DEF Ini!TypeOK, Ini!Init, Ini!Idle, Ini!None
  <1>5. FilesInv
    BY <1>0 DEF FilesInv, OneSaver, SaverReady, OnCard, Generations, Durable, Ini!SettingsSurvive,
                Ini!Loaded, Ini!Left, Ini!Init, Ini!Idle, Ini!None
  <1>6. Aprs!TypeOK
    <2>1. /\ igate \in BOOLEAN /\ playing = FALSE /\ txRaced = FALSE /\ crashed = FALSE
          /\ gateLast = [s \in Stations |-> Old] /\ gateCount = 0 /\ gateMinute = Old
          /\ lastBeacon = Old /\ txAge = Old /\ apart = Old /\ idx = 0
          /\ loop = "idle" /\ web = "idle"
      BY <1>0 DEF Aprs!Init
    <2>2. Old \in 0..Old /\ 0 \in 0..Limit /\ 0 \in 0..6
      OBVIOUS
    <2> QED BY <2>1, <2>2 DEF Aprs!TypeOK, Aprs!Smart
  <1>7. BeaconInv
    BY <1>0, Minutes DEF Aprs!Init, BeaconInv
  <1>8. GateInv
    <2>1. gates = {} /\ Young = {} /\ Elder = {} /\ gateCount = 0
      BY <1>0 DEF Aprs!Init, Young, Elder
    <2>2. IsFiniteSet({}) /\ Cardinality({}) = 0
      BY FS_EmptySet
    <2> QED BY <2>1, <2>2, Minutes DEF GateInv
  <1>9. ScreensInv
    <2>1. /\ page = "root" /\ sel = 0 /\ ui = "main" /\ kbR = 0 /\ kbC = 0 /\ cur = 0
          /\ editIdx = -1 /\ chosen = -1 /\ target = <<"none">>
          /\ len \in [Lists -> 0..1] /\ live \in [Lists -> BOOLEAN]
      BY <1>0 DEF Console!Init
    <2>2. len \in [Lists -> 0..MaxLen] /\ -1 \in -1..(MaxLen - 1)
      BY <2>1
    <2>3. page \in DOMAIN Console!Rows /\ sel < Console!Rows[page]
      BY <2>1, RowsOf
    <2>4. ui \notin Lists /\ ui # "kb"
      BY <2>1
    <2>5. KbInRange /\ kbR < 4 /\ kbC < KbRow[kbR + 1]
      BY <2>1 DEF KbInRange
    <2> QED BY <2>1, <2>2, <2>3, <2>4, <2>5 DEF ScreensInv, Console!TypeOK, Console!RowsInRange,
                Console!EditsItsEntry, KbOpen
  <1> QED BY <1>1, <1>2, <1>3, <1>4, <1>5, <1>6, <1>7, <1>8, <1>9 DEF PartsInv, TrafficInv

\* A step of the union is a step of one part and leaves the others alone.
LEMMA Steps ==
    ASSUME [AllNext]_AllVars
    PROVE  /\ Beast!Next \/ UNCHANGED framer
           /\ Cpr!Next \/ UNCHANGED aircraft
           /\ Psk!Next \/ UNCHANGED reports
           /\ Ini!Next \/ UNCHANGED settings
           /\ Aprs!Next \/ UNCHANGED traffic
           /\ Console!Next \/ UNCHANGED screens
           /\ part' = part
  BY DEF AllNext, AllVars, TunerStep, BeastStep, CprStep, PskStep, SettingsStep, GateStep,
         BeaconStep, MenuStep, Aprs!Next

LEMMA PartsStep ==
    PartsInv /\ [AllNext]_AllVars => PartsInv'
  <1> SUFFICES ASSUME PartsInv, [AllNext]_AllVars PROVE PartsInv'
    OBVIOUS
  <1> USE DEF PartsInv
  <1>1. FramerInv'
    BY Steps, FramerStep
  <1>2. PairInv'
    BY Steps, PairStep
  <1>3. ReportsInv'
    BY Steps, ReportsStep
  <1>4. Ini!TypeOK' /\ FilesInv'
    BY Steps, SettingsTypeStep, SettingsStepInv
  <1>5. TrafficInv'
    BY Steps, TrafficTypeStep, BeaconKept, GateKept DEF TrafficInv
  <1>6. ScreensInv'
    BY Steps, ScreensStep
  <1> QED BY <1>1, <1>2, <1>3, <1>4, <1>5, <1>6

(* Each part's invariant is inductive, and the union keeps them all        *)
(* (AllInit, AllNext).                                                     *)
THEOREM Inductive ==
    AllSpec => []PartsInv
  BY PartsInit, PartsStep, PTL DEF AllSpec

(* The framer, the store of aircraft, the reporter, the settings file, the *)
(* APRS traffic and the screens stay within their types and bounds: the    *)
(* buffers never outgrow their caps, whatever the caps are                 *)
(* (Reporter.Add, gateAllow, saveConfig, handlePress).                     *)
THEOREM TypeCorrect ==
    AllSpec => []ServicesTypeOK
  <1>1. PartsInv => ServicesTypeOK
    <2> SUFFICES ASSUME PartsInv PROVE ServicesTypeOK
      OBVIOUS
    <2>1. Beast!TypeOK
      BY DEF PartsInv, FramerInv, Beast!TypeOK
    <2> QED BY <2>1 DEF PartsInv, PairInv, ReportsInv, ReportsTyped, TrafficInv, ScreensInv, ServicesTypeOK
  <1> QED BY <1>1, Inductive, PTL

(* Whole settings come up after a crash at any point of a save, and no     *)
(* older than those saved last; after a loss of power, no older than those *)
(* on the card: for any number of goroutines that save, any number of keys *)
(* and of saves (saveConfig, loadConfig).                                  *)
THEOREM SettingsSurviveHolds ==
    AllSpec => []SettingsSurvive
  <1>1. PartsInv => SettingsSurvive
    BY DEF PartsInv, FilesInv, SettingsSurvive
  <1> QED BY <1>1, Inductive, PTL

(* No press indexes past the end of what it acts on, and the keyboard      *)
(* writes to the entry it was opened on, whatever lists there are and      *)
(* however wide the keyboard's rows (handlePress).                         *)
THEOREM ScreensKeepPlaceHolds ==
    AllSpec => []ScreensKeepPlace
  <1>1. PartsInv => ScreensKeepPlace
    BY DEF PartsInv, ScreensInv, ScreensKeepPlace
  <1> QED BY <1>1, Inductive, PTL

(* The internet gate keeps to two frames of a station in any minute and to *)
(* two budgets of all of them, and the loop's beacon to a minute's         *)
(* distance: for any budget and any stations, if two guards make a minute  *)
(* (gateAllow, aprsGateCount, the scheduler in the loop).                  *)
THEOREM AirSparedHolds ==
    AllSpec => []AirSpared
  <1>1. PartsInv => AirSpared
    BY GateBound DEF PartsInv, TrafficInv, BeaconInv, AirSpared, Aprs!BeaconsApart
  <1> QED BY <1>1, Inductive, PTL

(* The server gets no spot twice and none out of order, whatever is lost   *)
(* and whatever the caps; and it can read each packet that arrives if one  *)
(* of the first arrived in the layout still in use (Add, Flush).           *)
THEOREM ReportsArriveHolds ==
    AllSpec => ReportsArrive
  <1>1. PartsInv => (part = "psk" => Psk!SpotsOnce)
    BY InOrderOnce DEF PartsInv
  <1>2. PartsInv /\ [AllNext]_AllVars =>
           [Psk!Arrives /\ gap' => sentPkts > Described /\ (known = "none" \/ changed)]_(Psk!vars)
    BY Steps, ReportsStep DEF PartsInv
  <1> QED BY <1>1, <1>2, Inductive, PTL DEF AllSpec, ReportsArrive, Psk!Readable

(* Without corrupted frames the aircraft is never a zone off, and a clean  *)
(* pair puts it right, whatever the window and the pace of the frames      *)
(* (Store.updatePosition).                                                 *)
THEOREM PositionRightHolds ==
    AllSpec => PositionRight
  <1>1. PartsInv /\ [AllNext]_AllVars =>
           [/\ bads' = 0 => fix' \in {Cpr!Right, Cpr!NoFix}
            /\ Cpr!Position /\ clean' => /\ fix' \notin {Cpr!NoFix, Cpr!Apart}
                                         /\ fix' = Cpr!Right => fixAge' = 0]_(Cpr!vars)
    BY Steps, PairStep DEF PartsInv
  <1> QED BY <1>1, Inductive, PTL DEF AllSpec, PositionRight, Cpr!PositionRight
=============================================================================
