--------------------------- MODULE IQServerProofs ---------------------------
(***************************************************************************)
(* Theorems about IQServer.  TypeCorrect is inductive by itself.           *)
(* StreamIntact and NothingMissed are not: a registered client must be     *)
(* known to have an open queue unless its writer has failed (Membership),  *)
(* the two work sets of Broadcast must be tied to the lock (Phases), and   *)
(* what a writer holds must be known while it coalesces and flushes        *)
(* (Streams).  IInv is their conjunction.  StreamImplemented shows that    *)
(* the server implements BlockStream; it needs that nothing is held for a  *)
(* client that was not broadcast (NothingAhead).                           *)
(***************************************************************************)
EXTENDS IQServer, SequenceTheorems, TLAPS

(* The initial state is well typed. *)
LEMMA InitType == Init => TypeOK
<1> SUFFICES ASSUME Init PROVE TypeOK
  OBVIOUS
<1> USE DEF Init
<1>1. <<>> \in Seq(Nat) /\ Len(<<>>) = 0
  OBVIOUS
<1>2. /\ ch \in [Conn -> Seq(Nat)]
      /\ buf \in [Conn -> Seq(Nat)]
      /\ got \in [Conn -> Seq(Nat)]
  BY <1>1
<1>3. \A c \in Conn : Len(ch[c]) <= QueueCap
  <2>1. 0 <= QueueCap
    BY IQServerAssumption DEF IQServerAssumption
  <2>2. \A c \in Conn : Len(ch[c]) = 0
    BY <1>1
  <2> QED BY <2>1, <2>2
<1>4. pc \in [Conn -> RunPc]
  BY DEF RunPc
<1> QED BY <1>2, <1>3, <1>4 DEF TypeOK

(* Every variable keeps its type, and no client's queue ever holds more    *)
(* than QueueCap blocks (Broadcast's bounded channel).                     *)
THEOREM TypeCorrect == Spec => []TypeOK
<1>1. Init => TypeOK
  BY InitType
<1>2. TypeOK /\ [Next]_vars => TypeOK'
  <2> SUFFICES ASSUME TypeOK, [Next]_vars PROVE TypeOK'
    OBVIOUS
  <2> USE DEF TypeOK
  <2>1. CASE Broadcaster
    <3>1. CASE BroadcastStart
      BY <3>1 DEF BroadcastStart, connVars, clVars
    <3>2. CASE BroadcastUnlock
      BY <3>2 DEF BroadcastUnlock, connVars, clVars
    <3>3. CASE BroadcastReturn
      BY <3>3 DEF BroadcastReturn, connVars, clVars, serverVars
    <3>4. ASSUME NEW c \in Conn, Offer(c) PROVE TypeOK'
      <4> USE <3>4 DEF Offer, Enqueue, serverVars, clVars
      <4>1. /\ ch' \in [Conn -> Seq(Nat)]
            /\ \A d \in Conn : Len(ch'[d]) <= QueueCap
        <5>1. CASE UNCHANGED ch
          BY <5>1
        <5>2. CASE Len(ch[c]) < QueueCap /\ Enqueue(c)
          <6>1. /\ Append(ch[c], sent) \in Seq(Nat)
                /\ Len(Append(ch[c], sent)) = Len(ch[c]) + 1
            OBVIOUS
          <6>2. Len(ch[c]) + 1 <= QueueCap
            BY <5>2, IQServerAssumption DEF IQServerAssumption
          <6> QED BY <5>2, <6>1, <6>2
        <5> QED BY <5>1, <5>2
      <4> QED BY <4>1
    <3>5. ASSUME NEW c \in Conn, EvictClose(c) PROVE TypeOK'
      BY <3>5 DEF EvictClose, CloseChan, serverVars, clVars, bcVars
    <3>6. ASSUME NEW c \in Conn, Evicted(c) PROVE TypeOK'
      BY <3>6 DEF Evicted, serverVars, clVars, connVars
    <3> QED BY <2>1, <3>1, <3>2, <3>3, <3>4, <3>5, <3>6 DEF Broadcaster
  <2>2. CASE Closer
    <3>1. CASE CloseMark
      BY <3>1 DEF CloseMark, connVars, bcVars
    <3>2. CASE CloseListener
      BY <3>2 DEF CloseListener, connVars, bcVars
    <3>3. CASE CloseReturn
      BY <3>3 DEF CloseReturn, serverVars, connVars, bcVars
    <3>4. ASSUME NEW c \in Conn, DropClose(c) PROVE TypeOK'
      BY <3>4 DEF DropClose, CloseChan, serverVars, clVars, bcVars
    <3>5. ASSUME NEW c \in Conn, Dropped(c) PROVE TypeOK'
      BY <3>5 DEF Dropped, serverVars, connVars, bcVars
    <3> QED BY <2>2, <3>1, <3>2, <3>3, <3>4, <3>5 DEF Closer
  <2>3. ASSUME NEW c \in Conn, Accept(c) PROVE TypeOK'
    BY <2>3 DEF Accept, RunPc, bcVars, clVars
  <2>4. ASSUME NEW c \in Conn, Add(c) PROVE TypeOK'
    BY <2>4 DEF Add, Register, Refuse, RunPc, bcVars, clVars
  <2>5. ASSUME NEW c \in Conn, ConnClose(c) PROVE TypeOK'
    BY <2>5 DEF ConnClose, serverVars, bcVars, clVars
  <2>6. ASSUME NEW c \in Conn, Run(c) PROVE TypeOK'
    <3> USE DEF Goto, serverVars, bcVars, clVars
    <3>a. ASSUME NEW l \in RunPc, Goto(c, l) PROVE pc' \in [Conn -> RunPc]
      BY <3>a
    <3>b. ASSUME ch[c] # <<>>, Take(c)
          PROVE  /\ ch' \in [Conn -> Seq(Nat)]
                 /\ \A d \in Conn : Len(ch'[d]) <= QueueCap
                 /\ buf' \in [Conn -> Seq(Nat)]
      <4>1. /\ Head(ch[c]) \in Nat
            /\ Tail(ch[c]) \in Seq(Nat)
            /\ Len(Tail(ch[c])) = Len(ch[c]) - 1
        BY <3>b
      <4>2. Append(buf[c], Head(ch[c])) \in Seq(Nat)
        BY <4>1
      <4>3. Len(Tail(ch[c])) <= QueueCap
        BY <4>1, IQServerAssumption DEF IQServerAssumption
      <4> QED BY <3>b, <4>1, <4>2, <4>3 DEF Take
    <3>c. ASSUME NEW k \in 0..Len(buf[c]), SendPart(c, k)
          PROVE  got' \in [Conn -> Seq(Nat)]
      <4>1. SubSeq(buf[c], 1, k) \in Seq(Nat)
        OBVIOUS
      <4>2. got[c] \o SubSeq(buf[c], 1, k) \in Seq(Nat)
        BY <4>1
      <4> QED BY <3>c, <4>2 DEF SendPart
    <3>1. CASE Handshake(c)
      <4>1. pc' \in [Conn -> RunPc]
        BY <3>1, <3>a DEF Handshake, RunPc
      <4> QED BY <3>1, <4>1 DEF Handshake
    <3>2. CASE Recv(c)
      <4>1. pc' \in [Conn -> RunPc]
        BY <3>2, <3>a DEF Recv, RunPc
      <4>2. /\ ch' \in [Conn -> Seq(Nat)]
            /\ \A d \in Conn : Len(ch'[d]) <= QueueCap
            /\ buf' \in [Conn -> Seq(Nat)]
        <5>1. CASE ch[c] # <<>> /\ Take(c)
          BY <5>1, <3>b
        <5>2. CASE UNCHANGED <<ch, buf>>
          BY <5>2
        <5> QED BY <3>2, <5>1, <5>2 DEF Recv
      <4> QED BY <3>2, <4>1, <4>2 DEF Recv
    <3>3. CASE Coalesce(c)
      <4>1. pc' \in [Conn -> RunPc]
        BY <3>3, <3>a DEF Coalesce, RunPc
      <4>2. /\ ch' \in [Conn -> Seq(Nat)]
            /\ \A d \in Conn : Len(ch'[d]) <= QueueCap
            /\ buf' \in [Conn -> Seq(Nat)]
        <5>1. CASE ch[c] # <<>> /\ Take(c)
          BY <5>1, <3>b
        <5>2. CASE UNCHANGED <<ch, buf>>
          BY <5>2
        <5> QED BY <3>3, <5>1, <5>2 DEF Coalesce
      <4> QED BY <3>3, <4>1, <4>2 DEF Coalesce
    <3>4. CASE WriteOK(c)
      <4>1. Len(buf[c]) \in 0..Len(buf[c])
        OBVIOUS
      <4>2. got' \in [Conn -> Seq(Nat)]
        BY <3>4, <3>c, <4>1 DEF WriteOK
      <4>3. buf' \in [Conn -> Seq(Nat)]
        BY <3>4 DEF WriteOK
      <4>4. pc' \in [Conn -> RunPc]
        BY <3>4, <3>a DEF WriteOK, RunPc
      <4> QED BY <3>4, <4>2, <4>3, <4>4 DEF WriteOK
    <3>5. CASE WriteFail(c)
      <4>1. got' \in [Conn -> Seq(Nat)]
        BY <3>5, <3>c DEF WriteFail
      <4>2. pc' \in [Conn -> RunPc]
        BY <3>5, <3>a DEF WriteFail, RunPc
      <4> QED BY <3>5, <4>1, <4>2 DEF WriteFail
    <3>6. CASE Flush(c)
      <4>1. got' \in [Conn -> Seq(Nat)]
        BY <3>6, <3>c DEF Flush
      <4>2. pc' \in [Conn -> RunPc]
        BY <3>6, <3>a DEF Flush, RunPc
      <4> QED BY <3>6, <4>1, <4>2 DEF Flush
    <3>7. CASE FailClose(c)
      BY <3>7 DEF FailClose, CloseChan
    <3>8. CASE FailReturn(c)
      <4>1. pc' \in [Conn -> RunPc]
        BY <3>8, <3>a DEF FailReturn, RunPc
      <4> QED BY <3>8, <4>1 DEF FailReturn
    <3> QED BY <2>6, <3>1, <3>2, <3>3, <3>4, <3>5, <3>6, <3>7, <3>8 DEF Run
  <2>7. CASE UNCHANGED vars
    BY <2>7 DEF vars, serverVars, connVars, bcVars, clVars
  <2> QED
    BY <2>1, <2>2, <2>3, <2>4, <2>5, <2>6, <2>7 DEF Next, Rest
<1> QED BY <1>1, <1>2, PTL DEF Spec
-----------------------------------------------------------------------------
(* Sequences: moving the head of the queue into the buffer, and the buffer *)
(* to the socket, leaves the whole pipeline as it was.                     *)

LEMMA TakeKeeps ==
  ASSUME NEW g \in Seq(Nat), NEW b \in Seq(Nat), NEW q \in Seq(Nat), q # <<>>
  PROVE  g \o Append(b, Head(q)) \o Tail(q) = g \o b \o q
<1> DEFINE l == g \o Append(b, Head(q)) \o Tail(q)
           r == g \o b \o q
<1>1. l \in Seq(Nat) /\ r \in Seq(Nat)
  OBVIOUS
<1>2. Len(l) = Len(r)
  OBVIOUS
<1>3. ASSUME NEW i \in 1..Len(l) PROVE l[i] = r[i]
  <2>1. CASE i <= Len(g)
    BY <2>1
  <2>2. CASE i > Len(g) /\ i <= Len(g) + Len(b)
    BY <2>2
  <2>3. CASE i = Len(g) + Len(b) + 1
    BY <2>3
  <2>4. CASE i > Len(g) + Len(b) + 1
    BY <2>4
  <2> QED BY <2>1, <2>2, <2>3, <2>4
<1> HIDE DEF l, r
<1>4. l = r
  BY <1>1, <1>2, <1>3, SeqEqual
<1> QED BY <1>4 DEF l, r

(* What was written leaves the buffer and joins what was sent. *)
LEMMA WriteKeeps ==
  ASSUME NEW g \in Seq(Nat), NEW b \in Seq(Nat), NEW q \in Seq(Nat)
  PROVE  (g \o SubSeq(b, 1, Len(b))) \o <<>> \o q = g \o b \o q
<1>1. SubSeq(b, 1, Len(b)) = b
  OBVIOUS
<1>2. (g \o b) \o <<>> = g \o b
  OBVIOUS
<1> QED BY <1>1, <1>2

(* Queueing a block appends it to the pipeline. *)
LEMMA OfferAppends ==
  ASSUME NEW g \in Seq(Nat), NEW b \in Seq(Nat), NEW q \in Seq(Nat), NEW x \in Nat
  PROVE  g \o b \o Append(q, x) = Append(g \o b \o q, x)
OBVIOUS

(* A run of n blocks, element by element. *)
LEMMA RunIsSeq ==
  ASSUME NEW f \in Nat, NEW n \in Nat
  PROVE  /\ Run1(f, n) \in Seq(Nat)
         /\ Len(Run1(f, n)) = n
         /\ \A i \in 1..n : Run1(f, n)[i] = f + i
BY DEF Run1

(* A sequence that counts up from f + 1 is a run. *)
LEMMA IsRun ==
  ASSUME NEW f \in Nat, NEW s \in Seq(Nat), \A i \in 1..Len(s) : s[i] = f + i
  PROVE  s = Run1(f, Len(s))
<1> DEFINE r == Run1(f, Len(s))
<1>1. r \in Seq(Nat) /\ Len(r) = Len(s) /\ \A i \in 1..Len(s) : r[i] = f + i
  BY RunIsSeq, Len(s) \in Nat
<1> HIDE DEF r
<1>2. \A i \in 1..Len(s) : s[i] = r[i]
  BY <1>1
<1>3. s = r
  BY <1>1, <1>2, SeqEqual
<1> QED BY <1>3 DEF r

(* A run grows by its next block. *)
LEMMA RunGrows ==
  ASSUME NEW f \in Nat, NEW n \in Nat
  PROVE  Append(Run1(f, n), f + n + 1) = Run1(f, n + 1)
<1> DEFINE r == Run1(f, n)
           a == Append(r, f + n + 1)
<1>1. r \in Seq(Nat) /\ Len(r) = n /\ \A i \in 1..n : r[i] = f + i
  BY RunIsSeq
<1> HIDE DEF r
<1>2. /\ a \in Seq(Nat) /\ Len(a) = n + 1
      /\ \A i \in 1..n : a[i] = r[i]
      /\ a[n + 1] = f + n + 1
  BY <1>1
<1> HIDE DEF a
<1>3. \A i \in 1..Len(a) : a[i] = f + i
  BY <1>1, <1>2
<1>4. a = Run1(f, n + 1)
  BY <1>2, <1>3, IsRun
<1> QED BY <1>4 DEF a, r

(* A prefix of a run is a run: whatever part of the buffer a write got     *)
(* through, the peer was sent consecutive blocks.                          *)
LEMMA PrefixIsRun ==
  ASSUME NEW f \in Nat, NEW g \in Seq(Nat), NEW b \in Seq(Nat), NEW q \in Seq(Nat),
         NEW k \in 0..Len(b),
         g \o b \o q = Run1(f, Len(g \o b \o q))
  PROVE  g \o SubSeq(b, 1, k) = Run1(f, Len(g \o SubSeq(b, 1, k)))
<1> DEFINE s == SubSeq(b, 1, k)
           p == g \o s
           w == g \o b \o q
<1>1. /\ s \in Seq(Nat) /\ Len(s) = k
      /\ \A i \in 1..k : s[i] = b[i]
  OBVIOUS
<1> HIDE DEF s
<1>2. /\ p \in Seq(Nat) /\ Len(p) = Len(g) + k
      /\ \A i \in 1..Len(g) : p[i] = g[i]
      /\ \A i \in Len(g)+1..Len(g)+k : p[i] = s[i - Len(g)]
  <2>1. /\ g \o s \in Seq(Nat) /\ Len(g \o s) = Len(g) + Len(s)
        /\ \A i \in 1..Len(g)+Len(s) : (g \o s)[i] = IF i <= Len(g) THEN g[i] ELSE s[i - Len(g)]
    BY <1>1, ConcatProperties
  <2>2. Len(g) \in Nat /\ k \in Nat
    OBVIOUS
  <2>3. ASSUME NEW i \in 1..Len(g) PROVE (g \o s)[i] = g[i]
    BY <1>1, <2>1, <2>2
  <2>4. ASSUME NEW i \in Len(g)+1..Len(g)+k PROVE (g \o s)[i] = s[i - Len(g)]
    BY <1>1, <2>1, <2>2
  <2> QED BY <1>1, <2>1, <2>3, <2>4
<1> HIDE DEF p, w
<1>3. /\ w \in Seq(Nat) /\ Len(w) = Len(g) + Len(b) + Len(q)
      /\ \A i \in 1..Len(g) : w[i] = g[i]
      /\ \A i \in Len(g)+1..Len(g)+Len(b) : w[i] = b[i - Len(g)]
  <2>1. /\ g \o b \in Seq(Nat) /\ Len(g \o b) = Len(g) + Len(b)
        /\ \A i \in 1..Len(g)+Len(b) : (g \o b)[i] = IF i <= Len(g) THEN g[i] ELSE b[i - Len(g)]
    BY ConcatProperties
  <2> DEFINE gb == g \o b
  <2>2. gb \in Seq(Nat)
    BY <2>1
  <2> HIDE DEF gb
  <2>3. /\ gb \o q \in Seq(Nat) /\ Len(gb \o q) = Len(gb) + Len(q)
        /\ \A i \in 1..Len(gb) : (gb \o q)[i] = gb[i]
    BY <2>2, ConcatProperties
  <2>4. /\ Len(gb) = Len(g) + Len(b)
        /\ \A i \in 1..Len(g)+Len(b) : gb[i] = IF i <= Len(g) THEN g[i] ELSE b[i - Len(g)]
    BY <2>1 DEF gb
  <2>5. w = gb \o q
    BY DEF gb, w
  <2>6. ASSUME NEW i \in 1..Len(g)+Len(b) PROVE w[i] = gb[i]
    BY <2>3, <2>4, <2>5
  <2>7. ASSUME NEW i \in Len(g)+1..Len(g)+Len(b) PROVE w[i] = b[i - Len(g)]
    BY <2>4, <2>6
  <2>8. ASSUME NEW i \in 1..Len(g) PROVE w[i] = g[i]
    BY <2>4, <2>6
  <2>9. w \in Seq(Nat) /\ Len(w) = Len(g) + Len(b) + Len(q)
    BY <2>3, <2>4, <2>5
  <2> QED BY <2>7, <2>8, <2>9
<1>4. \A i \in 1..Len(w) : w[i] = f + i
  <2>1. w = Run1(f, Len(w))
    BY DEF w
  <2>2. Len(w) \in Nat
    BY <1>3
  <2>3. \A i \in 1..Len(w) : Run1(f, Len(w))[i] = f + i
    BY <2>2, RunIsSeq
  <2> QED BY <2>1, <2>3
<1>5. ASSUME NEW i \in 1..Len(p) PROVE p[i] = f + i
  <2>1. CASE i <= Len(g)
    BY <2>1, <1>2, <1>3, <1>4
  <2>2. CASE i > Len(g)
    <3>1. i - Len(g) \in 1..k /\ i \in Len(g)+1..Len(g)+k /\ i \in Len(g)+1..Len(g)+Len(b)
      BY <2>2, <1>2
    <3>2. p[i] = w[i]
      BY <3>1, <1>1, <1>2, <1>3
    <3> QED BY <3>1, <3>2, <1>3, <1>4
  <2> QED BY <2>1, <2>2, <1>2
<1>6. p = Run1(f, Len(p))
  BY <1>2, <1>5, IsRun
<1> QED BY <1>6 DEF p, s
-----------------------------------------------------------------------------
(* What a step does not touch stays as it was. *)

LEMMA StreamFrame ==
  ASSUME NEW c \in Conn, StreamOK(c),
         pc'[c] = pc[c], got'[c] = got[c], ch'[c] = ch[c], buf'[c] = buf[c],
         first'[c] = first[c]
  PROVE  StreamOK(c)'
BY DEF StreamOK, SentIntact, Streaming, Pipeline

(* The same for what Broadcast owes a client. *)
LEMMA UpToDateFrame ==
  ASSUME NEW c \in Conn, UpToDate(c),
         pc'[c] = pc[c], got'[c] = got[c], ch'[c] = ch[c], buf'[c] = buf[c],
         first'[c] = first[c], Owed(c)' = Owed(c)
  PROVE  UpToDate(c)'
BY DEF UpToDate, Streaming, Pipeline

(* The steps of Broadcast. *)
LEMMA BroadcasterStep ==
  ASSUME IInv, TypeOK', Broadcaster
  PROVE  (Phases /\ Membership /\ Streams /\ NothingMissed)'
<1> USE DEF IInv
<1>1. CASE BroadcastStart
  <2> USE <1>1 DEF BroadcastStart, connVars, clVars
  <2>1. Phases'
    BY DEF Phases, TypeOK
  <2>2. Membership'
    BY DEF Membership, Phases, TypeOK
  <2>3. Streams'
    BY StreamFrame DEF Streams
  <2>4. ASSUME NEW c \in clients' PROVE UpToDate(c)'
    <3>1. c \in Conn /\ UpToDate(c)
      BY DEF NothingMissed, TypeOK
    <3>2. Owed(c)' = Owed(c)
      BY DEF Owed, Phases, TypeOK
    <3> QED BY <3>1, <3>2, UpToDateFrame
  <2> QED BY <2>1, <2>2, <2>3, <2>4 DEF NothingMissed
<1>2. CASE BroadcastUnlock
  <2> USE <1>2 DEF BroadcastUnlock, connVars, clVars
  <2>1. Phases'
    BY DEF Phases, TypeOK
  <2>2. Membership'
    BY DEF Membership, Phases, TypeOK
  <2>3. Streams'
    BY StreamFrame DEF Streams
  <2>4. ASSUME NEW c \in clients' PROVE UpToDate(c)'
    <3>1. c \in Conn /\ UpToDate(c)
      BY DEF NothingMissed, TypeOK
    <3>2. Owed(c)' = Owed(c)
      BY DEF Owed
    <3> QED BY <3>1, <3>2, UpToDateFrame
  <2> QED BY <2>1, <2>2, <2>3, <2>4 DEF NothingMissed
<1>3. CASE BroadcastReturn
  <2> USE <1>3 DEF BroadcastReturn, connVars, clVars, serverVars
  <2>1. Phases' /\ Membership'
    BY DEF Phases, Membership
  <2>2. Streams'
    BY StreamFrame DEF Streams
  <2>3. ASSUME NEW c \in clients' PROVE UpToDate(c)'
    <3>1. c \in Conn /\ UpToDate(c)
      BY DEF NothingMissed, TypeOK
    <3>2. Owed(c)' = Owed(c)
      BY DEF Owed
    <3> QED BY <3>1, <3>2, UpToDateFrame
  <2> QED BY <2>1, <2>2, <2>3 DEF NothingMissed
<1>4. ASSUME NEW c \in Conn, Offer(c)
      PROVE  (Phases /\ Membership /\ Streams /\ NothingMissed)'
  <2> USE <1>4 DEF Offer, clVars, serverVars
  <2>q. Len(ch[c]) \in Nat /\ QueueCap \in Nat /\ chClosed[c] \in BOOLEAN
    BY IQServerAssumption DEF TypeOK, IQServerAssumption
  <2>1. Phases'
    BY DEF Phases, TypeOK, Enqueue
  <2>2. Membership'
    BY DEF Membership, Phases, TypeOK, Enqueue
  <2>3. c \in clients /\ UpToDate(c) /\ StreamOK(c)
    BY DEF Phases, NothingMissed, Streams
  <2>4. ASSUME NEW d \in Conn, d # c
        PROVE  /\ StreamOK(d)'
               /\ d \in clients => UpToDate(d)'
    <3>1. ch'[d] = ch[d] /\ Owed(d)' = Owed(d)
      BY <2>4 DEF Owed, Enqueue, TypeOK
    <3> QED BY <3>1, StreamFrame, UpToDateFrame DEF Streams, NothingMissed
  <2>5. StreamOK(c)' /\ UpToDate(c)'
    <3>1. CASE chClosed[c]
      <4>1. ~Streaming(c)
        BY <3>1, <2>3 DEF Membership, Streaming
      <4>2. StreamOK(c)'
        BY <3>1, <2>3, StreamFrame
      <4> QED BY <4>1, <4>2 DEF UpToDate, Streaming
    <3>2. CASE ~chClosed[c] /\ Len(ch[c]) < QueueCap
      <4>1. ch'[c] = Append(ch[c], sent) /\ UNCHANGED slow
        BY <2>q, <3>2 DEF Enqueue, TypeOK
      <4>2. pc[c] \notin {"none", "accepted"} /\ first[c] < sent
        BY <2>3 DEF Membership
      <4>3. CASE Streaming(c)
        <5>1. Owed(c) = sent - 1 /\ Owed(c)' = sent
          BY <4>1 DEF Owed, Phases, TypeOK
        <5> DEFINE n == sent - 1 - first[c]
        <5>2. n \in Nat /\ first[c] \in Nat /\ first[c] + n + 1 = sent
          BY <4>2 DEF TypeOK
        <5>3. Pipeline(c) = Run1(first[c], n)
          BY <2>3, <4>3, <5>1 DEF UpToDate
        <5>4. Pipeline(c)' = Append(Pipeline(c), sent)
          <6>1. /\ got[c] \in Seq(Nat) /\ buf[c] \in Seq(Nat) /\ ch[c] \in Seq(Nat)
                /\ sent \in Nat
            BY DEF TypeOK
          <6>2. got[c] \o buf[c] \o Append(ch[c], sent) = Append(got[c] \o buf[c] \o ch[c], sent)
            BY <6>1, OfferAppends
          <6> QED BY <4>1, <6>2 DEF Pipeline
        <5> HIDE DEF n
        <5>5. Pipeline(c)' = Run1(first[c], n + 1)
          BY <5>2, <5>3, <5>4, RunGrows
        <5>6. n + 1 = Owed(c)' - first'[c]
          BY <5>1 DEF n, TypeOK
        <5>7. Len(Pipeline(c)') = n + 1
          <6>1. n + 1 \in Nat
            BY <5>2
          <6>2. Len(Run1(first[c], n + 1)) = n + 1
            BY <5>2, <6>1, RunIsSeq
          <6> QED BY <5>5, <6>2
        <5>8. UpToDate(c)'
          BY <5>5, <5>6 DEF UpToDate
        <5>9. StreamOK(c)'
          BY <2>3, <4>2, <4>3, <5>5, <5>7 DEF StreamOK, SentIntact, Streaming
        <5> QED BY <5>8, <5>9
      <4>4. CASE ~Streaming(c)
        BY <2>3, <4>2, <4>4 DEF StreamOK, SentIntact, UpToDate, Streaming
      <4> QED BY <4>3, <4>4
    <3>3. CASE ~chClosed[c] /\ Len(ch[c]) >= QueueCap
      <4>1. Owed(c)' = Owed(c) /\ UNCHANGED ch
        BY <2>q, <3>3 DEF Owed, TypeOK
      <4> QED BY <2>3, <4>1, StreamFrame, UpToDateFrame
    <3> QED BY <2>q, <3>1, <3>2, <3>3
  <2>6. Streams'
    BY <2>4, <2>5 DEF Streams
  <2>7. clients' = clients /\ clients \subseteq Conn
    BY DEF TypeOK
  <2>8. NothingMissed'
    BY <2>4, <2>5, <2>7 DEF NothingMissed
  <2> QED BY <2>1, <2>2, <2>6, <2>8
<1>5. ASSUME NEW c \in Conn, EvictClose(c)
      PROVE  (Phases /\ Membership /\ Streams /\ NothingMissed)'
  <2> USE <1>5 DEF EvictClose, CloseChan, bcVars, clVars, serverVars
  <2>1. Phases'
    BY DEF Phases
  <2>2. Membership'
    BY DEF Membership, Phases, TypeOK
  <2>3. Streams'
    BY StreamFrame DEF Streams
  <2>4. NothingMissed'
    BY UpToDateFrame DEF NothingMissed, Owed, TypeOK
  <2> QED BY <2>1, <2>2, <2>3, <2>4
<1>6. ASSUME NEW c \in Conn, Evicted(c)
      PROVE  (Phases /\ Membership /\ Streams /\ NothingMissed)'
  <2> USE <1>6 DEF Evicted, connVars, clVars, serverVars
  <2>1. Phases'
    BY DEF Phases
  <2>2. Membership'
    BY DEF Membership, Phases, TypeOK
  <2>3. Streams'
    BY StreamFrame DEF Streams
  <2>4. ASSUME NEW d \in clients' PROVE UpToDate(d)'
    <3>1. d \in Conn /\ UpToDate(d)
      BY DEF NothingMissed, TypeOK
    <3>2. Owed(d)' = Owed(d)
      BY DEF Owed, Phases
    <3> QED BY <3>1, <3>2, UpToDateFrame
  <2> QED BY <2>1, <2>2, <2>3, <2>4 DEF NothingMissed
<1> QED BY <1>1, <1>2, <1>3, <1>4, <1>5, <1>6 DEF Broadcaster
(* The steps of Close. *)
LEMMA CloserStep ==
  ASSUME IInv, TypeOK', Closer
  PROVE  (Phases /\ Membership /\ Streams /\ NothingMissed)'
<1> USE DEF IInv, connVars, bcVars, clVars, serverVars
<1>1. Streams'
  BY StreamFrame DEF Streams, Closer, CloseMark, CloseListener, CloseReturn,
     DropClose, Dropped
<1>2. NothingMissed'
  <2>1. clients' \subseteq clients /\ clients \subseteq Conn
    BY DEF Closer, CloseMark, CloseListener, CloseReturn, DropClose, Dropped, TypeOK
  <2>2. UNCHANGED <<pc, got, ch, buf, first, sent, todo, slow>>
    BY DEF Closer, CloseMark, CloseListener, CloseReturn, DropClose, Dropped
  <2>3. \A c \in Conn : Owed(c)' = Owed(c)
    BY <2>2 DEF Owed
  <2> QED BY <2>1, <2>2, <2>3, UpToDateFrame DEF NothingMissed
<1>3. CASE CloseMark
  BY <1>1, <1>2, <1>3 DEF CloseMark, Phases, Membership, TypeOK
<1>4. CASE CloseListener
  BY <1>1, <1>2, <1>4 DEF CloseListener, Phases, Membership
<1>5. CASE CloseReturn
  BY <1>1, <1>2, <1>5 DEF CloseReturn, Phases, Membership
<1>6. ASSUME NEW c \in Conn, DropClose(c) PROVE Phases' /\ Membership'
  BY <1>6 DEF DropClose, CloseChan, Phases, Membership, TypeOK
<1>7. ASSUME NEW c \in Conn, Dropped(c) PROVE Phases' /\ Membership'
  BY <1>7 DEF Dropped, Phases, Membership
<1> QED BY <1>1, <1>2, <1>3, <1>4, <1>5, <1>6, <1>7 DEF Closer

(* The steps of the accept loop and of the once body. *)
LEMMA AcceptStep ==
  ASSUME IInv, TypeOK', NEW c \in Conn, Accept(c) \/ Add(c) \/ ConnClose(c)
  PROVE  (Phases /\ Membership /\ Streams /\ NothingMissed)'
<1> USE DEF IInv, connVars, bcVars, clVars, serverVars
<1>n. NoConn \notin Conn
  BY IQServerAssumption DEF IQServerAssumption
<1>1. CASE Accept(c)
  <2> USE <1>1 DEF Accept
  <2>1. c \notin clients /\ c \notin slow /\ c \notin todo
    BY DEF Membership, Phases
  <2>2. Phases'
    BY <1>n DEF Phases, TypeOK
  <2>3. Membership'
    BY <2>1 DEF Membership, TypeOK
  <2>4. Streams'
    BY StreamFrame DEF Streams, StreamOK, SentIntact, Streaming, TypeOK
  <2>5. ASSUME NEW d \in clients' PROVE UpToDate(d)'
    <3>1. d \in Conn /\ d # c /\ UpToDate(d)
      BY <2>1 DEF NothingMissed, TypeOK
    <3> QED BY <3>1, UpToDateFrame DEF Owed, TypeOK
  <2> QED BY <2>2, <2>3, <2>4, <2>5 DEF NothingMissed
<1>2. CASE Add(c)
  <2> USE <1>2 DEF Add
  <2>1. /\ pc[c] = "accepted" /\ c \notin clients \cup slow \cup todo
        /\ bc # "offer" /\ todo = {} /\ got[c] = <<>> /\ ch[c] = <<>> /\ buf[c] = <<>>
    BY <1>n DEF Phases, Membership, Streams, StreamOK
  <2>2. CASE ~closed /\ Register(c)
    <3> USE <2>2 DEF Register
    <3>1. ~chClosed[c]
      BY <2>1 DEF Membership
    <3>2. Phases'
      BY <1>n, <2>1 DEF Phases, TypeOK
    <3>3. Membership'
      BY <2>1, <3>1 DEF Membership, TypeOK
    <3>4. StreamOK(c)' /\ UpToDate(c)'
      <4>1. /\ got'[c] = <<>> /\ buf'[c] = <<>> /\ ch'[c] = <<>>
            /\ first'[c] = sent /\ sent \in Nat
            /\ pc'[c] = "handshake"
        BY <2>1 DEF TypeOK
      <4>2. Owed(c)' = sent
        BY <2>1 DEF Owed
      <4>3. <<>> = Run1(sent, 0) /\ sent - sent = 0
        BY <4>1 DEF Run1
      <4>4. <<>> \o <<>> \o <<>> = <<>> /\ Len(<<>>) = 0
        OBVIOUS
      <4>5. Pipeline(c)' = <<>>
        BY <4>1, <4>4 DEF Pipeline
      <4> QED BY <4>1, <4>2, <4>3, <4>4, <4>5 DEF StreamOK, SentIntact, UpToDate, Streaming
    <3>5. ASSUME NEW d \in Conn, d # c
          PROVE  /\ StreamOK(d)'
                 /\ d \in clients => UpToDate(d)'
      <4>1. /\ pc'[d] = pc[d] /\ first'[d] = first[d] /\ UNCHANGED <<got, buf, ch>>
            /\ Owed(d)' = Owed(d)
        BY <3>5 DEF Owed, TypeOK
      <4> QED BY <4>1, StreamFrame, UpToDateFrame DEF Streams, NothingMissed
    <3>6. Streams'
      BY <3>4, <3>5 DEF Streams
    <3>7. clients' = clients \cup {c} /\ clients \subseteq Conn
      BY DEF TypeOK
    <3>8. NothingMissed'
      BY <3>4, <3>5, <3>7 DEF NothingMissed
    <3> QED BY <3>2, <3>3, <3>6, <3>8
  <2>3. CASE closed /\ Refuse(c)
    <3> USE <2>3 DEF Refuse
    <3>1. Phases'
      BY <1>n, <2>1 DEF Phases, TypeOK
    <3>2. Membership'
      BY <2>1 DEF Membership, TypeOK
    <3>3. clients' = {}
      BY DEF Phases
    <3>4. StreamOK(c)'
      BY <2>1 DEF Streams, StreamOK, SentIntact, Streaming, TypeOK
    <3>5. ASSUME NEW d \in Conn, d # c PROVE StreamOK(d)'
      BY <3>5, StreamFrame DEF Streams, TypeOK
    <3>6. Streams'
      BY <3>4, <3>5 DEF Streams
    <3> QED BY <3>1, <3>2, <3>3, <3>6 DEF NothingMissed
  <2> QED BY <2>2, <2>3
<1>3. CASE ConnClose(c)
  <2> USE <1>3 DEF ConnClose
  <2>1. Phases' /\ Membership'
    BY DEF Phases, Membership
  <2>2. Streams'
    BY StreamFrame DEF Streams
  <2>3. NothingMissed'
    BY UpToDateFrame DEF NothingMissed, Owed, TypeOK
  <2> QED BY <2>1, <2>2, <2>3
<1> QED BY <1>1, <1>2, <1>3

(* Whatever part of the buffer is written, the peer was sent a run. *)
LEMMA PrefixOfPipeline ==
  ASSUME TypeOK, NEW c \in Conn, StreamOK(c), pc[c] \in {"coalesce", "write", "flush"},
         NEW k \in 0..Len(buf[c])
  PROVE  got[c] \o SubSeq(buf[c], 1, k)
           = Run1(first[c], Len(got[c] \o SubSeq(buf[c], 1, k)))
<1> DEFINE f == first[c]
           g == got[c]
           b == buf[c]
           q == IF pc[c] = "flush" THEN <<>> ELSE ch[c]
<1>1. f \in Nat /\ g \in Seq(Nat) /\ b \in Seq(Nat) /\ q \in Seq(Nat)
  BY DEF TypeOK
<1>2. g \o b \o q = Run1(f, Len(g \o b \o q))
  <2>1. CASE pc[c] = "flush"
    <3>1. g \o b = Run1(f, Len(g \o b)) /\ q = <<>>
      BY <2>1 DEF StreamOK
    <3>2. g \o b \o <<>> = g \o b
      BY <1>1
    <3> QED BY <3>1, <3>2
  <2>2. CASE pc[c] # "flush"
    BY <2>2 DEF StreamOK, Streaming, Pipeline
  <2> QED BY <2>1, <2>2
<1>3. k \in 0..Len(b)
  OBVIOUS
<1> HIDE DEF f, g, b, q
<1>4. g \o SubSeq(b, 1, k) = Run1(f, Len(g \o SubSeq(b, 1, k)))
  BY <1>1, <1>2, <1>3, PrefixIsRun
<1> QED BY <1>4 DEF f, g, b

(* The steps of a client's goroutine. *)
LEMMA RunStep ==
  ASSUME IInv, TypeOK', NEW c \in Conn, Run(c)
  PROVE  (Phases /\ Membership /\ Streams /\ NothingMissed)'
<1> USE DEF IInv, bcVars, clVars, serverVars, Goto
<1> DEFINE l == pc'[c]
<1>1. /\ pc[c] \notin {"none", "accepted", "done"}
      /\ UNCHANGED <<serverVars, bcVars, clVars, first, panicked>>
      /\ pc' = [pc EXCEPT ![c] = l]
      /\ l \notin {"none", "accepted"}
      /\ \A d \in Conn : d # c => /\ pc'[d] = pc[d] /\ got'[d] = got[d] /\ ch'[d] = ch[d]
                                  /\ buf'[d] = buf[d] /\ chClosed'[d] = chClosed[d]
  BY DEF Run, Handshake, Recv, Take, Coalesce, WriteOK, WriteFail, Flush, SendPart,
     FailClose, FailReturn, CloseChan, TypeOK, RunPc
<1>2. Phases'
  BY <1>1 DEF Phases, TypeOK
<1>3. /\ chClosed'[c] = chClosed[c] \/ (pc[c] = "fail" /\ l = "fail")
      /\ pc[c] = "fail" => l \in {"fail", "done"}
  <2>1. CASE FailClose(c)
    BY <2>1 DEF FailClose
  <2>2. CASE FailReturn(c)
    BY <2>2 DEF FailReturn, TypeOK
  <2>3. CASE ~FailClose(c) /\ ~FailReturn(c)
    BY <2>3 DEF Run, Handshake, Recv, Coalesce, WriteOK, WriteFail, Flush
  <2> QED BY <2>1, <2>2, <2>3
<1>4. Membership'
  <2>1. ASSUME NEW d \in Conn, d # c
        PROVE  chClosed'[d] = chClosed[d] /\ pc'[d] = pc[d]
    BY <1>1, <2>1
  <2> QED BY <1>1, <1>3, <2>1 DEF Membership
<1>5. \A d \in Conn : Owed(d)' = Owed(d) /\ first'[d] = first[d]
  BY <1>1 DEF Owed
<1>6. ASSUME NEW d \in Conn, d # c
      PROVE  /\ StreamOK(d)'
             /\ d \in clients => UpToDate(d)'
  BY <1>1, <1>5, <1>6, StreamFrame, UpToDateFrame DEF Streams, NothingMissed
<1>7. /\ StreamOK(c) /\ (c \in clients => UpToDate(c))
      /\ got[c] \in Seq(Nat) /\ buf[c] \in Seq(Nat) /\ ch[c] \in Seq(Nat) /\ first[c] \in Nat
  BY DEF Streams, NothingMissed, TypeOK
<1>8. /\ StreamOK(c)'
      /\ c \in clients => UpToDate(c)'
  <2>1. ASSUME Streaming(c), Streaming(c)', Pipeline(c)' = Pipeline(c), SentIntact(c)',
               pc'[c] \in {"handshake", "recv"} => buf'[c] = <<>>
        PROVE  StreamOK(c)' /\ (c \in clients => UpToDate(c)')
    BY <1>1, <1>5, <1>7, <2>1 DEF StreamOK, UpToDate, SentIntact, Streaming
  <2>2. ASSUME ~Streaming(c)', SentIntact(c)',
               pc'[c] = "flush" => got'[c] \o buf'[c] = Run1(first[c], Len(got'[c] \o buf'[c]))
        PROVE  StreamOK(c)' /\ (c \in clients => UpToDate(c)')
    BY <1>1, <1>5, <2>2 DEF StreamOK, UpToDate, Streaming
  <2>3. ASSUME ch[c] # <<>>, Take(c), UNCHANGED got
        PROVE  Pipeline(c)' = Pipeline(c)
    <3>1. got[c] \o Append(buf[c], Head(ch[c])) \o Tail(ch[c]) = got[c] \o buf[c] \o ch[c]
      BY <1>7, <2>3, TakeKeeps
    <3>2. buf'[c] = Append(buf[c], Head(ch[c])) /\ ch'[c] = Tail(ch[c]) /\ got'[c] = got[c]
      BY <2>3 DEF Take, TypeOK
    <3> QED BY <3>1, <3>2 DEF Pipeline
  <2>4. CASE Handshake(c)
    BY <2>1, <2>2, <2>4, <1>5, <1>7 DEF Handshake, Streaming, Pipeline, StreamOK, SentIntact, TypeOK
  <2>5. CASE Recv(c)
    <3>1. CASE ch[c] # <<>> /\ Take(c) /\ Goto(c, "coalesce")
      BY <2>1, <2>3, <2>5, <3>1, <1>5, <1>7 DEF Recv, Streaming, StreamOK, SentIntact, TypeOK
    <3>2. CASE Goto(c, "done") /\ UNCHANGED <<ch, buf>>
      BY <2>2, <2>5, <3>2, <1>5, <1>7 DEF Recv, Streaming, StreamOK, SentIntact, TypeOK
    <3> QED BY <2>5, <3>1, <3>2 DEF Recv
  <2>6. CASE Coalesce(c)
    <3> USE <2>6 DEF Coalesce
    <3>1. CASE Len(buf[c]) < CoalesceMax /\ ch[c] # <<>>
      BY <2>1, <2>3, <3>1, <1>5, <1>7 DEF Streaming, StreamOK, SentIntact, TypeOK
    <3>2. CASE ~(Len(buf[c]) < CoalesceMax /\ ch[c] # <<>>)
      <4>1. UNCHANGED <<got, ch, buf>> /\ SentIntact(c)'
        BY <3>2, <1>5, <1>7 DEF StreamOK, SentIntact
      <4>2. CASE l = "write"
        BY <2>1, <4>1, <4>2 DEF Streaming, Pipeline
      <4>3. CASE l = "flush"
        <5>1. Len(buf[c]) \in 0..Len(buf[c]) /\ SubSeq(buf[c], 1, Len(buf[c])) = buf[c]
          BY <1>7
        <5>2. pc[c] = "coalesce"
          OBVIOUS
        <5>3. got[c] \o buf[c] = Run1(first[c], Len(got[c] \o buf[c]))
          BY <1>7, <5>1, <5>2, PrefixOfPipeline
        <5> QED BY <2>2, <4>1, <4>3, <5>3 DEF Streaming
      <4>4. l \in {"write", "flush"}
        BY <3>2 DEF TypeOK
      <4> QED BY <4>2, <4>3, <4>4
    <3> QED BY <3>1, <3>2
  <2>7. ASSUME NEW k \in 0..Len(buf[c]), SendPart(c, k), pc[c] \in {"write", "flush"}
        PROVE  SentIntact(c)'
    <3>1. got'[c] = got[c] \o SubSeq(buf[c], 1, k)
      BY <2>7 DEF SendPart, TypeOK
    <3>2. got[c] \o SubSeq(buf[c], 1, k)
            = Run1(first[c], Len(got[c] \o SubSeq(buf[c], 1, k)))
      BY <1>7, <2>7, PrefixOfPipeline
    <3> QED BY <1>5, <3>1, <3>2 DEF SentIntact
  <2>8. CASE WriteOK(c)
    <3>1. Len(buf[c]) \in 0..Len(buf[c])
      BY <1>7
    <3>2. SentIntact(c)'
      BY <2>7, <2>8, <3>1 DEF WriteOK
    <3>3. got'[c] = got[c] \o SubSeq(buf[c], 1, Len(buf[c])) /\ buf'[c] = <<>> /\ ch'[c] = ch[c]
      BY <2>8 DEF WriteOK, SendPart, TypeOK
    <3>4. Pipeline(c)' = Pipeline(c)
      <4>1. (got[c] \o SubSeq(buf[c], 1, Len(buf[c]))) \o <<>> \o ch[c] = got[c] \o buf[c] \o ch[c]
        BY <1>7, WriteKeeps
      <4> QED BY <3>3, <4>1 DEF Pipeline
    <3> QED BY <2>1, <2>8, <3>2, <3>3, <3>4 DEF WriteOK, Streaming, TypeOK
  <2>9. CASE WriteFail(c)
    BY <2>2, <2>7, <2>9 DEF WriteFail, Streaming, TypeOK
  <2>10. CASE Flush(c)
    BY <2>2, <2>7, <2>10 DEF Flush, Streaming, TypeOK
  <2>11. CASE FailClose(c)
    BY <1>1, <1>5, <1>7, <2>11, StreamFrame, UpToDateFrame DEF FailClose
  <2>12. CASE FailReturn(c)
    BY <2>2, <2>12, <1>5, <1>7 DEF FailReturn, Streaming, StreamOK, SentIntact, TypeOK
  <2> QED BY <2>4, <2>5, <2>6, <2>8, <2>9, <2>10, <2>11, <2>12 DEF Run
<1>9. Streams'
  BY <1>6, <1>8 DEF Streams
<1>10. NothingMissed'
  BY <1>1, <1>6, <1>8 DEF NothingMissed, TypeOK
<1> QED BY <1>2, <1>4, <1>9, <1>10

-----------------------------------------------------------------------------

(* IInv, the inductive invariant the two stream properties follow from.    *)
THEOREM Inductive == Spec => []IInv
<1>1. Init => IInv
  <2> SUFFICES ASSUME Init PROVE IInv
    OBVIOUS
  <2>1. TypeOK
    BY InitType
  <2>2. Phases /\ Membership
    BY IQServerAssumption DEF IQServerAssumption, Init, Phases, Membership
  <2>3. Streams
    <3>1. <<>> = Run1(0, 0) /\ Len(<<>>) = 0
      BY DEF Run1
    <3> QED BY <3>1 DEF Init, Streams, StreamOK, SentIntact, Streaming
  <2>4. NothingMissed
    BY DEF Init, NothingMissed
  <2> QED BY <2>1, <2>2, <2>3, <2>4 DEF IInv
<1>2. IInv /\ TypeOK' /\ [Next]_vars => IInv'
  <2> SUFFICES ASSUME IInv, TypeOK', [Next]_vars PROVE IInv'
    OBVIOUS
  <2>1. CASE UNCHANGED vars
    <3> USE <2>1 DEF vars, serverVars, connVars, bcVars, clVars, IInv
    <3>1. Phases' /\ Membership'
      BY DEF Phases, Membership
    <3>2. Streams'
      BY StreamFrame DEF Streams
    <3>3. NothingMissed'
      BY UpToDateFrame DEF NothingMissed, Owed, TypeOK
    <3> QED BY <3>1, <3>2, <3>3
  <2> QED
    BY <2>1, BroadcasterStep, CloserStep, AcceptStep, RunStep DEF Next, Rest, IInv
<1> QED BY <1>1, <1>2, TypeCorrect, PTL DEF Spec

(* What any peer was sent is an unbroken run of the live stream from the   *)
(* block after it joined, for any number of clients and queue size.        *)
THEOREM StreamIntactHolds == Spec => []StreamIntact
<1>1. IInv => StreamIntact
  BY DEF IInv, Streams, StreamOK, StreamIntact
<1> QED BY <1>1, Inductive, PTL

(* A registered client whose writer is alive has missed no block.          *)
THEOREM NothingMissedHolds == Spec => []NothingMissed
<1>1. IInv => NothingMissed
  BY DEF IInv
<1> QED BY <1>1, Inductive, PTL
-----------------------------------------------------------------------------
(* IQServer implements BlockStream.  To IInv it adds that nothing is held  *)
(* for a client that was not broadcast, for a peer may not hear a block    *)
(* before it goes by.                                                      *)

Past(q, n) == \A i \in 1..Len(q) : q[i] <= n
NothingAhead ==
    \A c \in Conn : Past(got[c], sent) /\ Past(buf[c], sent) /\ Past(ch[c], sent)

(* Past under the operations of the writer and of Broadcast. *)
LEMMA PastTake ==
  ASSUME NEW b \in Seq(Nat), NEW q \in Seq(Nat), q # <<>>, NEW n \in Nat, Past(b, n), Past(q, n)
  PROVE  Past(Append(b, Head(q)), n) /\ Past(Tail(q), n)
<1>1. Len(q) \in Nat \ {0} /\ Head(q) = q[1] /\ Head(q) \in Nat
  OBVIOUS
<1>2. Head(q) <= n
  BY <1>1 DEF Past
<1>3. Past(Append(b, Head(q)), n)
  BY <1>1, <1>2 DEF Past
<1>4. /\ Len(Tail(q)) = Len(q) - 1
      /\ \A i \in 1..Len(Tail(q)) : Tail(q)[i] = q[i + 1]
  OBVIOUS
<1>5. Past(Tail(q), n)
  BY <1>1, <1>4 DEF Past
<1> QED BY <1>3, <1>5

LEMMA PastAppend ==
  ASSUME NEW q \in Seq(Nat), NEW n \in Nat, Past(q, n)
  PROVE  Past(Append(q, n), n)
BY DEF Past

LEMMA PastPrefix ==
  ASSUME NEW g \in Seq(Nat), NEW b \in Seq(Nat), NEW n \in Nat, Past(g, n), Past(b, n),
         NEW k \in 0..Len(b)
  PROVE  Past(g \o SubSeq(b, 1, k), n)
<1> DEFINE s == SubSeq(b, 1, k)
<1>1. /\ s \in Seq(Nat) /\ Len(s) = k
      /\ \A i \in 1..k : s[i] = b[i]
  OBVIOUS
<1> HIDE DEF s
<1>2. ASSUME NEW i \in 1..Len(s) PROVE s[i] <= n
  <2>1. i \in 1..k /\ i \in 1..Len(b)
    BY <1>1
  <2>2. s[i] = b[i] /\ b[i] <= n
    BY <1>1, <2>1 DEF Past
  <2> QED BY <2>2
<1>3. /\ Len(g \o s) = Len(g) + Len(s)
      /\ \A i \in 1..Len(g)+Len(s) : (g \o s)[i] = IF i <= Len(g) THEN g[i] ELSE s[i - Len(g)]
  BY <1>1, ConcatProperties
<1>4. ASSUME NEW i \in 1..Len(g \o s) PROVE (g \o s)[i] <= n
  <2>1. CASE i <= Len(g)
    BY <1>3, <2>1 DEF Past
  <2>2. CASE i > Len(g)
    <3>1. i - Len(g) \in 1..Len(s) /\ (g \o s)[i] = s[i - Len(g)]
      BY <1>1, <1>3, <2>2
    <3> QED BY <1>2, <3>1
  <2> QED BY <2>1, <2>2, <1>1, <1>3
<1> QED BY <1>4 DEF s, Past

LEMMA PastGrows ==
  ASSUME NEW q \in Seq(Nat), NEW n \in Nat, NEW m \in {n, n + 1}, Past(q, n)
  PROVE  Past(q, m)
<1>1. ASSUME NEW i \in 1..Len(q) PROVE q[i] <= m
  <2>1. q[i] \in Nat /\ q[i] <= n
    BY DEF Past
  <2> QED BY <2>1
<1> QED BY <1>1 DEF Past

(* What a step leaves alone was broadcast before, too. *)
LEMMA AheadFrame ==
  ASSUME TypeOK, NothingAhead, TypeOK', sent' \in {sent, sent + 1}, NEW c \in Conn,
         got'[c] = got[c], buf'[c] = buf[c], ch'[c] = ch[c]
  PROVE  Past(got[c], sent)' /\ Past(buf[c], sent)' /\ Past(ch[c], sent)'
<1>1. /\ got[c] \in Seq(Nat) /\ buf[c] \in Seq(Nat) /\ ch[c] \in Seq(Nat)
      /\ sent \in Nat
      /\ Past(got[c], sent) /\ Past(buf[c], sent) /\ Past(ch[c], sent)
  BY DEF TypeOK, NothingAhead
<1>2. Past(got[c], sent') /\ Past(buf[c], sent') /\ Past(ch[c], sent')
  BY <1>1, PastGrows
<1> QED BY <1>2

(* No block is queued, buffered or sent that was not broadcast. *)
LEMMA AheadStep ==
  ASSUME TypeOK, NothingAhead, TypeOK', [Next]_vars
  PROVE  NothingAhead'
<1>1. CASE UNCHANGED <<got, buf, ch>> /\ sent' \in {sent, sent + 1}
  BY <1>1, AheadFrame DEF NothingAhead
<1>2. ASSUME NEW c \in Conn, sent' = sent,
             \A d \in Conn : d # c => got'[d] = got[d] /\ buf'[d] = buf[d] /\ ch'[d] = ch[d],
             Past(got'[c], sent), Past(buf'[c], sent), Past(ch'[c], sent)
      PROVE  NothingAhead'
  <2>1. ASSUME NEW d \in Conn, d # c
        PROVE  Past(got[d], sent)' /\ Past(buf[d], sent)' /\ Past(ch[d], sent)'
    BY <1>2, <2>1, AheadFrame
  <2> QED BY <1>2, <2>1 DEF NothingAhead
<1>3. ASSUME NEW c \in Conn, Offer(c)
      PROVE  NothingAhead'
  <2>1. CASE UNCHANGED ch
    BY <1>1, <1>3, <2>1 DEF Offer
  <2>2. CASE Enqueue(c)
    <3>1. /\ got[c] \in Seq(Nat) /\ ch[c] \in Seq(Nat) /\ sent \in Nat
          /\ Past(got[c], sent) /\ Past(buf[c], sent) /\ Past(ch[c], sent)
      BY DEF NothingAhead, TypeOK
    <3>2. Past(Append(ch[c], sent), sent)
      BY <3>1, PastAppend
    <3>3. /\ ch'[c] = Append(ch[c], sent)
          /\ \A d \in Conn : d # c => ch'[d] = ch[d]
          /\ UNCHANGED <<got, buf, sent>>
      BY <1>3, <2>2 DEF Offer, Enqueue, TypeOK
    <3> QED BY <1>2, <3>1, <3>2, <3>3
  <2> QED BY <1>3, <2>1, <2>2 DEF Offer
<1>4. ASSUME NEW c \in Conn, Run(c)
      PROVE  NothingAhead'
  <2>1. /\ got[c] \in Seq(Nat) /\ buf[c] \in Seq(Nat) /\ ch[c] \in Seq(Nat) /\ sent \in Nat
        /\ Past(got[c], sent) /\ Past(buf[c], sent) /\ Past(ch[c], sent)
    BY DEF NothingAhead, TypeOK
  <2>2. ASSUME ch[c] # <<>>, Take(c), UNCHANGED <<got, sent>>
        PROVE  NothingAhead'
    <3>1. Past(Append(buf[c], Head(ch[c])), sent) /\ Past(Tail(ch[c]), sent)
      BY <2>1, <2>2, PastTake
    <3>2. /\ buf'[c] = Append(buf[c], Head(ch[c])) /\ ch'[c] = Tail(ch[c])
          /\ \A d \in Conn : d # c => buf'[d] = buf[d] /\ ch'[d] = ch[d]
      BY <2>2 DEF Take, TypeOK
    <3> QED BY <1>2, <2>1, <2>2, <3>1, <3>2
  <2>3. ASSUME NEW k \in 0..Len(buf[c]), SendPart(c, k), UNCHANGED <<ch, sent>>,
               buf' = buf \/ buf' = [buf EXCEPT ![c] = <<>>]
        PROVE  NothingAhead'
    <3>1. Past(got[c] \o SubSeq(buf[c], 1, k), sent)
      BY <2>1, PastPrefix
    <3>2. /\ got'[c] = got[c] \o SubSeq(buf[c], 1, k)
          /\ \A d \in Conn : d # c => got'[d] = got[d] /\ buf'[d] = buf[d]
      BY <2>3 DEF SendPart, TypeOK
    <3>3. Past(<<>>, sent)
      BY DEF Past
    <3>4. Past(buf'[c], sent)
      BY <2>1, <2>3, <3>3 DEF TypeOK
    <3> QED BY <1>2, <2>1, <2>3, <3>1, <3>2, <3>4
  <2>4. CASE UNCHANGED <<got, buf, ch, sent>>
    BY <1>1, <2>4
  <2>5. CASE Recv(c)
    BY <2>2, <2>4, <2>5 DEF Recv, bcVars
  <2>6. CASE Coalesce(c)
    BY <2>2, <2>4, <2>6 DEF Coalesce, bcVars
  <2>7. CASE WriteOK(c)
    <3>1. Len(buf[c]) \in 0..Len(buf[c])
      BY <2>1
    <3> QED BY <2>3, <2>7, <3>1 DEF WriteOK, bcVars
  <2>8. CASE WriteFail(c)
    BY <2>3, <2>8 DEF WriteFail, bcVars
  <2>9. CASE Flush(c)
    BY <2>3, <2>9 DEF Flush, bcVars
  <2>10. CASE Handshake(c) \/ FailClose(c) \/ FailReturn(c)
    BY <2>4, <2>10 DEF Handshake, FailClose, FailReturn, bcVars
  <2> QED BY <1>4, <2>5, <2>6, <2>7, <2>8, <2>9, <2>10 DEF Run
<1>5. CASE UNCHANGED vars
  BY <1>1, <1>5 DEF vars, connVars, bcVars
<1>6. CASE Broadcaster
  <2>1. CASE \E c \in Conn : Offer(c)
    BY <1>3, <2>1
  <2>2. CASE BroadcastStart
    BY <1>1, <2>2 DEF BroadcastStart, connVars
  <2>3. CASE BroadcastUnlock \/ BroadcastReturn \/ \E c \in Conn : EvictClose(c) \/ Evicted(c)
    BY <1>1, <2>3 DEF BroadcastUnlock, BroadcastReturn, EvictClose, Evicted, connVars, bcVars
  <2> QED BY <1>6, <2>1, <2>2, <2>3 DEF Broadcaster
<1>7. CASE Closer
  BY <1>1, <1>7 DEF Closer, CloseMark, CloseListener, CloseReturn, DropClose, Dropped,
     connVars, bcVars
<1>8. ASSUME NEW c \in Conn, Accept(c) \/ Add(c) \/ ConnClose(c)
      PROVE  NothingAhead'
  BY <1>1, <1>8 DEF Accept, Add, ConnClose, bcVars
<1> QED BY <1>4, <1>5, <1>6, <1>7, <1>8 DEF Next, Rest

(* What a run goroutine does is a delivery, if perhaps of nothing. *)
LEMMA RunDelivers ==
  ASSUME IInv, IInv', NothingAhead', NEW c \in Conn, Run(c)
  PROVE  Stream!Deliver(c)
<1> DEFINE l == pc'[c]
           n == Len(got'[c])
<1>1. /\ pc[c] \notin {"none", "accepted", "done"}
      /\ UNCHANGED <<sent, first>>
      /\ pc' = [pc EXCEPT ![c] = l]
      /\ l \notin {"none", "accepted"}
  BY DEF IInv, Run, Handshake, Recv, Take, Coalesce, WriteOK, WriteFail, Flush, Goto,
     FailClose, FailReturn, CloseChan, TypeOK, RunPc, bcVars
<1>2. /\ got' = [got EXCEPT ![c] = got'[c]]
      /\ Len(got'[c]) >= Len(got[c])
  <2>1. got[c] \in Seq(Nat) /\ buf[c] \in Seq(Nat) /\ got \in [Conn -> Seq(Nat)]
    BY DEF IInv, TypeOK
  <2>2. CASE got' = got
    BY <2>1, <2>2
  <2>3. ASSUME NEW k \in 0..Len(buf[c]), SendPart(c, k)
        PROVE  got' = [got EXCEPT ![c] = got'[c]] /\ Len(got'[c]) >= Len(got[c])
    <3>1. SubSeq(buf[c], 1, k) \in Seq(Nat)
      BY <2>1
    <3>2. Len(got[c] \o SubSeq(buf[c], 1, k)) >= Len(got[c])
      BY <2>1, <3>1
    <3> QED BY <2>1, <2>3, <3>2 DEF SendPart
  <2>4. Len(buf[c]) \in 0..Len(buf[c])
    BY <2>1
  <2> QED BY <2>2, <2>3, <2>4
    DEF Run, Handshake, Recv, Coalesce, WriteOK, WriteFail, Flush, FailClose, FailReturn
<1>3. /\ n \in Nat /\ first[c] \in Nat /\ sent \in Nat
      /\ got'[c] \in Seq(Nat) /\ got'[c] = Run1(first[c], n) /\ first[c] <= sent
      /\ Past(got'[c], sent) /\ Len(got[c]) \in Nat
  <2>1. /\ got'[c] \in Seq(Nat) /\ got[c] \in Seq(Nat) /\ first[c] \in Nat
        /\ sent \in Nat /\ first[c] <= sent
    BY DEF IInv, TypeOK, Membership
  <2>2. got'[c] = Run1(first'[c], Len(got'[c]))
    BY DEF IInv, Streams, StreamOK, SentIntact
  <2>3. Past(got'[c], sent')
    BY DEF NothingAhead
  <2> QED BY <1>1, <2>1, <2>2, <2>3
<1> HIDE DEF n
<1>4. first[c] + n <= sent
  <2>1. CASE n = 0
    BY <1>3, <2>1
  <2>2. CASE n > 0
    <3>1. n \in 1..n
      BY <1>3, <2>2
    <3>2. \A i \in 1..n : Run1(first[c], n)[i] = first[c] + i
      BY <1>3, RunIsSeq
    <3>3. got'[c][n] <= sent
      BY <1>3, <2>2 DEF Past, n
    <3> QED BY <1>3, <3>1, <3>2, <3>3
  <2> QED BY <1>3, <2>1, <2>2
<1>5. PeerState[c] = "served"
  BY <1>1 DEF PeerState
<1>6. PeerState' \in {PeerState, [PeerState EXCEPT ![c] = "gone"]}
  <2>1. PeerState' = [PeerState EXCEPT ![c] = IF l = "done" THEN "gone" ELSE "served"]
    BY <1>1 DEF PeerState, IInv, TypeOK
  <2> QED BY <2>1, <1>5 DEF PeerState
<1>7. /\ first[c] + n \in first[c]..sent /\ first[c] + n >= first[c] + Len(got[c])
      /\ (first[c] + n) - first[c] = n
  BY <1>2, <1>3, <1>4 DEF n
<1>8. got' = [got EXCEPT ![c] = Stream!Blocks(first[c], (first[c] + n) - first[c])]
  <2>1. Stream!Blocks(first[c], n) = Run1(first[c], n)
    BY DEF Stream!Blocks, Run1
  <2> QED BY <1>2, <1>3, <1>7, <2>1
<1> QED BY <1>1, <1>5, <1>6, <1>7, <1>8 DEF Stream!Deliver

(* A connection that is registered joins; one that is refused is gone. *)
LEMMA AddJoins ==
  ASSUME IInv, NEW c \in Conn, Add(c)
  PROVE  Stream!Join(c) \/ Stream!Refuse(c)
<1>1. pc[c] = "accepted" /\ pc \in [Conn -> RunPc] /\ UNCHANGED <<sent, got>>
  BY IQServerAssumption DEF IQServerAssumption, IInv, Phases, TypeOK, Add, bcVars
<1>2. PeerState[c] = "new"
  BY <1>1 DEF PeerState
<1>3. CASE Register(c)
  <2>1. PeerState' = [PeerState EXCEPT ![c] = "served"]
    BY <1>1, <1>3 DEF PeerState, Register
  <2> QED BY <1>1, <1>2, <1>3, <2>1 DEF Register, Stream!Join
<1>4. CASE Refuse(c)
  <2>1. PeerState' = [PeerState EXCEPT ![c] = "gone"]
    BY <1>1, <1>4 DEF PeerState, Refuse
  <2> QED BY <1>1, <1>2, <1>4, <2>1 DEF Refuse, Stream!Refuse
<1> QED BY <1>3, <1>4 DEF Add

(* Whatever queues, threads and failures there are between, what the peers *)
(* of the server hear is what the abstract stream lets them hear.          *)
THEOREM StreamImplemented == Spec => Implements
<1>1. Init => Stream!Init
  <2> SUFFICES ASSUME Init PROVE Stream!Init
    OBVIOUS
  <2>1. PeerState = [c \in Conn |-> "new"]
    BY DEF Init, PeerState
  <2> QED BY <2>1 DEF Init, Stream!Init
<1>2. Init => NothingAhead
  <2>1. Past(<<>>, sent)
    BY DEF Past
  <2>2. ASSUME Init, NEW c \in Conn
        PROVE  got[c] = <<>> /\ buf[c] = <<>> /\ ch[c] = <<>>
    BY <2>2 DEF Init
  <2> QED BY <2>1, <2>2 DEF NothingAhead
<1>3. IInv /\ IInv' /\ NothingAhead' /\ [Next]_vars => [Stream!Next]_(Stream!vars)
  <2> SUFFICES ASSUME IInv, IInv', NothingAhead', [Next]_vars
               PROVE  [Stream!Next]_(Stream!vars)
    OBVIOUS
  <2>1. ASSUME UNCHANGED <<sent, first, got, pc>>
        PROVE  UNCHANGED Stream!vars
    BY <2>1 DEF Stream!vars, PeerState
  <2>2. CASE UNCHANGED vars
    BY <2>1, <2>2 DEF vars, connVars, bcVars
  <2>3. CASE Broadcaster
    <3>1. CASE BroadcastStart
      <4>1. Stream!Block
        BY <3>1 DEF BroadcastStart, connVars, PeerState, Stream!Block
      <4> QED BY <4>1 DEF Stream!Next
    <3>2. CASE ~BroadcastStart
      BY <2>1, <2>3, <3>2 DEF Broadcaster, BroadcastUnlock, BroadcastReturn, Offer, EvictClose,
         Evicted, connVars, bcVars
    <3> QED BY <3>1, <3>2
  <2>4. CASE Closer
    BY <2>1, <2>4 DEF Closer, CloseMark, CloseListener, CloseReturn, DropClose, Dropped,
       connVars, bcVars
  <2>5. ASSUME NEW c \in Conn, Accept(c)
        PROVE  UNCHANGED Stream!vars
    <3>1. pc[c] = "none" /\ pc' = [pc EXCEPT ![c] = "accepted"] /\ pc \in [Conn -> RunPc]
      BY <2>5 DEF Accept, IInv, TypeOK
    <3>2. PeerState' = PeerState
      BY <3>1 DEF PeerState
    <3> QED BY <2>5, <3>2 DEF Accept, Stream!vars, bcVars
  <2>6. ASSUME NEW c \in Conn, Add(c) \/ Run(c)
        PROVE  Stream!Next
    BY <2>6, AddJoins, RunDelivers DEF Stream!Next
  <2>7. ASSUME NEW c \in Conn, ConnClose(c)
        PROVE  UNCHANGED Stream!vars
    BY <2>1, <2>7 DEF ConnClose, bcVars
  <2> QED BY <2>2, <2>3, <2>4, <2>5, <2>6, <2>7 DEF Next, Rest
<1>4. IInv => TypeOK
  BY DEF IInv
<1>5. IInv /\ IInv' /\ NothingAhead /\ [Next]_vars => NothingAhead'
  BY <1>4, AheadStep DEF IInv
<1> QED BY <1>1, <1>2, <1>3, <1>5, Inductive, PTL DEF Spec, Implements, Stream!Spec
=============================================================================
