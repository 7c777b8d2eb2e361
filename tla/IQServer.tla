------------------------------ MODULE IQServer ------------------------------
(***************************************************************************)
(* The in-process rtl_tcp server (internal/rtltcp/server.go).  The radio's *)
(* read loop hands every IQ block it receives to Broadcast, which offers   *)
(* it to the bounded queue of each registered client; one goroutine per    *)
(* client drains its queue into its socket.                                *)
(*                                                                         *)
(* Threads: the accept loop, the broadcaster (the radio's read loop), the  *)
(* closer (whoever switches the server off) and run(c) for each client c.  *)
(* A block is its number in the live stream.                               *)
(***************************************************************************)
EXTENDS Naturals, Sequences

CONSTANTS
    Conn,         \* the TCP connections that may arrive
    QueueCap,     \* capacity of a client's queue (8 in the code)
    CoalesceMax,  \* blocks joined into one write (48 KiB in the code)
    MaxBlock,     \* bound: blocks broadcast in a behaviour
    NoConn        \* "the accept loop holds no connection"

ASSUME IQServerAssumption ==
    /\ QueueCap \in Nat \ {0}
    /\ CoalesceMax \in Nat \ {0}
    /\ MaxBlock \in Nat
    /\ NoConn \notin Conn

VARIABLES
    closed,     \* s.closed
    clients,    \* s.clients
    muHeld,     \* s.mu is held by Broadcast's loop
    lnOpen,     \* the listener is open
    accepted,   \* what Accept returned and add has not registered yet
    ch,         \* sc.ch: the blocks queued
    chClosed,   \* close(sc.ch) was called
    connOpen,   \* the server's end of the socket is open
    pc,         \* where the goroutine sc.run is
    buf,        \* run's coalescing buffer
    got,        \* the blocks the peer was sent, in order
    first,      \* history: the last block before the client joined
    sent,       \* blocks broadcast so far
    bc,         \* where Broadcast is
    todo,       \* clients the loop has still to offer the block to
    slow,       \* clients whose queue was full
    cl,         \* where Close is
    drop,       \* the clients Close has still to close
    panicked    \* a send on a closed channel ended the process

serverVars == <<closed, clients, muHeld, lnOpen, accepted>>
connVars   == <<ch, chClosed, connOpen, pc, buf, got, first>>
bcVars     == <<sent, bc, todo, slow>>
clVars     == <<cl, drop>>
vars == <<serverVars, connVars, bcVars, clVars, panicked>>

Init ==
    /\ closed = FALSE /\ clients = {} /\ muHeld = FALSE
    /\ lnOpen = TRUE /\ accepted = NoConn
    /\ ch = [c \in Conn |-> <<>>] /\ chClosed = [c \in Conn |-> FALSE]
    /\ connOpen = [c \in Conn |-> FALSE] /\ pc = [c \in Conn |-> "none"]
    /\ buf = [c \in Conn |-> <<>>] /\ got = [c \in Conn |-> <<>>]
    /\ first = [c \in Conn |-> 0]
    /\ sent = 0 /\ bc = "idle" /\ todo = {} /\ slow = {}
    /\ cl = "off" /\ drop = {}
    /\ panicked = FALSE

-----------------------------------------------------------------------------
(* The accept loop *)

Accept(c) ==
    /\ lnOpen /\ accepted = NoConn /\ pc[c] = "none"
    /\ accepted' = c
    /\ connOpen' = [connOpen EXCEPT ![c] = TRUE]
    /\ pc' = [pc EXCEPT ![c] = "accepted"]
    /\ UNCHANGED <<closed, clients, muHeld, lnOpen, ch, chClosed, buf, got,
                   first, bcVars, clVars, panicked>>

Register(c) ==
    /\ clients' = clients \cup {c}
    /\ first' = [first EXCEPT ![c] = sent]
    /\ pc' = [pc EXCEPT ![c] = "handshake"]
    /\ UNCHANGED connOpen

Refuse(c) ==
    /\ connOpen' = [connOpen EXCEPT ![c] = FALSE]
    /\ pc' = [pc EXCEPT ![c] = "done"]
    /\ UNCHANGED <<clients, first>>

Add(c) ==
    /\ accepted = c /\ ~muHeld
    /\ accepted' = NoConn
    /\ \/ ~closed /\ Register(c)
       \/ closed /\ Refuse(c)
    /\ UNCHANGED <<closed, muHeld, lnOpen, ch, chClosed, buf, got, bcVars,
                   clVars, panicked>>

-----------------------------------------------------------------------------
(* sc.close: sync.Once around close(ch) and conn.Close.  Its first caller  *)
(* runs CloseChan; ConnClose is the rest of the body; a later caller waits *)
(* for the body to end.                                                    *)

CloseChan(c) ==
    /\ ~chClosed[c]
    /\ chClosed' = [chClosed EXCEPT ![c] = TRUE]

\* Bug form: close does not reach conn.Close.
ConnCloseNever(c) == FALSE /\ UNCHANGED vars

ConnClose(c) ==
    /\ chClosed[c] /\ connOpen[c]
    /\ connOpen' = [connOpen EXCEPT ![c] = FALSE]
    /\ UNCHANGED <<serverVars, ch, chClosed, pc, buf, got, first, bcVars,
                   clVars, panicked>>

-----------------------------------------------------------------------------
(* Broadcast *)

BroadcastStart ==
    /\ bc = "idle" /\ ~muHeld /\ sent < MaxBlock
    /\ sent' = sent + 1
    /\ muHeld' = TRUE /\ bc' = "offer" /\ todo' = clients /\ slow' = {}
    /\ UNCHANGED <<closed, clients, lnOpen, accepted, connVars, clVars, panicked>>

Enqueue(c) == ch' = [ch EXCEPT ![c] = Append(@, sent)] /\ UNCHANGED slow

\* Bug form: a full queue loses the block instead of the client.
OfferSkip(c) ==
    /\ bc = "offer" /\ c \in todo
    /\ todo' = todo \ {c}
    /\ \/ chClosed[c] /\ panicked' = TRUE /\ UNCHANGED <<ch, slow>>
       \/ /\ ~chClosed[c] /\ UNCHANGED panicked
          /\ IF Len(ch[c]) < QueueCap THEN Enqueue(c) ELSE UNCHANGED <<ch, slow>>
    /\ UNCHANGED <<serverVars, chClosed, connOpen, pc, buf, got, first, sent, bc, clVars>>

\* Bug form: the queue is not bounded.
OfferUnbounded(c) ==
    /\ bc = "offer" /\ c \in todo
    /\ todo' = todo \ {c}
    /\ \/ chClosed[c] /\ panicked' = TRUE /\ UNCHANGED <<ch, slow>>
       \/ ~chClosed[c] /\ Enqueue(c) /\ UNCHANGED panicked
    /\ UNCHANGED <<serverVars, chClosed, connOpen, pc, buf, got, first, sent, bc, clVars>>

Offer(c) ==
    /\ bc = "offer" /\ c \in todo
    /\ todo' = todo \ {c}
    /\ \/ chClosed[c] /\ panicked' = TRUE /\ UNCHANGED <<ch, slow>>
       \/ ~chClosed[c] /\ Len(ch[c]) < QueueCap /\ Enqueue(c) /\ UNCHANGED panicked
       \/ /\ ~chClosed[c] /\ Len(ch[c]) >= QueueCap
          /\ slow' = slow \cup {c} /\ UNCHANGED <<ch, panicked>>
    /\ UNCHANGED <<serverVars, chClosed, connOpen, pc, buf, got, first, sent, bc, clVars>>

BroadcastUnlock ==
    /\ bc = "offer" /\ todo = {}
    /\ clients' = clients \ slow
    /\ muHeld' = FALSE /\ bc' = "evict"
    /\ UNCHANGED <<closed, lnOpen, accepted, connVars, sent, todo, slow, clVars, panicked>>

EvictClose(c) ==
    /\ bc = "evict" /\ c \in slow /\ CloseChan(c)
    /\ UNCHANGED <<serverVars, ch, connOpen, pc, buf, got, first, bcVars, clVars, panicked>>

Evicted(c) ==
    /\ bc = "evict" /\ c \in slow /\ chClosed[c] /\ ~connOpen[c]
    /\ slow' = slow \ {c}
    /\ UNCHANGED <<serverVars, connVars, sent, bc, todo, clVars, panicked>>

BroadcastReturn ==
    /\ bc = "evict" /\ slow = {}
    /\ bc' = "idle"
    /\ UNCHANGED <<serverVars, connVars, sent, todo, slow, clVars, panicked>>

Broadcaster ==
    \/ BroadcastStart \/ BroadcastUnlock \/ BroadcastReturn
    \/ \E c \in Conn : Offer(c) \/ EvictClose(c) \/ Evicted(c)

-----------------------------------------------------------------------------
(* Close *)

CloseMark ==
    /\ cl = "off" /\ ~muHeld
    /\ closed' = TRUE /\ drop' = clients /\ clients' = {}
    /\ cl' = "listener"
    /\ UNCHANGED <<muHeld, lnOpen, accepted, connVars, bcVars, panicked>>

CloseListener ==
    /\ cl = "listener"
    /\ lnOpen' = FALSE /\ cl' = "clients"
    /\ UNCHANGED <<closed, clients, muHeld, accepted, connVars, bcVars, drop, panicked>>

DropClose(c) ==
    /\ cl = "clients" /\ c \in drop /\ CloseChan(c)
    /\ UNCHANGED <<serverVars, ch, connOpen, pc, buf, got, first, bcVars, clVars, panicked>>

Dropped(c) ==
    /\ cl = "clients" /\ c \in drop /\ chClosed[c] /\ ~connOpen[c]
    /\ drop' = drop \ {c}
    /\ UNCHANGED <<serverVars, connVars, bcVars, cl, panicked>>

CloseReturn ==
    /\ cl = "clients" /\ drop = {}
    /\ cl' = "done"
    /\ UNCHANGED <<serverVars, connVars, bcVars, drop, panicked>>

Closer ==
    \/ CloseMark \/ CloseListener \/ CloseReturn
    \/ \E c \in Conn : DropClose(c) \/ Dropped(c)

-----------------------------------------------------------------------------
(* sc.run.  A write may fail at any time (the peer reset, the 5 s deadline *)
(* passed) and then any prefix of it was sent; it succeeds only on an open *)
(* socket.                                                                 *)

Goto(c, l) == pc' = [pc EXCEPT ![c] = l]

Handshake(c) ==
    /\ pc[c] = "handshake"
    /\ \/ connOpen[c] /\ Goto(c, "recv")
       \/ Goto(c, "fail")
    /\ UNCHANGED <<serverVars, ch, chClosed, connOpen, buf, got, first, bcVars, clVars, panicked>>

\* Bug form: a block goes before those already in the buffer.
TakeFront(c) ==
    /\ buf' = [buf EXCEPT ![c] = <<Head(ch[c])>> \o @]
    /\ ch' = [ch EXCEPT ![c] = Tail(@)]

Take(c) ==
    /\ buf' = [buf EXCEPT ![c] = Append(@, Head(ch[c]))]
    /\ ch' = [ch EXCEPT ![c] = Tail(@)]

Recv(c) ==
    /\ pc[c] = "recv"
    /\ \/ ch[c] # <<>> /\ Take(c) /\ Goto(c, "coalesce")
       \/ ch[c] = <<>> /\ chClosed[c] /\ Goto(c, "done") /\ UNCHANGED <<ch, buf>>
    /\ UNCHANGED <<serverVars, chClosed, connOpen, got, first, bcVars, clVars, panicked>>

Coalesce(c) ==
    /\ pc[c] = "coalesce"
    /\ IF Len(buf[c]) < CoalesceMax /\ ch[c] # <<>>
         THEN Take(c) /\ UNCHANGED pc
         ELSE /\ Goto(c, IF Len(buf[c]) < CoalesceMax /\ chClosed[c] THEN "flush" ELSE "write")
              /\ UNCHANGED <<ch, buf>>
    /\ UNCHANGED <<serverVars, chClosed, connOpen, got, first, bcVars, clVars, panicked>>

SendPart(c, k) ==
    /\ connOpen[c] \/ k = 0
    /\ got' = [got EXCEPT ![c] = @ \o SubSeq(buf[c], 1, k)]

WriteOK(c) ==
    /\ pc[c] = "write" /\ connOpen[c]
    /\ SendPart(c, Len(buf[c]))
    /\ buf' = [buf EXCEPT ![c] = <<>>]
    /\ Goto(c, "recv")
    /\ UNCHANGED <<serverVars, ch, chClosed, connOpen, first, bcVars, clVars, panicked>>

WriteFail(c) ==
    /\ pc[c] = "write"
    /\ \E k \in 0..Len(buf[c]) : SendPart(c, k)
    /\ Goto(c, "fail")
    /\ UNCHANGED <<serverVars, ch, chClosed, connOpen, buf, first, bcVars, clVars, panicked>>

Flush(c) ==
    /\ pc[c] = "flush"
    /\ \E k \in 0..Len(buf[c]) : SendPart(c, k)
    /\ Goto(c, "done")
    /\ UNCHANGED <<serverVars, ch, chClosed, connOpen, buf, first, bcVars, clVars, panicked>>

FailClose(c) ==
    /\ pc[c] = "fail" /\ CloseChan(c)
    /\ UNCHANGED <<serverVars, ch, connOpen, pc, buf, got, first, bcVars, clVars, panicked>>

FailReturn(c) ==
    /\ pc[c] = "fail" /\ chClosed[c] /\ ~connOpen[c]
    /\ Goto(c, "done")
    /\ UNCHANGED <<serverVars, ch, chClosed, connOpen, buf, got, first, bcVars, clVars, panicked>>

Run(c) ==
    \/ Handshake(c) \/ Recv(c) \/ Coalesce(c) \/ WriteOK(c) \/ WriteFail(c)
    \/ Flush(c) \/ FailClose(c) \/ FailReturn(c)

-----------------------------------------------------------------------------

\* Nothing more to do: the process is dead, or the stream's bound is reached.
Rest == (panicked \/ (sent = MaxBlock /\ bc = "idle")) /\ UNCHANGED vars

Next ==
    \/ ~panicked /\ (Broadcaster \/ Closer)
    \/ \E c \in Conn : ~panicked /\ (Accept(c) \/ Add(c) \/ ConnClose(c) \/ Run(c))
    \/ Rest

Spec == Init /\ [][Next]_vars

(* Fairness: the goroutines are scheduled and conn.Close returns; what a   *)
(* connection's goroutines have left to do ends, so one condition for them *)
(* together is enough.  Nothing is promised of a peer: run(c) need not     *)
(* move while its socket is open, except to close it after a failed write. *)
Fairness ==
    /\ WF_vars(~panicked /\ Broadcaster)
    /\ WF_vars(~panicked /\ Closer)
    /\ \A c \in Conn :
         WF_vars(~panicked /\ (ConnClose(c) \/ Add(c) \/ FailClose(c) \/ (~connOpen[c] /\ Run(c))))

FairSpec == Spec /\ Fairness

-----------------------------------------------------------------------------

RunPc == {"none", "accepted", "handshake", "recv", "coalesce", "write",
          "flush", "fail", "done"}

TypeOK ==
    /\ closed \in BOOLEAN /\ clients \subseteq Conn /\ muHeld \in BOOLEAN
    /\ lnOpen \in BOOLEAN /\ accepted \in Conn \cup {NoConn}
    /\ ch \in [Conn -> Seq(Nat)] /\ \A c \in Conn : Len(ch[c]) <= QueueCap
    /\ chClosed \in [Conn -> BOOLEAN]
    /\ connOpen \in [Conn -> BOOLEAN]
    /\ pc \in [Conn -> RunPc]
    /\ buf \in [Conn -> Seq(Nat)] /\ got \in [Conn -> Seq(Nat)]
    /\ first \in [Conn -> Nat] /\ sent \in Nat
    /\ bc \in {"idle", "offer", "evict"} /\ todo \subseteq Conn /\ slow \subseteq Conn
    /\ cl \in {"off", "listener", "clients", "done"} /\ drop \subseteq Conn
    /\ panicked \in BOOLEAN

\* The consecutive blocks f+1, f+2, ... of length n.
Run1(f, n) == [i \in 1..n |-> f + i]

Streaming(c) == pc[c] \in {"handshake", "recv", "coalesce", "write"}

\* Everything the server took in for a client: sent, being written, queued.
Pipeline(c) == got[c] \o buf[c] \o ch[c]

(* What a peer was sent is an unbroken run of the live stream, beginning   *)
(* with the first block broadcast after it joined: a slow client is        *)
(* dropped, it never sees the stream with a hole in it or a block twice    *)
(* (Broadcast, run's coalescing, flush).                                   *)
SentIntact(c) == got[c] = Run1(first[c], Len(got[c]))
StreamIntact == \A c \in Conn : SentIntact(c)

\* The last block Broadcast has got to for this client.
Owed(c) == IF c \in todo \cup slow THEN sent - 1 ELSE sent

(* A client Broadcast still counts on, and whose writer is alive, has      *)
(* every block since it joined, in its socket, its buffer or its queue.    *)
UpToDate(c) == Streaming(c) => Pipeline(c) = Run1(first[c], Owed(c) - first[c])
NothingMissed == \A c \in clients : UpToDate(c)

(* The inductive invariant behind StreamIntact and NothingMissed.  Phases   *)
(* ties the lock, the two work sets and Broadcast's position together;      *)
(* Membership says who may be registered; Streams says what each writer     *)
(* holds, also for a client that is no longer registered.                   *)
Phases ==
    /\ muHeld <=> bc = "offer"
    /\ bc = "offer" => todo \cup slow \subseteq clients /\ todo \cap slow = {}
    /\ bc # "offer" => todo = {} /\ slow \cap clients = {}
    /\ closed => clients = {}
    /\ drop # {} => closed
    /\ accepted # NoConn => pc[accepted] = "accepted"

Membership ==
    \A c \in Conn :
        /\ c \in clients \cup slow \cup drop => pc[c] \notin {"none", "accepted"}
        /\ chClosed[c] => pc[c] \notin {"none", "accepted"}
        /\ c \in clients /\ chClosed[c] => pc[c] \in {"fail", "done"}
        /\ c \in todo \cup slow => sent > 0 /\ first[c] < sent
        /\ first[c] <= sent

StreamOK(c) ==
    /\ pc[c] \in {"none", "accepted"} => got[c] = <<>> /\ ch[c] = <<>>
    /\ pc[c] \in {"none", "accepted", "handshake", "recv"} => buf[c] = <<>>
    /\ Streaming(c) => Pipeline(c) = Run1(first[c], Len(Pipeline(c)))
    /\ pc[c] = "flush" => got[c] \o buf[c] = Run1(first[c], Len(got[c] \o buf[c]))
    /\ SentIntact(c)
Streams == \A c \in Conn : StreamOK(c)

IInv == TypeOK /\ Phases /\ Membership /\ Streams /\ NothingMissed

(* After Close has returned, no client is registered, no block is queued   *)
(* for a client that joined late, and a socket still open belongs to a     *)
(* connection some thread is about to close.                               *)
CloseIsFinal ==
    cl = "done" =>
        /\ clients = {}
        /\ \A c \in Conn : connOpen[c] =>
             accepted = c \/ chClosed[c] \/ c \in slow \/ pc[c] = "fail"

(* The radio's read loop is never held up by a client: once it has entered *)
(* Broadcast it leaves it, whatever the peers do with their sockets.       *)
BroadcastReturns == (bc = "offer") ~> (bc = "idle" \/ panicked)

(* Switching the server off ends every connection: each socket is closed   *)
(* and each run goroutine returns.                                         *)
CloseReleases ==
    (cl = "done") ~> (panicked \/ \A c \in Conn : pc[c] \in {"none", "done"} /\ ~connOpen[c])

(* Neither the radio nor the switch waits for a peer for ever, and what    *)
(* the switch ended stays ended.                                           *)
CloseEnds == []CloseIsFinal /\ BroadcastReturns /\ CloseReleases

(* Whatever queues, threads and failures there are between, a peer hears   *)
(* what the abstract stream lets him hear.                                 *)
PeerState == [c \in Conn |-> IF pc[c] \in {"none", "accepted"} THEN "new"
                             ELSE IF pc[c] = "done" THEN "gone" ELSE "served"]
Stream == INSTANCE BlockStream WITH
    stream <- sent, state <- PeerState, joined <- first, heard <- got
Implements == Stream!Spec

(* Reception survives its clients: no peer's failure may end the process.  *)
(* (README: "clients that fall behind are dropped so they never block      *)
(* reception".)                                                            *)
ReceptionSurvives == ~panicked
=============================================================================
