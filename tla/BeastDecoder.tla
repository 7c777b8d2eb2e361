----------------------------- MODULE BeastDecoder ---------------------------
(***************************************************************************)
(* The framer of the Mode S Beast stream (internal/adsb/beast.go): a frame *)
(* is a sync byte, a type, a header and a payload, and a sync byte inside  *)
(* header or payload is doubled.  TCP hands the stream over in any pieces; *)
(* Feed appends a piece and pulls frames until it needs more.  One Scan is *)
(* one turn of Feed's loop.  The producer may restart in mid-frame.        *)
(***************************************************************************)
EXTENDS Naturals, SequencesExt

CONSTANTS
    Sync,        \* the byte 0x1a
    Type,        \* the bytes that name a frame type
    HeaderLen,   \* bytes of time stamp and signal level
    PayloadLen,  \* [Type -> Nat \ {0}]
    Frame,       \* the frames a producer may send: <<type, body>>
    MaxFrames,   \* bound: frames sent in one behaviour
    MaxChunk     \* bound: bytes one read returns

VARIABLES
    wire,        \* bytes sent and not yet read
    buf,         \* d.buf
    scanning,    \* Feed has not returned
    out,         \* the messages handed to onMsg
    sent         \* history: what was sent, a frame or Broken

vars == <<wire, buf, scanning, out, sent>>

\* The mark of a frame that broke off.
Broken == <<>>

Need(type) == HeaderLen + PayloadLen[type]

Doubled(b) == IF b = Sync THEN <<Sync, Sync>> ELSE <<b>>

Encoded(f) == <<Sync, f[1]>> \o FlattenSeq([i \in DOMAIN f[2] |-> Doubled(f[2][i])])

Init == wire = <<>> /\ buf = <<>> /\ scanning = FALSE /\ out = <<>> /\ sent = <<>>

Send ==
    /\ Len(sent) < MaxFrames
    /\ \E f \in Frame : wire' = wire \o Encoded(f) /\ sent' = Append(sent, f)
    /\ UNCHANGED <<buf, scanning, out>>

\* The producer stops inside a frame, after n of its bytes.
Cut ==
    /\ Len(sent) < MaxFrames /\ ~Contains(sent, Broken)
    /\ \E f \in Frame : \E n \in 1..(Len(Encoded(f)) - 1) :
           wire' = wire \o SubSeq(Encoded(f), 1, n)
    /\ sent' = Append(sent, Broken)
    /\ UNCHANGED <<buf, scanning, out>>

\* A read of the connection, handed to Feed.
Feed ==
    /\ ~scanning
    /\ \E n \in 1..MaxChunk :
           /\ n <= Len(wire)
           /\ buf' = buf \o SubSeq(wire, 1, n)
           /\ wire' = SubSeq(wire, n + 1, Len(wire))
    /\ scanning' = TRUE
    /\ UNCHANGED <<out, sent>>

-----------------------------------------------------------------------------
(* One turn of Feed's loop, on a buffer that starts with a sync byte. *)

\* Where the k-th byte of the frame at the head of b stands, and where the scan
\* for the frame's n bytes ends: at the byte that is missing, at half a doubled
\* byte, at the sync byte of another frame, or after the last byte.
Place(b, n) ==
    LET place[k \in 0..n] ==
            IF k = 0 THEN 3
            ELSE place[k - 1]
                 + (IF place[k - 1] <= Len(b) /\ b[place[k - 1]] = Sync THEN 2 ELSE 1)
    IN  place

Missing(b, i) == i > Len(b)
Half(b, i)    == i = Len(b) /\ b[i] = Sync
Fresh(b, i)   == i < Len(b) /\ b[i] = Sync /\ b[i + 1] # Sync

\* Bug form: another frame's sync byte is taken for data.
StopsNeverFresh(b, i) == Missing(b, i) \/ Half(b, i)

Stops(b, i) == Missing(b, i) \/ Half(b, i) \/ Fresh(b, i)

Pulled(b, n) ==
    LET place == Place(b, n)
        stop  == {k \in 0..(n - 1) : Stops(b, place[k])}
    IN  IF stop = {} THEN n ELSE CHOOSE k \in stop : \A j \in stop : k <= j

\* The first k bytes of the frame, undoubled.
Body(b, k) == [i \in 1..k |-> b[Place(b, k)[i - 1]]]

\* What is kept of a frame that is not all there: the bytes as they came.
Kept(b, k) == SubSeq(b, 1, Place(b, k)[k] - 1)

\* What is before a sync byte is dropped.
FromSync(b) == SubSeq(b, SelectInSeq(b \o <<Sync>>, LAMBDA x : x = Sync), Len(b))

Scan ==
    /\ scanning
    /\ LET b    == FromSync(buf)
           n    == Need(b[2])
           k    == Pulled(b, n)
           i    == Place(b, k)[k]
           From(j) == SubSeq(b, j, Len(b))
       IN  \/ /\ Len(b) < 2
              /\ buf' = b /\ scanning' = FALSE /\ UNCHANGED out
           \/ /\ Len(b) >= 2 /\ b[2] \notin Type
              /\ buf' = From(2) /\ UNCHANGED <<scanning, out>>
           \/ /\ Len(b) >= 2 /\ b[2] \in Type
              /\ \/ /\ k = n
                    /\ buf' = From(i) /\ out' = Append(out, <<b[2], Body(b, n)>>)
                    /\ UNCHANGED scanning
                 \/ /\ k < n /\ Half(b, i)
                    /\ buf' = b /\ scanning' = FALSE /\ UNCHANGED out
                 \/ /\ k < n /\ Fresh(b, i)
                    /\ buf' = From(i) /\ UNCHANGED <<scanning, out>>
                 \* Nothing of the frame was there: the code rescans.
                 \/ /\ k = 0 /\ Missing(b, i)
                    /\ buf' = b /\ UNCHANGED <<scanning, out>>
                 \/ /\ 0 < k /\ k < n /\ Missing(b, i)
                    /\ buf' = Kept(b, k) /\ scanning' = FALSE /\ UNCHANGED out
    /\ UNCHANGED <<wire, sent>>

Next == Send \/ Cut \/ Feed \/ Scan

Spec == Init /\ [][Next]_vars

\* Feed does not stop in mid-loop.
FairSpec == Spec /\ WF_vars(Scan)

-----------------------------------------------------------------------------

TypeOK ==
    /\ scanning \in BOOLEAN
    /\ Len(sent) <= MaxFrames /\ \A i \in DOMAIN sent : sent[i] \in Frame \cup {Broken}
    /\ \A i \in DOMAIN out : out[i][1] \in Type /\ Len(out[i][2]) = Need(out[i][1])

Drained == wire = <<>> /\ ~scanning

(* However the stream is cut into reads, the messages handed on are the    *)
(* frames sent, in order, unaltered, and none is held back (Feed).         *)
FramesIntact ==
    ~Contains(sent, Broken) =>
        /\ IsPrefix(out, sent)
        /\ Drained => out = sent

(* After a frame that breaks off, at most the next frame is lost: the      *)
(* framer finds the sync byte of the one after it (Feed, "producer         *)
(* restarted mid-frame; rescan from there").                               *)
RecoversAfterCut ==
    Drained /\ Len(sent) >= 2 /\ sent[Len(sent)] # Broken /\ sent[Len(sent) - 1] # Broken
        => out # <<>> /\ Last(out) = Last(sent)

(* Feed returns: on partial data it keeps the partial for the next Feed.   *)
(* The code does not: with the sync byte and the type and no more in the   *)
(* buffer it rescans for ever.                                             *)
FeedReturns == scanning ~> ~scanning
=============================================================================
