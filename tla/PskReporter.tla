----------------------------- MODULE PskReporter ----------------------------
(***************************************************************************)
(* Reception reports to PSK Reporter (internal/pskreporter): the UI loop   *)
(* adds spots and changes the station, one goroutine flushes a batch every *)
(* five minutes over UDP.  Flush takes the batch and counts the packet     *)
(* under r.mu, and builds and sends it with r.mu released.  The station's  *)
(* record has one template id in both its layouts: the server holds the    *)
(* descriptor that came last, and can read the record only by that.        *)
(***************************************************************************)
EXTENDS Naturals, SequencesExt

CONSTANTS
    MaxBuffer,  \* maxBuffer
    MaxPerPkt,  \* maxPerPkt
    Described,  \* the first packets, which carry descriptors (3)
    MaxSpots,   \* bound: spots heard
    MaxPkts     \* bound: packets flushed

VARIABLES
    enabled,    \* r.enabled
    station,    \* call and locator are set
    layout,     \* the station record: "3" or "5" fields, by antenna and rig
    spots,      \* r.spots, by the order in which they were heard
    seq,        \* r.seq
    sentPkts,   \* r.sentPkts
    heard,      \* spots heard so far
    flight,     \* the packet of the Flush that runs, <<>> with none
    known,      \* the layout whose descriptor the server holds, "none" at first
    read,       \* the spots the server could read, in order
    gap,        \* history: the packet that arrived last could not be read
    changed     \* history: the layout was changed since that descriptor arrived

vars == <<enabled, station, layout, spots, seq, sentPkts, heard, flight, known, read, gap, changed>>

Init ==
    /\ enabled \in BOOLEAN /\ station \in BOOLEAN /\ layout \in {"3", "5"}
    /\ spots = <<>> /\ seq = 0 /\ sentPkts = 0 /\ heard = 0
    /\ flight = <<>> /\ known = "none" /\ read = <<>> /\ gap = FALSE /\ changed = FALSE

Active == enabled /\ station

\* The keyboard never clears call or locator, antenna and rig it may.
SetStation ==
    /\ station' = TRUE
    /\ layout' \in {"3", "5"}
    /\ changed' = (changed \/ layout' # layout)
    /\ UNCHANGED <<enabled, spots, seq, sentPkts, heard, flight, known, read, gap>>

SetEnabled ==
    /\ enabled' = ~enabled
    /\ UNCHANGED <<station, layout, spots, seq, sentPkts, heard, flight, known, read, gap, changed>>

\* Bug form: the buffer has no cap.
AddUnbounded ==
    /\ heard < MaxSpots
    /\ heard' = heard + 1
    /\ spots' = IF Active THEN Append(spots, heard + 1) ELSE spots
    /\ UNCHANGED <<enabled, station, layout, seq, sentPkts, flight, known, read, gap, changed>>

\* A spot is decoded.  At the cap the oldest is dropped.
Add ==
    /\ heard < MaxSpots
    /\ heard' = heard + 1
    /\ LET s == Append(spots, heard + 1)
       IN  spots' = IF ~Active THEN spots
                    ELSE IF Len(s) > MaxBuffer THEN SubSeq(s, Len(s) - MaxBuffer + 1, Len(s)) ELSE s
    /\ UNCHANGED <<enabled, station, layout, seq, sentPkts, flight, known, read, gap, changed>>

Batch == SubSeq(spots, 1, IF Len(spots) < MaxPerPkt THEN Len(spots) ELSE MaxPerPkt)

\* Bug form: the packet is counted before the count is read.
TakeCounted ==
    /\ flight = <<>> /\ Active /\ spots # <<>> /\ sentPkts < MaxPkts
    /\ flight' = <<[spots |-> Batch, described |-> sentPkts + 1 < Described]>>
    /\ spots' = SubSeq(spots, Len(Batch) + 1, Len(spots))
    /\ seq' = seq + Len(Batch)
    /\ sentPkts' = sentPkts + 1
    /\ UNCHANGED <<enabled, station, layout, heard, known, read, gap, changed>>

\* Flush, to the unlock.
Take ==
    /\ flight = <<>> /\ Active /\ spots # <<>> /\ sentPkts < MaxPkts
    /\ flight' = <<[spots |-> Batch, described |-> sentPkts < Described]>>
    /\ spots' = SubSeq(spots, Len(Batch) + 1, Len(spots))
    /\ seq' = seq + Len(Batch)
    /\ sentPkts' = sentPkts + 1
    /\ UNCHANGED <<enabled, station, layout, heard, known, read, gap, changed>>

\* Flush, after it: antenna and rig are read here.  The packet arrives.
Arrives ==
    /\ flight # <<>>
    /\ LET pkt      == flight[1]
           template == IF pkt.described THEN layout ELSE known
       IN  /\ known' = template
           /\ read' = IF layout = template THEN read \o pkt.spots ELSE read
           /\ gap' = (layout # template)
           /\ changed' = (changed /\ ~pkt.described)
    /\ flight' = <<>>
    /\ UNCHANGED <<enabled, station, layout, spots, seq, sentPkts, heard>>

\* The name does not resolve, there is no route, or the datagram is lost.
Lost ==
    /\ flight # <<>>
    /\ flight' = <<>>
    /\ UNCHANGED <<enabled, station, layout, spots, seq, sentPkts, heard, known, read, gap, changed>>

Next == SetStation \/ SetEnabled \/ Add \/ Take \/ Arrives \/ Lost

Spec == Init /\ [][Next]_vars

-----------------------------------------------------------------------------

TypeOK ==
    /\ enabled \in BOOLEAN /\ station \in BOOLEAN /\ layout \in {"3", "5"}
    /\ Len(spots) <= MaxBuffer /\ heard \in 0..MaxSpots /\ seq \in 0..MaxSpots
    /\ sentPkts \in 0..MaxPkts /\ known \in {"none", "3", "5"}

InFlight == IF flight = <<>> THEN <<>> ELSE flight[1].spots

(* A spot is read once at most, and in the order the spots were heard,     *)
(* whatever is lost, and none waits in the buffer that was read before     *)
(* (Add, Flush).                                                           *)
SpotsOnce ==
    LET all == read \o InFlight \o spots
    IN  \A i, j \in DOMAIN all : i < j => all[i] < all[j]

(* The server reads every packet that arrives, but for those after the     *)
(* first three when none of these reached it, or when antenna and rig were *)
(* first set, or both cleared, since the last of these that did (Flush,    *)
(* buildPacket).                                                           *)
Readable ==
    [][Arrives /\ gap' => sentPkts > Described /\ (known = "none" \/ changed)]_vars

(* Every spot that arrives can be read, "including the format descriptors  *)
(* for the first three packets".  It cannot when the first three are lost, *)
(* or when antenna and rig are first set, or cleared, after them.          *)
AllReadable == ~gap
=============================================================================
