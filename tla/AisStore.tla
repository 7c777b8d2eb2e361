------------------------------ MODULE AisStore ------------------------------
(***************************************************************************)
(* The ship table (ais/ais.go): sentences of a network feed, of which a    *)
(* voyage message takes two and may be interleaved with another, and the   *)
(* frames of the receiver.  A message's contents are its number; what is   *)
(* damaged fails its check sum and is as lost.                             *)
(***************************************************************************)
EXTENDS Integers, SequencesExt

CONSTANTS
    Mmsi,           \* ships
    SeqIds,         \* sequence ids a feed cycles through (10)
    Ttl,            \* minutes a ship stays listed (10)
    TrailGap,       \* minutes between two dots of a track (5)
    TrailMax,       \* dots that are kept (288)
    MaxTime, MaxVoyages, MaxLost  \* bounds

VARIABLES
    now, lost,
    voyages,        \* Seq of the ships whose voyage messages were sent
    open,           \* numbers of those whose second sentence is still to come
    frag1,          \* [0..SeqIds-1 -> number of the message whose first sentence is held, or 0]
    ships           \* [Mmsi -> record, or unseen]

vars == <<now, lost, voyages, open, frag1, ships>>

None == -1
Unseen == [seen |-> None, pos |-> None, trail |-> <<>>, aton |-> FALSE, voyage |-> <<0, 0>>]
IdOf(n) == n % SeqIds

Init ==
    /\ now = 0 /\ lost = 0 /\ voyages = <<>> /\ open = {}
    /\ frag1 = [i \in 0..SeqIds-1 |-> 0] /\ ships = [m \in Mmsi |-> Unseen]

-----------------------------------------------------------------------------

\* recordTrail
RecordTrail(trail) ==
    IF trail # <<>> /\ now - Last(trail) < TrailGap THEN trail
    ELSE LET longer == Append(trail, now)
         IN  IF Len(longer) > TrailMax THEN Tail(longer) ELSE longer

\* decodePayload: what a message of each kind does to its ship.  "base" is
\* type 6, "aid" type 21; the position of either may be missing.
Kinds == {"position", "no position", "static", "base", "aid", "other"}
Known(sh, kind, placed) ==
    LET heard == [sh EXCEPT !.seen = now]
    IN  CASE kind = "position" -> [heard EXCEPT !.pos = now, !.trail = RecordTrail(sh.trail)]
          [] kind \in {"no position", "static"} -> heard
          [] kind \in {"base", "aid"} -> [heard EXCEPT !.aton = TRUE, !.pos = IF placed THEN now ELSE None]
          [] kind = "other" -> sh

\* Decode of a single sentence, and DecodeBits of a frame off the air.
Decode(m, kind, placed) ==
    /\ ships' = [ships EXCEPT ![m] = Known(@, kind, placed)]
    /\ UNCHANGED <<now, lost, voyages, open, frag1>>

Voyage(first, last) ==
    ships' = [ships EXCEPT ![voyages'[first]] = [Known(@, "static", TRUE) EXCEPT !.voyage = <<first, last>>]]

\* The first sentence of a voyage message is held.
DecodeFirst(m, arrives) ==
    LET n == Len(voyages) + 1
    IN  /\ n <= MaxVoyages /\ \A k \in open : IdOf(k) # IdOf(n)
        /\ arrives \/ lost < MaxLost
        /\ voyages' = Append(voyages, m) /\ open' = open \cup {n}
        /\ lost' = IF arrives THEN lost ELSE lost + 1
        /\ frag1' = IF arrives THEN [frag1 EXCEPT ![IdOf(n)] = n] ELSE frag1
        /\ UNCHANGED <<now, ships>>

TakenKept(id) == frag1              \* bug: the first sentence is not deleted
Taken(id) == [frag1 EXCEPT ![id] = 0]

\* The second completes the first that is held under its id.
DecodeSecond(n, arrives) ==
    /\ n \in open /\ open' = open \ {n} /\ (arrives \/ lost < MaxLost)
    /\ lost' = IF arrives THEN lost ELSE lost + 1
    /\ voyages' = voyages
    /\ frag1' = IF arrives THEN Taken(IdOf(n)) ELSE frag1
    /\ IF arrives /\ frag1[IdOf(n)] # 0 THEN Voyage(frag1[IdOf(n)], n) ELSE UNCHANGED ships
    /\ UNCHANGED now

Tick == now < MaxTime /\ now' = now + 1 /\ UNCHANGED <<lost, voyages, open, frag1, ships>>

\* Ships: what the radar and the web page draw.
Ships == {m \in Mmsi : ships[m].seen # None /\ now - ships[m].seen <= Ttl}

Next ==
    \/ \E m \in Mmsi, k \in Kinds, placed \in BOOLEAN : Decode(m, k, placed)
    \/ \E m \in Mmsi, a \in BOOLEAN : DecodeFirst(m, a)
    \/ \E n \in open, a \in BOOLEAN : DecodeSecond(n, a)
    \/ Tick

Spec == Init /\ [][Next]_vars

-----------------------------------------------------------------------------

TypeOK ==
    /\ now \in 0..MaxTime /\ open \subseteq 1..Len(voyages)
    /\ frag1 \in [0..SeqIds-1 -> 0..MaxVoyages]
    /\ \A m \in Mmsi : ships[m].seen \in None..now /\ ships[m].pos \in None..ships[m].seen

(* A voyage that is listed is the one its ship sent, from its first        *)
(* sentence to its second, though messages interleave and ids come round,  *)
(* until two sentences are lost.                                           *)
VoyageIsOne ==
    lost < 2 => \A m \in Mmsi : ships[m].voyage[1] = ships[m].voyage[2]

(* The track of a vessel keeps up with it, its dots apart and in order,    *)
(* however its messages come.                                              *)
TrackFollows ==
    \A m \in Mmsi :
        LET t == ships[m].trail
        IN  /\ Len(t) <= TrailMax /\ \A i \in 2..Len(t) : t[i] - t[i-1] >= TrailGap
            /\ ~ships[m].aton /\ ships[m].pos # None => t # <<>> /\ ships[m].pos - Last(t) < TrailGap

\* Refuted: the end of one voyage and the start of another lost, the rest is
\* joined.
VoyageIsOneAlways == \A m \in Mmsi : ships[m].voyage[1] = ships[m].voyage[2]

\* Refuted: the messages without a position keep a ship listed where it was
\* (ais.go:49, "pruned by TTL").
ShownRecent == \A m \in Ships : ships[m].pos # None => now - ships[m].pos <= Ttl

\* Refuted: any message of type 6 makes the ship a station (ais.go:315).
VesselStays == [][\A m \in Mmsi : ships[m].trail # <<>> /\ ~ships[m].aton => ~ships'[m].aton]_vars
=============================================================================
