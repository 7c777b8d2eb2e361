------------------------------ MODULE CprStore ------------------------------
(***************************************************************************)
(* One aircraft of the ADS-B store (internal/adsb/decode.go).  A position  *)
(* is computed from the latest even and the latest odd frame if they are   *)
(* at most ten seconds apart, and refused if the aircraft would have had   *)
(* to fly faster than 1200 kt since the last position accepted.  A frame   *)
(* may be corrupted.  Where the aircraft is does not matter here, only     *)
(* whether its position is right, and if not which frame put it wrong;     *)
(* a wrong position is a far one.                                          *)
(***************************************************************************)
EXTENDS Naturals

CONSTANTS
    Window,   \* ticks within which two frames are paired (10 s)
    Ttl3,     \* ticks unheard after which the aircraft is dropped (3 * ttl)
    Gap,      \* ticks after which a far position is plausible again
    MaxBad    \* bound: corrupted frames

Parity   == {"even", "odd"}
Other(p) == IF p = "even" THEN "odd" ELSE "even"

\* Positions: the right one, one for each corrupted frame, the one two corrupted
\* frames give, and the one two intact frames give that are too far apart.
Right  == 0
Both   == MaxBad + 1
Apart  == MaxBad + 2
NoFix  == MaxBad + 3

VARIABLES
    cpr,      \* p.even and p.odd: {} or the set of one frame [bad, age]
    fix,      \* p.Lat and p.Lon, NoFix without p.HasPos
    fixAge,   \* ticks since p.posAt, to Gap
    unheard,  \* ticks since p.LastSeen, to Ttl3 + 1
    bads,     \* corrupted frames so far
    last,     \* history: the last position frame
    clean     \* history: the last two were intact, of both parities, in Window,
              \* and did not straddle two latitude zones

vars == <<cpr, fix, fixAge, unheard, bads, last, clean>>

Init ==
    /\ cpr = [p \in Parity |-> {}] /\ fix = NoFix /\ fixAge = 0
    /\ unheard = 0 /\ bads = 0 /\ clean = FALSE
    /\ last = [parity |-> "even", bad |-> Both, age |-> 0]

UpTo(n, bound) == IF n < bound THEN n ELSE bound

Tick ==
    /\ cpr' = [p \in Parity |-> {[f EXCEPT !.age = UpTo(@ + 1, Window + 1)] : f \in cpr[p]}]
    /\ fixAge' = UpTo(fixAge + 1, Gap)
    /\ unheard' = UpTo(unheard + 1, Ttl3 + 1)
    /\ last' = [last EXCEPT !.age = UpTo(@ + 1, Window + 1)]
    /\ UNCHANGED <<fix, bads, clean>>

Stale == unheard > Ttl3

\* prune, in the Decode of a message of any aircraft.
Prune ==
    /\ Stale
    /\ cpr' = [p \in Parity |-> {}] /\ fix' = NoFix /\ fixAge' = 0
    /\ unheard' = 0 /\ clean' = FALSE
    /\ last' = [parity |-> "even", bad |-> Both, age |-> 0]
    /\ UNCHANGED bads

\* Decode of the aircraft's callsign or velocity.
Squitter ==
    /\ ~Stale
    /\ unheard' = 0
    /\ UNCHANGED <<cpr, fix, fixAge, bads, last, clean>>

-----------------------------------------------------------------------------
(* decodeAirbornePos and globalDecode *)

\* f has just arrived.
Paired(f, g) == g.age <= Window

\* What the pair decodes to.  Intact frames give no position if they straddle
\* two latitude zones, corrupted ones may give none.
Decoded(f, g, straddle) ==
    CASE f.bad = Right /\ g.bad = Right ->
             {IF straddle THEN NoFix ELSE IF g.age <= Window THEN Right ELSE Apart}
      [] f.bad # Right /\ g.bad # Right -> {Both, NoFix}
      [] OTHER                          -> {f.bad + g.bad, NoFix}

Implausible(pos) == fix # NoFix /\ pos # fix /\ fixAge < Gap

\* Bug form: the frame that has just come is dropped, not the older one.
DropNewest(p, f) == cpr' = [cpr EXCEPT ![p] = {}]

\* The fix is refused: the older frame is dropped, so that the next re-pairs.
Drop(p, f) == cpr' = [cpr EXCEPT ![p] = {f}, ![Other(p)] = {}]

Fix(p, f, straddle) ==
    IF cpr[Other(p)] = {} \/ \E g \in cpr[Other(p)] : ~Paired(f, g)
    THEN cpr' = [cpr EXCEPT ![p] = {f}] /\ UNCHANGED <<fix, fixAge>>
    ELSE \E g \in cpr[Other(p)] : \E pos \in Decoded(f, g, straddle) :
           \/ /\ pos = NoFix
              /\ cpr' = [cpr EXCEPT ![p] = {f}] /\ UNCHANGED <<fix, fixAge>>
           \/ /\ pos # NoFix /\ Implausible(pos)
              /\ Drop(p, f) /\ UNCHANGED <<fix, fixAge>>
           \/ /\ pos # NoFix /\ ~Implausible(pos)
              /\ cpr' = [cpr EXCEPT ![p] = {f}] /\ fix' = pos /\ fixAge' = 0

Position ==
    /\ ~Stale
    /\ \E p \in Parity, straddle \in BOOLEAN :
       \E bad \in {Right} \cup (IF bads < MaxBad THEN {bads + 1} ELSE {}) :
           /\ Fix(p, [bad |-> bad, age |-> 0], straddle)
           /\ bads' = (IF bad = Right THEN bads ELSE bad)
           /\ last' = [parity |-> p, bad |-> bad, age |-> 0]
           /\ clean' = (/\ bad = Right /\ last.bad = Right /\ last.parity # p
                        /\ last.age <= Window /\ ~straddle)
    /\ unheard' = 0

Next == Tick \/ Prune \/ Squitter \/ Position

Spec == Init /\ [][Next]_vars

-----------------------------------------------------------------------------

TypeOK ==
    /\ \A p \in Parity : \A f \in cpr[p] : f.bad \in 0..MaxBad /\ f.age \in 0..(Window + 1)
    /\ fix \in 0..NoFix /\ fixAge \in 0..Gap /\ unheard \in 0..(Ttl3 + 1) /\ bads \in 0..MaxBad
    /\ last.parity \in Parity /\ last.bad \in 0..Both /\ clean \in BOOLEAN

(* Without corrupted frames the aircraft is never a zone off; and unless   *)
(* a corrupted frame has placed it wrong, an intact frame of each parity,  *)
(* in a row, in time and in one zone, put it where it now is (a pair that  *)
(* globalDecode refuses costs the older frame "so the next squitter        *)
(* re-pairs cleanly").                                                     *)
PositionRight ==
    [][/\ bads' = 0 => fix' \in {Right, NoFix}
       /\ Position /\ clean' => /\ fix' \notin {NoFix, Apart}
                                /\ fix' = Right => fixAge' = 0]_vars

(* The same without the exception.  A corrupted pair that gives the first  *)
(* position keeps the aircraft there: the right ones are refused.          *)
CleanPairWins == clean => fix = Right
=============================================================================
