------------------------------- MODULE Ft8Ring -------------------------------
(***************************************************************************)
(* The FT8 detector (dsp/ft8.go, ft8_wf.go) and who asks it to look        *)
(* (radio.go: FT8Process, FT8TakeMessages): the sound becomes a ring of    *)
(* blocks, one per symbol; a scan searches the ring for transmissions and  *)
(* then reads each one it found, without the lock, while blocks arrive.    *)
(*                                                                         *)
(* Each station has a frequency of its own.  What a block holds there is   *)
(* which symbol it is, of the transmission that began when, or Silence:    *)
(* spectra, scores and error correction are abstracted to whether the      *)
(* symbols are there.  Time is counted in symbols of 160 ms.               *)
(***************************************************************************)
EXTENDS Integers, Sequences, FiniteSets

CONSTANTS
    Station,
    Blocks, Symbols,     \* of the ring (93), of a transmission (79)
    MinCount,            \* blocks a scan wants to see (80)
    Budget,              \* transmissions a scan reads (10)
    PendingCap,          \* messages kept for the UI (64)
    Throttle,            \* 13 s: between scans beside the other engine
    Prompt,              \* the UI loop, and a scan, are done before the next symbol
    MaxTime, MaxSwitches \* bounds: symbols; switches of either engine

Silence == <<-1, 0>>

VARIABLES
    air, sent,           \* symbols so far; when each station last began, or -1
    enabled, alt,        \* d.enabled, r.f8tsOn
    mag, head, count,    \* the ring
    busy, phase,         \* ft8Busy; what the scan does: "idle", "find", "read"
    left, cands, found,  \* stations to search; places found; messages read
    lastScan,            \* r.ft8LastScan
    pending,             \* d.pending
    calm, heard,         \* history: the ring is as the scan found it; the last of each that was read
    switches

ring == <<mag, head, count>>
scan == <<busy, phase, left, cands, found>>
vars == <<air, sent, enabled, alt, ring, scan, lastScan, pending, calm, heard, switches>>

-----------------------------------------------------------------------------

Init ==
    /\ air = 0 /\ sent = [s \in Station |-> -1]
    /\ enabled = FALSE /\ alt = FALSE
    /\ mag = [b \in 0..Blocks - 1 |-> [s \in Station |-> Silence]] /\ head = 0 /\ count = 0
    /\ busy = FALSE /\ phase = "idle" /\ left = {} /\ cands = {} /\ found = {}
    /\ lastScan = -Throttle /\ pending = <<>>
    /\ calm = TRUE /\ heard = [s \in Station |-> -1] /\ switches = 0

\* A station begins once in a slot of 15 s, which is as long as the ring.
MayBegin(s) == sent[s] < 0 \/ air >= sent[s] + Blocks

\* FT8Process: one scan at a time, and few while the other engine runs.
MayScan == enabled /\ ~busy /\ (alt => air - lastScan >= Throttle)

\* processBlock: a symbol of every station goes into the ring.
ProcessBlock ==
    /\ mag' = [mag EXCEPT ![head] =
         [s \in Station |-> IF sent'[s] >= 0 /\ air < sent'[s] + Symbols
                            THEN <<sent'[s], air - sent'[s]>> ELSE Silence]]
    /\ head' = (head + 1) % Blocks
    /\ count' = IF count < Blocks THEN count + 1 ELSE count
Reset == head' = 0 /\ count' = 0 /\ UNCHANGED mag

\* The air goes on, and Feed puts it into the ring, if the detector is on.
Feed ==
    /\ air < MaxTime /\ air' = air + 1
    /\ Prompt => ~busy /\ ~(MayScan /\ count >= MinCount)
    /\ \E begin \in SUBSET {s \in Station : MayBegin(s)} :
         sent' = [s \in Station |-> IF s \in begin THEN air ELSE sent[s]]
    /\ IF enabled THEN ProcessBlock ELSE UNCHANGED ring
    /\ calm' = (calm /\ ~enabled)
    /\ UNCHANGED <<enabled, alt, scan, lastScan, pending, heard, switches>>

\* SetEnabled forgets the ring, whether a scan is reading it or not.
SetEnabled ==
    /\ switches < MaxSwitches /\ switches' = switches + 1
    /\ enabled' = ~enabled
    /\ IF enabled THEN UNCHANGED <<ring, calm>> ELSE Reset /\ calm' = FALSE
    /\ UNCHANGED <<air, sent, alt, scan, lastScan, pending, heard>>

SetAlt ==
    /\ switches < MaxSwitches /\ switches' = switches + 1 /\ alt' = ~alt
    /\ UNCHANGED <<air, sent, enabled, ring, scan, lastScan, pending, calm, heard>>

-----------------------------------------------------------------------------

\* blockBase: where the b-th oldest block is.
BlockBase(b) == IF count = Blocks THEN (head + b) % Blocks ELSE b

\* syncScore: a transmission of s begins at block b.
Fits(s, b) ==
    /\ b + Symbols <= count
    /\ \A k \in 0..Symbols - 1 :
         mag[BlockBase(b + k)][s] = <<mag[BlockBase(b)][s][1], k>> /\ mag[BlockBase(b)][s] # Silence

\* extractLLR: and its symbols are read from there.
Legible(s, b) == Fits(s, b)

FT8Process ==
    /\ MayScan
    /\ lastScan' = IF alt THEN air ELSE lastScan
    /\ IF count < MinCount THEN UNCHANGED scan
       ELSE busy' = TRUE /\ phase' = "find" /\ left' = Station /\ UNCHANGED <<cands, found>>
    /\ calm' = TRUE
    /\ UNCHANGED <<air, sent, enabled, alt, ring, pending, heard, switches>>

\* findCandidates passes over the ring, and over the frequencies.
Find ==
    /\ phase = "find"
    /\ \/ \E s \in left :
            /\ left' = left \ {s}
            /\ cands' = cands \cup {<<s, b>> : b \in {x \in 0..count - Symbols : Fits(s, x)}}
            /\ UNCHANGED phase
       \/ left = {} /\ phase' = "read" /\ UNCHANGED <<left, cands>>
    /\ UNCHANGED <<air, sent, enabled, alt, ring, busy, found, lastScan, pending, calm, heard, switches>>

\* Process reads the candidates, the strongest first, as long as the budget lasts.
Read ==
    /\ phase = "read" /\ Cardinality(found) < Budget
    /\ \E c \in cands :
         /\ cands' = cands \ {c}
         /\ found' = IF Legible(c[1], c[2])
                     THEN found \cup {<<c[1], mag[BlockBase(c[2])][c[1]][1]>>} ELSE found
    /\ UNCHANGED <<air, sent, enabled, alt, ring, busy, phase, left, lastScan, pending, calm, heard, switches>>

\* The end of Process: what was read waits for the UI, the newest only.
Finish ==
    /\ phase = "read" /\ (cands = {} \/ Cardinality(found) >= Budget)
    /\ phase' = "idle" /\ busy' = FALSE /\ cands' = {} /\ found' = {}
    /\ \E order \in {o \in [1..Cardinality(found) -> found] : \A i, j \in DOMAIN o : o[i] = o[j] => i = j} :
         LET all == pending \o order
         IN  pending' = IF Len(all) > PendingCap
                        THEN SubSeq(all, Len(all) - PendingCap + 1, Len(all)) ELSE all
    /\ heard' = [s \in Station |-> IF \E t \in 0..air : <<s, t>> \in found
                                   THEN CHOOSE t \in 0..air : <<s, t>> \in found ELSE heard[s]]
    /\ UNCHANGED <<air, sent, enabled, alt, ring, left, lastScan, calm, switches>>

\* FT8TakeMessages.
TakeMessages ==
    /\ pending # <<>> /\ pending' = <<>>
    /\ UNCHANGED <<air, sent, enabled, alt, ring, scan, lastScan, calm, heard, switches>>

Next == Feed \/ SetEnabled \/ SetAlt \/ FT8Process \/ Find \/ Read \/ Finish \/ TakeMessages

Spec == Init /\ [][Next]_vars

-----------------------------------------------------------------------------

TypeOK ==
    /\ head \in 0..Blocks - 1 /\ count \in 0..Blocks /\ Len(pending) <= PendingCap
    /\ busy = (phase # "idle") /\ Cardinality(found) <= Budget

\* The transmissions the air has finished, all of whose symbols were fed and are kept.
Whole == {s \in Station : sent[s] >= air - count /\ sent[s] >= 0 /\ sent[s] + Symbols <= air}

(* A scan that no symbol interrupts reads every transmission the ring      *)
(* holds whole, wherever in the ring it lies, as many as its budget lets,  *)
(* and nothing that was not sent.                                          *)
ReadsWhole ==
    Finish /\ calm =>
       /\ \A m \in found : m[1] \in Whole /\ m[2] = sent[m[1]]
       /\ Cardinality(found) = IF Cardinality(Whole) < Budget THEN Cardinality(Whole) ELSE Budget
ScanReadsWhole == [][ReadsWhole]_vars

\* Refuted: the ring moves under the scan, and what was found is then read a
\* symbol off (ft8.go:187 lets go of the lock before the search).
ReadsWhatItFound == [][Read => \E m \in found' : m[1] = (CHOOSE c \in cands : c \notin cands')[1]]_vars

\* Refuted with the other engine on, however prompt the scans are (radio.go:2158:
\* "its 15 s ring still sees every transmission once"): the ring holds one whole
\* for 2.2 s, and the scans are 13 s apart.
AllAreHeard ==
    [][\A s \in Whole : (s \notin Whole' /\ enabled /\ enabled') => heard[s] = sent[s]]_vars
==============================================================================
