------------------------------- MODULE AisHdlc -------------------------------
(***************************************************************************)
(* One of the five frame decoders of an AIS channel (ais/gmsk.go), on the  *)
(* bits of one symbol phase: training on the alternating preamble, the     *)
(* start flag, the frame with its stuffed zeros, and the six ones of the   *)
(* closing flag.  The check sum is abstracted to: the frame is what was    *)
(* sent.  A frame is octets, whose bits go out the lowest first, and the   *)
(* decoder judges a frame that it still collects by that order: what it    *)
(* takes for the type is the low six bits of the first octet, reversed.    *)
(***************************************************************************)
EXTENDS Integers, SequencesExt

CONSTANTS
    Heads, Octets,        \* first and other bytes of a frame, as eight bits in the order they are sent
    Most,                 \* [Heads -> Nat]: the bits of the longest message that begins so
    HeadBits, TopType,    \* of what is read as the type (6, 28)
    MmsiBits, TopMmsi,    \* and as the MMSI (30, 999999999)
    Longest,              \* [types read -> Nat]: the lengths of cannotBeValid
    CheckOctets,          \* octets of the check sum (2)
    MinOctets,            \* of a message (21)
    MaxFrameBits,
    Preambles,            \* bits of the preambles that are sent (24)
    MinTraining,          \* 4
    MaxLen, MaxNoise, MaxErrors, MaxFrames  \* bounds

Flag == <<0, 1, 1, 1, 1, 1, 1, 0>>

VARIABLES
    part, line, body, ones, noise, errors, sent,  \* the sender
    hurt,                      \* history: a bit since the preamble was flipped, or the decoder was not free for it
    delivered,                 \* history: how often this frame came out
    lastBit, state, position, oneSeq, bits  \* the decoder

tx == <<part, line, body, ones, noise, errors, sent>>
rx == <<lastBit, state, position, oneSeq, bits>>
vars == <<tx, hurt, delivered, rx>>

-----------------------------------------------------------------------------

Init ==
    /\ part = "quiet" /\ line = <<>> /\ body = <<>> /\ ones = 0 /\ noise = 0 /\ errors = 0 /\ sent = 0
    /\ hurt = TRUE /\ delivered = 0
    /\ lastBit = 0 /\ state = "training" /\ position = 0 /\ oneSeq = 0 /\ bits = <<>>

\* A transmission: preamble and flag, octets, the closing flag; noise between.
Stuffed(octet) ==
    FoldLeft(LAMBDA s, b :
               IF b = 0 THEN [bits |-> Append(s.bits, 0), ones |-> 0]
               ELSE IF s.ones = 4 THEN [bits |-> s.bits \o <<1, 0>>, ones |-> 0]
               ELSE [bits |-> Append(s.bits, 1), ones |-> s.ones + 1],
             [bits |-> <<>>, ones |-> ones], octet)

Begin ==
    /\ line = <<>> /\ part = "quiet" /\ sent < MaxFrames /\ sent' = sent + 1
    /\ \E p \in Preambles, b \in {0, 1} : line' = [i \in 1..p |-> (i + b) % 2] \o Flag
    /\ part' = "data" /\ body' = <<>> /\ ones' = 0 /\ delivered' = 0
    /\ hurt' = (state # "training")
    /\ UNCHANGED <<noise, errors, rx>>
Octet ==
    /\ line = <<>> /\ part = "data" /\ Len(body) < MaxLen
    /\ \E o \in IF body = <<>> THEN Heads ELSE Octets :
         line' = Stuffed(o).bits /\ ones' = Stuffed(o).ones /\ body' = Append(body, o)
    /\ UNCHANGED <<part, noise, errors, sent, hurt, delivered, rx>>
End ==
    /\ line = <<>> /\ part = "data" /\ Len(body) >= MinOctets + CheckOctets
    /\ 8 * (Len(body) - CheckOctets) <= Most[body[1]]
    /\ line' = Flag /\ part' = "closing"
    /\ UNCHANGED <<body, ones, noise, errors, sent, hurt, delivered, rx>>
Noise ==
    /\ line = <<>> /\ part \in {"quiet", "closing"} /\ noise < MaxNoise /\ noise' = noise + 1
    /\ part' = "quiet" /\ \E b \in {0, 1} : line' = <<b>>
    /\ UNCHANGED <<body, ones, errors, sent, hurt, delivered, rx>>
Silent ==
    /\ line = <<>> /\ part = "closing" /\ part' = "quiet"
    /\ UNCHANGED <<line, body, ones, noise, errors, sent, hurt, delivered, rx>>

-----------------------------------------------------------------------------

Reset == state' = "training" /\ position' = 0 /\ oneSeq' = 0 /\ bits' = <<>>

\* The preamble alternates; two equal bits after it are in the start flag.
Training(b) ==
    /\ IF b # lastBit THEN position' = position + 1 /\ UNCHANGED <<state, oneSeq>>
       ELSE IF position > MinTraining
            THEN state' = "startflag" /\ position' = (IF b = 1 THEN 3 ELSE 1) /\ oneSeq' = 0
            ELSE position' = 0 /\ UNCHANGED <<state, oneSeq>>
    /\ UNCHANGED bits

StartFlag(b) ==
    IF position = 7
    THEN IF b = 0 THEN state' = "data" /\ position' = 0 /\ oneSeq' = 0 /\ bits' = <<>> ELSE Reset
    ELSE IF b = 1 THEN position' = position + 1 /\ UNCHANGED <<state, oneSeq, bits>> ELSE Reset

Field(s, off, n) == FoldLeft(LAMBDA v, b : 2 * v + b, 0, SubSeq(s, off + 1, off + n))

CannotBeValidFlagless(s) ==    \* bug: the closing flag is not waited for
    LET type == Field(s, 0, HeadBits)  n == Len(s) - 8 * CheckOctets
    IN  /\ n >= HeadBits
        /\ \/ n = HeadBits /\ type \notin 1..TopType
           \/ n = 8 + MmsiBits /\ Field(s, 8, MmsiBits) > TopMmsi
           \/ type \in DOMAIN Longest /\ n = Longest[type]
\* Of no type, of no ship, or longer than its type, the check sum and a flag:
\* given up.
CannotBeValid(s) ==
    LET type == Field(s, 0, HeadBits)  n == Len(s) - 8 * CheckOctets - 8
    IN  /\ n >= HeadBits
        /\ \/ n = HeadBits /\ type \notin 1..TopType
           \/ n = 8 + MmsiBits /\ Field(s, 8, MmsiBits) > TopMmsi
           \/ type \in DOMAIN Longest /\ n = Longest[type]

Data(b) ==
    LET stuffing == b = 0 /\ oneSeq = 5
        kept == IF stuffing THEN bits ELSE Append(bits, b)
    IN  IF b = 1 /\ oneSeq = 5 THEN Reset
        ELSE IF Len(kept) >= MaxFrameBits \/ CannotBeValid(kept) THEN Reset
        ELSE bits' = kept /\ oneSeq' = (IF b = 1 THEN oneSeq + 1 ELSE 0) /\ UNCHANGED <<state, position>>

\* process, on the bits up to the flag, whose zero and six ones are not of the
\* frame: whole octets, enough of them, and the check sum is right.
Process(b) ==
    LET all == Append(bits, b)  n == Len(all) - 7
    IN  /\ state = "data" /\ b = 1 /\ oneSeq = 5
        /\ n >= 8 * CheckOctets /\ n % 8 = 0 /\ n \div 8 - CheckOctets >= MinOctets
        /\ SubSeq(all, 1, n) = FlattenSeq(body)

Bit ==
    /\ line # <<>> /\ line' = Tail(line)
    /\ \E flip \in BOOLEAN :
         LET b == IF flip THEN 1 - Head(line) ELSE Head(line)
         IN  /\ flip => errors < MaxErrors /\ part # "quiet"
             /\ errors' = IF flip THEN errors + 1 ELSE errors
             /\ hurt' = (hurt \/ flip)
             /\ CASE state = "training" -> Training(b)
                  [] state = "startflag" -> StartFlag(b)
                  [] state = "data" -> Data(b)
             /\ delivered' = IF Process(b) THEN delivered + 1 ELSE delivered
             /\ lastBit' = IF state = "data" /\ b = 1 /\ oneSeq = 5 THEN lastBit ELSE b
    /\ UNCHANGED <<part, body, ones, noise, sent>>

Next == Begin \/ Octet \/ End \/ Noise \/ Silent \/ Bit

Spec == Init /\ [][Next]_vars

-----------------------------------------------------------------------------

TypeOK ==
    /\ lastBit \in {0, 1} /\ state \in {"training", "startflag", "data"} /\ oneSeq \in 0..5
    /\ Len(bits) < MaxFrameBits /\ (state = "startflag" => position \in 1..7)

\* A frame that the decoder takes for one that cannot be: in the order the bits
\* are sent it has no type, no ship's number, or the type of a shorter message.
Misread(s) ==
    LET type == Field(s, 0, HeadBits)  n == Len(s) - 8 * CheckOctets
    IN  \/ type \notin 1..TopType
        \/ n >= 8 + MmsiBits /\ Field(s, 8, MmsiBits) > TopMmsi
        \/ type \in DOMAIN Longest /\ n > Longest[type]

(* A frame that arrives as it was sent, its preamble ending in either bit, *)
(* comes out once, if the decoder was training when it began: the longest  *)
(* that it waits for as well, whose closing flag is as long as it waits.   *)
(* Those that it misreads, and no others, are lost.                        *)
IntactDelivered ==
    part = "closing" /\ line = <<>> /\ ~hurt =>
        delivered = (IF Misread(FlattenSeq(body)) THEN 0 ELSE 1)

\* Refuted: of types 5 and 21 the first octet reads as the shorter type 10, of
\* type 16 as none; a repeat indicator of 1 or 3 reads as a type above 28.
EveryIntactDelivered == part = "closing" /\ line = <<>> /\ ~hurt => delivered = 1

\* Refuted: a false start in the noise before takes the frame for its own, and
\* its opening flag for the end.
DeliveredAfterNoise ==
    part = "closing" /\ line = <<>> /\ errors = 0 => delivered = 1
==============================================================================
