------------------------------ MODULE AfskHdlc ------------------------------
(***************************************************************************)
(* APRS frames on the air, as bits (aprs/afsk.go): Modulate puts a frame   *)
(* between flags and stuffs a zero after five ones, stepBit and closeFrame *)
(* find it again in what the discriminator hears, noise and damaged bits   *)
(* included.  The tones are abstracted to the bits they carry, and the     *)
(* frame's check sum to: what is collected is what was sent, whole.        *)
(***************************************************************************)
EXTENDS Integers, SequencesExt

CONSTANTS
    Octets,               \* bytes, as eight bits, the least significant first
    MinLen, MaxFrame,     \* 17 bytes with the check sum; 330
    Kept,                 \* frames kept (17)
    MaxLen, MaxNoise, MaxErrors, MaxFrames  \* bounds: bytes of a frame; bits between; flipped bits; frames

Flag == <<0, 1, 1, 1, 1, 1, 1, 0>>

VARIABLES
    part, line, body, ones,       \* the sender: where it is, bits under way, bytes sent, ones in a row
    noise, errors, sent,          \* counts, for the bounds
    flagHurt, bodyHurt,           \* history: a bit of the last flag, of the frame or the flag before it was flipped
    delivered,                    \* history: how often this frame came out
    shift, onesR, inFlag, frame, cur, stuff1,  \* the Demodulator
    frames

tx == <<part, line, body, ones, noise, errors, sent, flagHurt, bodyHurt>>
rx == <<shift, onesR, inFlag, frame, cur, stuff1>>
vars == <<tx, delivered, rx, frames>>

-----------------------------------------------------------------------------

Init ==
    /\ part = "quiet" /\ line = <<>> /\ body = <<>> /\ ones = 0
    /\ noise = 0 /\ errors = 0 /\ sent = 0 /\ flagHurt = FALSE /\ bodyHurt = FALSE /\ delivered = 0
    /\ shift = <<0, 0, 0, 0, 0, 0, 0, 0>> /\ onesR = 0 /\ inFlag = FALSE
    /\ frame = <<>> /\ cur = <<>> /\ stuff1 = 0 /\ frames = <<>>

\* Modulate: the bits of a byte, stuffed.
Stuffed(octet) ==
    FoldLeft(LAMBDA s, b :
               IF b = 0 THEN [bits |-> Append(s.bits, 0), ones |-> 0]
               ELSE IF s.ones = 4 THEN [bits |-> s.bits \o <<1, 0>>, ones |-> 0]
               ELSE [bits |-> Append(s.bits, 1), ones |-> s.ones + 1],
             [bits |-> <<>>, ones |-> ones], octet)

\* What the sender says next: flags, a frame, the closing flag; then noise,
\* or the next frame, for which the flag serves as well.
SendFlag ==
    /\ line = <<>> /\ part \in {"quiet", "flag", "data"} /\ (part = "data" => Len(body) >= MinLen)
    /\ part = "quiet" => sent < MaxFrames
    /\ line' = Flag /\ flagHurt' = FALSE /\ ones' = 0
    /\ part' = IF part = "data" THEN "closing" ELSE "flag"
    /\ UNCHANGED <<body, noise, errors, sent, bodyHurt, delivered, rx, frames>>
SendOctet ==
    /\ line = <<>> /\ (part \in {"flag", "closing"} \/ (part = "data" /\ Len(body) < MaxLen))
    /\ part # "data" => sent < MaxFrames
    /\ \E o \in Octets :
         /\ line' = Stuffed(o).bits /\ ones' = Stuffed(o).ones
         /\ body' = IF part = "data" THEN Append(body, o) ELSE <<o>>
    /\ part' = "data"
    /\ IF part = "data" THEN UNCHANGED <<bodyHurt, sent, delivered>>
       ELSE bodyHurt' = flagHurt /\ sent' = sent + 1 /\ delivered' = 0
    /\ UNCHANGED <<noise, errors, flagHurt, rx, frames>>
SendNoise ==
    /\ line = <<>> /\ part \in {"quiet", "closing"} /\ noise < MaxNoise /\ noise' = noise + 1
    /\ part' = "quiet" /\ \E b \in {0, 1} : line' = <<b>>
    /\ UNCHANGED <<body, ones, errors, sent, flagHurt, bodyHurt, delivered, rx, frames>>

-----------------------------------------------------------------------------

\* closeFrame: what was collected comes out if its check sum is right.
Whole == inFlag /\ Len(frame) >= MinLen /\ frame = body /\ part \in {"data", "closing"}
CloseFrame ==
    /\ IF Whole THEN /\ delivered' = delivered + 1
                     /\ frames' = Append(IF Len(frames) = Kept THEN Tail(frames) ELSE frames, frame)
                ELSE UNCHANGED <<delivered, frames>>
    /\ frame' = <<>> /\ cur' = <<>> /\ stuff1' = 0

Collect(b) ==
    LET c == Append(cur, b)
        full == Len(c) = 8
        over == full /\ Len(frame) + 1 > MaxFrame
    IN  /\ cur' = IF full THEN <<>> ELSE c
        /\ frame' = IF over THEN <<>> ELSE IF full THEN Append(frame, c) ELSE frame
        /\ inFlag' = ~over
        /\ stuff1' = IF b = 1 THEN stuff1 + 1 ELSE 0
        /\ UNCHANGED <<delivered, frames>>

Destuff(b) == stuff1 = 5 /\ b = 0

StepBit(b) ==
    /\ shift' = Append(Tail(shift), b)
    /\ onesR' = IF b = 0 THEN 0 ELSE IF onesR = 7 THEN 7 ELSE onesR + 1  \* more than seven are as seven
    /\ IF shift' = Flag \/ onesR' = 6 THEN CloseFrame /\ inFlag' = TRUE
       ELSE IF onesR' > 6 THEN inFlag' = FALSE /\ UNCHANGED <<frame, cur, stuff1, delivered, frames>>
       ELSE IF ~inFlag THEN UNCHANGED <<inFlag, frame, cur, stuff1, delivered, frames>>
       ELSE IF Destuff(b) THEN stuff1' = 0 /\ UNCHANGED <<inFlag, frame, cur, delivered, frames>>
       ELSE Collect(b)

\* A bit goes over the air, and may be flipped.
Bit ==
    /\ line # <<>> /\ line' = Tail(line)
    /\ \E flip \in BOOLEAN :
         /\ flip => errors < MaxErrors /\ part # "quiet"
         /\ errors' = IF flip THEN errors + 1 ELSE errors
         /\ flagHurt' = (flagHurt \/ (flip /\ part \in {"flag", "closing"}))
         /\ bodyHurt' = (bodyHurt \/ (flip /\ part = "data"))
         /\ StepBit(IF flip THEN 1 - Head(line) ELSE Head(line))
    /\ UNCHANGED <<part, body, ones, noise, sent>>

TakeFrames == frames # <<>> /\ frames' = <<>> /\ UNCHANGED <<tx, delivered, rx>>

Next == SendFlag \/ SendOctet \/ SendNoise \/ Bit \/ TakeFrames

Spec == Init /\ [][Next]_vars

-----------------------------------------------------------------------------

TypeOK ==
    /\ Len(shift) = 8 /\ onesR \in 0..7 /\ stuff1 \in 0..5 /\ Len(cur) < 8
    /\ Len(frame) <= MaxFrame /\ Len(frames) <= Kept

(* Whatever was heard before, noise, aborted or damaged frames, one flag   *)
(* between two of them: a frame whose bits, and whose flags, arrive comes  *)
(* out, once; and one that is damaged takes no other with it.              *)
IntactDelivered ==
    part = "closing" /\ line = <<>> /\ ~bodyHurt /\ ~flagHurt => delivered = 1
NoneTwice == delivered <= 1
==============================================================================
