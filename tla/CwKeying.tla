------------------------------- MODULE CwKeying -------------------------------
(***************************************************************************)
(* The Morse decoder's keying machine (dsp/cw.go, step): the envelope is   *)
(* above or below the threshold, or the noise gate is shut, sample by      *)
(* sample; elements and gaps are told apart by their length in dots, and   *)
(* the dot is learned.  The envelope itself is the environment: a sender   *)
(* who keys whole characters at a steady speed, with drops too short to    *)
(* count.  Lengths are in samples, the dot in twentieths of one.           *)
(***************************************************************************)
EXTENDS Integers, Sequences

CONSTANTS
    Unit,        \* the sender's dot
    FirstDots,   \* what the decoder may have learned before
    Chars,       \* the characters sent: sequences of "." and "-"
    MinDot,      \* the shortest dot that is learned (120)
    MaxChars     \* bound: characters

VARIABLES
    keying, left,        \* the sender: what is to be keyed, samples of the first that are left
    dip, shut,           \* a drop in this element is to come; the gate shuts in this gap
    due, sends,          \* sent and not yet decoded (history); characters sent
    keyed, elem, gap,    \* keyed, elemN, gapN
    cur, spaced, dot,    \* cur, spaced, dotS
    wrong                \* something else was decoded than sent (history)

vars == <<keying, left, dip, shut, due, sends, keyed, elem, gap, cur, spaced, dot, wrong>>
Sender == <<keying, left, dip, shut, sends>>

-----------------------------------------------------------------------------

Init ==
    /\ keying = <<>> /\ left = 0 /\ dip = FALSE /\ shut = FALSE /\ due = <<>> /\ sends = 0
    /\ keyed = FALSE /\ elem = 0 /\ gap = 0 /\ cur = <<>> /\ spaced = TRUE
    /\ dot \in FirstDots /\ wrong = FALSE

\* What decodes from a run of elements is the run itself, one character; a
\* space ends a word.
Space == <<" ">>

\* The sender's next character and the gap after it: of three dots, or seven.
\* Every element and gap is a pair: is the key down, for how many samples.
Keyed(c) ==
    [i \in 1..(2 * Len(c) - 1) |->
        IF i % 2 = 1 THEN <<TRUE, IF c[(i + 1) \div 2] = "." THEN Unit ELSE 3 * Unit>>
                     ELSE <<FALSE, Unit>>]
NextChar ==
    /\ keying = <<>> /\ left = 0 /\ sends < MaxChars /\ sends' = sends + 1
    /\ \E c \in Chars, word \in BOOLEAN, s, d \in BOOLEAN :
         /\ keying' = Keyed(c) \o <<<<FALSE, (IF word THEN 7 ELSE 3) * Unit>>>>
         /\ left' = keying'[1][2] /\ shut' = s /\ dip' = d
         /\ due' = Append(due, c) \o (IF word THEN <<Space>> ELSE <<>>)
    /\ UNCHANGED <<keyed, elem, gap, cur, spaced, dot, wrong>>

\* The sender's clock: one sample of what is keyed.  A drop is one sample long,
\* in the middle of an element.
Clock ==
    /\ IF left > 1 THEN left' = left - 1 /\ keying' = keying
                   ELSE keying' = Tail(keying) /\ left' = (IF Len(keying) > 1 THEN keying[2][2] ELSE 0)
    /\ dip' = (dip /\ ~(keying[1][1] /\ left = Unit \div 2)) /\ UNCHANGED <<shut, sends>>
Above == keying[1][1] /\ ~(dip /\ left = Unit \div 2)
\* The gate is shut in a gap between characters, once the element before it was
\* taken down.
Shut == shut /\ ~keying[1][1] /\ Len(keying) = 1 /\ elem = 0

-----------------------------------------------------------------------------

\* rippleCap: a drop below 0.35 dots is none.
Ripple == (35 * dot) \div 2000

\* flushChar and push.
Out(cs) == /\ due' = SubSeq(due, Len(cs) + 1, Len(due))
           /\ wrong' = (wrong \/ SubSeq(due, 1, Len(cs)) # cs)
Flushed == IF cur = <<>> THEN <<>> ELSE <<cur>>

\* learn: the average moves by 0.15.
Learned(n) == LET d == dot + (3 * (20 * n - dot)) \div 20 IN IF d < 20 * MinDot THEN 20 * MinDot ELSE d

\* commitElement.
Commit ==
    LET of(p) == 100 * 20 * elem < p * dot
    IN  CASE of(35)  -> UNCHANGED <<cur, dot>>
          [] ~of(35) /\ of(160)  -> cur' = Append(cur, ".") /\ dot' = Learned(elem)
          [] ~of(160) /\ of(240) -> cur' = Append(cur, ".") /\ UNCHANGED dot
          [] OTHER               -> cur' = Append(cur, "-") /\ dot' = Learned(elem \div 3)

\* The gate is shut: as key up, but only a character's end is seen.
Gated ==
    /\ Shut /\ keyed' = FALSE /\ gap' = gap + 1
    /\ IF gap' = (2 * dot) \div 20 + 1 THEN Out(Flushed) /\ cur' = <<>> ELSE UNCHANGED <<due, wrong, cur>>
    /\ UNCHANGED <<elem, spaced, dot>>

\* A key-down so soon after the last element goes on with it; another ends the
\* gap, which may have ended a character and a word already.
Down ==
    /\ ~Shut /\ Above /\ ~keyed /\ keyed' = TRUE /\ gap' = 0 /\ UNCHANGED dot
    /\ IF elem > 0 /\ gap < Ripple THEN UNCHANGED <<elem, cur, spaced, due, wrong>>
       ELSE /\ elem' = 0 /\ spaced' = FALSE
            /\ IF gap * 20 > 2 * dot
               THEN /\ Out(Flushed \o (IF gap * 20 > 5 * dot /\ ~spaced THEN <<Space>> ELSE <<>>))
                    /\ cur' = <<>>
               ELSE UNCHANGED <<due, wrong, cur>>

Stays == /\ ~Shut /\ Above /\ keyed /\ elem' = elem + 1 /\ gap' = 0
         /\ UNCHANGED <<keyed, cur, spaced, dot, due, wrong>>

Up == /\ ~Shut /\ ~Above /\ keyed /\ keyed' = FALSE /\ gap' = 0
      /\ UNCHANGED <<elem, cur, spaced, dot, due, wrong>>

\* The gap grows: beyond a drop the element counts, beyond two dots it ended a
\* character, beyond five a word.
Grows ==
    /\ ~Shut /\ ~Above /\ ~keyed /\ gap' = gap + 1 /\ UNCHANGED keyed
    /\ IF elem > 0
       THEN /\ UNCHANGED <<spaced, due, wrong>>
            /\ IF gap' < Ripple THEN UNCHANGED <<elem, cur, dot>> ELSE Commit /\ elem' = 0
       ELSE /\ UNCHANGED <<elem, dot>>
            /\ CASE gap' = (2 * dot) \div 20 + 1 ->
                      Out(Flushed) /\ cur' = <<>> /\ UNCHANGED spaced
                 [] gap' = (5 * dot) \div 20 + 1 /\ ~spaced ->
                      Out(<<Space>>) /\ spaced' = TRUE /\ UNCHANGED cur
                 [] OTHER -> UNCHANGED <<due, wrong, cur, spaced>>

Sample == keying # <<>> /\ Clock /\ (Gated \/ Down \/ Stays \/ Up \/ Grows)

\* After the last character the key stays up.
Quiet == keying = <<>> /\ sends = MaxChars /\ gap < 8 * Unit /\ UNCHANGED Sender
         /\ gap' = gap + 1 /\ UNCHANGED <<keyed, elem, cur, spaced, dot, due, wrong>>

Next == NextChar \/ Sample \/ Quiet

Spec == Init /\ [][Next]_vars

-----------------------------------------------------------------------------

TypeOK == /\ left \in 0..(7 * Unit) /\ keyed \in BOOLEAN /\ dot >= 20 * MinDot
          /\ Len(due) <= 4

(* What is sent at a steady speed is what is decoded, character by         *)
(* character and word by word, from any dot length near the sender's, over *)
(* drops in the envelope and a gate that shuts between characters, and     *)
(* while the dot is being learned.  When the key has been up for the end   *)
(* of a word, all of it is out.                                            *)
DecodesRight == ~wrong /\ (gap * 20 > 2 * dot + 20 /\ elem = 0 => cur = <<>>)

\* Not in the model: a gate that shuts before the element was taken down, which
\* is then dropped at the next key-down (cw.go:201, 245).
==============================================================================
