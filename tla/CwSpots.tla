------------------------------- MODULE CwSpots -------------------------------
(***************************************************************************)
(* Callsigns for PSK Reporter out of the rolling text of a Morse decoder   *)
(* (main.go, cwSpotter; dsp/cw.go, push; deepcw/deepcw.go, readLoop): the  *)
(* sender is the word after "DE".  The text keeps its last Cap characters; *)
(* the spotter remembers how much of it it has read, and the last word.    *)
(*                                                                         *)
(* A word is one character here: DE, a callsign, or another; Gap is what   *)
(* separates words.  The spotter looks while FT8 messages are handled      *)
(* (main.go:4335), so at any time or never.                                *)
(***************************************************************************)
EXTENDS Naturals, Sequences, SequencesExt, FiniteSets

CONSTANTS
    Call,        \* callsigns
    Cap,         \* cwMaxChars, maxRunes
    MaxHeard     \* bound: characters decoded

Gap == " "
Word == Call \cup {"DE"}

VARIABLES
    text,        \* the rolling text
    consumed, carry,
    spots,       \* what was reported (and is not again for five minutes)
    heard,       \* all that was decoded since the text was cleared (history)
    before,      \* a call that followed a DE across a clearing (history)
    dropped,     \* where the carried word was given up: positions in heard (history)
    stale        \* consumed is of a text before (history)

vars == <<text, consumed, carry, spots, heard, before, dropped, stale>>

NoWord == " "

-----------------------------------------------------------------------------

Init == /\ text = <<>> /\ consumed = 0 /\ carry = NoWord
        /\ spots = {} /\ heard = <<>> /\ before = {} /\ dropped = {} /\ stale = FALSE

Rolled(t) == IF Len(t) > Cap THEN SubSeq(t, Len(t) - Cap + 1, Len(t)) ELSE t

\* A character is decoded; words are apart.
Hear ==
    /\ Len(heard) < MaxHeard
    /\ \E c \in IF heard # <<>> /\ Last(heard) # Gap THEN {Gap} ELSE Word \cup {Gap} :
         text' = Rolled(Append(text, c)) /\ heard' = Append(heard, c)
    /\ UNCHANGED <<consumed, carry, spots, before, dropped, stale>>

\* The menu's row, or the web's button: the spotter is not told.
Clear ==
    /\ text # <<>> /\ text' = <<>> /\ heard' = <<>> /\ dropped' = {} /\ stale' = TRUE
    /\ before' = before \cup (IF carry = "DE" THEN Call ELSE {})
    /\ UNCHANGED <<consumed, carry, spots>>

\* harvest.  A word is read when something follows it.
From == IF consumed > Len(text) THEN 0 ELSE consumed
Upto == LET gaps == {i \in (From + 1)..Len(text) : text[i] = Gap}
        IN  IF gaps = {} THEN From ELSE CHOOSE i \in gaps : \A j \in gaps : j <= i

Words(s) == SelectSeq(s, LAMBDA c : c # Gap)
Pairs(ws) == {ws[i + 1] : i \in {j \in 1..(Len(ws) - 1) : ws[j] = "DE"}} \cap Call

HarvestNoCarry ==    \* bug: each look stands for itself
    LET body == SubSeq(text, From + 1, Upto)
    IN  /\ consumed' = Upto /\ spots' = spots \cup Pairs(Words(body)) /\ carry' = NoWord
        /\ UNCHANGED <<text, heard, before, dropped, stale>>
Harvest ==
    LET body  == SubSeq(text, From + 1, Upto)
        words == Words(body)
    IN  /\ consumed' = Upto
        /\ spots' = spots \cup Pairs(Words(<<carry>> \o body))
        /\ carry' = IF words # <<>> THEN Last(words) ELSE IF body = <<>> THEN NoWord ELSE carry
        /\ dropped' = IF body = <<>> THEN dropped \cup {Upto} ELSE dropped
        /\ stale' = (stale /\ consumed <= Len(text) /\ consumed > 0)
        /\ UNCHANGED <<text, heard, before>>

Next == Hear \/ Clear \/ Harvest

Spec == Init /\ [][Next]_vars

-----------------------------------------------------------------------------

TypeOK == Len(text) <= Cap /\ carry \in Word \cup {NoWord} /\ spots \subseteq Call

\* A callsign stands after DE, the words at i and j.
After(i, j) == /\ heard[i] = "DE" /\ heard[j] \in Call /\ i < j
               /\ \A k \in (i + 1)..(j - 1) : heard[k] = Gap

(* While the text has not rolled, every sender that was read is reported,  *)
(* however the looks fall between the words; unless a look between them    *)
(* found nothing new and gave the DE up, or the text was cleared and grew  *)
(* past the old offset before the next look.  None is made up but across a *)
(* clearing.                                                               *)
SpotsSenders ==
    /\ Harvest /\ heard = text /\ ~stale' =>
         \A i, j \in 1..Len(heard) :
           After(i, j) /\ j < consumed' /\ (\A k \in i..(j - 1) : k \notin dropped')
              => heard[j] \in spots'
    /\ spots' # spots =>
         \A c \in spots' \ spots :
           c \in before \/ \E i, j \in 1..Len(heard) : After(i, j) /\ heard[j] = c
SendersSpotted == [][SpotsSenders]_vars

\* Refuted (main.go:5719: kept so a DE split across polls still pairs): a look
\* between the two words that finds neither gives the DE up.
SplitStillPairs ==
    [][Harvest /\ heard = text /\ ~stale' =>
         \A i, j \in 1..Len(heard) : After(i, j) /\ j < consumed' => heard[j] \in spots']_vars

\* Refuted (main.go:5713: an offset beyond the text means a trim): a text that is
\* full keeps its length, the offset stays at its end, and nothing is read.
FullStillRead ==
    [][Harvest /\ consumed = Len(text) /\ Len(text) = Cap /\ heard # text =>
         \A i, j \in 1..Len(heard) :
            After(i, j) /\ j < Len(heard) /\ i > Len(heard) - Cap => heard[j] \in spots']_vars

\* Refuted: a DE before the text was cleared pairs with the first word after.
NoneMadeUp ==
    [][\A c \in spots' \ spots : \E i, j \in 1..Len(heard) : After(i, j) /\ heard[j] = c]_vars
==============================================================================
