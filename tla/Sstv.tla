--------------------------------- MODULE Sstv ---------------------------------
(***************************************************************************)
(* The slow-scan television decoder (dsp/sstv.go): the leader and the code *)
(* of the mode, and the raster that is locked to the line period once the  *)
(* first synchronising pulse is found.  A tick is 10 ms, 80 samples; a     *)
(* tone is its frequency.  The transmitter sends what the repository's own *)
(* tests send (sstv_test.go:14).  Colours and pixels are left out: a row   *)
(* is the line that was on the air in the middle of what was collected.    *)
(***************************************************************************)
EXTENDS Integers, SequencesExt

CONSTANTS
    Codes,                        \* the modes that are sent
    Period, Rows,                 \* ticks of a line, rows of a picture
    Guard,                        \* 1; a locked line is collected from so long before it
    Search,                       \* ticks to find the first pulse (100)
    Pauses,                       \* silences between transmissions
    MaxSent, MaxAborts, MaxSwitches  \* bounds

LeaderNeed == 20    \* 200 ms, of the 300 that are sent
BreakLost == 5      \* 50 ms of anything else
HeaderLost == 8     \* 75 ms
StartNeed == 2      \* 20 ms, of the 30 of a bit
Slot == 3
KeepOver == 4       \* a picture of more rows is kept
DoneCap == 4

VARIABLES
    air,        \* what is still to be sent: a sequence of <<tone, ticks, line>>
    quiet,      \* ticks of silence since
    sent, aborts, switches,
    sending,    \* history: the transmission, and whether nothing disturbed it
    d           \* the decoder

sender == <<air, quiet, sent, aborts, sending>>
vars == <<sender, switches, d>>

-----------------------------------------------------------------------------
(* The modes.                                                              *)

PD == {99, 95, 96, 225}
Robot == {8, 12}
Rastered == {44, 40, 60, 56} \cup PD \cup Robot
RowsAtOnce(code) == IF code \in PD \cup Robot THEN 2 ELSE 1
SyncNeed(code) == IF code \in PD THEN 2 ELSE 1

Class(f) == CASE f > 1790 /\ f < 2010 -> 1900 [] f < 1400 -> 1200 [] OTHER -> 0
Bit(f) == IF f > 1250 THEN 1 ELSE 0

-----------------------------------------------------------------------------
(* The decoder.  What the code holds as sample numbers is held here as     *)
(* ticks since them or until them.                                         *)

NewDecoder ==
    [on |-> TRUE, state |-> "hunt", run |-> 0, tone |-> -1,
     visT |-> 0, visK |-> 0, visVal |-> 0,
     mode |-> 0, rows |-> <<>>, ver |-> 0,
     collecting |-> FALSE, buf |-> 0, off |-> 0, mid |-> <<0, 0>>,
     search |-> 0, locked |-> FALSE, next |-> 0, since |-> 0, done |-> <<>>]

Hunt(x) == [x EXCEPT !.state = "hunt"]
LineY(x) == Len(x.rows)
Idle(x) == [x EXCEPT !.mode = 0, !.rows = <<>>, !.collecting = FALSE, !.state = "hunt",
                     !.run = 0, !.tone = -1, !.locked = FALSE, !.next = 0, !.buf = 0, !.off = 0,
                     !.mid = <<0, 0>>, !.search = 0, !.since = 0]

FinishImage(x) ==
    LET kept == Append(x.done, x.rows)
    IN  Idle([x EXCEPT !.done = IF LineY(x) <= KeepOver THEN @
                                ELSE SubSeq(kept, 1 + (IF Len(kept) > DoneCap THEN 1 ELSE 0), Len(kept))])

\* A tone of the same class goes on; the count of 1900 is of use up to the
\* leader's, the count of other tones up to the longest that is sent.
Heard(x, f) ==
    LET t == Class(f)
    IN  [x EXCEPT !.tone = t, !.run = IF t # x.tone THEN 1
                                      ELSE IF t = 1200 \/ @ < LeaderNeed THEN @ + 1 ELSE @]

Header(x) ==
    CASE x.state = "hunt" /\ x.tone = 1900 /\ x.run >= LeaderNeed -> [x EXCEPT !.state = "break1"]
      [] x.state = "break1" /\ x.tone = 1200 -> [x EXCEPT !.state = "leader2"]
      [] x.state = "break1" /\ x.tone = 0 /\ x.run > BreakLost -> Hunt(x)
      [] x.state = "leader2" /\ x.tone = 1900 /\ x.run >= LeaderNeed -> [x EXCEPT !.state = "break2"]
      [] x.state = "leader2" /\ x.tone = 0 /\ x.run >= HeaderLost -> Hunt(x)
      [] x.state = "break2" /\ x.tone = 1200 /\ x.run >= StartNeed ->
            [x EXCEPT !.state = "vis", !.visT = x.run - 1, !.visK = 0, !.visVal = 0]
      [] x.state = "break2" /\ x.tone = 0 /\ x.run >= HeaderLost -> Hunt(x)
      [] OTHER -> x

BeginImage(x) ==
    LET code == x.visVal
    IN  IF code \notin Rastered THEN Hunt([x EXCEPT !.mode = 0])
        ELSE [x EXCEPT !.mode = code, !.rows = <<>>, !.state = "image", !.since = 0,
                       !.collecting = FALSE, !.locked = FALSE, !.off = 0, !.search = Search]

\* Slot 0 is the start bit, 1 to 7 the code, 8 the parity, 9 the stop bit.
Vis(x, f) ==
    LET y == [x EXCEPT !.visT = @ + 1]
        b == Bit(f)
    IN  CASE 2 * y.visT < 2 * Slot * y.visK + Slot -> y
          [] OTHER ->
             CASE y.visK = 0 /\ b # 0 -> Hunt(y)
               [] y.visK = 9 /\ b # 1 -> Hunt(y)
               [] y.visK = 9 /\ b = 1 -> BeginImage(y)
               [] y.visK \in 1..7 -> [y EXCEPT !.visK = @ + 1, !.visVal = @ + b * 2^(y.visK - 1)]
               [] OTHER -> [y EXCEPT !.visK = @ + 1]

Raster(x) == [x EXCEPT !.ver = 1 - @, !.rows = @ \o [i \in 1..RowsAtOnce(x.mode) |-> x.mid],
                       !.collecting = FALSE]
Collect(x, line) ==
    LET y == [x EXCEPT !.buf = @ + 1,
                       !.mid = IF x.buf = x.off + Period \div 2 THEN line ELSE @]
        z == Raster(y)
    IN  IF y.buf < Period + (IF y.off < 0 THEN -y.off ELSE 0) THEN y
        ELSE IF LineY(z) >= Rows THEN FinishImage(z)
        ELSE [z EXCEPT !.locked = TRUE, !.next = @ + Period]

FirstSync(x) ==
    /\ x.tone = 1200 /\ x.run >= SyncNeed(x.mode)
    /\ x.since >= x.run              \* a pulse that began after the stop bit's middle

LineAt(x, off) == [x EXCEPT !.collecting = TRUE, !.off = off, !.buf = 0, !.mid = <<0, 0>>]

StepImage(x, line) ==
    CASE x.collecting -> Collect(x, line)
      [] ~x.collecting /\ x.tone = 1900 /\ x.run >= LeaderNeed -> FinishImage(x)
      [] ~x.collecting /\ ~(x.tone = 1900 /\ x.run >= LeaderNeed) ->
         CASE x.locked /\ x.next <= Guard -> LineAt(x, Guard)
           [] x.locked /\ x.next > Guard -> x
           [] ~x.locked /\ FirstSync(x) -> [LineAt(x, -x.run) EXCEPT !.next = Period - x.run + 1]
           [] ~x.locked /\ ~FirstSync(x) ->
              IF x.search > 0 THEN [x EXCEPT !.search = @ - 1] ELSE FinishImage(x)

Step(x, f, line) ==
    LET y == Heard(x, f)
        timed == [y EXCEPT !.next = @ - 1, !.since = IF x.locked THEN @ ELSE @ + 1]
    IN  CASE x.state = "image" -> StepImage(timed, line)
          [] x.state = "vis" -> Vis(y, f)
          [] x.state \notin {"image", "vis"} -> Header(y)

-----------------------------------------------------------------------------
(* The transmitter.                                                        *)

VisBits(code) ==
    LET ones == [i \in 1..7 |-> (code \div 2^(i - 1)) % 2]
        parity == FoldFunction(+, 0, ones) % 2
    IN  [i \in 1..9 |-> <<IF i = 9 \/ (i = 8 /\ parity = 1) \/ (i < 8 /\ ones[i] = 1)
                          THEN 1300 ELSE 1100, Slot, <<0, 0>>>>]
Picture(n, code, level) ==
    FlattenSeq([y \in 1..Rows \div RowsAtOnce(code) |->
        <<<<1200, SyncNeed(code), <<n, y>>>>, <<level, Period - SyncNeed(code), <<n, y>>>>>>])
Transmission(n, code, level) ==
    LET at == <<0, 0>>
    IN  <<<<1900, 30, at>>, <<1200, Slot, at>>, <<1900, 30, at>>, <<1200, Slot, at>>>>
        \o VisBits(code) \o Picture(n, code, level)

Init ==
    /\ air = <<>> /\ quiet = 0 /\ sent = 0 /\ aborts = 0 /\ switches = 0
    /\ sending = [n |-> 0, code |-> 0, whole |-> FALSE, grey |-> FALSE]
    /\ d = NewDecoder

\* A new transmission, perhaps before the one under way is over; pixels of
\* black, or of the grey whose tone is the leader's.
Send ==
    /\ sent < MaxSent /\ sent' = sent + 1 /\ quiet \in Pauses /\ quiet' = 0
    /\ aborts' = IF air = <<>> THEN aborts ELSE aborts + 1
    /\ aborts' <= MaxAborts
    /\ \E code \in Codes, level \in {1500, 1900} :
         /\ air' = Transmission(sent', code, level)
         /\ sending' = [n |-> sent', code |-> code, grey |-> level = 1900,
                        whole |-> d.state = "hunt" /\ d.on /\ d.tone # 1900]
    /\ UNCHANGED <<switches, d>>

\* One tick of audio.  After the last there is silence, for as long as three lines.
Feed ==
    /\ air # <<>> \/ quiet < 3 * Period + Search
    /\ LET now == IF air = <<>> THEN <<2300, 1, <<0, 0>>>> ELSE Head(air)
       IN  /\ d' = IF d.on THEN Step(d, now[1], now[3]) ELSE d
           /\ air' = IF air = <<>> THEN air
                     ELSE IF now[2] > 1 THEN [air EXCEPT ![1][2] = @ - 1] ELSE Tail(air)
    /\ quiet' = IF air = <<>> THEN quiet + 1 ELSE 0
    /\ UNCHANGED <<sent, aborts, switches, sending>>

\* SetEnabled, and Clear, which leaves the version of the picture alone.
Disturb ==
    /\ switches < MaxSwitches /\ switches' = switches + 1
    /\ sending' = [sending EXCEPT !.whole = FALSE]
    /\ UNCHANGED <<air, quiet, sent, aborts>>
SetEnabled ==
    /\ Disturb
    /\ d' = IF d.on THEN [d EXCEPT !.on = FALSE]
            ELSE [Hunt(d) EXCEPT !.on = TRUE, !.run = 0, !.tone = -1]
Clear ==
    /\ Disturb
    /\ d' = [Idle(d) EXCEPT !.done = <<>>]

Next == Send \/ Feed \/ SetEnabled \/ Clear
Spec == Init /\ [][Next]_vars

-----------------------------------------------------------------------------

TypeOK ==
    /\ d.state \in {"hunt", "break1", "leader2", "break2", "vis", "image"}
    /\ d.tone \in {-1, 0, 1200, 1900} /\ d.visVal \in 0..127 /\ d.visK \in 0..9
    /\ (d.state = "image" => d.mode \in Rastered /\ LineY(d) < Rows)
    /\ Len(d.done) <= DoneCap /\ (d.collecting => d.state = "image")

(* A picture that is sent to its end, by a transmitter nothing interrupts, *)
(* is finished and kept, with rows of no other picture, even if the        *)
(* decoder must fill its last rows with silence.                           *)
PictureKept ==
    quiet = 3 * Period /\ sending.whole /\ ~sending.grey /\ sending.code \in Rastered \cap 0..127
        => /\ d.done # <<>> /\ d.state = "hunt"
           /\ LET shown == ToSet(Last(d.done)) \ {<<0, 0>>}
              IN  shown # {} /\ \A at \in shown : at[1] = sending.n

(* "Line-locked: the next line starts exactly one line period after this   *)
(* one" (sstv.go:369): the row after a line of a picture shows the line    *)
(* that was sent after it.  Refuted: the second line of a picture is       *)
(* skipped (sstv.go:370).                                                  *)
RowsFollow ==
    \A i \in 1..Len(d.rows) - 1 :
       LET a == d.rows[i]  b == d.rows[i + 1]
       IN  a[1] = b[1] /\ a # <<0, 0>> => b[2] - a[2] <= 1

\* Refuted: a code of eight bits is sent in seven, and read in seven
\* (sstv.go:72, README.md:38: "PD90/120/180/240").
ListedModesKept ==
    quiet = 3 * Period /\ sending.whole /\ ~sending.grey /\ sending.code \in Rastered => d.done # <<>>

\* Refuted: a grey whose tone is the leader's ends a picture at a line's end.
GreyKept ==
    quiet = 3 * Period /\ sending.whole /\ sending.code \in Rastered \cap 0..127 => d.done # <<>>

\* Refuted: a leader is only noticed at a line's end (sstv.go:378: "a new
\* transmission started: keep what we have").
RowsOfOnePicture ==
    \A i, j \in 1..Len(d.rows) : d.rows[i][1] # 0 /\ d.rows[j][1] # 0 => d.rows[i][1] = d.rows[j][1]

\* Refuted: a finished picture cannot be served (server.go:991: "serves the
\* in-progress or last SSTV raster").
Snapshot == IF d.mode = 0 THEN <<>> ELSE d.rows
LastServed == d.done # <<>> /\ d.mode = 0 => Snapshot = Last(d.done)
==============================================================================
