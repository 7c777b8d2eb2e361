-------------------------------- MODULE Wefax --------------------------------
(***************************************************************************)
(* The weather charts: the decoder's tones and raster (dsp/wefax.go), and  *)
(* the frame that saves what is finished (main.go).  A line lasts half a   *)
(* second and two windows of the tone detector, which must find a second   *)
(* of nothing but the tone.  A line is what it shows; pixels and the       *)
(* alignment on the phasing pulses are left out.                           *)
(***************************************************************************)
EXTENDS Integers, SequencesExt

CONSTANTS
    RunNeed,             \* windows of a tone that latch it (6)
    ClearNeed,           \* windows without it that release it (12)
    MinLines,            \* fewer are no chart (10)
    KeepMin, KeepBack,   \* of a chart cut short by the next one's start (50, 4)
    PhasingNeed,         \* 3
    GreyMax,             \* 5
    MaxLines,            \* the raster (1400)
    StartLines, PhasingLines, ChartLines, StopLines,  \* sets of lengths the sender uses
    MaxCharts, MaxHurt, MaxSwitches  \* bounds

Tones == {"start", "stop"}

VARIABLES
    phase, left, chart,  \* the sender: what it sends, lines of it to come, the chart's number
    before,              \* the two lines before
    hurt, hurts,         \* history: the chart was faded or interrupted since its start
    d, done,             \* the decoder, and its finished images
    auto, screen,        \* automatic saving; whether frames are drawn
    clock, files,        \* lines so far; [second -> the image saved under its name]
    out, dim,            \* history: charts that were finished whole, and those the screen was off for
    switches

sender == <<phase, left, chart, before, hurt, hurts, clock>>
vars   == <<sender, d, done, auto, screen, files, out, dim, switches>>

-----------------------------------------------------------------------------
(* The decoder.                                                            *)

\* reset leaves the tone detector alone.
Reset(x) == [x EXCEPT !.state = "idle", !.img = <<>>, !.phasingN = 0, !.grey = 0]

Finish(x) ==
    IF Len(x.img) < MinLines THEN x ELSE [x EXCEPT !.new = Append(@, x.img)]

\* apt: one window, in the first half of a line or at its end.
Run(x, kind) ==
    [x EXCEPT !.run = kind,
              !.runN = IF kind = "none" THEN 0 ELSE IF kind = x.run /\ @ < RunNeed THEN @ + 1
                       ELSE IF kind = x.run THEN @ ELSE 1,
              !.clearN = IF kind # "none" THEN 0 ELSE IF x.latch # "none" /\ @ < ClearNeed THEN @ + 1 ELSE @,
              !.latch = IF kind = "none" /\ x.clearN + 1 >= ClearNeed THEN "none" ELSE @]
Latch(x, early) ==
    IF x.runN < RunNeed \/ x.latch = x.run THEN x
    ELSE [x EXCEPT !.latch = x.run,
                   !.stopAt = IF x.run # "stop" THEN @
                              ELSE IF early /\ x.img # <<>> THEN Len(x.img) - 1 ELSE Len(x.img)]

\* A start tone begins a chart, and ends one that was under way.
ByStart(x) ==
    IF x.latch # "start" \/ x.state = "phasing" \/ x.runN < RunNeed THEN x
    ELSE LET keep == Len(x.img) - KeepBack
             cut == IF x.state = "image" /\ keep > KeepMin
                    THEN Finish([x EXCEPT !.img = SubSeq(@, 1, keep)]) ELSE x
         IN  [Reset(cut) EXCEPT !.state = "phasing"]
ByStop(x) ==
    IF x.latch # "stop" \/ x.state # "image" \/ x.runN < RunNeed THEN x
    ELSE LET end == x.stopAt + 1
         IN  Reset(Finish(IF end > 0 /\ end < Len(x.img) THEN [x EXCEPT !.img = SubSeq(@, 1, end)] ELSE x))

Apt(x, kind, early) ==
    LET y == Latch(Run(x, kind), early) IN IF auto THEN ByStop(ByStart(y)) ELSE y

StoreLine(x, line) ==
    LET y == IF Len(x.img) < MaxLines THEN x ELSE [Reset(Finish(x)) EXCEPT !.state = "image"]
    IN  [y EXCEPT !.img = Append(@, line)]

Phasing(x, line) ==
    IF line[1] = "phasing" THEN [x EXCEPT !.grey = 0, !.phasingN = IF @ < PhasingNeed THEN @ + 1 ELSE @]
    ELSE IF x.phasingN >= PhasingNeed THEN StoreLine([x EXCEPT !.state = "image"], line)
    ELSE [x EXCEPT !.grey = @ + 1, !.state = IF x.grey + 1 >= GreyMax THEN "image" ELSE @]

\* Image, and free running: inside a tone, and on phasing pulses that agree
\* with the ones before, nothing is drawn.
Drawing(x, line, agree) ==
    LET y == [x EXCEPT !.state = "image"]
    IN  IF x.latch # "none" \/ (line[1] = "phasing" /\ agree) THEN y ELSE StoreLine(y, line)

Raster(x, line, agree) ==
    IF x.state = "phasing" THEN Phasing(x, line) ELSE Drawing(x, line, agree)

-----------------------------------------------------------------------------

NewDecoder ==
    [state |-> "idle", img |-> <<>>, phasingN |-> 0, grey |-> 0, new |-> <<>>,
     run |-> "none", runN |-> 0, clearN |-> 0, latch |-> "none", stopAt |-> 0]

Init ==
    /\ phase = "silence" /\ left = 0 /\ chart = 0 /\ before = <<"grey", "grey">>
    /\ hurt = TRUE /\ hurts = 0
    /\ d = NewDecoder /\ done = <<>> /\ auto \in BOOLEAN /\ screen = TRUE
    /\ clock = 0 /\ files = [s \in {} |-> <<>>] /\ out = {} /\ dim = {} /\ switches = 0

\* The sender goes on to its next part; between charts it may be silent.
Lengths(p) ==
    CASE p = "start" -> StartLines [] p = "phasing" -> PhasingLines
      [] p = "chart" -> ChartLines [] p = "stop" -> StopLines [] p = "silence" -> {0, 1}
Following(p) ==
    CASE p = "silence" -> "start" [] p = "start" -> "phasing" [] p = "phasing" -> "chart"
      [] p = "chart" -> "stop" [] p = "stop" -> "silence"
Turn ==
    /\ left = 0 /\ phase' = Following(phase) /\ (phase' = "start" => chart < MaxCharts)
    /\ left' \in Lengths(phase')
    /\ chart' = IF phase' = "start" THEN chart + 1 ELSE chart
    /\ hurt' = (hurt /\ phase' # "start")
    /\ UNCHANGED <<before, hurts, clock, d, done, auto, screen, files, out, dim, switches>>

\* Charts of which an image has every line, in order.
Complete(img) ==
    {c \in 1..MaxCharts :
       LET of == SelectSeq(img, LAMBDA l : l[1] = "chart" /\ l[2] = c)
       IN  of # <<>> /\ Last(of)[3] = 1 /\ \E n \in ChartLines : Len(of) = n /\ of[1][3] = n}

\* A line is received, as it was sent or lost in noise; with the screen on a
\* frame has saved what was finished before.
Receive ==
    /\ left > 0 /\ left' = left - 1 /\ clock' = clock + 1
    /\ done = <<>> \/ ~screen
    /\ \E fade \in BOOLEAN, agree \in BOOLEAN :
         LET line == IF fade \/ phase = "silence" THEN <<"grey">>
                     ELSE IF phase = "chart" THEN <<"chart", chart, left>> ELSE <<phase>>
             end == IF line[1] \in Tones /\ before[2] = line[1] THEN line[1] ELSE "none"
             middle == IF before[1] = end THEN end ELSE "none"
             x == Raster(Apt(Apt(d, middle, TRUE), end, FALSE), line,
                         agree \/ before[2] = "phasing")
         IN  /\ fade => hurts < MaxHurt /\ phase # "silence"
             /\ hurts' = IF fade THEN hurts + 1 ELSE hurts
             /\ hurt' = (hurt \/ fade)
             /\ before' = <<before[2], line[1]>>
             /\ d' = [x EXCEPT !.new = <<>>]
             /\ done' = done \o x.new
             /\ out' = out \cup UNION {Complete(x.new[i]) : i \in DOMAIN x.new}
             /\ dim' = IF screen THEN dim ELSE dim \cup (out' \ out)
    /\ UNCHANGED <<phase, chart, auto, screen, files, switches>>

\* The frame saves what is finished, each under the second it is saved in.
Frame ==
    /\ screen /\ done # <<>> /\ done' = <<>>
    /\ files' = [s \in DOMAIN files \cup {clock \div 2} |->
                   IF s = clock \div 2 THEN Last(done) ELSE files[s]]
    /\ UNCHANGED <<sender, d, auto, screen, out, dim, switches>>

\* The user: automatic saving, the screen, clearing the chart.
Switch ==
    /\ switches < MaxSwitches /\ switches' = switches + 1
    /\ \/ auto' = ~auto /\ hurt' = TRUE /\ UNCHANGED <<screen, d>>
       \/ screen' = ~screen /\ UNCHANGED <<auto, hurt, d>>
       \/ d' = Reset(d) /\ hurt' = TRUE /\ UNCHANGED <<auto, screen>>
    /\ UNCHANGED <<phase, left, chart, before, hurts, clock, done, files, out, dim>>

Next == Turn \/ Receive \/ Frame \/ Switch
Spec == Init /\ [][Next]_vars

-----------------------------------------------------------------------------

TypeOK ==
    /\ d.state \in {"idle", "phasing", "image"} /\ Len(d.img) <= MaxLines
    /\ d.runN \in 0..RunNeed /\ d.clearN \in 0..ClearNeed /\ d.latch \in Tones \cup {"none"}
    /\ d.phasingN \in 0..PhasingNeed /\ d.grey \in 0..GreyMax /\ d.new = <<>>

(* With automatic saving, a chart whose tones, phasing and lines arrive is *)
(* finished with every line, whatever the decoder was drawing before: a    *)
(* chart that broke off, a start tone that faded, noise.                   *)
ChartsComeOut ==
    auto /\ ~hurt /\ phase \in {"stop", "silence"} /\ left = 0 => chart \in out

(* What was finished while the screen was on is saved.                     *)
Held == UNION {Complete(done[i]) : i \in DOMAIN done} \cup UNION {Complete(files[s]) : s \in DOMAIN files}
ChartsKept == out \ dim \subseteq Held

\* Refuted: the charts that were finished while the screen was off are saved
\* in one second, under one name.
AllChartsKept == out \subseteq Held

\* Refuted: the lines of the stop tone that were drawn before it was heard
\* stay, since stopAt is taken when it is latched (wefax.go:281: "so the saved
\* chart ends at the real last line").
EndsAtLastLine == \A i \in DOMAIN done : chart \in Complete(done[i]) => Last(done[i])[1] = "chart"
==============================================================================
