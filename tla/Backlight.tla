------------------------------ MODULE Backlight ------------------------------
(***************************************************************************)
(* The panel (backlight/backlight.go) and its four users in main.go: the   *)
(* power key, the web page's buttons (on the event loop), MENU with a      *)
(* volume key, and the program's start and end.  Brightness is 0 (off) or  *)
(* one of four levels: Floor, Dim, a middle one and Full.  The firmware    *)
(* may not tell the level, and keeps it from one program to the next.      *)
(***************************************************************************)
EXTENDS Integers

CONSTANTS MaxSteps       \* bound: key presses, posts and starts

Floor == 1    \* 8, the lowest a step goes
Dim   == 2    \* 10
Full  == 4    \* 255; the default that heals a dim panel (200) is below it
Heal  == 3

VARIABLES
    state,               \* panelState: 0 on, 1 dim, 2 off
    level, blank,        \* the hardware: setbl, fb0's blank
    restore,             \* restoreLevel
    running, posted,     \* the program; what the web has posted to the loop, or -1
    chosen,              \* the level when the panel was last on (history)
    steps

vars == <<state, level, blank, restore, running, posted, chosen, steps>>

-----------------------------------------------------------------------------

Init == /\ state = 0 /\ level = Full /\ blank = FALSE /\ restore = 0
        /\ running = FALSE /\ posted = -1 /\ chosen = Full /\ steps = 0

Act == steps < MaxSteps /\ steps' = steps + 1

\* captureLevel: 0 when it cannot be read.
Captured == {0, level}

\* RestoreOn: on again, and no longer dim.
RestoreOn == blank' = FALSE /\ \E v \in Captured : level' = IF v <= Dim THEN Heal ELSE level

Off  == level' = 0 /\ blank' = TRUE

\* Cycle: the power key.  What is read on the way is kept in restoreLevel.
Power ==
    /\ running /\ Act /\ state' = (state + 1) % 3
    /\ \/ /\ state = 0 /\ level' = Dim /\ UNCHANGED blank
          /\ \E v \in Captured : restore' = IF v > Dim THEN v ELSE restore
          /\ chosen' = level
       \/ state = 1 /\ Off /\ UNCHANGED <<restore, chosen>>
       \/ state = 2 /\ RestoreOn /\ UNCHANGED <<restore, chosen>>
    /\ UNCHANGED <<running, posted>>

\* The web's button is posted to the loop, which applies it (ApplyState).
Post  == running /\ posted = -1 /\ Act /\ posted' \in 0..2
         /\ UNCHANGED <<state, level, blank, restore, running, chosen>>
Apply ==
    /\ running /\ posted # -1 /\ posted' = -1 /\ state' = posted
    /\ CASE posted = 0 -> RestoreOn
         [] posted = 1 -> level' = Dim /\ blank' = FALSE
         [] posted = 2 -> Off
    /\ UNCHANGED <<restore, running, chosen, steps>>

\* Step: MENU with a volume key; from the healing level when there is none to
\* read, and the panel counts as on.
StepBy(d) ==
    /\ running /\ Act /\ state' = 0 /\ blank' = FALSE
    /\ \E v \in Captured :
         LET w == (IF v = 0 THEN Heal ELSE v) + d
             l == IF w < Floor THEN Floor ELSE IF w > Full THEN Full ELSE w
         IN  level' = l /\ restore' = (IF l > Dim THEN l ELSE restore)
    /\ UNCHANGED <<running, posted, chosen>>

\* The start heals what a killed program left; quit restores.
Start == ~running /\ Act /\ running' = TRUE /\ state' = 0 /\ restore' = 0 /\ RestoreOn
         /\ UNCHANGED <<posted, chosen>>
Quit  == running /\ running' = FALSE /\ posted' = -1 /\ RestoreOn
         /\ UNCHANGED <<state, restore, chosen, steps>>
Killed == running /\ running' = FALSE /\ posted' = -1
          /\ UNCHANGED <<state, level, blank, restore, chosen, steps>>

Next == Power \/ Post \/ Apply \/ StepBy(1) \/ StepBy(-1) \/ Start \/ Quit \/ Killed

Spec == Init /\ [][Next]_vars

-----------------------------------------------------------------------------

TypeOK == state \in 0..2 /\ level \in 0..Full /\ restore \in 0..Full

(* The loop knows the panel: it is blank just when it thinks it is off     *)
(* (and stops drawing), and otherwise lit, if dimly; whoever of the key,   *)
(* the page and the volume keys switched it last, and whatever the program *)
(* before left.                                                            *)
PanelKnown == running => (blank <=> state = 2) /\ (state # 2 => level >= Floor)

\* Refuted (backlight.go:60: on restores the captured level): restoreLevel is
\* written, never read; a round of the power key ends at the healing level.
RoundRestores == [][Power /\ state = 2 => level' = chosen]_vars
==============================================================================
