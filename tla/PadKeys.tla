------------------------------- MODULE PadKeys -------------------------------
(***************************************************************************)
(* The console's keys: the goroutine that reads them (input/input.go) and  *)
(* the event loop that acts on them (main.go): MENU's tap, the keys that   *)
(* are combined with MENU, the repeat of a held key, and the exit by       *)
(* holding MENU or START.                                                  *)
(*                                                                         *)
(* The reader passes changes on through a bounded channel and drops what   *)
(* does not fit.  The loop may be late: it acts on all that is queued, at  *)
(* the time it looks.  Times are in ticks of the loop's shortest delay.    *)
(***************************************************************************)
EXTENDS Integers, Sequences, SequencesExt

CONSTANTS
    Button,      \* of "menu", "start", "vol", "select", "up"
    Cap,         \* the channel's room (128)
    Hold,        \* how long MENU or START is held to quit (3 s)
    Gate,        \* how long a combination keeps the exit off (400 ms)
    Delay,       \* how long a key is held until it repeats (450 ms)
    MaxTime,     \* bound: the time
    MaxEvents    \* bound: presses and releases

VARIABLES
    now,
    down, since,     \* the keys themselves (environment), and since when
    echo,            \* menuEchoUntil: SELECT is not heard
    queue, lost,     \* the channel; whether it dropped a change (history)
    swallowed,       \* the echo took a change of the real SELECT (history)
    ui, held,        \* "main" or "menu"; the keys as the loop knows them
    downAt,          \* menuDownAt, startDownAt, or -1
    combo, calm,     \* menuInCombo; brightComboUntil
    shot,            \* shotCombo
    repeat,          \* lastRepeat
    quit, made       \* quit was called; changes so far

vars == <<now, down, since, echo, queue, lost, swallowed, ui, held, downAt, combo, calm, shot,
          repeat, quit, made>>

Reader == <<echo, queue, lost, swallowed>>
Loop   == <<ui, held, downAt, combo, calm, shot, repeat, quit>>

-----------------------------------------------------------------------------

Init ==
    /\ now = 0 /\ down = [b \in Button |-> FALSE] /\ since = [b \in Button |-> 0]
    /\ echo = 0 /\ queue = <<>> /\ lost = FALSE /\ swallowed = FALSE
    /\ ui \in {"main", "menu"} /\ held = down
    /\ downAt = [menu |-> -1, start |-> -1] /\ combo = FALSE /\ calm = 0 /\ shot = FALSE
    /\ repeat = [b \in Button |-> 0] /\ quit = FALSE /\ made = 0

Tick == ~quit /\ now < MaxTime /\ now' = now + 1
        /\ UNCHANGED <<down, since, made>> /\ UNCHANGED <<Reader, Loop>>

\* push: what does not fit is dropped.
Push(e) ==
    IF Len(queue) = Cap THEN lost' = TRUE /\ UNCHANGED queue
                        ELSE queue' = Append(queue, e) /\ UNCHANGED lost

\* handle: SELECT is not heard for a while after MENU changes.
Handle(b, d) ==
    /\ echo' = IF b = "menu" THEN now + Gate ELSE echo
    /\ IF b = "select" /\ now < echo THEN UNCHANGED <<queue, lost>> /\ swallowed' = TRUE
                                     ELSE Push([key |-> b, dn |-> d]) /\ UNCHANGED swallowed

Change(b) ==
    /\ ~quit /\ made < MaxEvents /\ made' = made + 1
    /\ down' = [down EXCEPT ![b] = ~@] /\ since' = [since EXCEPT ![b] = now]
    /\ Handle(b, ~down[b])
    /\ UNCHANGED now /\ UNCHANGED Loop

-----------------------------------------------------------------------------

State == [ui |-> ui, held |-> held, downAt |-> downAt, combo |-> combo, calm |-> calm,
          shot |-> shot, repeat |-> repeat]

\* MENU with a volume key (or, while WEFAX runs, with L1 or R1): the exit's
\* time starts anew, and MENU's release is no tap.
Combined(s) == [s EXCEPT !.calm = now + Gate, !.combo = TRUE, !.downAt.menu = now]

\* The press of a key that is not MENU, START or POWER.  SELECT opens a screen,
\* up tunes or moves; which, is of no account here.
Pressed(s, b) ==
    LET t == [s EXCEPT !.repeat[b] = now]
    IN  IF b = "vol" /\ s.held["menu"] THEN Combined(t) ELSE t

\* MENU goes up: a short press opens the menu, or closes what is open.
MenuUp(s) ==
    LET tap == ~s.combo /\ s.downAt.menu # -1 /\ now - s.downAt.menu < Hold
    IN  [s EXCEPT !.ui = IF ~tap THEN @ ELSE IF @ = "menu" THEN "main" ELSE "menu",
                  !.combo = FALSE, !.downAt.menu = -1]

OnStartStays(s, e) ==    \* bug: START's time is not ended
    LET t == [s EXCEPT !.held[e.key] = e.dn]
    IN  CASE e.key = "menu"  -> IF e.dn THEN [t EXCEPT !.downAt.menu = now] ELSE MenuUp(t)
          [] e.key = "start" -> IF e.dn THEN [t EXCEPT !.downAt.start = now] ELSE t
          [] OTHER           -> IF e.dn THEN Pressed(t, e.key) ELSE t
On(s, e) ==
    LET t == [s EXCEPT !.held[e.key] = e.dn]
    IN  CASE e.key = "menu"  -> IF e.dn THEN [t EXCEPT !.downAt.menu = now] ELSE MenuUp(t)
          [] e.key = "start" -> [t EXCEPT !.downAt.start = IF e.dn THEN now ELSE -1]
          [] OTHER           -> IF e.dn THEN Pressed(t, e.key) ELSE t

IsHeld(s, b) == b \in Button /\ s.held[b]

\* MENU and START together: a picture of the screen, once.
Joint(s) ==
    IF ~(IsHeld(s, "menu") /\ IsHeld(s, "start")) THEN [s EXCEPT !.shot = FALSE]
    ELSE IF s.shot THEN s
    ELSE [s EXCEPT !.shot = TRUE, !.combo = TRUE, !.downAt = [menu |-> now, start |-> now]]

\* A key that is held repeats: the volume on any screen, up on the main one.
Repeats(s) ==
    LET due(b) == IsHeld(s, b) /\ now - s.repeat[b] > Delay
        v == IF ~due("vol") THEN s
             ELSE LET t == [s EXCEPT !.repeat["vol"] = now]
                  IN  IF IsHeld(s, "menu") THEN Combined(t) ELSE t
    IN  IF due("up") /\ s.ui = "main" THEN [v EXCEPT !.repeat["up"] = now] ELSE v

\* The exit's time: MENU's, or else START's; none while a combination runs.
Due(s) ==
    /\ now >= s.calm
    /\ LET at == IF s.downAt.menu # -1 THEN s.downAt.menu ELSE s.downAt.start
       IN  at # -1 /\ now - at >= Hold

\* One turn of the loop.
Turn ==
    LET s == Joint(FoldLeft(On, State, queue))
        t == Repeats(s)
    IN  /\ ~quit /\ quit' = Due(s) /\ queue' = <<>>
        /\ ui' = t.ui /\ held' = t.held /\ downAt' = t.downAt /\ combo' = t.combo
        /\ calm' = t.calm /\ shot' = t.shot /\ repeat' = t.repeat
        /\ UNCHANGED <<now, down, since, echo, lost, swallowed, made>>

Next == Tick \/ Turn \/ \E b \in Button : Change(b)

Spec == Init /\ [][Next]_vars

-----------------------------------------------------------------------------

TypeOK ==
    /\ Len(queue) <= Cap /\ held \in [Button -> BOOLEAN]
    /\ downAt \in [{"menu", "start"} -> -1..MaxTime]
    /\ \A b \in Button : repeat[b] <= now

(* What the loop takes a key for is what it is, once it has looked; so it  *)
(* quits only when MENU or START has really been down for three seconds,   *)
(* whatever was pressed with it and however late the loop came to it.      *)
(* Unless a change was dropped: then a key that was let go stays held.     *)
KnowsKeys ==
    ~lost' =>
       /\ queue' = <<>> => \A b \in Button \ {"select"} : held'[b] = down'[b]
       /\ quit' => \E b \in Button \cap {"menu", "start"} : down[b] /\ now - since[b] >= Hold
QuitsOnlyHeld == [][KnowsKeys]_vars

\* Refuted: the oldest change is not what makes room (input.go:263), so a full
\* channel loses the release, and the loop quits with no key down.
HeldAgrees == queue = <<>> => \A b \in Button \ {"select"} : held[b] = down[b]

\* Refuted: SELECT's own release is taken for the echo of MENU.
SelectHeard == queue = <<>> /\ ~lost => held["select"] = down["select"]
==============================================================================
