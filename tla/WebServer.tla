----------------------------- MODULE WebServer ------------------------------
(***************************************************************************)
(* The page's server (web/server.go, web/audio.go): its listener, which    *)
(* the console starts, stops and moves to another port; the commands of    *)
(* the page, what they leave to the UI's goroutine (main.go), and the      *)
(* waterfall's range, which both sides turn; the audio it streams; its     *)
(* logs.  The four share no state, and Next is the disjunction of their    *)
(* steps.  net/http is modelled from its use: a server that is shut down   *)
(* before or while it begins to listen stops listening by itself.          *)
(***************************************************************************)
EXTENDS Naturals, Sequences, FiniteSets, SequencesExt

CONSTANTS
    Conn,        \* connections of browsers
    Ports,       \* ports to choose from
    MaxStarts,   \* bound: starts of the listener
    QueueCap,    \* tasks that wait for the UI (128 in the code)
    Top,         \* the range's edges are 0..Top
    MaxTurns,    \* bound: changes of the range
    ChanCap,     \* blocks that wait for a browser (64 in the code)
    MaxBlocks,   \* bound: blocks of audio
    LogCap,      \* lines a log keeps (200 in the code)
    MaxLines     \* bound: lines logged

VARIABLES
    enabled, port, inst, srv, stopping, conn, samplers, unlucky,
    range, tasks, cmdMu, req, asked, excused, panel, wished, writers, turns,
    ear, pushed, prev, rate, joins,
    log, lines

listening == <<enabled, port, inst, srv, stopping, conn, samplers, unlucky>>
commands  == <<range, tasks, cmdMu, req, asked, excused, panel, wished, writers, turns>>
streaming == <<ear, pushed, prev, rate, joins>>
logging   == <<log, lines>>
vars      == <<listening, commands, streaming, logging>>

Nobody == "nobody"

-----------------------------------------------------------------------------
(* The listener.  inst are the servers made so far: port, whether it is    *)
(* spawned, bound, serving or gone, and whether it was shut down.  srv is  *)
(* the one in s.srv.  stopping: s.mu is held while it is shut down.        *)

Inst == 1..Len(inst)

InitListening ==
    /\ enabled = FALSE /\ port \in Ports /\ inst = <<>> /\ srv = 0 /\ stopping = "no"
    /\ conn = [c \in Conn |-> [at |-> 0, doing |-> "nothing"]]
    /\ samplers = 0 /\ unlucky = FALSE

\* startLocked: another sampler, and another server that listens on its own time.
StartLocked(p) ==
    /\ inst' = Append(inst, [port |-> p, st |-> "spawned", shut |-> FALSE])
    /\ srv' = Len(inst) + 1 /\ samplers' = samplers + 1 /\ stopping' = "no"

\* stopLocked, its first half: the listener is closed.
BeginStop(next) ==
    /\ inst' = [inst EXCEPT ![srv].shut = TRUE,
                            ![srv].st = IF @ = "serving" THEN "gone" ELSE @]
    /\ stopping' = next /\ UNCHANGED <<srv, samplers>>

SetEnabled(on) ==
    /\ stopping = "no" /\ on # enabled /\ enabled' = on
    /\ IF on THEN Len(inst) < MaxStarts /\ StartLocked(port) ELSE BeginStop("stop")
    /\ UNCHANGED <<port, conn, unlucky>>

SetPort(p) ==
    /\ stopping = "no" /\ p # port /\ port' = p
    /\ IF enabled THEN Len(inst) < MaxStarts /\ BeginStop("restart")
                  ELSE UNCHANGED <<inst, srv, stopping, samplers>>
    /\ UNCHANGED <<enabled, conn, unlucky>>

\* Shutdown returns when its connections are done, or after a second.
Quiet == \A c \in Conn : conn[c].at = srv => conn[c].doing = "nothing"
EndStop ==
    /\ stopping # "no"
    /\ IF stopping = "restart" THEN StartLocked(port)
       ELSE srv' = 0 /\ stopping' = "no" /\ UNCHANGED <<inst, samplers>>
    /\ UNCHANGED <<enabled, port, conn, unlucky>>

\* ListenAndServe, on its own goroutine; nobody sees its error.
Taken(i) == \E j \in Inst \ {i} : inst[j].port = inst[i].port /\ inst[j].st \in {"bound", "serving"}
Listen(i) ==
    /\ inst[i].st \in {"spawned", "bound"}
    /\ inst' = [inst EXCEPT ![i].st =
         IF inst[i].shut \/ (@ = "spawned" /\ Taken(i)) THEN "gone"
         ELSE IF @ = "spawned" THEN "bound" ELSE "serving"]
    /\ unlucky' = (unlucky \/ (inst[i].st = "spawned" /\ ~inst[i].shut /\ Taken(i)))
    /\ UNCHANGED <<enabled, port, srv, stopping, conn, samplers>>

\* A request comes in: for what takes s.mu on the way (handleState and most
\* others), or for the audio.
Request(c, what) ==
    /\ conn[c].doing = "nothing"
    /\ \E i \in Inst : inst[i].st = "serving" /\ conn' = [conn EXCEPT ![c] = [at |-> i, doing |-> what]]
    /\ UNCHANGED <<enabled, port, inst, srv, stopping, samplers, unlucky>>

\* The answer, once s.mu is free; a stream ends when the browser goes.
Answer(c) ==
    /\ conn[c].doing \in {"page", "audio"}
    /\ conn[c].doing = "page" => stopping = "no"
    /\ conn' = [conn EXCEPT ![c].doing = "nothing"]
    /\ UNCHANGED <<enabled, port, inst, srv, stopping, samplers, unlucky>>

Listening ==
    /\ \/ \E on \in BOOLEAN : SetEnabled(on)
       \/ \E p \in Ports : SetPort(p)
       \/ EndStop
       \/ \E i \in Inst : Listen(i)
       \/ \E c \in Conn : Answer(c) \/ \E what \in {"page", "audio"} : Request(c, what)
    /\ UNCHANGED <<commands, streaming, logging>>

ListeningFairly ==
    /\ WF_vars(EndStop /\ UNCHANGED <<commands, streaming, logging>>)
    /\ \A c \in Conn : WF_vars(conn[c].doing = "page" /\ Answer(c) /\ UNCHANGED <<commands, streaming, logging>>)

-----------------------------------------------------------------------------
(* The commands.  A request holds cmdMu from its first step to its last.   *)

Edges == {"mn", "mx"}
NoReq == [kind |-> "none", v |-> 0, read |-> [mn |-> 0, mx |-> 0]]

InitCommands ==
    /\ range = [mn |-> 0, mx |-> Top] /\ asked = range /\ tasks = <<>>
    /\ cmdMu = Nobody /\ req = [c \in Conn |-> NoReq]
    /\ excused = FALSE /\ panel = 0 /\ wished = 0 /\ writers = {} /\ turns = 0

Post(t) == tasks' = IF Len(tasks) < QueueCap THEN Append(tasks, t) ELSE tasks

\* A change of the range that is still to be made: a task, or a request past its read.
Underway == \/ \E i \in 1..Len(tasks) : tasks[i].kind = "range"
            \/ \E c \in Conn : req[c].kind \in {"mn", "mx"} /\ cmdMu = c

TakeUnlocked(c, k, v) ==    \* bug: without cmdMu
    /\ req[c].kind = "none" /\ turns < MaxTurns /\ turns' = turns + 1
    /\ cmdMu' = c
    /\ req' = [req EXCEPT ![c] = [kind |-> k, v |-> v, read |-> range]]
    /\ excused' = (excused \/ \E i \in 1..Len(tasks) : tasks[i].kind = "range")
    /\ writers' = IF k = "aprs" THEN writers \cup {c} ELSE writers
    /\ UNCHANGED <<range, tasks, asked, panel, wished>>
\* The range is read ("wfmin", "wfmax"); the APRS commands write cfg themselves.
Take(c, k, v) ==
    /\ cmdMu = Nobody /\ req[c].kind = "none" /\ turns < MaxTurns /\ turns' = turns + 1
    /\ cmdMu' = c
    /\ req' = [req EXCEPT ![c] = [kind |-> k, v |-> v, read |-> range]]
    /\ excused' = (excused \/ (k \in Edges /\ \E i \in 1..Len(tasks) : tasks[i].kind = "range"))
    /\ writers' = IF k = "aprs" THEN writers \cup {c} ELSE writers
    /\ UNCHANGED <<range, tasks, asked, panel, wished>>

\* What changes cfg or the screen is left to the UI; a full queue turns it
\* away, and the page is told "ok" all the same.
Finish(c) ==
    /\ req[c].kind # "none"
    /\ cmdMu' = Nobody /\ req' = [req EXCEPT ![c] = NoReq]
    /\ \/ /\ req[c].kind \in Edges
          /\ Post([kind |-> "range", v |-> 0, to |-> [req[c].read EXCEPT ![req[c].kind] = req[c].v]])
          /\ asked' = [asked EXCEPT ![req[c].kind] = req[c].v]
          /\ excused' = (excused \/ Len(tasks) = QueueCap)
          /\ UNCHANGED <<writers, wished>>
       \/ /\ req[c].kind = "panel"
          /\ Post([kind |-> "panel", v |-> req[c].v, to |-> range])
          /\ excused' = (excused \/ Len(tasks) = QueueCap)
          /\ wished' = IF req[c].v <= 2 THEN req[c].v ELSE wished
          /\ UNCHANGED <<asked, writers>>
       \/ /\ req[c].kind = "aprs" /\ writers' = writers \ {c}
          /\ UNCHANGED <<tasks, asked, excused, wished>>
    /\ UNCHANGED <<range, panel, turns>>

\* The UI's goroutine: a task, with its save; a turn of the row; the power key.
RunTask ==
    /\ tasks # <<>> /\ tasks' = Tail(tasks) /\ "ui" \notin writers
    /\ IF Head(tasks).kind = "range" THEN range' = Head(tasks).to /\ UNCHANGED panel
       ELSE UNCHANGED range /\ panel' = IF Head(tasks).v <= 2 THEN Head(tasks).v ELSE panel
    /\ UNCHANGED <<cmdMu, req, asked, excused, wished, writers, turns>>
Turn(e, d) ==
    /\ "ui" \notin writers /\ turns < MaxTurns /\ turns' = turns + 1
    /\ LET to == IF d = "up" THEN (IF range[e] < Top THEN range[e] + 1 ELSE Top)
                             ELSE IF range[e] > 0 THEN range[e] - 1 ELSE 0
       IN  range' = [range EXCEPT ![e] = to] /\ asked' = [asked EXCEPT ![e] = to]
    /\ excused' = (excused \/ Underway) /\ writers' = writers \cup {"ui"}
    /\ UNCHANGED <<tasks, cmdMu, req, panel, wished>>
Saved == /\ "ui" \in writers /\ writers' = writers \ {"ui"}
         /\ UNCHANGED <<range, tasks, cmdMu, req, asked, excused, panel, wished, turns>>
PowerKey ==
    /\ "ui" \notin writers /\ turns < MaxTurns /\ turns' = turns + 1
    /\ panel' = (panel + 1) % 3 /\ wished' = panel'
    /\ excused' = (excused \/ tasks # <<>> \/ cmdMu # Nobody)
    /\ UNCHANGED <<range, tasks, cmdMu, req, asked, writers>>

Commanding ==
    /\ \/ \E c \in Conn : Finish(c) \/ \E k \in Edges \cup {"panel", "aprs"}, v \in {0, 1, 3} :
            (k # "panel" => v <= Top) /\ Take(c, k, v)
       \/ RunTask \/ Saved \/ PowerKey
       \/ \E e \in Edges, d \in {"up", "down"} : Turn(e, d)
    /\ UNCHANGED <<listening, streaming, logging>>

-----------------------------------------------------------------------------
(* The audio.  A block is its number; prev is the block whose last sample  *)
(* the resampler goes on from.                                             *)

Deaf == [on |-> FALSE, q |-> <<>>, got |-> <<>>, since |-> 0, missed |-> FALSE]

InitStreaming ==
    /\ ear = [c \in Conn |-> Deaf] /\ pushed = 0 /\ prev = 0 /\ rate \in {8, 24} /\ joins = TRUE

\* A browser whose queue is full does without the block.  Nobody there:
\* nothing is done, and the resampler keeps what it had.
Push ==
    /\ pushed < MaxBlocks /\ pushed' = pushed + 1
    /\ IF \A c \in Conn : ~ear[c].on THEN UNCHANGED <<ear, prev, rate, joins>>
       ELSE /\ \E r \in {8, 24} :
                 rate' = r /\ joins' = (joins /\ (r = rate => prev \in {0, pushed}))
            /\ prev' = pushed + 1
            /\ ear' = [c \in Conn |->
                 IF ~ear[c].on THEN ear[c]
                 ELSE IF Len(ear[c].q) < ChanCap THEN [ear[c] EXCEPT !.q = Append(@, pushed + 1)]
                 ELSE [ear[c] EXCEPT !.missed = TRUE]]

Join(c) ==
    /\ ~ear[c].on /\ ear[c].since = 0
    /\ ear' = [ear EXCEPT ![c] = [Deaf EXCEPT !.on = TRUE, !.since = pushed]]
    /\ UNCHANGED <<pushed, prev, rate, joins>>
Send(c) ==
    /\ ear[c].on /\ ear[c].q # <<>>
    /\ ear' = [ear EXCEPT ![c].q = Tail(@), ![c].got = Append(@, Head(ear[c].q))]
    /\ UNCHANGED <<pushed, prev, rate, joins>>
Hangs(c) ==
    /\ ear[c].on /\ ear' = [ear EXCEPT ![c].on = FALSE, ![c].since = MaxBlocks]
    /\ UNCHANGED <<pushed, prev, rate, joins>>

Streaming ==
    /\ Push \/ \E c \in Conn : Join(c) \/ Send(c) \/ Hangs(c)
    /\ UNCHANGED <<listening, commands, logging>>

-----------------------------------------------------------------------------
(* The logs of decodes and of the system, each cut to its newest lines.    *)

InitLogging == log = <<>> /\ lines = <<>>

AddFT8 ==
    /\ Len(lines) < MaxLines
    /\ lines' = Append(lines, Len(lines) + 1)
    /\ LET l == Append(log, Len(lines) + 1)
       IN  log' = IF Len(l) > LogCap THEN SubSeq(l, Len(l) - LogCap + 1, Len(l)) ELSE l
ResetFT8 == log # <<>> /\ log' = <<>> /\ lines' = <<>>

Logging == (AddFT8 \/ ResetFT8) /\ UNCHANGED <<listening, commands, streaming>>

-----------------------------------------------------------------------------
(* The page's waterfall: the samples a frame is made of, for a capture rate. *)

PowersOfTwo == {2^k : k \in 0..16}
SpecSize(r) ==
    LET most == r \div 8000
        n == IF most > 0 /\ most < 65536
             THEN CHOOSE p \in PowersOfTwo : p <= most /\ \A q \in PowersOfTwo : q <= most => q <= p
             ELSE 65536
    IN  IF n < 16384 THEN 16384 ELSE n

\* Refuted for every rate the receiver has: the frame adapts to the rate, and
\* takes what 130 ms hold (the comment at server.go:984); it is 16384 for all.
SpecAdapts(rates) == \E r, q \in rates : SpecSize(r) # SpecSize(q)

-----------------------------------------------------------------------------

Init == InitListening /\ InitCommands /\ InitStreaming /\ InitLogging
Next == Listening \/ Commanding \/ Streaming \/ Logging

TypeOK ==
    /\ srv \in 0..Len(inst) /\ samplers <= MaxStarts /\ Len(tasks) <= QueueCap
    /\ panel \in 0..2 /\ range \in [Edges -> 0..Top]
    /\ \A c \in Conn : Len(ear[c].q) <= ChanCap
    /\ Len(log) <= LogCap

(* Once every listener has done what it was told, the page is served on    *)
(* the chosen port while the server is on, and nowhere else or at any      *)
(* other time.  Except when a port was taken again before its old listener *)
(* had noticed that it was shut down.                                      *)
ServedWhereChosen ==
    stopping = "no" /\ (\A i \in Inst : inst[i].st \in {"serving", "gone"}) =>
      LET served == {inst[i].port : i \in {i \in Inst : inst[i].st = "serving"}}
      IN  /\ served \subseteq (IF enabled THEN {port} ELSE {})
          /\ enabled /\ ~unlucky => port \in served

(* Switching the server off or to another port returns: the requests it    *)
(* waits for wait for the lock it holds, so it gives up after a second.    *)
StopReturns == stopping # "no" ~> stopping = "no"

(* The two edges of the waterfall's range, and the screen, end as they     *)
(* were last set by either side, however the page's requests overlap.      *)
(* Except when one was set while a change was still under way to the UI,   *)
(* or the queue to it was full.                                            *)
EdgesKept ==
    tasks = <<>> /\ (\A c \in Conn : req[c].kind = "none") /\ ~excused =>
      range = asked /\ panel = wished

(* A browser that kept up has every block since it joined, in order.       *)
KeepsUp ==
    \A c \in Conn : ear[c].on /\ ~ear[c].missed =>
      ear[c].got \o ear[c].q = [i \in 1..(pushed - ear[c].since) |-> ear[c].since + i]

(* A log holds the newest lines, and all of them up to its limit.          *)
NewestKept ==
    \/ log = lines
    \/ Len(log) = LogCap /\ IsSuffix(log, lines)

\* Refuted: one sampler of the system's metrics, while the history is laid out
\* for one sample in ten seconds: each start of the listener adds one.
OneSampler == samplers <= 1
\* Refuted: a stream of audio goes on after the server is switched off.
SilentWhenOff == ~enabled /\ stopping = "no" => \A c \in Conn : conn[c].doing # "audio"
\* Refuted: the page's two sliders, one after the other: the second request
\* reads the range before the first one's task has run, and takes it back.
EdgesAlwaysKept ==
    tasks = <<>> /\ (\A c \in Conn : req[c].kind = "none") /\ writers = {} => range = asked
\* Refuted: the UI is the only writer of cfg (the comment at main.go:1656): the
\* APRS commands write it on the request's goroutine.
OneWriter == Cardinality(writers) <= 1
\* Refuted: the resampler joins only blocks that followed each other.
JoinsNeighbours == joins
=============================================================================
