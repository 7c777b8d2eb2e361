----------------------------- MODULE EngineQueue -----------------------------
(***************************************************************************)
(* The way of the sound to a decoder's process, and of its messages back   *)
(* (ft8ts/ft8ts.go, deepcw/deepcw.go): a bounded queue that drops, a       *)
(* goroutine that writes to the process's standard input, the pipe         *)
(* between, and Close, which marks the engine dead, tells the goroutine    *)
(* and kills the process.  Sidecar has when engines are started and        *)
(* closed.                                                                 *)
(*                                                                         *)
(* DeepCW's goroutine takes one sample of five halves on the way           *)
(* (Resampling, a machine of its own): positions are in halves.            *)
(***************************************************************************)
EXTENDS Integers, Sequences

CONSTANTS
    QueueCap, PipeCap,   \* room for chunks: e.q, the pipe
    MsgCap,              \* messages kept (256)
    MaxChunks,           \* bound: chunks fed
    ChunkLens, MaxIn     \* the lengths of chunks; bound: samples in

VARIABLES
    fed, queue, pipe,    \* chunks: so far, queued, in the pipe
    writer,              \* "idle", "writing", "ended"
    proc,                \* "runs", "gone"
    dead, quit,          \* e.dead, e.quit is closed
    reads,               \* the process reads its input (it may be busy, or stuck)
    msgs, dropped,       \* decoded and not taken; what the bound dropped
    len, pos, came, outs \* the resampler: len(inBuf), e.pos; samples in and out so far

sound == <<fed, queue, pipe, writer, proc, dead, quit, reads, msgs, dropped>>
samples == <<len, pos, came, outs>>
vars == <<sound, samples>>

-----------------------------------------------------------------------------

Init ==
    /\ fed = 0 /\ queue = <<>> /\ pipe = 0 /\ writer = "idle" /\ proc = "runs"
    /\ dead = FALSE /\ quit = FALSE /\ reads \in BOOLEAN /\ msgs = <<>> /\ dropped = 0
    /\ len = 0 /\ pos = 0 /\ came = 0 /\ outs = 0

\* Feed: dropped when the queue is full; an engine that is dead is fed, too.
Feed ==
    /\ fed < MaxChunks /\ fed' = fed + 1
    /\ queue' = IF Len(queue) = QueueCap THEN queue ELSE Append(queue, fed)
    /\ UNCHANGED <<pipe, writer, proc, dead, quit, reads, msgs, dropped, samples>>

\* writeLoop: takes a chunk, or sees the end and drains what is queued.
Take ==
    /\ writer = "idle" /\ queue # <<>> /\ queue' = Tail(queue)
    /\ writer' = IF dead THEN "idle" ELSE "writing"
    /\ UNCHANGED <<fed, pipe, proc, dead, quit, reads, msgs, dropped, samples>>

Ended == /\ writer = "idle" /\ quit /\ queue = <<>> /\ writer' = "ended"
         /\ UNCHANGED <<fed, queue, pipe, proc, dead, quit, reads, msgs, dropped, samples>>

\* A write waits for room in the pipe, and fails when there is no reader.
Written ==
    /\ writer = "writing" /\ writer' = "idle"
    /\ \/ proc = "gone" /\ UNCHANGED pipe
       \/ proc = "runs" /\ pipe < PipeCap /\ pipe' = pipe + 1
    /\ UNCHANGED <<fed, queue, proc, dead, quit, reads, msgs, dropped, samples>>

Writer == Take \/ Ended \/ Written

\* The process reads, decodes, or ends; Wait marks the engine.
Decodes ==
    /\ proc = "runs" /\ reads /\ pipe > 0 /\ pipe' = pipe - 1
    /\ \/ UNCHANGED <<msgs, dropped>>
       \/ LET m == Append(msgs, fed)
          IN  IF Len(m) > MsgCap THEN msgs' = Tail(m) /\ dropped' = dropped + 1
                                 ELSE msgs' = m /\ UNCHANGED dropped
    /\ UNCHANGED <<fed, queue, writer, proc, dead, quit, reads, samples>>
Busy == reads' = ~reads /\ proc = "runs"
        /\ UNCHANGED <<fed, queue, pipe, writer, proc, dead, quit, msgs, dropped, samples>>
Dies == proc = "runs" /\ proc' = "gone"
        /\ UNCHANGED <<fed, queue, pipe, writer, dead, quit, reads, msgs, dropped, samples>>
Waited == proc = "gone" /\ ~dead /\ dead' = TRUE
          /\ UNCHANGED <<fed, queue, pipe, writer, proc, quit, reads, msgs, dropped, samples>>

CloseGently ==    \* bug: the process is not killed
    /\ ~quit /\ dead' = TRUE /\ quit' = TRUE
    /\ UNCHANGED <<fed, queue, pipe, writer, proc, reads, msgs, dropped, samples>>
\* Close, once.
Close ==
    /\ ~quit /\ dead' = TRUE /\ quit' = TRUE /\ proc' = "gone"
    /\ UNCHANGED <<fed, queue, pipe, writer, reads, msgs, dropped, samples>>

\* Take: the radio fetches the messages with each block.
Fetch == msgs # <<>> /\ msgs' = <<>>
         /\ UNCHANGED <<fed, queue, pipe, writer, proc, dead, quit, reads, dropped, samples>>

Running == Feed \/ Writer \/ Decodes \/ Busy \/ Dies \/ Waited \/ Close \/ Fetch

-----------------------------------------------------------------------------

\* flush keeps from the sample the next one starts at.
FlushAll(l) ==    \* bug: what was not taken yet is thrown away
    LET n == (2 * (l - 1) - pos) \div 5
    IN  IF l < 4 \/ n <= 0 THEN len' = l /\ UNCHANGED <<pos, outs>>
        ELSE outs' = outs + n /\ len' = 0 /\ pos' = 0
Flush(l) ==
    LET n  == (2 * (l - 1) - pos) \div 5
        to == pos + 5 * n
        keep == IF to \div 2 > l THEN l ELSE to \div 2
    IN  IF l < 4 \/ n <= 0 THEN len' = l /\ UNCHANGED <<pos, outs>>
        ELSE outs' = outs + n /\ len' = l - keep /\ pos' = to - 2 * keep

Resampling ==
    \E c \in ChunkLens :
      /\ came + c <= MaxIn /\ came' = came + c
      /\ Flush(len + c) /\ UNCHANGED sound

Next == Running \/ Resampling

Spec == Init /\ [][Next]_vars

RunningFairly == WF_vars(Writer)

-----------------------------------------------------------------------------

TypeOK ==
    /\ Len(queue) <= QueueCap /\ pipe \in 0..PipeCap /\ Len(msgs) <= MsgCap
    /\ writer \in {"idle", "writing", "ended"} /\ pos \in 0..1

(* An engine that is closed, and fed no more, leaves nothing behind: its   *)
(* goroutine ends, even from the middle of a write to a process that does  *)
(* not read.                                                               *)
WriterEnds == quit /\ fed = MaxChunks ~> writer = "ended"

(* However the sound is cut into chunks, the samples taken are every five  *)
(* halves of what came, none twice and none left out: what is kept is what *)
(* came less what lies before the next, and the last that was taken and    *)
(* the one after it were there.                                            *)
EveryFiveHalves ==
    /\ 2 * (came - len) + pos = 5 * outs
    /\ len >= 0 /\ pos >= 0 /\ (outs > 0 => 5 * (outs - 1) + 2 <= 2 * came)

\* Refuted (deepcw.go:129: a Close right after the last Feed does not drop it):
\* the process is killed before, or while, the queue is written to it.
DrainedOnClose == [][quit /\ Written => pipe' # pipe]_vars
==============================================================================
