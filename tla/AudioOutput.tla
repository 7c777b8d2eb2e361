---------------------------- MODULE AudioOutput -----------------------------
(***************************************************************************)
(* The speaker (internal/audio/audio.go): one player process (aplay or mpv)*)
(* fed over its stdin, a goroutine per process that waits for its exit, a  *)
(* healer chain that re-opens it, and Close.                               *)
(*                                                                         *)
(* Threads: the writers (WriteAudio and Silence hold o.mu while they block *)
(* in the pipe), the waiting goroutine of each process, the healer and the *)
(* caller of Close.                                                        *)
(***************************************************************************)
EXTENDS Naturals

CONSTANTS
    Proc,     \* identifiers of player processes, reused after their exit
    MayHang   \* whether a player may stop reading its stdin without dying

VARIABLES
    proc,        \* each process: "none", "alive", "hung", "exited", "reaped"
    failed,      \* the processes whose Wait returned an error
    cmd,         \* o.cmd, the process behind o.stdin
    writing,     \* a writer holds o.mu, blocked in the pipe
    closed,      \* o.closed
    userClosed,  \* o.userClosed
    closer,      \* the caller of Close: "none", "calling", "done"
    healing,     \* o.healing
    healer,      \* the healer chain: "none", "sleep", "open", "leave"
    delay,       \* its delay in seconds
    tries,       \* its failed attempts
    played,      \* history: the present player took audio
    busy,        \* history: players in a row that died without taking any (up to 2)
    missed       \* history: a death was left to a healer that was leaving

players == <<proc, failed, cmd>>
flags   == <<closed, userClosed, closer>>
heal    == <<healing, healer, delay, tries>>
history == <<played, busy, missed>>
vars == <<players, writing, flags, heal, history>>

Living == {p \in Proc : proc[p] \in {"alive", "hung"}}

Up == ~closed /\ cmd \in Living

Init ==
    /\ \E p \in Proc : cmd = p /\ proc = [q \in Proc |-> IF q = p THEN "alive" ELSE "none"]
    /\ failed = {} /\ writing = FALSE
    /\ closed = FALSE /\ userClosed = FALSE /\ closer = "none"
    /\ healing = FALSE /\ healer = "none" /\ delay = 3 /\ tries = 0
    /\ played = FALSE /\ busy = 0 /\ missed = FALSE

-----------------------------------------------------------------------------
(* WriteAudio, Silence *)

Write ==
    /\ ~writing /\ ~closed
    /\ writing' = TRUE
    /\ UNCHANGED <<players, flags, heal, history>>

Written ==
    /\ writing
    /\ \/ proc[cmd] = "alive" /\ played' = TRUE /\ UNCHANGED closed
       \/ cmd \notin Living /\ closed' = TRUE /\ UNCHANGED played
    /\ writing' = FALSE
    /\ UNCHANGED <<players, userClosed, closer, heal, busy, missed>>

-----------------------------------------------------------------------------
(* The player processes and the goroutines that wait for them. *)

Dies(p) ==
    /\ p \in Living
    /\ proc' = [proc EXCEPT ![p] = "exited"]
    /\ failed' \in {failed, failed \cup {p}}
    /\ busy' = IF played THEN 0 ELSE IF busy < 2 THEN busy + 1 ELSE 2
    /\ UNCHANGED <<cmd, writing, flags, heal, played, missed>>

Hangs(p) ==
    /\ MayHang /\ proc[p] = "alive"
    /\ proc' = [proc EXCEPT ![p] = "hung"]
    /\ UNCHANGED <<failed, cmd, writing, flags, heal, history>>

\* Bug form: the exit is left to the next failing write to notice.
ReapQuiet(p) ==
    /\ proc[p] = "exited" /\ ~writing
    /\ proc' = [proc EXCEPT ![p] = "reaped"]
    /\ UNCHANGED <<failed, cmd, writing, flags, heal, history>>

Reap(p) ==
    /\ proc[p] = "exited" /\ ~writing
    /\ proc' = [proc EXCEPT ![p] = "reaped"]
    /\ closed' = TRUE
    /\ UNCHANGED <<failed, cmd, writing, userClosed, closer, heal, history>>

NewChain ==
    healing' = TRUE /\ healer' = "sleep" /\ delay' = 3 /\ tries' = 0

SelfHeal(p) ==
    /\ proc[p] = "reaped" /\ ~writing
    /\ proc' = [proc EXCEPT ![p] = "none"] /\ failed' = failed \ {p}
    /\ \/ (userClosed \/ p \notin failed) /\ UNCHANGED <<heal, missed>>
       \/ ~userClosed /\ p \in failed /\ healing /\ missed' = TRUE /\ UNCHANGED heal
       \/ ~userClosed /\ p \in failed /\ ~healing /\ NewChain /\ UNCHANGED missed
    /\ UNCHANGED <<cmd, writing, flags, played, busy>>

-----------------------------------------------------------------------------
(* The healer chain *)

Wake ==
    /\ healer = "sleep" /\ ~writing
    /\ healer' = IF userClosed \/ ~closed THEN "leave" ELSE "open"
    /\ UNCHANGED <<players, writing, flags, healing, delay, tries, history>>

\* reopen: the process starts, which says nothing of the device.
Reopen(p) ==
    /\ healer = "open" /\ ~writing /\ proc[p] = "none"
    /\ proc' = [proc EXCEPT ![p] = "alive"] /\ cmd' = p
    /\ closed' = FALSE /\ played' = FALSE
    /\ healer' = "leave"
    /\ UNCHANGED <<failed, writing, userClosed, closer, healing, delay, tries, busy, missed>>

\* Bug form: the chain gives up after eight tries.
ReopenFailsGivesUp ==
    /\ healer = "open"
    /\ tries' = tries + 1
    /\ delay' = IF delay < 30 THEN 2 * delay ELSE delay
    /\ healer' = IF tries' = 8 THEN "leave" ELSE "sleep"
    /\ UNCHANGED <<players, writing, flags, healing, history>>

\* Bug form: the doubling has no ceiling.
ReopenFailsDoubling ==
    /\ healer = "open"
    /\ tries' = IF tries < 8 THEN tries + 1 ELSE 8
    /\ delay' = IF tries = 7 THEN 60 ELSE 2 * delay
    /\ healer' = "sleep"
    /\ UNCHANGED <<players, writing, flags, healing, history>>

ReopenFails ==
    /\ healer = "open"
    /\ tries' = IF tries < 8 THEN tries + 1 ELSE 8
    /\ delay' = IF tries = 7 THEN 60 ELSE IF delay < 30 THEN 2 * delay ELSE delay
    /\ healer' = "sleep"
    /\ UNCHANGED <<players, writing, flags, healing, history>>

Leave ==
    /\ healer = "leave" /\ ~writing
    /\ healing' = FALSE /\ healer' = "none"
    /\ UNCHANGED <<players, writing, flags, delay, tries, history>>

-----------------------------------------------------------------------------
(* Close *)

CallClose ==
    /\ closer = "none" /\ closer' = "calling"
    /\ UNCHANGED <<players, writing, closed, userClosed, heal, history>>

Close ==
    /\ closer = "calling" /\ ~writing
    /\ closer' = "done" /\ userClosed' = TRUE /\ closed' = TRUE
    /\ IF ~closed /\ cmd \in Living
         THEN proc' = [proc EXCEPT ![cmd] = "exited"] /\ failed' = failed \cup {cmd}
         ELSE UNCHANGED <<proc, failed>>
    /\ UNCHANGED <<cmd, writing, heal, history>>

-----------------------------------------------------------------------------

Watch == \E p \in Proc : Reap(p) \/ SelfHeal(p)

Heal == Wake \/ (\E p \in Proc : Reopen(p)) \/ ReopenFails \/ Leave

Next ==
    \/ Write \/ Written
    \/ \E p \in Proc : Dies(p) \/ Hangs(p)
    \/ Watch \/ Heal \/ CallClose \/ Close

Spec == Init /\ [][Next]_vars

\* Goroutines are scheduled, o.mu is granted in the end to who waits for it
\* (Go's mutex is starvation-free), and a player that can be started again
\* and again is started in the end.
Fairness ==
    /\ WF_vars(Written)
    /\ \A p \in Proc : SF_vars(Reap(p)) /\ SF_vars(SelfHeal(p))
    /\ SF_vars(Wake) /\ SF_vars(Leave) /\ SF_vars(Close)
    /\ WF_vars(ReopenFails) /\ SF_vars(\E p \in Proc : Reopen(p))

FairSpec == Spec /\ Fairness

-----------------------------------------------------------------------------

TypeOK ==
    /\ proc \in [Proc -> {"none", "alive", "hung", "exited", "reaped"}]
    /\ failed \subseteq Proc /\ cmd \in Proc
    /\ {writing, closed, userClosed, healing, played, missed} \subseteq BOOLEAN
    /\ closer \in {"none", "calling", "done"}
    /\ healer \in {"none", "sleep", "open", "leave"}
    /\ delay \in {3, 6, 12, 24, 48, 60} /\ tries \in 0..8 /\ busy \in 0..2

(* An output that is open has a player, or one whose exit is still to be   *)
(* seen: what the UI calls open is never without anyone to re-open it      *)
(* (startNamed, reopen, Close).                                            *)
OpenHasPlayer == ~closed => proc[cmd] \in {"alive", "hung", "exited"}

(* A player that died with an error is replaced, unless its death was seen *)
(* while the previous healer was leaving (see ReplacedWhenever) or the     *)
(* output was closed (selfHeal).                                           *)
Replaced ==
    \A p \in Proc :
        (p \in failed /\ proc[p] = "exited") ~> (Up \/ userClosed \/ missed)

(* Close returns: whoever holds o.mu lets go of it (Close, WriteAudio).    *)
CloseReturns == (closer = "calling") ~> (closer = "done")

(* selfHeal "retries with backoff until it stays up".                      *)
ReplacedWhenever ==
    \A p \in Proc : (p \in failed /\ proc[p] = "exited") ~> (Up \/ userClosed)

(* "Persistent backoff": a device held busy does not restart the chain at  *)
(* 3 s with every death.                                                   *)
BackoffPersists == healer = "sleep" /\ busy = 2 => delay > 3

(* "Close terminates the player process."                                  *)
ClosedIsSilent == userClosed /\ healer = "none" => Living = {}
=============================================================================
