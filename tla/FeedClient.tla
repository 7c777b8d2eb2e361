----------------------------- MODULE FeedClient -----------------------------
(***************************************************************************)
(* The client of a network feed (adsb/beast.go, ais/ais.go Run) and the    *)
(* list its host is chosen from.  HasDeadline tells them apart: the Beast  *)
(* client closes a connection on which nothing came for ten seconds, the   *)
(* AIS client reads lines without a deadline.                              *)
(***************************************************************************)
EXTENDS Integers

CONSTANTS
    Host, Off,        \* "": the feed is disabled
    HasDeadline,
    MaxChoices, MaxTurns  \* bounds: choices of a host, changes of a server

VARIABLES
    host,             \* of the client, set under its mutex
    server,           \* [Host -> "serves", "silent" (reached, but nothing comes), "down"]
    phase, at,        \* of Run, and the host it dials or reads
    connected,        \* what the radar says of the feed
    backoff,          \* seconds
    cancelled,        \* the program's context
    choices, turns

vars == <<host, server, phase, at, connected, backoff, cancelled, choices, turns>>
outside == <<server, choices, turns, cancelled>>

Init ==
    /\ host \in Host \cup {Off} /\ server \in [Host -> {"serves", "down"}]
    /\ phase = "top" /\ at = Off /\ connected = FALSE /\ backoff = 2
    /\ cancelled = FALSE /\ choices = 0 /\ turns = 0

-----------------------------------------------------------------------------
(* The user and the servers.                                               *)

SetHost ==
    /\ ~cancelled /\ choices < MaxChoices /\ choices' = choices + 1
    /\ host' \in Host \cup {Off}
    /\ UNCHANGED <<server, phase, at, connected, backoff, cancelled, turns>>

\* A server that is lost without a word: "silent" for those connected to it.
Turn ==
    /\ turns < MaxTurns /\ turns' = turns + 1
    /\ \E h \in Host, s \in {"serves", "silent", "down"} : server' = [server EXCEPT ![h] = s]
    /\ UNCHANGED <<host, phase, at, connected, backoff, cancelled, choices>>

Cancel ==
    /\ ~cancelled /\ cancelled' = TRUE
    /\ UNCHANGED <<host, server, phase, at, connected, backoff, choices, turns>>

-----------------------------------------------------------------------------
(* Run.                                                                    *)

Top ==
    /\ phase = "top"
    /\ IF cancelled THEN phase' = "returned" /\ UNCHANGED <<at, connected>>
       ELSE IF host = Off THEN phase' = "idle" /\ connected' = FALSE /\ UNCHANGED at
       ELSE phase' = "dialling" /\ at' = host /\ UNCHANGED connected
    /\ UNCHANGED <<host, backoff, outside>>

Dial ==
    /\ phase = "dialling"
    /\ \/ server[at] # "serves" /\ phase' = "failed" /\ connected' = FALSE /\ UNCHANGED backoff
       \/ server[at] # "down" /\ phase' = "reading" /\ connected' = TRUE /\ backoff' = 2
    /\ UNCHANGED <<host, at, outside>>

SilentEnds == HasDeadline

\* The connection is given up: closed by its server, silent too long, or the
\* loop comes round and finds the context done.
Ended ==
    \/ server[at] = "down"
    \/ server[at] = "silent" /\ SilentEnds
    \/ server[at] = "serves" /\ cancelled
Read ==
    /\ phase = "reading" /\ Ended
    /\ phase' = "closed"
    /\ connected' = FALSE \/ (HasDeadline /\ cancelled /\ connected' = connected)
    /\ UNCHANGED <<host, at, backoff, outside>>

Wait ==
    /\ phase \in {"idle", "failed", "closed"}
    /\ phase' = IF cancelled THEN "returned" ELSE "top"
    /\ backoff' = IF phase = "failed" /\ ~cancelled /\ backoff < 15 THEN backoff + 2 ELSE backoff
    /\ UNCHANGED <<host, at, connected, outside>>

Run == Top \/ Dial \/ Read \/ Wait
Next == SetHost \/ Turn \/ Cancel \/ Run

Spec == Init /\ [][Next]_vars
\* The goroutine runs on; the user and the servers need do nothing.
Fairness == WF_vars(Run)
FairSpec == Spec /\ Fairness

-----------------------------------------------------------------------------

TypeOK ==
    /\ host \in Host \cup {Off} /\ at \in Host \cup {Off} /\ connected \in BOOLEAN
    /\ phase \in {"top", "idle", "dialling", "reading", "failed", "closed", "returned"}
    /\ backoff \in {2, 4, 6, 8, 10, 12, 14, 16} /\ (phase = "reading" => at \in Host /\ connected)

(* While the host that was chosen serves, the client ends up reading from  *)
(* a server that does, and says so, through every outage and change of     *)
(* host before; unless the program ends.  (Without a deadline it is        *)
(* refuted: an AIS feed lost without a word is never left.)                *)
FeedComesBack ==
    <>[](~cancelled /\ host # Off /\ server[host] = "serves")
        => <>[](phase = "reading" /\ server[at] = "serves" /\ connected)

\* Refuted: the row that "disconnects the feed entirely" (main.go:3527) leaves
\* the connection that is open, while it brings anything.
OffDisconnects == <>[](~cancelled /\ host = Off) => <>[](phase # "reading")

=============================================================================
