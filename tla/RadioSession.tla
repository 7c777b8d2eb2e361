---------------------------- MODULE RadioSession ----------------------------
(***************************************************************************)
(* The life of a receive session (internal/radio/radio.go: Run, session,   *)
(* SetHost; usb.go; rtltcp.go: Dial, CloseGraceful).  The Run goroutine    *)
(* connects to the chosen rtl_tcp server, sets it up, streams and, when    *)
(* anything fails, waits and starts over.  The menu changes the host at    *)
(* any moment; choosing "usb" makes Run spawn a local server.              *)
(*                                                                         *)
(* Threads: Run and the caller of SetHost (the menu loop, the only one).   *)
(* Connections are identifiers, reused once nothing refers to them.        *)
(***************************************************************************)
EXTENDS Naturals

CONSTANTS
    Remote,     \* rtl_tcp servers of the host list
    Usb, Off,   \* the pseudo hosts "usb" and ""
    ConnId,     \* identifiers of TCP connections
    None,       \* no connection
    Stalls      \* whether a setup command may time out on a live connection

Hosts == Remote \cup {Usb, Off}

ASSUME RadioSessionAssumption ==
    /\ Usb \notin Remote /\ Off \notin Remote /\ Usb # Off
    /\ None \notin ConnId /\ Stalls \in BOOLEAN

VARIABLES
    host,     \* r.Host; r.usbSrc is host = Usb
    run,      \* where Run and session are
    target,   \* the host this session read
    cur,      \* the session's client
    client,   \* r.client
    conn,     \* the server each connection is open to, Off when it is closed
    usbUp,    \* the rtl_tcp we spawned is alive
    backoff,  \* seconds
    menu,     \* where SetHost is
    closing,  \* the client SetHost read
    late      \* history: SetHost ran while this session had a target but no client yet

runVars  == <<run, target, cur, backoff>>
menuVars == <<menu, closing>>
vars == <<host, runVars, client, conn, usbUp, menuVars, late>>

Open(c) == conn[c] # Off

OpenConns == {c \in ConnId : Open(c)}

\* A single-client server answers the handshake of one peer at a time.
ServerFree(h) == \A c \in ConnId : conn[c] # h

Referred == {cur, client, closing}

\* SIGKILL to the spawned server takes its connections with it.
KillUsb ==
    /\ usbUp' = FALSE
    /\ conn' = [c \in ConnId |-> IF conn[c] = Usb THEN Off ELSE conn[c]]

Hang(c) == conn' = [conn EXCEPT ![c] = Off]

Init ==
    /\ host \in Hosts /\ run = "top" /\ target = Off /\ cur = None /\ client = None
    /\ conn = [c \in ConnId |-> Off] /\ usbUp = FALSE /\ backoff = 5
    /\ menu = "idle" /\ closing = None /\ late = FALSE

-----------------------------------------------------------------------------
(* Run *)

\* The host list says off: idle, and look again later.
Idle ==
    /\ run = "top" /\ host = Off
    /\ backoff' = 5
    /\ UNCHANGED <<host, run, target, cur, client, conn, usbUp, menuVars, late>>

Begin ==
    /\ run = "top" /\ host # Off
    /\ run' = "begin"
    /\ UNCHANGED <<host, target, cur, backoff, client, conn, usbUp, menuVars, late>>

\* session reads the host it will connect to.
ReadHost ==
    /\ run = "begin"
    /\ target' = host /\ late' = FALSE
    /\ run' = IF host = Usb THEN "spawn" ELSE "dial"
    /\ UNCHANGED <<host, cur, backoff, client, conn, usbUp, menuVars>>

\* ensureUSBSrv, under usbMu: a listening server is reused.
EnsureUsb ==
    /\ run = "spawn"
    /\ \/ run' = "dial" /\ usbUp' = TRUE
       \/ ~usbUp /\ run' = "failed" /\ UNCHANGED usbUp
    /\ UNCHANGED <<host, target, cur, backoff, client, conn, menuVars, late>>

DialOK(c) ==
    /\ run = "dial" /\ target # Off /\ ServerFree(target) /\ (target = Usb => usbUp)
    /\ c \notin Referred /\ ~Open(c)
    /\ conn' = [conn EXCEPT ![c] = target]
    /\ cur' = c /\ run' = "register"
    /\ UNCHANGED <<host, target, backoff, client, usbUp, menuVars, late>>

DialFails ==
    /\ run = "dial" /\ run' = "failed"
    /\ UNCHANGED <<host, target, cur, backoff, client, conn, usbUp, menuVars, late>>

Register ==
    /\ run = "register"
    /\ client' = cur /\ run' = "setup"
    /\ UNCHANGED <<host, target, cur, backoff, conn, usbUp, menuVars, late>>

SetupOK ==
    /\ run = "setup" /\ Open(cur)
    /\ run' = "stream"
    /\ UNCHANGED <<host, target, cur, backoff, client, conn, usbUp, menuVars, late>>

\* A command fails: session returns before its cleanup is deferred.  The
\* connection is broken, or the 5 s write deadline passed on a live one.
SetupFails ==
    /\ run = "setup" /\ run' = "failed"
    /\ \/ Hang(cur)
       \/ Stalls /\ UNCHANGED conn
    /\ cur' = None
    /\ UNCHANGED <<host, target, backoff, client, usbUp, menuVars, late>>

\* Bug form: the client pointer goes, its socket stays.
StreamEndsOpen ==
    /\ run = "stream" /\ run' = "failed"
    /\ client' = IF client = cur THEN None ELSE client
    /\ cur' = None
    /\ UNCHANGED <<host, target, backoff, conn, usbUp, menuVars, late>>

\* Read error, read timeout or dead stream, then the deferred cleanup.
StreamEnds ==
    /\ run = "stream" /\ run' = "failed"
    /\ client' = IF client = cur THEN None ELSE client
    /\ Hang(cur) /\ cur' = None
    /\ UNCHANGED <<host, target, backoff, usbUp, menuVars, late>>

\* Bug form: a failed session leaves Run for good.
FailedStays == run = "failed" /\ UNCHANGED vars

\* Run after a failed session: a local server is killed before the retry.
Failed ==
    /\ run = "failed" /\ run' = "wait"
    /\ IF host = Usb THEN KillUsb ELSE UNCHANGED <<usbUp, conn>>
    /\ UNCHANGED <<host, target, cur, backoff, client, menuVars, late>>

Waited ==
    /\ run = "wait" /\ run' = "top"
    /\ backoff' = IF backoff < 15 THEN backoff + 5 ELSE backoff
    /\ UNCHANGED <<host, target, cur, client, conn, usbUp, menuVars, late>>

Run ==
    \/ Idle \/ Begin \/ ReadHost \/ EnsureUsb
    \/ (\E c \in ConnId : DialOK(c)) \/ DialFails
    \/ Register \/ SetupOK \/ SetupFails \/ StreamEnds \/ Failed \/ Waited

-----------------------------------------------------------------------------
(* SetHost *)

\* Bug form: the client of a running session is not read.
SetHostNoClient(h) ==
    /\ menu = "idle" /\ h # host
    /\ host' = h /\ closing' = None
    /\ late' = (late \/ run \in {"spawn", "dial", "register"})
    /\ menu' = IF host = Usb THEN "release" ELSE "close"
    /\ UNCHANGED <<runVars, client, conn, usbUp>>

SetHost(h) ==
    /\ menu = "idle" /\ h # host
    /\ host' = h /\ closing' = client
    /\ late' = (late \/ run \in {"spawn", "dial", "register"})
    /\ menu' = IF host = Usb THEN "release" ELSE "close"
    /\ UNCHANGED <<runVars, client, conn, usbUp>>

\* stopUSBSrv: it waits for usbMu while ensureUSBSrv holds it.
ReleaseUsb ==
    /\ menu = "release"
    /\ KillUsb /\ menu' = "close"
    /\ UNCHANGED <<host, runVars, client, closing, late>>

CloseOld ==
    /\ menu = "close"
    /\ IF closing # None THEN Hang(closing) ELSE UNCHANGED conn
    /\ menu' = "idle" /\ closing' = None
    /\ UNCHANGED <<host, runVars, client, usbUp, late>>

Menu == (\E h \in Hosts : SetHost(h)) \/ ReleaseUsb \/ CloseOld

-----------------------------------------------------------------------------
(* The environment. *)

\* The peer goes away, or the local server dies.
Lost(c) ==
    /\ Open(c)
    /\ Hang(c)
    /\ UNCHANGED <<host, runVars, client, usbUp, menuVars, late>>

UsbDies ==
    /\ usbUp
    /\ KillUsb
    /\ UNCHANGED <<host, runVars, client, menuVars, late>>

Outage == (\E c \in ConnId : Lost(c)) \/ UsbDies

Next == Run \/ Menu \/ Outage

Spec == Init /\ [][Next]_vars

\* Run and SetHost are scheduled; a read on a closed connection fails; a
\* server that is free again and again answers, and takes the setup, in the
\* end; a spawned server comes up in the end.
Fairness ==
    /\ WF_vars(Idle \/ Begin \/ ReadHost \/ EnsureUsb \/ Register \/ Failed \/ Waited)
    /\ WF_vars(run = "stream" /\ ~Open(cur) /\ StreamEnds)
    /\ WF_vars(run = "dial" /\ DialFails) /\ WF_vars(SetupOK \/ SetupFails)
    /\ SF_vars(EnsureUsb /\ run' = "dial")
    /\ SF_vars(\E c \in ConnId : DialOK(c)) /\ SF_vars(SetupOK)
    /\ WF_vars(ReleaseUsb \/ CloseOld)

FairSpec == Spec /\ Fairness

-----------------------------------------------------------------------------

TypeOK ==
    /\ host \in Hosts /\ target \in Hosts
    /\ run \in {"top", "begin", "spawn", "dial", "register", "setup", "stream", "failed", "wait"}
    /\ {cur, client, closing} \subseteq ConnId \cup {None}
    /\ conn \in [ConnId -> Hosts]
    /\ usbUp \in BOOLEAN /\ backoff \in {5, 10, 15}
    /\ menu \in {"idle", "release", "close"} /\ late \in BOOLEAN

Streaming == run = "stream" /\ Open(cur)

(* A host list choice reaches the receiver: once SetHost is through, what  *)
(* streams comes from the chosen host, except when the choice fell between *)
(* the session's reading of the host and its registering the client (see   *)
(* HostObeyed).                                                            *)
HostObeyedUnlessLate == Streaming /\ menu = "idle" /\ ~late => conn[cur] = host

(* Between two sessions nothing of ours is left open (session's cleanup).  *)
NothingLeftOpen == run \in {"failed", "wait", "top", "begin"} => OpenConns = {}

(* Once the outages are over, the host that stays chosen is streamed from  *)
(* (Run's retries), unless the choice came late.                           *)
Reconnects ==
    \A h \in Remote :
        <>[](host = h) /\ <>[][~Outage]_vars => []<>(late \/ (Streaming /\ conn[cur] = h))

(* "SetHost retargets the rtl_tcp connection": once it is through, what    *)
(* streams comes from the chosen host.                                     *)
HostObeyed == Streaming /\ menu = "idle" => conn[cur] = host

(* stopUSBSrv is "called when switching away from the USB source ... so    *)
(* the dongle is released".                                                *)
DongleReleased == menu = "idle" /\ host # Usb => ~usbUp

(* The session's cleanup "leaves the single-client server in its accept    *)
(* state": no session ends with its connection open, even when a command   *)
(* of the setup times out.                                                 *)
ServerLeftAccepting == NothingLeftOpen
=============================================================================
