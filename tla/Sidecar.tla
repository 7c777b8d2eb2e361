------------------------------ MODULE Sidecar ------------------------------
(***************************************************************************)
(* A decoder that runs as a process beside the program: DeepCW and the     *)
(* alternative FT8 engine (internal/radio/radio.go, internal/deepcw,       *)
(* internal/ft8ts).  Radio keeps the running engine and a flag under r.mu, *)
(* starts the process with r.mu released, and attaches the engine's tap to *)
(* the live chain without it.  The UI, the web server and the goroutines   *)
(* that fetch a missing bundle all switch it.                              *)
(***************************************************************************)
EXTENDS Naturals, Sequences

CONSTANTS
    Thread,   \* the goroutines that call
    Proc      \* identifiers of processes, reused after their death

VARIABLES
    eng,      \* r.dcwEng or r.f8tsEng: a process, or "none"
    on,       \* r.dcwOn or r.f8tsOn
    proc,     \* each process: "free", "runs", "died", "closed"
    tap,      \* the live chain has the tap
    todo,     \* each thread: the steps left of its call
    got,      \* each thread: the engine its call holds, or "none"
    seen,     \* each thread: the flag its retap read
    stale     \* the threads whose remembered chain is not the live one

vars == <<eng, on, proc, tap, todo, got, seen, stale>>

Settled == \A t \in Thread : todo[t] = <<>>

Init ==
    /\ eng = "none" /\ on = FALSE /\ proc = [p \in Proc |-> "free"] /\ tap = FALSE
    /\ todo = [t \in Thread |-> <<>>] /\ got = [t \in Thread |-> "none"]
    /\ seen = [t \in Thread |-> FALSE] /\ stale = {}

Enter(t) ==
    /\ todo[t] = <<>>
    /\ \E call \in {"enable", "disable", "params"} : todo' = [todo EXCEPT ![t] = <<call>>]
    /\ UNCHANGED <<eng, on, proc, tap, got, seen, stale>>

At(t, step) == todo[t] # <<>> /\ Head(todo[t]) = step

Then(t, s) == todo' = [todo EXCEPT ![t] = s \o Tail(@)]

-----------------------------------------------------------------------------
(* SetDeepCWEnabled, SetFT8TSEnabled *)

Enable(t) ==
    /\ At(t, "enable")
    /\ Then(t, IF eng = "none" THEN <<"start">> ELSE <<>>)
    /\ UNCHANGED <<eng, on, proc, tap, got, seen, stale>>

\* The bundle may be missing, or the process not start.
Start(t) ==
    /\ At(t, "start")
    /\ \/ /\ \E p \in Proc :
               /\ proc[p] = "free"
               /\ proc' = [proc EXCEPT ![p] = "runs"] /\ got' = [got EXCEPT ![t] = p]
          /\ Then(t, <<"keep", "retap", "attach">>)
       \/ Then(t, <<>>) /\ UNCHANGED <<proc, got>>
    /\ UNCHANGED <<eng, on, tap, seen, stale>>

Keep(t) ==
    /\ At(t, "keep")
    /\ eng' = got[t] /\ on' = TRUE
    /\ got' = [got EXCEPT ![t] = "none"]
    /\ Then(t, <<>>)
    /\ UNCHANGED <<proc, tap, seen, stale>>

\* Bug form: the engine is kept while it is closed.
DisableKeeps(t) ==
    /\ At(t, "disable")
    /\ on' = FALSE /\ got' = [got EXCEPT ![t] = eng]
    /\ Then(t, <<"close", "retap", "attach">>)
    /\ UNCHANGED <<eng, proc, tap, seen, stale>>

Disable(t) ==
    /\ At(t, "disable")
    /\ eng' = "none" /\ on' = FALSE /\ got' = [got EXCEPT ![t] = eng]
    /\ Then(t, <<"close", "retap", "attach">>)
    /\ UNCHANGED <<proc, tap, seen, stale>>

\* Close of an engine: its process is killed, once.
Close(t) ==
    /\ At(t, "close")
    /\ proc' = [p \in Proc |-> IF p = got[t] THEN "closed" ELSE proc[p]]
    /\ got' = [got EXCEPT ![t] = "none"]
    /\ Then(t, <<>>)
    /\ UNCHANGED <<eng, on, tap, seen, stale>>

\* retapCW, retapFT8TS: the chain and the flag under the lock, ...
Retap(t) ==
    /\ At(t, "retap")
    /\ seen' = [seen EXCEPT ![t] = on] /\ stale' = stale \ {t}
    /\ Then(t, <<>>)
    /\ UNCHANGED <<eng, on, proc, tap, got>>

\* ... and the attachment without it.
Attach(t) ==
    /\ At(t, "attach")
    /\ tap' = IF t \in stale THEN tap ELSE seen[t]
    /\ seen' = [seen EXCEPT ![t] = FALSE]
    /\ Then(t, <<>>)
    /\ UNCHANGED <<eng, on, proc, got, stale>>

\* SetFT8TSParams: a value that differs restarts an engine that is on.
SetParams(t) ==
    /\ At(t, "params")
    /\ Then(t, IF on THEN <<"disable", "enable">> ELSE <<>>)
    /\ UNCHANGED <<eng, on, proc, tap, got, seen, stale>>

-----------------------------------------------------------------------------

\* SetMode, SetBandwidth, SetCaptureRate and session's setup make a new chain.
Rebuild ==
    /\ tap' = on /\ stale' = Thread
    /\ UNCHANGED <<eng, on, proc, todo, got, seen>>

Dies(p) ==
    /\ proc[p] = "runs" /\ proc' = [proc EXCEPT ![p] = "died"]
    /\ UNCHANGED <<eng, on, tap, todo, got, seen, stale>>

\* A dead process nobody refers to any more.
Forget(p) ==
    /\ proc[p] \in {"died", "closed"} /\ eng # p /\ \A t \in Thread : got[t] # p
    /\ proc' = [proc EXCEPT ![p] = "free"]
    /\ UNCHANGED <<eng, on, tap, todo, got, seen, stale>>

Step(t) ==
    \/ Enable(t) \/ Start(t) \/ Keep(t) \/ Disable(t) \/ Close(t)
    \/ Retap(t) \/ Attach(t) \/ SetParams(t)

Next ==
    \/ \E t \in Thread : Enter(t) \/ Step(t)
    \/ Rebuild
    \/ \E p \in Proc : Dies(p) \/ Forget(p)

Spec == Init /\ [][Next]_vars

-----------------------------------------------------------------------------

TypeOK ==
    /\ eng \in Proc \cup {"none"} /\ {on, tap} \subseteq BOOLEAN
    /\ proc \in [Proc -> {"free", "runs", "died", "closed"}]
    /\ got \in [Thread -> Proc \cup {"none"}] /\ seen \in [Thread -> BOOLEAN]
    /\ stale \subseteq Thread
    /\ \A t \in Thread : Len(todo[t]) <= 4

(* The engine the radio feeds and reads is never one that a call has       *)
(* closed, whoever switches it (SetDeepCWEnabled, SetFT8TSEnabled).        *)
NeverFeedsClosed == eng # "none" => proc[eng] \in {"runs", "died"}

(* Once all calls returned, no process runs that the radio does not know:  *)
(* nothing would ever stop it.                                             *)
NoOrphan == Settled => \A p \in Proc : proc[p] = "runs" => eng = p

(* Once all calls returned, the live chain feeds the engine exactly when   *)
(* it is on, over every rebuild of the chain (retapCW, retapFT8TS).        *)
TapFollows == Settled => tap = on
=============================================================================
