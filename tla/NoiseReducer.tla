---------------------------- MODULE NoiseReducer ----------------------------
(***************************************************************************)
(* The neural noise reduction (internal/nr/nr.go, internal/radio/radio.go):*)
(* session's loop sends every block of audio through the hamnoise process  *)
(* and waits for the answer with the engine's lock held; SetNREnabled      *)
(* closes the old engine with r.mu held, and starts a new one without it.  *)
(* The UI, the web server and the goroutine that fetches the program call  *)
(* SetNREnabled.                                                           *)
(***************************************************************************)
EXTENDS Naturals

CONSTANTS
    Thread,    \* the goroutines that call SetNREnabled
    Proc,      \* identifiers of processes, reused after their death
    MayHang    \* whether the process may stop answering without dying

VARIABLES
    eng,     \* r.nrEng: an engine, or "none"
    dead,    \* the engines marked dead
    proc,    \* each process: "free", "runs", "hung", "gone"
    mu,      \* r.mu: its holder among the callers of SetNREnabled, or "free"
    pc,      \* each caller: "out", "want", "close", "unlock", "start", "keep"
    arg,     \* each caller: whether it turns noise reduction on
    new,     \* each caller: the engine it started, or "none"
    rx,      \* session: "idle", "ask" (holds the engine's lock), "lock" (wants r.mu)
    cur      \* the engine session's block goes through, or "none"

procs  == <<dead, proc>>
caller == <<pc, arg, new>>
vars   == <<eng, procs, mu, caller, rx, cur>>

EngineLocked(p) == rx = "ask" /\ cur = p

Init ==
    /\ eng = "none" /\ dead = {} /\ proc = [p \in Proc |-> "free"] /\ mu = "free"
    /\ pc = [t \in Thread |-> "out"] /\ arg = [t \in Thread |-> FALSE]
    /\ new = [t \in Thread |-> "none"]
    /\ rx = "idle" /\ cur = "none"

-----------------------------------------------------------------------------
(* session: the engine is read under r.mu, then Process. *)

NextBlock ==
    /\ rx = "idle" /\ rx' = "lock"
    /\ UNCHANGED <<eng, procs, mu, caller, cur>>

TakeEngine ==
    /\ rx = "lock" /\ mu = "free"
    /\ cur' = eng
    /\ rx' = IF eng = "none" THEN "idle" ELSE "ask"
    /\ UNCHANGED <<eng, procs, mu, caller>>

\* A dead engine passes the audio on; one that runs answers; a pipe that
\* failed marks the engine dead.
Answered ==
    /\ rx = "ask"
    /\ cur \in dead \/ proc[cur] # "hung"
    /\ dead' = IF proc[cur] = "gone" THEN dead \cup {cur} ELSE dead
    /\ rx' = "idle" /\ cur' = "none"
    /\ UNCHANGED <<eng, proc, mu, caller>>

-----------------------------------------------------------------------------
(* SetNREnabled *)

Call(t) ==
    /\ pc[t] = "out"
    /\ pc' = [pc EXCEPT ![t] = "want"]
    /\ \E b \in BOOLEAN : arg' = [arg EXCEPT ![t] = b]
    /\ UNCHANGED <<eng, procs, mu, new, rx, cur>>

Lock(t) ==
    /\ pc[t] = "want" /\ mu = "free"
    /\ mu' = t /\ pc' = [pc EXCEPT ![t] = "close"]
    /\ UNCHANGED <<eng, procs, arg, new, rx, cur>>

\* Bug form: the engine is only forgotten.
CloseEngineForgets(t) ==
    /\ pc[t] = "close"
    /\ eng' = "none" /\ pc' = [pc EXCEPT ![t] = "unlock"]
    /\ UNCHANGED <<procs, mu, arg, new, rx, cur>>

\* Close waits for the engine's lock.
CloseEngine(t) ==
    /\ pc[t] = "close"
    /\ eng = "none" \/ ~EngineLocked(eng)
    /\ dead' = IF eng = "none" THEN dead ELSE dead \cup {eng}
    /\ proc' = [p \in Proc |-> IF p = eng THEN "gone" ELSE proc[p]]
    /\ eng' = "none" /\ pc' = [pc EXCEPT ![t] = "unlock"]
    /\ UNCHANGED <<mu, arg, new, rx, cur>>

Unlock(t) ==
    /\ pc[t] = "unlock"
    /\ mu' = "free"
    /\ pc' = [pc EXCEPT ![t] = IF arg[t] THEN "start" ELSE "out"]
    /\ UNCHANGED <<eng, procs, arg, new, rx, cur>>

Start(t) ==
    /\ pc[t] = "start"
    /\ \/ \E p \in Proc :
            /\ proc[p] = "free"
            /\ proc' = [proc EXCEPT ![p] = "runs"] /\ dead' = dead \ {p}
            /\ new' = [new EXCEPT ![t] = p] /\ pc' = [pc EXCEPT ![t] = "keep"]
       \/ pc' = [pc EXCEPT ![t] = "out"] /\ UNCHANGED <<procs, new>>
    /\ UNCHANGED <<eng, mu, arg, rx, cur>>

Keep(t) ==
    /\ pc[t] = "keep" /\ mu = "free"
    /\ eng' = new[t] /\ new' = [new EXCEPT ![t] = "none"]
    /\ pc' = [pc EXCEPT ![t] = "out"]
    /\ UNCHANGED <<procs, mu, arg, rx, cur>>

-----------------------------------------------------------------------------
(* The hamnoise process *)

Dies(p) ==
    /\ proc[p] \in {"runs", "hung"} /\ proc' = [proc EXCEPT ![p] = "gone"]
    /\ UNCHANGED <<eng, dead, mu, caller, rx, cur>>

Hangs(p) ==
    /\ MayHang /\ proc[p] = "runs" /\ proc' = [proc EXCEPT ![p] = "hung"]
    /\ UNCHANGED <<eng, dead, mu, caller, rx, cur>>

Forget(p) ==
    /\ proc[p] = "gone" /\ eng # p /\ cur # p /\ \A t \in Thread : new[t] # p
    /\ proc' = [proc EXCEPT ![p] = "free"] /\ dead' = dead \ {p}
    /\ UNCHANGED <<eng, mu, caller, rx, cur>>

-----------------------------------------------------------------------------

Audio == NextBlock \/ TakeEngine \/ Answered

Switch(t) == Lock(t) \/ CloseEngine(t) \/ Unlock(t) \/ Start(t) \/ Keep(t)

Next ==
    \/ Audio
    \/ \E t \in Thread : Call(t) \/ Switch(t)
    \/ \E p \in Proc : Dies(p) \/ Hangs(p) \/ Forget(p)

Spec == Init /\ [][Next]_vars

\* Goroutines run on, Go's mutexes are starvation-free, and a process that
\* runs answers.
FairSpec == Spec /\ SF_vars(TakeEngine) /\ WF_vars(Answered) /\ \A t \in Thread : SF_vars(Switch(t))

-----------------------------------------------------------------------------

TypeOK ==
    /\ {eng, cur} \subseteq Proc \cup {"none"} /\ dead \subseteq Proc
    /\ proc \in [Proc -> {"free", "runs", "hung", "gone"}]
    /\ mu \in {t \in Thread : pc[t] \in {"close", "unlock"}} \cup {"free"}
    /\ pc \in [Thread -> {"out", "want", "close", "unlock", "start", "keep"}]
    /\ arg \in [Thread -> BOOLEAN] /\ new \in [Thread -> Proc \cup {"none"}]
    /\ rx \in {"idle", "lock", "ask"}

(* No process runs that neither the radio nor a call knows of: nobody      *)
(* would stop it (SetNREnabled, Close).                                    *)
NoOrphan ==
    \A p \in Proc : proc[p] \in {"runs", "hung"} =>
        eng = p \/ cur = p \/ \E t \in Thread : new[t] = p

(* Whoever calls SetNREnabled returns (Process, Close, r.mu).              *)
CallsReturn == \A t \in Thread : pc[t] # "out" ~> pc[t] = "out"

(* The receiver's audio goes on whatever is switched (session).            *)
AudioGoesOn == rx # "idle" ~> rx = "idle"
=============================================================================
