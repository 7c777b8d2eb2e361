------------------------------- MODULE Update -------------------------------
(***************************************************************************)
(* The program replaces itself (runUpdate, main.go) and fetches what goes  *)
(* beside it: small programs with every update (fetchSidecar), and bundles *)
(* the first time a decoder is switched on (fetchHamnoise,                 *)
(* fetchTarBundle).  The download server is published to meanwhile, every  *)
(* transfer may fail or come out wrong, and the process may die between    *)
(* any two steps; what is on the disk then is what the next start finds.   *)
(*                                                                         *)
(* A file's data belongs to an inode, and a path names an inode: a rename  *)
(* moves the inode a writer may still have open.  Sizes are within the     *)
(* limits of the readers.                                                  *)
(***************************************************************************)
EXTENDS Integers, Sequences, FiniteSets

CONSTANTS
    Builds,      \* the last build published; build 0 is a development build
    Rev,         \* Rev[b]: the bundle revision that build b expects (ft8ts.Rev)
    Bundle,      \* Bundle[k]: what is fetched under the name k, a record of
                 \*   files   the paths, in the order of the archive
                 \*   need    those whose presence makes it available
                 \*   marked  whether the last one holds the revision
    Fetcher,     \* the goroutines that fetch
    ByUpdate,    \* the one of them that belongs to the update
    Of,          \* Of[f]: the name f fetches
    Present,     \* the names that may be installed at first (a copy on the card)
    Attempts,    \* of a fetch by a press; 3 in the code
    MaxDeaths,   \* bound: deaths of the process
    MaxPresses,  \* bound: fetches by the user
    LosesUnsynced \* whether a death may lose what was not synced: a power cut

VARIABLES
    server,    \* stamp: what version.txt names; pkg, rev: the files that lie there
    exe,       \* the program's file: its build, and whether it is whole
    synced,    \* whether the disk has it
    running,   \* the build that runs; -1: none
    upd,       \* runUpdate: its step, the stamp it read and the package it got
    inode,     \* inode -> the revision of its data, and whether that is whole
    at, tmp,   \* path -> inode or 0, of the file and of its ".tmp"
    fetch,     \* fetcher -> step, attempt, file it is at, open inode, revision it reads
    mixed,     \* the names that two fetchers wrote at once, or that were crossed (history)
    deaths, presses

vars == <<server, exe, synced, running, upd, inode, at, tmp, fetch, mixed, deaths, presses>>

-----------------------------------------------------------------------------

Paths == UNION {{Bundle[k].files[i] : i \in 1..Len(Bundle[k].files)} : k \in DOMAIN Bundle}
Inode == 1..(2 * Cardinality(Paths) + Cardinality(Fetcher))
Cut(r) == [rev |-> r, whole |-> FALSE]
Free == {n \in Inode : (\A p \in Paths : at[p] # n /\ tmp[p] # n) /\ \A f \in Fetcher : fetch[f].fd # n}

Idle  == [pc |-> "idle", try |-> 0, i |-> 0, fd |-> 0, rev |-> 0]
Quiet == [pc |-> "idle", stamp |-> 0, got |-> 0]

Last(k) == Bundle[k].files[Len(Bundle[k].files)]

\* ft8ts.Available, deepcw.Available, nr.Available.
Available(k) ==
    /\ \A p \in Bundle[k].need : at[p] # 0
    /\ Bundle[k].marked =>
         /\ inode[at[Last(k)]].whole
         /\ inode[at[Last(k)]].rev = Rev[running]

UpdateAssumption ==
    /\ Builds \in Nat \ {0} /\ Attempts \in Nat \ {0}
    /\ IsFiniteSet(DOMAIN Bundle) /\ Present \subseteq DOMAIN Bundle
    /\ IsFiniteSet(Fetcher) /\ ByUpdate \in Fetcher /\ Of \in [Fetcher -> DOMAIN Bundle]
    /\ ~Bundle[Of[ByUpdate]].marked
    /\ \A k \in DOMAIN Bundle :
         /\ Bundle[k].files \in Seq(Paths) /\ Bundle[k].files # <<>> /\ Last(k) \in Bundle[k].need
         /\ \A l \in DOMAIN Bundle : \A i \in 1..Len(Bundle[k].files), j \in 1..Len(Bundle[l].files) :
              Bundle[k].files[i] = Bundle[l].files[j] => k = l /\ i = j

Init ==
    /\ server = [stamp |-> 1, pkg |-> 1, rev |-> Rev[1]]
    /\ exe \in {[build |-> b, whole |-> TRUE] : b \in {0, 1}}
    /\ synced = TRUE /\ running = exe.build
    /\ upd = Quiet
    /\ \E here \in SUBSET Present :
         LET Here == UNION {{Bundle[k].files[i] : i \in 1..Len(Bundle[k].files)} : k \in here}
             Id   == CHOOSE id \in [Paths -> 1..Cardinality(Paths)] : \A p, q \in Paths : id[p] = id[q] => p = q
         IN  /\ at = [p \in Paths |-> IF p \in Here THEN Id[p] ELSE 0]
             /\ inode = [n \in Inode |-> [rev |-> IF \E p \in Here : at[p] = n THEN Rev[1] ELSE 0,
                                          whole |-> \E p \in Here : at[p] = n]]
    /\ tmp = [p \in Paths |-> 0]
    /\ fetch = [f \in Fetcher |-> Idle] /\ mixed = {}
    /\ deaths = 0 /\ presses = 0

-----------------------------------------------------------------------------
(* The publisher: bundles, then the package, then version.txt (upload.sh). *)

Publish ==
    /\ UNCHANGED <<exe, synced, running, upd, inode, at, tmp, fetch, mixed, deaths, presses>>
    /\ LET b == server.stamp + 1
       IN  IF server.pkg = server.stamp
           THEN /\ b <= Builds
                /\ IF server.rev # Rev[b] THEN server' = [server EXCEPT !.rev = Rev[b]]
                   ELSE server' = [server EXCEPT !.pkg = b]
           ELSE server' = [server EXCEPT !.stamp = b]

-----------------------------------------------------------------------------
(* The update.                                                             *)

Go(pc) == upd' = [upd EXCEPT !.pc = pc]
UpdOnly == UNCHANGED <<server, running, inode, at, tmp, fetch, mixed, deaths, presses>>

\* At the start, from the menu, or from the page; tryBegin turns the others away.
Begin ==
    /\ running >= 0 /\ upd.pc = "idle" /\ Go("meta") /\ UNCHANGED <<exe, synced>> /\ UpdOnly

\* A build of the stamp we have, or older, is not fetched; a development build
\* fetches whatever is there.
Meta ==
    /\ upd.pc = "meta" /\ UNCHANGED <<exe, synced>> /\ UpdOnly
    /\ \/ upd' = Quiet
       \/ upd' = IF running > 0 /\ server.stamp <= running THEN Quiet
                 ELSE [upd EXCEPT !.pc = "get", !.stamp = server.stamp]

\* The package as it lies there, or (0) something else of the same size.
Get ==
    /\ upd.pc = "get" /\ UNCHANGED <<exe, synced>> /\ UpdOnly
    /\ \/ upd' = Quiet
       \/ \E p \in {server.pkg, 0} : upd' = [upd EXCEPT !.pc = "verify", !.got = p]

VerifySize ==    \* bug: only the size
    /\ upd.pc = "verify" /\ UNCHANGED <<exe, synced>> /\ UpdOnly /\ Go("swap")
\* The sum in version.txt is that of the package of its stamp.
Verify ==
    /\ upd.pc = "verify" /\ UNCHANGED <<exe, synced>> /\ UpdOnly
    /\ IF upd.got = upd.stamp THEN Go("swap") ELSE upd' = Quiet

\* Written beside the program in full, then renamed over it; either may fail.
Swap ==
    /\ upd.pc = "swap" /\ UpdOnly
    /\ \/ upd' = Quiet /\ UNCHANGED <<exe, synced>>
       \/ /\ exe' = [build |-> upd.got, whole |-> upd.got # 0] /\ synced' = FALSE
          /\ Go("beside")

\* The small programs that are missing (Fetches, below), then the sync.
Beside ==
    /\ upd.pc = "beside" /\ UNCHANGED <<server, exe, synced, running, inode, at, tmp, mixed, deaths, presses>>
    /\ IF at[Bundle[Of[ByUpdate]].files[1]] # 0
       THEN Go("sync") /\ UNCHANGED fetch
       ELSE Go("fetching") /\ fetch' = [fetch EXCEPT ![ByUpdate] = [Idle EXCEPT !.pc = "get", !.try = Attempts]]

Sync ==
    /\ upd.pc = "sync" /\ synced' = TRUE /\ Go("exec") /\ UNCHANGED exe /\ UpdOnly

\* Exec takes the process over, and every goroutine with it; if it fails the
\* program goes on and says so.
Restarted ==
    /\ running' = exe.build
    /\ upd' = Quiet /\ fetch' = [f \in Fetcher |-> Idle]
Exec ==
    /\ upd.pc = "exec" /\ UNCHANGED <<server, exe, synced, inode, at, tmp, mixed, deaths, presses>>
    /\ \/ exe.whole /\ Restarted
       \/ upd' = Quiet /\ UNCHANGED <<running, fetch>>

-----------------------------------------------------------------------------
(* The fetches.                                                            *)

Rest == UNCHANGED <<server, exe, synced, running, deaths>>
Set(f, r) == fetch' = [fetch EXCEPT ![f] = r]

\* Another fetch of the same thing has begun to write.
Rivals(f) == \E g \in Fetcher \ {f} : Of[g] = Of[f] /\ fetch[g].pc \notin {"idle", "get"}

\* What is there waits for a build to come, and is of another revision than what comes.
Crosses(k) ==
    /\ Bundle[k].marked /\ at[Last(k)] # 0 /\ inode[at[Last(k)]].rev # server.rev
    /\ \E b \in running..Builds : Rev[b] = inode[at[Last(k)]].rev

\* A press on the decoder's row, with the bundle missing or of another revision.
\* Nothing holds a second press back while the first one's fetch goes on.
Press(f) ==
    /\ f # ByUpdate /\ running >= 0 /\ fetch[f].pc = "idle"
    /\ presses < MaxPresses /\ presses' = presses + 1
    /\ ~Available(Of[f])
    /\ Set(f, [Idle EXCEPT !.pc = "get", !.try = 1])
    /\ UNCHANGED <<upd, inode, at, tmp, mixed>> /\ Rest

\* The end of an attempt that failed: several by a press, one by the update.
Failed(f) ==
    IF fetch[f].try < Attempts THEN Set(f, [Idle EXCEPT !.pc = "get", !.try = fetch[f].try + 1])
                        ELSE Set(f, Idle)

\* The update goes on when its fetch is over, however it ended.
Over(f) == upd' = IF f = ByUpdate /\ fetch'[f].pc = "idle" THEN [upd EXCEPT !.pc = "sync"] ELSE upd

\* All of it is read before anything is written.
Download(f) ==
    /\ fetch[f].pc = "get" /\ UNCHANGED <<inode, at, tmp, presses>> /\ Rest
    /\ \/ Failed(f) /\ UNCHANGED mixed
       \/ /\ Set(f, [fetch[f] EXCEPT !.pc = "open", !.i = 1, !.rev = server.rev])
          /\ mixed' = IF Rivals(f) \/ Crosses(Of[f]) THEN mixed \cup {Of[f]} ELSE mixed
    /\ Over(f)

Path(f) == Bundle[Of[f]].files[fetch[f].i]

\* The temporary file is cut to nothing if it is there, and made if not.
Open(f) ==
    /\ fetch[f].pc = "open" /\ UNCHANGED <<at, mixed, presses, upd>> /\ Rest
    /\ LET n == IF tmp[Path(f)] # 0 THEN tmp[Path(f)] ELSE CHOOSE n \in Free : TRUE
       IN  /\ inode' = [inode EXCEPT ![n] = Cut(fetch[f].rev)]
           /\ tmp' = [tmp EXCEPT ![Path(f)] = n]
           /\ Set(f, [fetch[f] EXCEPT !.pc = "write", !.fd = n])

\* The write goes to the inode, wherever its path is by now.  A bundle's copy
\* that fails takes its temporary file away.
Write(f) ==
    /\ fetch[f].pc = "write" /\ UNCHANGED <<at, mixed, presses>> /\ Rest
    /\ \/ /\ inode' = [inode EXCEPT ![fetch[f].fd] = [rev |-> fetch[f].rev, whole |-> TRUE]]
          /\ Set(f, [fetch[f] EXCEPT !.pc = "rename", !.fd = 0]) /\ UNCHANGED tmp
       \/ /\ Failed(f) /\ UNCHANGED inode
          /\ tmp' = IF Len(Bundle[Of[f]].files) > 1 THEN [tmp EXCEPT ![Path(f)] = 0] ELSE tmp
    /\ Over(f)

\* Renamed into place, if it is still there; then the next file.
Rename(f) ==
    /\ fetch[f].pc = "rename" /\ UNCHANGED <<inode, mixed, presses>> /\ Rest
    /\ IF tmp[Path(f)] = 0
       THEN Failed(f) /\ UNCHANGED <<at, tmp>>
       ELSE /\ at' = [at EXCEPT ![Path(f)] = tmp[Path(f)]]
            /\ tmp' = [tmp EXCEPT ![Path(f)] = 0]
            /\ IF fetch[f].i = Len(Bundle[Of[f]].files) THEN Set(f, Idle)
               ELSE Set(f, [fetch[f] EXCEPT !.pc = "open", !.i = @ + 1])
    /\ Over(f)

Fetches(f) == Press(f) \/ Download(f) \/ Open(f) \/ Write(f) \/ Rename(f)

-----------------------------------------------------------------------------

\* Killed, or without power: then what was not synced may be gone.
Dies ==
    /\ running >= 0 /\ deaths < MaxDeaths /\ deaths' = deaths + 1
    /\ running' = -1 /\ upd' = Quiet /\ fetch' = [f \in Fetcher |-> Idle]
    /\ \/ UNCHANGED exe
       \/ LosesUnsynced /\ ~synced /\ exe' = [exe EXCEPT !.whole = FALSE]
    /\ synced' = TRUE
    /\ UNCHANGED <<server, inode, at, tmp, mixed, presses>>

Boot ==
    /\ running = -1 /\ exe.whole /\ Restarted
    /\ UNCHANGED <<server, exe, synced, inode, at, tmp, mixed, deaths, presses>>

Next ==
    \/ Publish \/ Begin \/ Meta \/ Get \/ Verify \/ Swap \/ Beside \/ Sync \/ Exec
    \/ \E f \in Fetcher : Fetches(f)
    \/ Dies \/ Boot

Spec == Init /\ [][Next]_vars

-----------------------------------------------------------------------------

TypeOK ==
    /\ server.stamp \in 1..Builds /\ server.pkg \in server.stamp..(server.stamp + 1)
    /\ exe.build \in 0..Builds /\ running \in -1..Builds
    /\ \A p \in Paths : at[p] \in Inode \cup {0} /\ tmp[p] \in Inode \cup {0}
    /\ \A f \in Fetcher : fetch[f].try \in 0..Attempts /\ fetch[f].i \in 0..Len(Bundle[Of[f]].files)

(* Whatever fails and wherever the process dies, the program on the disk   *)
(* is a whole build of what was published, and no older than the one that  *)
(* runs: an interrupted or wrong transfer never keeps the program from     *)
(* starting, and publishing while a package is fetched never installs what *)
(* version.txt did not name.                                               *)
AlwaysStarts ==
    /\ exe.whole
    /\ running > 0 => exe.build >= running

(* A bundle that counts as installed has all its files, each whole, and,   *)
(* when it is marked, all of the revision the program expects: the revision *)
(* is the last file of the archive.  Except after two fetches of the same  *)
(* thing at once: they share the temporary files.  And except where a copy *)
(* that is ahead of the program is fetched over with one further ahead:    *)
(* cut short, it is taken for whole by the build that expects its last     *)
(* file.                                                                   *)
UsableIsWhole ==
    \A k \in DOMAIN Bundle \ mixed :
      running >= 0 /\ Available(k) =>
        \A i \in 1..Len(Bundle[k].files) :
          LET n == at[Bundle[k].files[i]]
          IN  /\ n # 0
              /\ inode[n].whole
              /\ Bundle[k].marked => inode[n].rev = Rev[running]

(* Refuted: without the exception.  One fetch cuts the temporary file that *)
(* another is about to rename; if the process dies before it has written   *)
(* the file again, what is installed stays cut, since it is there.         *)
UsableIsWholeAlways ==
    \A k \in DOMAIN Bundle :
      running >= 0 /\ Available(k) /\ (\A f \in Fetcher : fetch[f].pc = "idle") =>
        \A i \in 1..Len(Bundle[k].files) : inode[at[Bundle[k].files[i]]].whole
=============================================================================
