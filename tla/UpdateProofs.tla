---------------------------- MODULE UpdateProofs ----------------------------
(***************************************************************************)
(* Whatever is interrupted, the program on the disk starts, and a bundle   *)
(* that counts as installed is whole (Update).                             *)
(***************************************************************************)
EXTENDS Update, FiniteSetTheorems, FunctionTheorems, SequenceTheorems, TLAPS

Parts(k) == {Bundle[k].files[i] : i \in 1..Len(Bundle[k].files)}
Revision == {0} \cup {Rev[b] : b \in 0..Builds}
Copy == [rev : Revision, whole : BOOLEAN]
Task == [pc : {"idle", "get", "open", "write", "rename"}, try : 0..Attempts, i : Nat,
         fd : Inode \cup {0}, rev : Revision]

-----------------------------------------------------------------------------
(* The invariant.                                                          *)

(* What is published has its package; what is on the disk is whole, and no *)
(* older than what runs; what is written over it was verified.             *)
ProgramInv ==
    /\ server.stamp \in 1..Builds /\ server.pkg \in {server.stamp, server.stamp + 1}
    /\ server.pkg <= Builds /\ server.rev \in Revision
    /\ DOMAIN server = {"stamp", "pkg", "rev"}
    /\ exe.build \in 0..Builds /\ exe.whole /\ running \in -1..Builds
    /\ running > 0 => exe.build >= running
    /\ upd \in [pc : {"idle", "meta", "get", "verify", "swap", "beside", "fetching", "sync", "exec"},
                stamp : 0..Builds, got : 0..Builds]
    /\ upd.pc # "idle" => running >= 0
    /\ upd.pc \in {"get", "verify", "swap"} =>
         upd.stamp \in 1..Builds /\ (running > 0 => upd.stamp > running)
    /\ upd.pc = "swap" => upd.got = upd.stamp

Active(f) == fetch[f].pc \in {"open", "write", "rename"}

DiskTypes ==
    /\ inode \in [Inode -> Copy]
    /\ at \in [Paths -> Inode \cup {0}] /\ tmp \in [Paths -> Inode \cup {0}]
    /\ fetch \in [Fetcher -> Task] /\ mixed \subseteq DOMAIN Bundle
    /\ \A f \in Fetcher :
         /\ fetch[f].pc = "write" <=> fetch[f].fd # 0
         /\ Active(f) => fetch[f].i \in 1..Len(Bundle[Of[f]].files)
         /\ fetch[f].pc # "idle" => running >= 0

(* No two paths share an inode, and a fetch writes to nothing of a bundle  *)
(* but its own.                                                            *)
Apart ==
    /\ \A p, q \in Paths : at[p] # 0 => at[p] # tmp[q] /\ (at[p] = at[q] => p = q)
    /\ \A p, q \in Paths : tmp[p] # 0 /\ tmp[p] = tmp[q] => p = q
    /\ \A f \in Fetcher, p \in Paths :
         fetch[f].fd # 0 /\ fetch[f].fd \in {at[p], tmp[p]} => p \in Parts(Of[f])

\* The oldest build that can be the next to run, and what no such build takes for its own.
From == IF running >= 0 THEN running ELSE exe.build
Unawaited(k) == at[Last(k)] # 0 /\ \A b \in From..Builds : Rev[b] # inode[at[Last(k)]].rev
Agrees(k) == at[Last(k)] # 0 => \A p \in Parts(k) : inode[at[p]].rev = inode[at[Last(k)]].rev

(* What is installed under a name that was not mixed: written by one, each *)
(* file whole, none missing when the last is there, and of one revision,   *)
(* unless no build will take it.                                           *)
Kept(k) ==
    /\ \A f, g \in Fetcher : Of[f] = k /\ Of[g] = k /\ Active(f) /\ Active(g) => f = g
    /\ \A p \in Parts(k) : at[p] # 0 => inode[at[p]].whole
    /\ at[Last(k)] # 0 => \A p \in Parts(k) : at[p] # 0
    /\ Bundle[k].marked => Agrees(k) \/ Unawaited(k)

(* What a fetch of such a name has written so far.                         *)
Done(f) ==
    /\ fetch[f].pc = "write" => fetch[f].fd = tmp[Path(f)]
    /\ fetch[f].pc = "rename" =>
         tmp[Path(f)] # 0 /\ inode[tmp[Path(f)]] = [rev |-> fetch[f].rev, whole |-> TRUE]
    /\ \A j \in 1..(fetch[f].i - 1) :
         LET n == at[Bundle[Of[f]].files[j]] IN n # 0 /\ inode[n].rev = fetch[f].rev
    /\ Bundle[Of[f]].marked =>
         LET n == at[Last(Of[f])] IN n = 0 \/ inode[n].rev = fetch[f].rev \/ Unawaited(Of[f])

DiskInv ==
    /\ DiskTypes /\ Apart
    /\ \A k \in DOMAIN Bundle \ mixed : Kept(k)
    /\ \A f \in Fetcher : Active(f) /\ Of[f] \notin mixed => Done(f)

UpdateInv == ProgramInv /\ DiskInv

-----------------------------------------------------------------------------
(* The files of a bundle.                                                  *)

LEMMA PartsOf ==
    ASSUME UpdateAssumption, NEW k \in DOMAIN Bundle
    PROVE  /\ Len(Bundle[k].files) \in Nat \ {0} /\ Last(k) \in Parts(k) /\ Parts(k) \subseteq Paths
           /\ \A i \in 1..Len(Bundle[k].files) : Bundle[k].files[i] \in Parts(k)
<1>1. Bundle[k].files \in Seq(Paths) /\ Bundle[k].files # <<>>
  BY DEF UpdateAssumption
<1>2. Len(Bundle[k].files) \in Nat \ {0}
  BY <1>1, LenProperties, EmptySeq
<1>3. QED  BY <1>2 DEF Parts, Last, Paths

LEMMA PartsApart ==
    ASSUME UpdateAssumption, NEW k \in DOMAIN Bundle, NEW l \in DOMAIN Bundle, NEW p \in Parts(k), p \in Parts(l)
    PROVE  k = l
BY DEF UpdateAssumption, Parts

LEMMA PartsCover ==
    ASSUME NEW p \in Paths PROVE \E k \in DOMAIN Bundle : p \in Parts(k)
BY DEF Paths, Parts

LEMMA FilesApart ==
    ASSUME UpdateAssumption, NEW k \in DOMAIN Bundle,
           NEW i \in 1..Len(Bundle[k].files), NEW j \in 1..Len(Bundle[k].files),
           Bundle[k].files[i] = Bundle[k].files[j]
    PROVE  i = j
BY DEF UpdateAssumption

LEMMA PathsFinite == ASSUME UpdateAssumption PROVE IsFiniteSet(Paths)
<1> DEFINE S == {Parts(k) : k \in DOMAIN Bundle}
           g == [k \in DOMAIN Bundle |-> Parts(k)]
<1>1. Paths = UNION S
  BY DEF Paths, Parts
<1>2. ASSUME NEW k \in DOMAIN Bundle PROVE IsFiniteSet(Parts(k))
  <2> DEFINE h == [i \in 1..Len(Bundle[k].files) |-> Bundle[k].files[i]]
  <2>1. IsFiniteSet(1..Len(Bundle[k].files))
    BY PartsOf, FS_Interval
  <2>2. h \in Surjection(1..Len(Bundle[k].files), Parts(k))
    BY DEF Surjection, Parts
  <2> HIDE DEF h
  <2>3. QED  BY <2>1, <2>2, FS_Surjection
<1>3. IsFiniteSet(DOMAIN Bundle)
  BY DEF UpdateAssumption
<1>4. g \in Surjection(DOMAIN Bundle, S)
  BY DEF Surjection
<1> HIDE DEF g
<1>5. IsFiniteSet(S)
  BY <1>3, <1>4, FS_Surjection
<1>6. \A T \in S : IsFiniteSet(T)
  BY <1>2
<1> HIDE DEF S
<1>7. QED  BY <1>1, <1>5, <1>6, FS_UNION

(* There are more inodes than paths, temporary paths and open files.       *)
LEMMA FreeInode ==
    ASSUME UpdateAssumption, DiskTypes, NEW f \in Fetcher, fetch[f].fd = 0
    PROVE  (CHOOSE n \in Free : TRUE) \in Free
<1> DEFINE Others == Fetcher \ {f}
           A == {at[p] : p \in Paths}
           B == {tmp[p] : p \in Paths}
           C == {fetch[g].fd : g \in Others}
           opened == [g \in Others |-> fetch[g].fd]
<1>1. IsFiniteSet(Paths) /\ Cardinality(Paths) \in Nat
  BY PathsFinite, FS_CardinalityType
<1>2. IsFiniteSet(Fetcher) /\ Cardinality(Fetcher) \in Nat
  BY FS_CardinalityType DEF UpdateAssumption
<1>3. IsFiniteSet(Others) /\ Cardinality(Others) = Cardinality(Fetcher) - 1
  BY <1>2, FS_RemoveElement
<1>4. at \in Surjection(Paths, A) /\ tmp \in Surjection(Paths, B)
  BY DEF Surjection, DiskTypes
<1>5. opened \in Surjection(Others, C)
  BY DEF Surjection
<1> HIDE DEF A, B, C, opened, Others
<1>6. IsFiniteSet(A) /\ Cardinality(A) <= Cardinality(Paths)
  BY <1>1, <1>4, FS_Surjection
<1>7. IsFiniteSet(B) /\ Cardinality(B) <= Cardinality(Paths)
  BY <1>1, <1>4, FS_Surjection
<1>8. IsFiniteSet(C) /\ Cardinality(C) <= Cardinality(Fetcher) - 1
  BY <1>3, <1>5, FS_Surjection
<1>9. IsFiniteSet(A \cup B) /\ Cardinality(A \cup B) <= 2 * Cardinality(Paths)
  <2>1. Cardinality(A \cup B) = Cardinality(A) + Cardinality(B) - Cardinality(A \cap B)
    BY <1>6, <1>7, FS_Union
  <2>2. Cardinality(A \cap B) \in Nat /\ Cardinality(A) \in Nat /\ Cardinality(B) \in Nat
    BY <1>6, <1>7, FS_Intersection, FS_CardinalityType
  <2>3. QED  BY <1>1, <1>6, <1>7, <2>1, <2>2, FS_Union
<1>10. IsFiniteSet((A \cup B) \cup C)
       /\ Cardinality((A \cup B) \cup C) <= 2 * Cardinality(Paths) + Cardinality(Fetcher) - 1
  <2>1. Cardinality((A \cup B) \cup C) = Cardinality(A \cup B) + Cardinality(C) - Cardinality((A \cup B) \cap C)
    BY <1>8, <1>9, FS_Union
  <2>2. /\ Cardinality((A \cup B) \cap C) \in Nat /\ Cardinality(A \cup B) \in Nat
        /\ Cardinality(C) \in Nat
    BY <1>8, <1>9, FS_Intersection, FS_CardinalityType
  <2>3. QED  BY <1>1, <1>2, <1>8, <1>9, <2>1, <2>2, FS_Union
<1>11. Cardinality(Inode) = 2 * Cardinality(Paths) + Cardinality(Fetcher)
  <2> DEFINE N == 2 * Cardinality(Paths) + Cardinality(Fetcher)
  <2>1. N \in Nat
    BY <1>1, <1>2
  <2>2. Inode = 1..N
    BY DEF Inode
  <2> HIDE DEF N
  <2>3. Cardinality(1..N) = N
    <3>1. Cardinality(1..N) = IF 1 > N THEN 0 ELSE N - 1 + 1
      BY <2>1, FS_Interval
    <3>2. QED  BY <2>1, <3>1
  <2>4. QED  BY <2>2, <2>3 DEF N
<1>12. ~(Inode \subseteq (A \cup B) \cup C)
  <2>1. SUFFICES ASSUME Inode \subseteq (A \cup B) \cup C PROVE FALSE
    OBVIOUS
  <2>2. Cardinality(Inode) <= Cardinality((A \cup B) \cup C)
    BY <1>10, <2>1, FS_Subset
  <2>3. Cardinality((A \cup B) \cup C) \in Nat
    BY <1>10, FS_CardinalityType
  <2>4. QED  BY <1>1, <1>2, <1>10, <1>11, <2>2, <2>3
<1>13. PICK n \in Inode : n \notin A /\ n \notin B /\ n \notin C
  BY <1>12
<1>14. n # 0
  BY <1>1, <1>2 DEF Inode
<1>15. n \in Free
  BY <1>13, <1>14 DEF Free, A, B, C, Others
<1>16. QED  BY <1>15

-----------------------------------------------------------------------------
(* The program and its update.                                             *)

LEMMA ProgramStep ==
    ASSUME UpdateAssumption, ~LosesUnsynced, ProgramInv, DiskTypes, Next
    PROVE  ProgramInv' /\ From \in 0..Builds /\ From' \in 0..Builds /\ From <= From'
<1>1. Builds \in Nat \ {0}
  BY DEF UpdateAssumption
<1>2. From \in 0..Builds
  BY <1>1 DEF ProgramInv, From
<1>3. ASSUME UNCHANGED <<exe, running>> PROVE From' = From
  BY <1>3 DEF From
<1>4. CASE Publish
  <2>1. UNCHANGED <<exe, running, upd>>
    BY <1>4 DEF Publish
  <2>2. /\ server'.stamp \in 1..Builds /\ server'.pkg \in {server'.stamp, server'.stamp + 1}
        /\ server'.pkg <= Builds /\ server'.rev \in Revision /\ DOMAIN server' = {"stamp", "pkg", "rev"}
    BY <1>1, <1>4 DEF Publish, ProgramInv, Revision
  <2>3. QED  BY <1>2, <1>3, <2>1, <2>2 DEF ProgramInv
<1>5. CASE Begin \/ Meta \/ Get \/ Verify \/ Sync
  <2>1. UNCHANGED <<server, exe, running>>
    BY <1>5 DEF Begin, Meta, Get, Verify, Sync, UpdOnly
  <2>2. CASE Begin
    BY <1>1, <1>2, <1>3, <2>1, <2>2 DEF Begin, Go, ProgramInv
  <2>3. CASE Meta
    <3>1. \/ upd' = Quiet
          \/ /\ upd' = [upd EXCEPT !.pc = "get", !.stamp = server.stamp]
             /\ running > 0 => server.stamp > running
      BY <2>3 DEF Meta, ProgramInv
    <3>2. CASE upd' = Quiet
      BY <1>1, <1>2, <1>3, <2>1, <3>2 DEF Quiet, ProgramInv
    <3>3. CASE /\ upd' = [upd EXCEPT !.pc = "get", !.stamp = server.stamp]
               /\ running > 0 => server.stamp > running
      <4>0. server.stamp \in 0..Builds /\ server.stamp \in 1..Builds
        BY <1>1 DEF ProgramInv
      <4> DEFINE to == server.stamp
      <4> HIDE DEF to
      <4>1. /\ upd'.pc = "get" /\ upd'.stamp = to
            /\ upd' \in [pc : {"idle", "meta", "get", "verify", "swap", "beside", "fetching", "sync", "exec"},
                         stamp : 0..Builds, got : 0..Builds]
        <5>1. to \in 0..Builds /\ upd' = [upd EXCEPT !.pc = "get", !.stamp = to]
          BY <3>3, <4>0 DEF to
        <5>2. QED  BY <5>1 DEF ProgramInv
      <4>2. running >= 0
        BY <2>3 DEF Meta, ProgramInv
      <4>3. QED  BY <1>1, <1>2, <1>3, <2>1, <3>3, <4>0, <4>1, <4>2 DEF ProgramInv, to
    <3>4. QED  BY <3>1, <3>2, <3>3
  <2>4. CASE Get
    <3>1. CASE upd' = Quiet
      BY <1>1, <1>2, <1>3, <2>1, <3>1 DEF Quiet, ProgramInv
    <3>2. CASE upd' # Quiet
      <4>1. PICK p \in {server.pkg, 0} : upd' = [upd EXCEPT !.pc = "verify", !.got = p]
        BY <2>4, <3>2 DEF Get
      <4>2. p \in 0..Builds
        BY <1>1 DEF ProgramInv
      <4>3. /\ upd'.pc = "verify" /\ upd'.stamp = upd.stamp
            /\ upd' \in [pc : {"idle", "meta", "get", "verify", "swap", "beside", "fetching", "sync", "exec"},
                         stamp : 0..Builds, got : 0..Builds]
        BY <4>1, <4>2 DEF ProgramInv
      <4>4. QED  BY <1>1, <1>2, <1>3, <2>1, <2>4, <4>3 DEF Get, ProgramInv
    <3>3. QED  BY <3>1, <3>2
  <2>5. CASE Verify
    BY <1>1, <1>2, <1>3, <2>1, <2>5 DEF Verify, Go, Quiet, ProgramInv
  <2>6. CASE Sync
    BY <1>1, <1>2, <1>3, <2>1, <2>6 DEF Sync, Go, ProgramInv
  <2>7. QED  BY <1>5, <2>2, <2>3, <2>4, <2>5, <2>6
<1>6. CASE Swap
  <2>1. UNCHANGED <<server, running>> /\ running >= 0
    BY <1>6 DEF Swap, UpdOnly, ProgramInv
  <2>2. From' = From
    BY <2>1 DEF From
  <2>3. CASE upd' = Quiet /\ UNCHANGED exe
    BY <1>1, <1>2, <2>1, <2>2, <2>3 DEF Quiet, ProgramInv
  <2>4. CASE exe' = [build |-> upd.got, whole |-> upd.got # 0] /\ upd' = [upd EXCEPT !.pc = "beside"]
    <3>1. upd.got \in 1..Builds /\ (running > 0 => upd.got > running)
      BY <1>6 DEF Swap, ProgramInv
    <3>2. exe'.build = upd.got /\ exe'.whole
      <4>1. upd.got # 0
        BY <1>1, <3>1
      <4>2. QED  BY <2>4, <4>1
    <3>3. /\ upd'.pc = "beside"
          /\ upd' \in [pc : {"idle", "meta", "get", "verify", "swap", "beside", "fetching", "sync", "exec"},
                       stamp : 0..Builds, got : 0..Builds]
      BY <2>4 DEF ProgramInv
    <3>4. QED  BY <1>1, <1>2, <2>1, <2>2, <3>1, <3>2, <3>3 DEF ProgramInv
  <2>5. QED  BY <1>6, <2>3, <2>4 DEF Swap, Go
<1>7. CASE Beside
  <2>1. UNCHANGED <<server, exe, running>> /\ running >= 0
    BY <1>7 DEF Beside, ProgramInv
  <2>2. QED  BY <1>1, <1>2, <1>3, <1>7, <2>1 DEF Beside, Go, ProgramInv
<1>8. CASE Exec
  <2>1. UNCHANGED <<server, exe>> /\ running' \in {running, exe.build} /\ running >= 0
    BY <1>8 DEF Exec, Restarted, ProgramInv
  <2>2. upd' = Quiet
    BY <1>8 DEF Exec, Restarted
  <2>3. From' \in 0..Builds /\ From <= From'
    BY <1>1, <2>1 DEF From, ProgramInv
  <2>4. QED  BY <1>1, <1>2, <2>1, <2>2, <2>3 DEF Quiet, ProgramInv
<1>9. CASE Boot
  <2>1. UNCHANGED <<server, exe>> /\ running' = exe.build /\ running = -1 /\ upd' = Quiet
    BY <1>9 DEF Boot, Restarted
  <2>2. From' = From
    BY <1>1, <2>1 DEF From, ProgramInv
  <2>3. QED  BY <1>1, <1>2, <2>1, <2>2 DEF Quiet, ProgramInv
<1>10. CASE Dies
  <2>1. UNCHANGED <<server, exe>> /\ running' = -1 /\ running >= 0 /\ upd' = Quiet
    BY <1>10 DEF Dies
  <2>2. From' \in 0..Builds /\ From <= From'
    BY <1>1, <2>1 DEF From, ProgramInv
  <2>3. QED  BY <1>1, <1>2, <2>1, <2>2 DEF Quiet, ProgramInv
<1>11. ASSUME NEW f \in Fetcher, Fetches(f) PROVE ProgramInv' /\ From' \in 0..Builds /\ From <= From'
  <2>1. UNCHANGED <<server, exe, running>> /\ running >= 0
    BY <1>11 DEF Fetches, Press, Download, Open, Write, Rename, Rest, DiskTypes
  <2>2. upd' = upd \/ upd' = [upd EXCEPT !.pc = "sync"]
    BY <1>11 DEF Fetches, Press, Download, Open, Write, Rename, Over
  <2>3. QED  BY <1>1, <1>2, <1>3, <2>1, <2>2 DEF ProgramInv
<1>12. QED
  BY <1>2, <1>4, <1>5, <1>6, <1>7, <1>8, <1>9, <1>10, <1>11 DEF Next

-----------------------------------------------------------------------------
(* The disk: what the fetches leave on it.                                 *)

(* What no build to come will take, none will take later.                  *)
LEMMA StillUnawaited ==
    ASSUME NEW k, From \in 0..Builds, From' \in 0..Builds, From <= From',
           at'[Last(k)] = at[Last(k)], inode'[at[Last(k)]] = inode[at[Last(k)]], Unawaited(k)
    PROVE  Unawaited(k)'
<1>1. \A b \in From'..Builds : b \in From..Builds
  OBVIOUS
<1>2. QED  BY <1>1 DEF Unawaited, Last

(* Nothing is written, and no fetch goes on writing that did not write     *)
(* what it has written so far.                                             *)
LEMMA DiskKept ==
    ASSUME UpdateAssumption, DiskInv, UNCHANGED <<inode, at, tmp, mixed>>,
           fetch' \in [Fetcher -> Task],
           \A f \in Fetcher : fetch'[f] = fetch[f] \/ (fetch'[f].pc \in {"idle", "get"} /\ fetch'[f].fd = 0),
           \A f \in Fetcher : fetch'[f].pc # "idle" => running' >= 0,
           From \in 0..Builds, From' \in 0..Builds, From <= From'
    PROVE  DiskInv'
<1>1. ASSUME NEW f \in Fetcher, Active(f)' PROVE fetch'[f] = fetch[f] /\ Active(f)
  BY <1>1 DEF Active
<1>2. ASSUME NEW k \in DOMAIN Bundle, Unawaited(k) PROVE Unawaited(k)'
  BY <1>2, StillUnawaited
<1>3. DiskTypes'
  <2>1. ASSUME NEW f \in Fetcher
        PROVE  /\ fetch'[f].pc = "write" <=> fetch'[f].fd # 0
               /\ Active(f)' => fetch'[f].i \in 1..Len(Bundle[Of[f]].files)
    BY <1>1 DEF DiskInv, DiskTypes, Active
  <2>2. QED  BY <2>1 DEF DiskInv, DiskTypes
<1>4. Apart'
  BY DEF DiskInv, Apart
<1>5. ASSUME NEW k \in DOMAIN Bundle \ mixed' PROVE Kept(k)'
  <2>1. Kept(k)
    BY <1>5 DEF DiskInv
  <2>2. \A f, g \in Fetcher : Of[f] = k /\ Of[g] = k /\ Active(f)' /\ Active(g)' => f = g
    BY <1>1, <2>1 DEF Kept
  <2>3. Bundle[k].marked => Agrees(k)' \/ Unawaited(k)'
    BY <1>2, <2>1 DEF Kept, Agrees, Last
  <2>4. QED  BY <2>1, <2>2, <2>3 DEF Kept, Last, Parts
<1>6. ASSUME NEW f \in Fetcher, Active(f)', Of[f] \notin mixed' PROVE Done(f)'
  <2>1. Done(f) /\ fetch'[f] = fetch[f]
    BY <1>1, <1>6 DEF DiskInv
  <2>2. Of[f] \in DOMAIN Bundle
    BY DEF UpdateAssumption
  <2>3. QED  BY <1>2, <2>1, <2>2 DEF Done, Path, Last
<1>7. QED  BY <1>3, <1>4, <1>5, <1>6 DEF DiskInv

(* What a fetch writes is of its own bundle: the others are kept.          *)
LEMMA Elsewhere ==
    ASSUME UpdateAssumption, DiskInv, NEW f \in Fetcher,
           \A p \in Paths \ Parts(Of[f]) :
             /\ at'[p] = at[p] /\ tmp'[p] = tmp[p]
             /\ inode'[at[p]] = inode[at[p]] /\ inode'[tmp[p]] = inode[tmp[p]],
           \A g \in Fetcher \ {f} : fetch'[g] = fetch[g],
           mixed \subseteq mixed', From \in 0..Builds, From' = From
    PROVE  /\ \A k \in DOMAIN Bundle \ mixed' : k # Of[f] => Kept(k)'
           /\ \A g \in Fetcher : Active(g)' /\ Of[g] \notin mixed' /\ Of[g] # Of[f] => Done(g)'
<1>1. Of \in [Fetcher -> DOMAIN Bundle]
  BY DEF UpdateAssumption
<1>2. ASSUME NEW k \in DOMAIN Bundle, k # Of[f], NEW p \in Parts(k)
      PROVE  /\ at'[p] = at[p] /\ tmp'[p] = tmp[p]
             /\ inode'[at[p]] = inode[at[p]] /\ inode'[tmp[p]] = inode[tmp[p]]
  <2>1. p \in Paths \ Parts(Of[f])
    BY <1>1, <1>2, PartsOf, PartsApart
  <2>2. QED  BY <2>1
<1>3. ASSUME NEW k \in DOMAIN Bundle, k # Of[f], Unawaited(k) PROVE Unawaited(k)'
  BY <1>2, <1>3, PartsOf, StillUnawaited
<1>4. ASSUME NEW k \in DOMAIN Bundle \ mixed', k # Of[f] PROVE Kept(k)'
  <2>1. Kept(k)
    BY <1>4 DEF DiskInv
  <2>2. \A g, h \in Fetcher : Of[g] = k /\ Of[h] = k /\ Active(g)' /\ Active(h)' => g = h
    BY <1>4, <2>1 DEF Kept, Active
  <2>3. Last(k) \in Parts(k)
    BY PartsOf
  <2>4. ASSUME Agrees(k) PROVE Agrees(k)'
    <3>1. at'[Last(k)] = at[Last(k)] /\ inode'[at[Last(k)]] = inode[at[Last(k)]]
      BY <1>2, <1>4, <2>3
    <3>2. ASSUME at[Last(k)] # 0, NEW p \in Parts(k)
          PROVE  inode'[at'[p]].rev = inode'[at'[Last(k)]].rev
      BY <1>2, <1>4, <2>4, <3>1, <3>2 DEF Agrees
    <3>3. QED  BY <3>1, <3>2 DEF Agrees, Last, Parts
  <2>5. Bundle[k].marked => Agrees(k)' \/ Unawaited(k)'
    BY <1>3, <1>4, <2>1, <2>4 DEF Kept
  <2>6. /\ \A p \in Parts(k) : at'[p] # 0 => inode'[at'[p]].whole
        /\ at'[Last(k)] # 0 => \A p \in Parts(k) : at'[p] # 0
    BY <1>2, <1>4, <2>1, <2>3 DEF Kept
  <2>7. QED  BY <2>2, <2>5, <2>6 DEF Kept, Last, Parts
<1>5. ASSUME NEW g \in Fetcher, Active(g)', Of[g] \notin mixed', Of[g] # Of[f] PROVE Done(g)'
  <2>1. fetch'[g] = fetch[g] /\ Done(g) /\ fetch[g].i \in 1..Len(Bundle[Of[g]].files)
    BY <1>5 DEF DiskInv, DiskTypes, Active
  <2>2. Of[g] \in DOMAIN Bundle /\ Last(Of[g]) \in Parts(Of[g]) /\ Path(g) \in Parts(Of[g])
    BY <1>1, <2>1, PartsOf DEF Path
  <2>3. Path(g)' = Path(g)
    BY <2>1 DEF Path
  <2>4. \A j \in 1..(fetch[g].i - 1) : Bundle[Of[g]].files[j] \in Parts(Of[g])
    BY <2>1, <2>2, PartsOf
  <2>5. /\ fetch'[g].pc = "write" => fetch'[g].fd = tmp'[Path(g)]
        /\ fetch'[g].pc = "rename" =>
             tmp'[Path(g)] # 0 /\ inode'[tmp'[Path(g)]] = [rev |-> fetch'[g].rev, whole |-> TRUE]
    BY <1>2, <1>5, <2>1, <2>2 DEF Done
  <2>6. \A j \in 1..(fetch'[g].i - 1) :
          LET n == at'[Bundle[Of[g]].files[j]] IN n # 0 /\ inode'[n].rev = fetch'[g].rev
    BY <1>2, <1>5, <2>1, <2>2, <2>4 DEF Done
  <2>7. Bundle[Of[g]].marked =>
          LET n == at'[Last(Of[g])] IN n = 0 \/ inode'[n].rev = fetch'[g].rev \/ Unawaited(Of[g])'
    BY <1>2, <1>3, <1>5, <2>1, <2>2 DEF Done
  <2>8. QED  BY <2>3, <2>5, <2>6, <2>7 DEF Done, Last
<1>6. QED  BY <1>4, <1>5

LEMMA TaskSet ==
    ASSUME UpdateAssumption, DiskTypes, NEW f \in Fetcher, NEW r \in Task, fetch' = [fetch EXCEPT ![f] = r]
    PROVE  /\ fetch' \in [Fetcher -> Task] /\ fetch'[f] = r
           /\ \A g \in Fetcher \ {f} : fetch'[g] = fetch[g]
BY DEF DiskTypes

(* What a failed attempt, or a fetch that begins, has open: nothing.       *)
LEMMA FailedTask ==
    ASSUME UpdateAssumption, DiskTypes, NEW f \in Fetcher, Failed(f)
    PROVE  /\ fetch' \in [Fetcher -> Task] /\ fetch'[f].pc \in {"idle", "get"} /\ fetch'[f].fd = 0
           /\ \A g \in Fetcher \ {f} : fetch'[g] = fetch[g]
<1>1. fetch[f].try \in 0..Attempts /\ Attempts \in Nat
  BY DEF DiskTypes, Task, UpdateAssumption
<1>2. PICK r : /\ fetch' = [fetch EXCEPT ![f] = r]
               /\ \/ r = Idle
                  \/ /\ fetch[f].try < Attempts
                     /\ r = [Idle EXCEPT !.pc = "get", !.try = fetch[f].try + 1]
  BY DEF Failed, Set
<1>3. r \in Task /\ r.pc \in {"idle", "get"} /\ r.fd = 0
  <2>1. CASE r = Idle
    BY <1>1, <2>1 DEF Idle, Task, Revision
  <2>2. CASE fetch[f].try < Attempts /\ r = [pc |-> "get", try |-> fetch[f].try + 1, i |-> 0, fd |-> 0, rev |-> 0]
    <3>1. fetch[f].try + 1 \in 0..Attempts
      BY <1>1, <2>2
    <3>2. QED  BY <2>2, <3>1 DEF Task, Revision
  <2>3. QED  BY <1>2, <2>1, <2>2 DEF Idle
<1>4. QED  BY <1>2, <1>3, TaskSet

LEMMA BegunTask ==
    ASSUME UpdateAssumption, DiskTypes, NEW f \in Fetcher, NEW n \in 1..Attempts,
           Set(f, [Idle EXCEPT !.pc = "get", !.try = n])
    PROVE  /\ fetch' \in [Fetcher -> Task] /\ fetch'[f].pc = "get" /\ fetch'[f].fd = 0
           /\ \A g \in Fetcher \ {f} : fetch'[g] = fetch[g]
<1> DEFINE r == [Idle EXCEPT !.pc = "get", !.try = n]
<1>1. r \in Task /\ r.pc = "get" /\ r.fd = 0
  <2>1. n \in 0..Attempts
    BY DEF UpdateAssumption
  <2>2. QED  BY <2>1 DEF Idle, Task, Revision
<1>2. fetch' = [fetch EXCEPT ![f] = r]
  BY DEF Set
<1> HIDE DEF r
<1>3. QED  BY <1>1, <1>2, TaskSet

LEMMA QuietStep ==
    ASSUME UpdateAssumption, ProgramInv, DiskInv, ProgramInv',
           From \in 0..Builds, From' \in 0..Builds, From <= From',
           \/ Publish \/ Begin \/ Meta \/ Get \/ Verify \/ Swap \/ Beside \/ Sync \/ Exec \/ Dies \/ Boot
           \/ \E f \in Fetcher : Press(f)
    PROVE  DiskInv'
<1>1. DiskTypes /\ fetch \in [Fetcher -> Task]
  BY DEF DiskInv, DiskTypes
<1>2. Attempts \in Nat \ {0} /\ 1 \in 1..Attempts /\ Attempts \in 1..Attempts /\ ByUpdate \in Fetcher
  BY DEF UpdateAssumption
<1>3. UNCHANGED <<inode, at, tmp, mixed>>
  BY DEF Publish, Begin, Meta, Get, Verify, Swap, Beside, Sync, Exec, Dies, Boot, Press, UpdOnly
<1>4. CASE UNCHANGED <<fetch, running>>
  <2>1. \A f \in Fetcher : fetch'[f].pc # "idle" => running' >= 0
    BY <1>1, <1>4 DEF DiskTypes
  <2>2. QED  BY <1>1, <1>3, <1>4, <2>1, DiskKept
<1>5. CASE fetch' = [f \in Fetcher |-> Idle]
  <2>1. Idle \in Task /\ Idle.pc = "idle" /\ Idle.fd = 0
    BY <1>2 DEF Idle, Task, Revision
  <2>2. fetch' \in [Fetcher -> Task] /\ \A f \in Fetcher : fetch'[f] = Idle
    BY <1>5, <2>1
  <2>3. QED  BY <1>3, <2>1, <2>2, DiskKept
<1>6. ASSUME NEW f \in Fetcher, NEW n \in 1..Attempts, UNCHANGED running, running >= 0,
             Set(f, [Idle EXCEPT !.pc = "get", !.try = n])
      PROVE  DiskInv'
  <2>1. /\ fetch' \in [Fetcher -> Task] /\ fetch'[f].pc = "get" /\ fetch'[f].fd = 0
        /\ \A g \in Fetcher \ {f} : fetch'[g] = fetch[g]
    BY <1>1, <1>6, BegunTask
  <2>2. QED  BY <1>3, <1>6, <2>1, DiskKept
<1>7. CASE Publish \/ Begin \/ Meta \/ Get \/ Verify \/ Swap \/ Sync
  BY <1>4, <1>7 DEF Publish, Begin, Meta, Get, Verify, Swap, Sync, UpdOnly
<1>8. CASE Beside
  <2>1. UNCHANGED running /\ running >= 0
    BY <1>8 DEF Beside, ProgramInv
  <2>2. CASE UNCHANGED fetch
    BY <1>4, <2>1, <2>2
  <2>3. CASE ~UNCHANGED fetch
    BY <1>2, <1>6, <1>8, <2>1, <2>3 DEF Beside, Set
  <2>4. QED  BY <2>2, <2>3
<1>9. CASE Exec
  BY <1>4, <1>5, <1>9 DEF Exec, Restarted
<1>10. CASE Dies \/ Boot
  BY <1>5, <1>10 DEF Dies, Boot, Restarted
<1>11. ASSUME NEW f \in Fetcher, Press(f) PROVE DiskInv'
  BY <1>2, <1>6, <1>11 DEF Press, Rest
<1>12. QED  BY <1>7, <1>8, <1>9, <1>10, <1>11

LEMMA FailedStep ==
    ASSUME UpdateAssumption, ProgramInv, DiskInv, From \in 0..Builds, NEW f \in Fetcher,
           fetch[f].pc # "idle", Failed(f), UNCHANGED <<exe, running, inode, at, tmp, mixed>>
    PROVE  DiskInv'
<1>1. DiskTypes
  BY DEF DiskInv
<1>2. /\ fetch' \in [Fetcher -> Task] /\ fetch'[f].pc \in {"idle", "get"} /\ fetch'[f].fd = 0
      /\ \A g \in Fetcher \ {f} : fetch'[g] = fetch[g]
  BY <1>1, FailedTask
<1>3. From' = From
  BY DEF From
<1>4. \A g \in Fetcher : fetch'[g].pc # "idle" => running' >= 0
  BY <1>1, <1>2 DEF DiskTypes
<1>5. QED  BY <1>2, <1>3, <1>4, DiskKept

LEMMA DownloadStep ==
    ASSUME UpdateAssumption, ProgramInv, DiskInv, From \in 0..Builds, NEW f \in Fetcher, Download(f)
    PROVE  DiskInv'
<1> DEFINE k == Of[f]
           r == [fetch[f] EXCEPT !.pc = "open", !.i = 1, !.rev = server.rev]
<1>1. DiskTypes /\ fetch \in [Fetcher -> Task] /\ k \in DOMAIN Bundle /\ Of \in [Fetcher -> DOMAIN Bundle]
  BY DEF DiskInv, DiskTypes, UpdateAssumption
<1>2. UNCHANGED <<exe, running, inode, at, tmp>> /\ From' = From /\ running >= 0 /\ fetch[f].fd = 0
  BY <1>1 DEF Download, Rest, From, DiskTypes
<1>3. CASE Failed(f) /\ UNCHANGED mixed
  BY <1>2, <1>3, FailedStep DEF Download
<1>4. CASE /\ Set(f, r)
           /\ mixed' = IF Rivals(f) \/ Crosses(k) THEN mixed \cup {k} ELSE mixed
  <2>1. /\ r \in Task /\ r.pc = "open" /\ r.i = 1 /\ r.fd = 0 /\ r.rev = server.rev
    <3>1. fetch[f] \in Task /\ server.rev \in Revision
      BY <1>1 DEF ProgramInv
    <3>2. \A t \in Task, v \in Revision :
            LET u == [t EXCEPT !.pc = "open", !.i = 1, !.rev = v]
            IN  u \in Task /\ u.pc = "open" /\ u.i = 1 /\ u.fd = t.fd /\ u.rev = v
      BY DEF Task
    <3>3. QED  BY <1>2, <3>1, <3>2
  <2>2. /\ fetch' \in [Fetcher -> Task] /\ fetch'[f] = r
        /\ \A g \in Fetcher \ {f} : fetch'[g] = fetch[g]
    <3>1. fetch' = [fetch EXCEPT ![f] = r]
      BY <1>4 DEF Set
    <3> HIDE DEF r
    <3>2. QED  BY <1>1, <2>1, <3>1, TaskSet
  <2> HIDE DEF r
  <2>3. mixed \subseteq mixed' /\ mixed' \subseteq DOMAIN Bundle
    BY <1>1, <1>4 DEF DiskTypes
  <2>4. DiskTypes'
    <3>1. 1 \in 1..Len(Bundle[k].files)
      BY <1>1, PartsOf
    <3>2. ASSUME NEW g \in Fetcher
          PROVE  /\ fetch'[g].pc = "write" <=> fetch'[g].fd # 0
                 /\ Active(g)' => fetch'[g].i \in 1..Len(Bundle[Of[g]].files)
                 /\ fetch'[g].pc # "idle" => running' >= 0
      BY <1>1, <1>2, <2>1, <2>2, <3>1 DEF DiskTypes, Active
    <3>3. QED  BY <1>1, <1>2, <2>2, <2>3, <3>2 DEF DiskTypes
  <2>5. Apart'
    BY <1>2, <2>1, <2>2 DEF DiskInv, Apart
  <2>6. /\ \A l \in DOMAIN Bundle \ mixed' : l # k => Kept(l)'
        /\ \A g \in Fetcher : Active(g)' /\ Of[g] \notin mixed' /\ Of[g] # k => Done(g)'
    BY <1>2, <2>2, <2>3, Elsewhere
  <2>7. ASSUME k \notin mixed' PROVE Kept(k)' /\ Done(f)' /\ \A g \in Fetcher \ {f} : Of[g] = k => ~Active(g)'
    <3>1. ~Rivals(f) /\ ~Crosses(k) /\ k \notin mixed /\ Kept(k)
      BY <1>1, <1>4, <2>7 DEF DiskInv
    <3>2. ASSUME NEW g \in Fetcher \ {f}, Of[g] = k PROVE ~Active(g)'
      BY <2>2, <3>1, <3>2 DEF Rivals, Active
    <3>3. Kept(k)'
      <4>1. Agrees(k)' = Agrees(k) /\ Unawaited(k)' = Unawaited(k)
        BY <1>2 DEF Agrees, Unawaited, Last, Parts
      <4>2. QED  BY <1>2, <3>1, <3>2, <4>1 DEF Kept, Last, Parts
    <3>4. Bundle[k].marked =>
            LET n == at'[Last(k)] IN n = 0 \/ inode'[n].rev = server.rev \/ Unawaited(k)'
      BY <1>2, <3>1 DEF Crosses, Unawaited, From, Last
    <3>5. Done(f)'
      BY <2>1, <2>2, <3>4 DEF Done, Last
    <3>6. QED  BY <3>2, <3>3, <3>5
  <2>8. QED  BY <2>4, <2>5, <2>6, <2>7 DEF DiskInv
<1>5. QED  BY <1>3, <1>4 DEF Download

(* What a fetch that writes leaves to show: that of its own bundle.        *)
LEMMA OwnFiles ==
    ASSUME UpdateAssumption, DiskInv, From \in 0..Builds, NEW f \in Fetcher, Active(f),
           UNCHANGED <<exe, running, mixed>>, DiskTypes', Apart',
           \A p \in Paths \ Parts(Of[f]) :
             /\ at'[p] = at[p] /\ tmp'[p] = tmp[p]
             /\ inode'[at[p]] = inode[at[p]] /\ inode'[tmp[p]] = inode[tmp[p]],
           \A g \in Fetcher \ {f} : fetch'[g] = fetch[g],
           Of[f] \notin mixed =>
             /\ \A p \in Parts(Of[f]) : at'[p] # 0 => inode'[at'[p]].whole
             /\ at'[Last(Of[f])] # 0 => \A p \in Parts(Of[f]) : at'[p] # 0
             /\ Bundle[Of[f]].marked => Agrees(Of[f])' \/ Unawaited(Of[f])'
             /\ Active(f)' => Done(f)'
    PROVE  DiskInv'
<1> DEFINE k == Of[f]
<1>1. k \in DOMAIN Bundle /\ From' = From /\ mixed' = mixed
  BY DEF UpdateAssumption, From
<1>2. /\ \A l \in DOMAIN Bundle \ mixed' : l # k => Kept(l)'
      /\ \A g \in Fetcher : Active(g)' /\ Of[g] \notin mixed' /\ Of[g] # k => Done(g)'
  BY <1>1, Elsewhere
<1>3. ASSUME k \notin mixed, NEW g \in Fetcher \ {f}, Of[g] = k PROVE ~Active(g)'
  <2>1. ~Active(g) /\ fetch'[g] = fetch[g]
    BY <1>1, <1>3 DEF DiskInv, Kept
  <2>2. QED  BY <2>1 DEF Active
<1>4. ASSUME k \notin mixed PROVE Kept(k)'
  <2>1. \A g, h \in Fetcher : Of[g] = k /\ Of[h] = k /\ Active(g)' /\ Active(h)' => g = h
    BY <1>3, <1>4
  <2>2. QED  BY <1>4, <2>1 DEF Kept, Last, Parts
<1>5. ASSUME NEW g \in Fetcher, Active(g)', Of[g] \notin mixed' PROVE Done(g)'
  BY <1>1, <1>2, <1>3, <1>5
<1>6. QED  BY <1>1, <1>2, <1>4, <1>5 DEF DiskInv

LEMMA OpenStep ==
    ASSUME UpdateAssumption, DiskInv, From \in 0..Builds, NEW f \in Fetcher, Open(f)
    PROVE  DiskInv'
<1> DEFINE k == Of[f]
           q == Path(f)
           n == IF tmp[q] # 0 THEN tmp[q] ELSE CHOOSE m \in Free : TRUE
           r == [fetch[f] EXCEPT !.pc = "write", !.fd = n]
<1>1. /\ DiskTypes /\ k \in DOMAIN Bundle /\ Of \in [Fetcher -> DOMAIN Bundle] /\ Active(f) /\ fetch[f].fd = 0
      /\ fetch[f].i \in 1..Len(Bundle[k].files) /\ q \in Parts(k) /\ Parts(k) \subseteq Paths
      /\ fetch[f] \in Task /\ fetch[f].pc = "open"
  <2>1. /\ DiskTypes /\ k \in DOMAIN Bundle /\ Of \in [Fetcher -> DOMAIN Bundle] /\ Active(f) /\ fetch[f].fd = 0
        /\ fetch[f].i \in 1..Len(Bundle[k].files) /\ fetch[f] \in Task /\ fetch[f].pc = "open"
    BY DEF DiskInv, DiskTypes, UpdateAssumption, Open, Active
  <2>2. QED  BY <2>1, PartsOf DEF Path
<1>2. /\ UNCHANGED <<exe, running, at, mixed>>
      /\ inode' = [inode EXCEPT ![n] = Cut(fetch[f].rev)] /\ tmp' = [tmp EXCEPT ![q] = n]
      /\ fetch' = [fetch EXCEPT ![f] = r]
  BY DEF Open, Rest, Set
<1>3. /\ n \in Inode /\ n # 0 /\ \A p \in Paths : at[p] # n /\ (tmp[p] = n => p = q)
      /\ \A g \in Fetcher : fetch[g].fd = n => tmp[q] = n
  <2>1. CASE tmp[q] # 0
    BY <1>1, <2>1 DEF DiskInv, DiskTypes, Apart
  <2>2. CASE tmp[q] = 0
    <3>1. n \in Free
      BY <1>1, <2>2, FreeInode
    <3>2. 0 \notin Inode
      BY DEF Inode
    <3>3. QED  BY <3>1, <3>2 DEF Free
  <2>3. QED  BY <2>1, <2>2
<1> HIDE DEF n, q
<1>4. /\ r \in Task /\ r.pc = "write" /\ r.fd = n /\ r.i = fetch[f].i /\ r.rev = fetch[f].rev
  <2>1. \A t \in Task, v \in Inode :
          LET u == [t EXCEPT !.pc = "write", !.fd = v]
          IN  u \in Task /\ u.pc = "write" /\ u.fd = v /\ u.i = t.i /\ u.rev = t.rev
    BY DEF Task
  <2>2. QED  BY <1>1, <1>3, <2>1
<1> HIDE DEF r
<1>5. fetch' \in [Fetcher -> Task] /\ fetch'[f] = r /\ \A g \in Fetcher \ {f} : fetch'[g] = fetch[g]
  BY <1>1, <1>2, <1>4, TaskSet
<1>6. DiskTypes'
  <2>1. Cut(fetch[f].rev) \in Copy
    BY <1>1 DEF Cut, Copy, Task
  <2>2. inode' \in [Inode -> Copy] /\ tmp' \in [Paths -> Inode \cup {0}]
    BY <1>1, <1>2, <1>3, <2>1 DEF DiskTypes
  <2>3. ASSUME NEW g \in Fetcher
        PROVE  /\ fetch'[g].pc = "write" <=> fetch'[g].fd # 0
               /\ Active(g)' => fetch'[g].i \in 1..Len(Bundle[Of[g]].files)
               /\ fetch'[g].pc # "idle" => running' >= 0
    BY <1>1, <1>2, <1>3, <1>4, <1>5 DEF DiskTypes, Active
  <2>4. QED  BY <1>1, <1>2, <1>5, <2>2, <2>3 DEF DiskTypes
<1>7. q \in Paths /\ tmp'[q] = n /\ (\A p \in Paths \ {q} : tmp'[p] = tmp[p])
  BY <1>1, <1>2 DEF DiskTypes
<1>8. Apart'
  <2>1. \A p, s \in Paths : at'[p] # 0 => at'[p] # tmp'[s] /\ (at'[p] = at'[s] => p = s)
    BY <1>2, <1>3, <1>7 DEF DiskInv, Apart
  <2>2. \A p, s \in Paths : tmp'[p] # 0 /\ tmp'[p] = tmp'[s] => p = s
    BY <1>3, <1>7 DEF DiskInv, Apart
  <2>3. ASSUME NEW g \in Fetcher, NEW p \in Paths, fetch'[g].fd # 0, fetch'[g].fd \in {at'[p], tmp'[p]}
        PROVE  p \in Parts(Of[g])
    <3>1. CASE g = f
      BY <1>1, <1>2, <1>3, <1>4, <1>5, <1>7, <2>3, <3>1
    <3>2. CASE g # f
      <4>1. fetch[g].fd # 0 /\ fetch[g].fd \in {at[p], tmp'[p]}
        BY <1>2, <1>5, <2>3, <3>2
      <4>2. fetch[g].fd \in {at[p], tmp[p]}
        BY <1>3, <1>7, <4>1
      <4>3. QED  BY <4>1, <4>2 DEF DiskInv, Apart
    <3>3. QED  BY <3>1, <3>2
  <2>4. QED  BY <2>1, <2>2, <2>3 DEF Apart, Parts
<1>9. \A p \in Paths : at[p] # 0 => inode'[at[p]] = inode[at[p]]
  BY <1>1, <1>2, <1>3 DEF DiskTypes
<1>10. \A p \in Paths \ Parts(k) :
         /\ at'[p] = at[p] /\ tmp'[p] = tmp[p]
         /\ inode'[at[p]] = inode[at[p]] /\ inode'[tmp[p]] = inode[tmp[p]]
  <2>1. \A m : m # n => inode'[m] = inode[m]
    BY <1>1, <1>2 DEF DiskTypes
  <2>2. QED  BY <1>1, <1>2, <1>3, <1>7, <2>1
<1>11. ASSUME k \notin mixed
       PROVE  /\ \A p \in Parts(k) : at'[p] # 0 => inode'[at'[p]].whole
              /\ at'[Last(k)] # 0 => \A p \in Parts(k) : at'[p] # 0
              /\ Bundle[k].marked => Agrees(k)' \/ Unawaited(k)'
              /\ Done(f)'
  <2>1. Kept(k) /\ Done(f) /\ Last(k) \in Parts(k) /\ at' = at /\ From' = From
    BY <1>1, <1>2, <1>11, PartsOf DEF DiskInv, From
  <2>2. Unawaited(k) => Unawaited(k)'
    BY <1>1, <1>2, <1>9, <2>1 DEF Unawaited, Last
  <2>3. at[Last(k)] # 0 => \A p \in Parts(k) : at[p] # 0
    BY <2>1 DEF Kept
  <2>4. Agrees(k) => Agrees(k)'
    BY <1>1, <1>9, <2>1, <2>3 DEF Agrees, Last, Parts
  <2>5. ASSUME NEW j \in 1..(fetch[f].i - 1) PROVE at[Bundle[k].files[j]] # 0 /\ inode'[at[Bundle[k].files[j]]].rev = fetch[f].rev
    <3>1. Bundle[k].files[j] \in Paths
      BY <1>1, PartsOf
    <3>2. QED  BY <1>9, <2>1, <3>1 DEF Done
  <2>6. Path(f)' = q
    BY <1>4, <1>5 DEF Path, q
  <2>7. Bundle[k].marked =>
          LET m == at'[Last(k)] IN m = 0 \/ inode'[m].rev = fetch[f].rev \/ Unawaited(k)'
    BY <1>1, <1>9, <2>1, <2>2 DEF Done
  <2>8. Done(f)'
    BY <1>4, <1>5, <1>7, <2>1, <2>5, <2>6, <2>7 DEF Done, Last
  <2>9. /\ \A p \in Parts(k) : at'[p] # 0 => inode'[at'[p]].whole
        /\ at'[Last(k)] # 0 => \A p \in Parts(k) : at'[p] # 0
    BY <1>1, <1>9, <2>1 DEF Kept
  <2>10. QED  BY <2>1, <2>2, <2>4, <2>8, <2>9 DEF Kept
<1>12. QED  BY <1>1, <1>2, <1>5, <1>6, <1>8, <1>10, <1>11, OwnFiles

LEMMA WriteStep ==
    ASSUME UpdateAssumption, ProgramInv, DiskInv, From \in 0..Builds, NEW f \in Fetcher, Write(f)
    PROVE  DiskInv'
<1> DEFINE k == Of[f]
           q == Path(f)
           n == fetch[f].fd
           r == [fetch[f] EXCEPT !.pc = "rename", !.fd = 0]
<1>1. /\ DiskTypes /\ k \in DOMAIN Bundle /\ Of \in [Fetcher -> DOMAIN Bundle] /\ Active(f) /\ n \in Inode /\ n # 0
      /\ fetch[f].i \in 1..Len(Bundle[k].files) /\ q \in Parts(k) /\ Parts(k) \subseteq Paths
      /\ fetch[f] \in Task /\ fetch[f].pc = "write"
  <2>1. /\ DiskTypes /\ k \in DOMAIN Bundle /\ Of \in [Fetcher -> DOMAIN Bundle] /\ Active(f) /\ n # 0
        /\ fetch[f].i \in 1..Len(Bundle[k].files) /\ fetch[f] \in Task /\ fetch[f].pc = "write"
    BY DEF DiskInv, DiskTypes, UpdateAssumption, Write, Active
  <2>2. n \in Inode
    BY <2>1 DEF Task
  <2>3. QED  BY <2>1, <2>2, PartsOf DEF Path
<1>2. UNCHANGED <<exe, running, at, mixed>> /\ From' = From
  BY DEF Write, Rest, From
<1> HIDE DEF n, q
<1>3. CASE /\ inode' = [inode EXCEPT ![n] = [rev |-> fetch[f].rev, whole |-> TRUE]]
           /\ Set(f, r) /\ UNCHANGED tmp
  <2>1. /\ r \in Task /\ r.pc = "rename" /\ r.fd = 0 /\ r.i = fetch[f].i /\ r.rev = fetch[f].rev
    <3>1. \A t \in Task :
            LET u == [t EXCEPT !.pc = "rename", !.fd = 0]
            IN  u \in Task /\ u.pc = "rename" /\ u.fd = 0 /\ u.i = t.i /\ u.rev = t.rev
      BY DEF Task
    <3>2. QED  BY <1>1, <3>1
  <2>2. fetch' = [fetch EXCEPT ![f] = r]
    BY <1>3 DEF Set
  <2> HIDE DEF r
  <2>3. fetch' \in [Fetcher -> Task] /\ fetch'[f] = r /\ \A g \in Fetcher \ {f} : fetch'[g] = fetch[g]
    BY <1>1, <2>1, <2>2, TaskSet
  <2>4. DiskTypes'
    <3>1. [rev |-> fetch[f].rev, whole |-> TRUE] \in Copy
      BY <1>1 DEF Copy, Task
    <3>2. inode' \in [Inode -> Copy]
      BY <1>1, <1>3, <3>1 DEF DiskTypes
    <3>3. ASSUME NEW g \in Fetcher
          PROVE  /\ fetch'[g].pc = "write" <=> fetch'[g].fd # 0
                 /\ Active(g)' => fetch'[g].i \in 1..Len(Bundle[Of[g]].files)
                 /\ fetch'[g].pc # "idle" => running' >= 0
      BY <1>1, <1>2, <2>1, <2>3 DEF DiskTypes, Active
    <3>4. QED  BY <1>1, <1>2, <1>3, <2>3, <3>2, <3>3 DEF DiskTypes
  <2>5. Apart'
    BY <1>2, <1>3, <2>1, <2>3 DEF DiskInv, Apart
  <2>6. \A m : m # n => inode'[m] = inode[m]
    BY <1>1, <1>3 DEF DiskTypes
  <2>7. \A p \in Paths \ Parts(k) :
          /\ at'[p] = at[p] /\ tmp'[p] = tmp[p]
          /\ inode'[at[p]] = inode[at[p]] /\ inode'[tmp[p]] = inode[tmp[p]]
    <3>1. \A p \in Paths \ Parts(k) : at[p] # n /\ tmp[p] # n
      BY <1>1 DEF DiskInv, Apart, n
    <3>2. QED  BY <1>2, <1>3, <2>6, <3>1
  <2>8. ASSUME k \notin mixed
        PROVE  /\ \A p \in Parts(k) : at'[p] # 0 => inode'[at'[p]].whole
               /\ at'[Last(k)] # 0 => \A p \in Parts(k) : at'[p] # 0
               /\ Bundle[k].marked => Agrees(k)' \/ Unawaited(k)'
               /\ Done(f)'
    <3>1. Kept(k) /\ Done(f) /\ Last(k) \in Parts(k) /\ n = tmp[q]
      BY <1>1, <2>8, PartsOf DEF DiskInv, Done, n, q
    <3>2. \A p \in Paths : at[p] # 0 => inode'[at[p]] = inode[at[p]]
      BY <1>1, <2>6, <3>1 DEF DiskInv, Apart
    <3>3. Unawaited(k) => Unawaited(k)'
      BY <1>1, <1>2, <3>1, <3>2 DEF Unawaited, Last
    <3>4. at[Last(k)] # 0 => \A p \in Parts(k) : at[p] # 0
      BY <3>1 DEF Kept
    <3>5. Agrees(k) => Agrees(k)'
      BY <1>1, <1>2, <3>1, <3>2, <3>4 DEF Agrees, Last, Parts
    <3>6. ASSUME NEW j \in 1..(fetch[f].i - 1)
          PROVE  at[Bundle[k].files[j]] # 0 /\ inode'[at[Bundle[k].files[j]]].rev = fetch[f].rev
      <4>1. Bundle[k].files[j] \in Paths
        BY <1>1, PartsOf
      <4>2. QED  BY <3>1, <3>2, <4>1 DEF Done
    <3>7. Path(f)' = q
      BY <2>1, <2>3 DEF Path, q
    <3>8. Bundle[k].marked =>
            LET m == at'[Last(k)] IN m = 0 \/ inode'[m].rev = fetch[f].rev \/ Unawaited(k)'
      BY <1>1, <1>2, <3>1, <3>2, <3>3 DEF Done
    <3>9. inode'[tmp'[q]] = [rev |-> fetch[f].rev, whole |-> TRUE] /\ tmp'[q] # 0
      BY <1>1, <1>3, <3>1 DEF DiskTypes
    <3>10. Done(f)'
      BY <1>2, <2>1, <2>3, <3>6, <3>7, <3>8, <3>9 DEF Done, Last
    <3>11. /\ \A p \in Parts(k) : at'[p] # 0 => inode'[at'[p]].whole
           /\ at'[Last(k)] # 0 => \A p \in Parts(k) : at'[p] # 0
      BY <1>1, <1>2, <3>1, <3>2 DEF Kept
    <3>12. QED  BY <3>1, <3>3, <3>5, <3>10, <3>11 DEF Kept
  <2>9. QED  BY <1>1, <1>2, <2>3, <2>4, <2>5, <2>7, <2>8, OwnFiles
<1>4. CASE /\ Failed(f) /\ UNCHANGED inode
           /\ tmp' = IF Len(Bundle[k].files) > 1 THEN [tmp EXCEPT ![q] = 0] ELSE tmp
  <2>1. CASE UNCHANGED tmp
    BY <1>1, <1>2, <1>4, <2>1, FailedStep DEF Active
  <2>2. CASE tmp' = [tmp EXCEPT ![q] = 0]
    <3>1. /\ fetch' \in [Fetcher -> Task] /\ fetch'[f].pc \in {"idle", "get"} /\ fetch'[f].fd = 0
          /\ \A g \in Fetcher \ {f} : fetch'[g] = fetch[g]
      BY <1>1, <1>4, FailedTask
    <3>2. tmp' \in [Paths -> Inode \cup {0}] /\ tmp'[q] = 0 /\ \A p \in Paths \ {q} : tmp'[p] = tmp[p]
      BY <1>1, <2>2 DEF DiskTypes
    <3>3. DiskTypes'
      <4>1. ASSUME NEW g \in Fetcher
            PROVE  /\ fetch'[g].pc = "write" <=> fetch'[g].fd # 0
                   /\ Active(g)' => fetch'[g].i \in 1..Len(Bundle[Of[g]].files)
                   /\ fetch'[g].pc # "idle" => running' >= 0
        BY <1>1, <1>2, <3>1 DEF DiskTypes, Active
      <4>2. QED  BY <1>1, <1>2, <1>4, <3>1, <3>2, <4>1 DEF DiskTypes
    <3>4. Apart'
      <4>1. \A p \in Paths : tmp'[p] = 0 \/ tmp'[p] = tmp[p]
        BY <3>2
      <4>2. \A p, s \in Paths : at'[p] # 0 => at'[p] # tmp'[s] /\ (at'[p] = at'[s] => p = s)
        BY <1>2, <4>1 DEF DiskInv, Apart
      <4>3. \A p, s \in Paths : tmp'[p] # 0 /\ tmp'[p] = tmp'[s] => p = s
        BY <4>1 DEF DiskInv, Apart
      <4>4. \A g \in Fetcher : fetch'[g].fd # 0 => fetch'[g].fd = fetch[g].fd
        BY <3>1
      <4>5. \A g \in Fetcher, p \in Paths :
              fetch'[g].fd # 0 /\ fetch'[g].fd \in {at'[p], tmp'[p]} => p \in Parts(Of[g])
        BY <1>2, <4>1, <4>4 DEF DiskInv, Apart
      <4>6. QED  BY <4>2, <4>3, <4>5 DEF Apart, Parts
    <3>5. \A p \in Paths \ Parts(k) :
            /\ at'[p] = at[p] /\ tmp'[p] = tmp[p]
            /\ inode'[at[p]] = inode[at[p]] /\ inode'[tmp[p]] = inode[tmp[p]]
      BY <1>1, <1>2, <1>4, <3>2
    <3>6. ASSUME k \notin mixed
          PROVE  /\ \A p \in Parts(k) : at'[p] # 0 => inode'[at'[p]].whole
                 /\ at'[Last(k)] # 0 => \A p \in Parts(k) : at'[p] # 0
                 /\ Bundle[k].marked => Agrees(k)' \/ Unawaited(k)'
                 /\ ~Active(f)'
      <4>1. Kept(k)
        BY <1>1, <3>6 DEF DiskInv
      <4>2. Agrees(k)' = Agrees(k) /\ Unawaited(k)' = Unawaited(k)
        BY <1>2, <1>4 DEF Agrees, Unawaited, Last, Parts
      <4>3. QED  BY <1>2, <1>4, <3>1, <4>1, <4>2 DEF Kept, Active
    <3>7. QED  BY <1>1, <1>2, <3>1, <3>3, <3>4, <3>5, <3>6, OwnFiles
  <2>3. QED  BY <1>4, <2>1, <2>2
<1>5. QED  BY <1>3, <1>4 DEF Write, n, q

LEMMA RenameStep ==
    ASSUME UpdateAssumption, ProgramInv, DiskInv, From \in 0..Builds, NEW f \in Fetcher, Rename(f)
    PROVE  DiskInv'
<1> DEFINE k == Of[f]
           q == Path(f)
           n == tmp[q]
           i == fetch[f].i
           last == i = Len(Bundle[k].files)
<1>1. /\ DiskTypes /\ k \in DOMAIN Bundle /\ Of \in [Fetcher -> DOMAIN Bundle] /\ Active(f) /\ fetch[f].fd = 0
      /\ i \in 1..Len(Bundle[k].files) /\ q \in Parts(k) /\ Parts(k) \subseteq Paths
      /\ fetch[f] \in Task /\ fetch[f].pc = "rename" /\ Len(Bundle[k].files) \in Nat \ {0}
  <2>1. /\ DiskTypes /\ k \in DOMAIN Bundle /\ Of \in [Fetcher -> DOMAIN Bundle] /\ Active(f) /\ fetch[f].fd = 0
        /\ fetch[f].i \in 1..Len(Bundle[k].files) /\ fetch[f] \in Task /\ fetch[f].pc = "rename"
    BY DEF DiskInv, DiskTypes, UpdateAssumption, Rename, Active
  <2>2. QED  BY <2>1, PartsOf DEF Path
<1>2. UNCHANGED <<exe, running, inode, mixed>> /\ From' = From
  BY DEF Rename, Rest, From
<1> HIDE DEF q
<1>3. CASE n = 0
  <2>1. Failed(f) /\ UNCHANGED <<at, tmp>>
    BY <1>3 DEF Rename, q
  <2>2. QED  BY <1>1, <1>2, <2>1, FailedStep
<1>4. CASE n # 0
  <2> DEFINE r == IF last THEN Idle ELSE [fetch[f] EXCEPT !.pc = "open", !.i = i + 1]
  <2>1. at' = [at EXCEPT ![q] = n] /\ tmp' = [tmp EXCEPT ![q] = 0] /\ fetch' = [fetch EXCEPT ![f] = r]
    BY <1>4 DEF Rename, q, Set
  <2>2. /\ r \in Task /\ r.fd = 0 /\ (last => r.pc = "idle")
        /\ ~last => r.pc = "open" /\ r.i = i + 1 /\ r.rev = fetch[f].rev /\ i + 1 \in 1..Len(Bundle[k].files)
    <3>1. CASE last
      BY <1>1, <3>1 DEF Idle, Task, Revision, UpdateAssumption
    <3>2. CASE ~last
      <4>1. i + 1 \in 1..Len(Bundle[k].files) /\ i + 1 \in Nat
        BY <1>1, <3>2
      <4>2. \A t \in Task, v \in Nat :
              LET u == [t EXCEPT !.pc = "open", !.i = v]
              IN  u \in Task /\ u.pc = "open" /\ u.i = v /\ u.fd = t.fd /\ u.rev = t.rev
        BY DEF Task
      <4>3. QED  BY <1>1, <3>2, <4>1, <4>2
    <3>3. QED  BY <3>1, <3>2
  <2> HIDE DEF r
  <2>3. fetch' \in [Fetcher -> Task] /\ fetch'[f] = r /\ \A g \in Fetcher \ {f} : fetch'[g] = fetch[g]
    BY <1>1, <2>1, <2>2, TaskSet
  <2>4. /\ n \in Inode /\ at' \in [Paths -> Inode \cup {0}] /\ tmp' \in [Paths -> Inode \cup {0}]
        /\ at'[q] = n /\ tmp'[q] = 0 /\ \A p \in Paths \ {q} : at'[p] = at[p] /\ tmp'[p] = tmp[p]
    BY <1>1, <1>4, <2>1 DEF DiskTypes
  <2>5. DiskTypes'
    <3>1. ASSUME NEW g \in Fetcher
          PROVE  /\ fetch'[g].pc = "write" <=> fetch'[g].fd # 0
                 /\ Active(g)' => fetch'[g].i \in 1..Len(Bundle[Of[g]].files)
                 /\ fetch'[g].pc # "idle" => running' >= 0
      BY <1>1, <1>2, <2>2, <2>3 DEF DiskTypes, Active
    <3>2. QED  BY <1>1, <1>2, <2>3, <2>4, <3>1 DEF DiskTypes
  <2>6. Apart'
    <3>1. \A p \in Paths : n # at[p] /\ (n = tmp[p] => p = q)
      BY <1>1, <1>4, <2>4 DEF DiskInv, Apart
    <3>2. \A p, s \in Paths : at'[p] # 0 => at'[p] # tmp'[s] /\ (at'[p] = at'[s] => p = s)
      BY <1>4, <2>4, <3>1 DEF DiskInv, Apart
    <3>3. \A p, s \in Paths : tmp'[p] # 0 /\ tmp'[p] = tmp'[s] => p = s
      BY <2>4 DEF DiskInv, Apart
    <3>4. ASSUME NEW g \in Fetcher, NEW p \in Paths, fetch'[g].fd # 0, fetch'[g].fd \in {at'[p], tmp'[p]}
          PROVE  p \in Parts(Of[g])
      <4>1. fetch'[g].fd = fetch[g].fd
        BY <2>2, <2>3, <3>4
      <4>2. fetch[g].fd \in {at[p], tmp[p]}
        BY <2>4, <3>4, <4>1
      <4>3. QED  BY <3>4, <4>1, <4>2 DEF DiskInv, Apart
    <3>5. QED  BY <3>2, <3>3, <3>4 DEF Apart, Parts
  <2>7. \A p \in Paths \ Parts(k) :
          /\ at'[p] = at[p] /\ tmp'[p] = tmp[p]
          /\ inode'[at[p]] = inode[at[p]] /\ inode'[tmp[p]] = inode[tmp[p]]
    BY <1>1, <1>2, <2>4
  <2>8. ASSUME k \notin mixed
        PROVE  /\ \A p \in Parts(k) : at'[p] # 0 => inode'[at'[p]].whole
               /\ at'[Last(k)] # 0 => \A p \in Parts(k) : at'[p] # 0
               /\ Bundle[k].marked => Agrees(k)' \/ Unawaited(k)'
               /\ Active(f)' => Done(f)'
    <3>1. Kept(k) /\ Done(f) /\ inode[n] = [rev |-> fetch[f].rev, whole |-> TRUE]
      BY <1>1, <2>8 DEF DiskInv, Done, q
    <3>2. inode[n].rev = fetch[f].rev /\ inode[n].whole
      BY <3>1
    <3>3. /\ Last(k) \in Parts(k) /\ Last(k) = Bundle[k].files[Len(Bundle[k].files)] /\ q = Bundle[k].files[i]
          /\ Len(Bundle[k].files) \in 1..Len(Bundle[k].files)
      BY <1>1, PartsOf DEF Last, Path, q
    <3>4. Last(k) = q <=> last
      BY <1>1, <3>3, FilesApart
    <3>5. ASSUME NEW j \in 1..Len(Bundle[k].files), j # i
          PROVE  at'[Bundle[k].files[j]] = at[Bundle[k].files[j]]
      <4>1. Bundle[k].files[j] \in Paths /\ Bundle[k].files[j] # q
        BY <1>1, <3>3, <3>5, FilesApart, PartsOf
      <4>2. QED  BY <2>4, <4>1
    <3>6. ASSUME NEW j \in 1..(i - 1)
          PROVE  at'[Bundle[k].files[j]] # 0 /\ inode'[at'[Bundle[k].files[j]]].rev = fetch[f].rev
      <4>1. j \in 1..Len(Bundle[k].files) /\ j # i
        BY <1>1
      <4>2. QED  BY <1>2, <3>1, <3>5, <4>1 DEF Done
    <3>7. \A p \in Parts(k) : at'[p] # 0 => inode'[at'[p]].whole
      BY <1>1, <1>2, <2>4, <3>1, <3>2 DEF Kept
    <3>8. CASE last
      <4>1. \A p \in Parts(k) : at'[p] # 0 /\ inode'[at'[p]].rev = fetch[f].rev
        <5>1. ASSUME NEW j \in 1..Len(Bundle[k].files)
              PROVE  at'[Bundle[k].files[j]] # 0 /\ inode'[at'[Bundle[k].files[j]]].rev = fetch[f].rev
          <6>1. CASE j = i
            BY <1>2, <1>4, <2>4, <3>2, <3>3, <6>1
          <6>2. CASE j # i
            BY <1>1, <3>6, <3>8, <6>2
          <6>3. QED  BY <6>1, <6>2
        <5>2. QED  BY <5>1 DEF Parts
      <4>2. Agrees(k)'
        BY <3>3, <4>1 DEF Agrees, Last, Parts
      <4>3. ~Active(f)'
        BY <2>2, <2>3, <3>8 DEF Active
      <4>4. QED  BY <3>7, <4>1, <4>2, <4>3
    <3>9. CASE ~last
      <4>1. at'[Last(k)] = at[Last(k)]
        BY <1>1, <2>4, <3>3, <3>4, <3>9
      <4>2. at'[Last(k)] # 0 => \A p \in Parts(k) : at'[p] # 0
        BY <1>1, <1>4, <2>4, <3>1, <4>1 DEF Kept
      <4>3. Unawaited(k) => Unawaited(k)'
        BY <1>2, <4>1 DEF Unawaited, Last
      <4>4. ASSUME Bundle[k].marked PROVE at[Last(k)] = 0 \/ inode[at[Last(k)]].rev = fetch[f].rev \/ Unawaited(k)
        BY <3>1, <4>4 DEF Done
      <4>5. ASSUME Agrees(k), inode[at[Last(k)]].rev = fetch[f].rev PROVE Agrees(k)'
        <5>1. ASSUME NEW p \in Parts(k), at[Last(k)] # 0 PROVE inode'[at'[p]].rev = inode'[at'[Last(k)]].rev
          BY <1>1, <1>2, <2>4, <3>2, <4>1, <4>5, <5>1 DEF Agrees
        <5>2. QED  BY <4>1, <5>1 DEF Agrees, Last, Parts
      <4>6. at[Last(k)] = 0 => Agrees(k)'
        BY <4>1 DEF Agrees, Last
      <4>7. Bundle[k].marked => Agrees(k)' \/ Unawaited(k)'
        BY <3>1, <4>3, <4>4, <4>5, <4>6 DEF Kept
      <4>8. Done(f)'
        <5>1. ASSUME NEW j \in 1..((i + 1) - 1)
              PROVE  at'[Bundle[k].files[j]] # 0 /\ inode'[at'[Bundle[k].files[j]]].rev = fetch[f].rev
          <6>1. CASE j = i
            BY <1>2, <1>4, <2>4, <3>2, <3>3, <6>1
          <6>2. CASE j # i
            BY <1>1, <3>6, <6>2
          <6>3. QED  BY <6>1, <6>2
        <5>2. Bundle[k].marked =>
                LET m == at'[Last(k)] IN m = 0 \/ inode'[m].rev = fetch[f].rev \/ Unawaited(k)'
          BY <1>2, <4>1, <4>3, <4>4
        <5>3. QED  BY <2>2, <2>3, <3>9, <5>1, <5>2 DEF Done, Last
      <4>9. QED  BY <3>7, <4>2, <4>7, <4>8
    <3>10. QED  BY <3>8, <3>9
  <2>9. QED  BY <1>1, <1>2, <2>3, <2>5, <2>6, <2>7, <2>8, OwnFiles
<1>5. QED  BY <1>3, <1>4

-----------------------------------------------------------------------------
(* The invariant holds, and says what is promised.                         *)

LEMMA UpdateInitial ==
    ASSUME UpdateAssumption, Init
    PROVE  UpdateInv
<1> DEFINE N == Cardinality(Paths)
           Tell(id) == id \in [Paths -> 1..N] /\ \A p, q \in Paths : id[p] = id[q] => p = q
           Id == CHOOSE id \in [Paths -> 1..N] : \A p, q \in Paths : id[p] = id[q] => p = q
<1>1. Builds \in Nat \ {0} /\ Attempts \in Nat \ {0} /\ Rev[1] \in Revision
  BY DEF UpdateAssumption, Revision
<1>2. ProgramInv
  BY <1>1 DEF Init, ProgramInv, Quiet
<1>3. Tell(Id)
  <2>1. ExistsBijection(1..N, Paths)
    BY PathsFinite, FS_CardinalityType
  <2>2. ExistsBijection(Paths, 1..N)
    BY <2>1, Fun_ExistsBijSymmetric
  <2>3. \E id \in [Paths -> 1..N] : \A p, q \in Paths : id[p] = id[q] => p = q
    BY <2>2 DEF ExistsBijection, Bijection, Injection, IsInjective
  <2>4. QED  BY <2>3
<1>4. N \in Nat /\ 1..N \subseteq Inode /\ 0 \notin Inode
  <2>1. N \in Nat /\ Cardinality(Fetcher) \in Nat
    BY PathsFinite, FS_CardinalityType DEF UpdateAssumption
  <2>2. QED  BY <2>1 DEF Inode
<1>5. PICK here \in SUBSET Present :
        LET Here == UNION {Parts(k) : k \in here}
        IN  /\ at = [p \in Paths |-> IF p \in Here THEN Id[p] ELSE 0]
            /\ inode = [n \in Inode |-> [rev |-> IF \E p \in Here : at[p] = n THEN Rev[1] ELSE 0,
                                         whole |-> \E p \in Here : at[p] = n]]
  BY DEF Init, Parts
<1> DEFINE Here == UNION {Parts(k) : k \in here}
<1> HIDE DEF Id
<1>6. \A k \in DOMAIN Bundle : \A p \in Parts(k) : p \in Here <=> k \in here
  <2>1. here \subseteq DOMAIN Bundle
    BY DEF UpdateAssumption
  <2>2. QED  BY <2>1, PartsApart
<1> HIDE DEF Here
<1>7. /\ at = [p \in Paths |-> IF p \in Here THEN Id[p] ELSE 0]
      /\ inode = [n \in Inode |-> [rev |-> IF \E p \in Here : at[p] = n THEN Rev[1] ELSE 0,
                                   whole |-> \E p \in Here : at[p] = n]]
  BY <1>5 DEF Here
<1>8. /\ tmp = [p \in Paths |-> 0] /\ fetch = [f \in Fetcher |-> Idle] /\ mixed = {} /\ From \in 0..Builds
  BY <1>1 DEF Init, From
<1>9. \A p \in Paths : at[p] \in Inode \cup {0} /\ (at[p] # 0 <=> p \in Here) /\ (p \in Here => at[p] = Id[p])
  BY <1>3, <1>4, <1>7
<1>10. \A p \in Paths : at[p] # 0 => inode[at[p]].whole /\ inode[at[p]].rev = Rev[1]
  <2>1. ASSUME NEW p \in Paths, at[p] # 0 PROVE inode[at[p]] = [rev |-> Rev[1], whole |-> TRUE]
    <3>1. at[p] \in Inode /\ \E q \in Here : at[q] = at[p]
      BY <1>9, <2>1
    <3>2. QED  BY <1>7, <3>1
  <2>2. QED  BY <2>1
<1>11. DiskTypes
  <2>1. Idle \in Task /\ Idle.pc = "idle" /\ Idle.fd = 0
    BY <1>1 DEF Idle, Task, Revision
  <2>2. inode \in [Inode -> Copy]
    <3>1. \A n \in Inode : [rev |-> IF \E p \in Here : at[p] = n THEN Rev[1] ELSE 0,
                            whole |-> \E p \in Here : at[p] = n] \in Copy
      BY <1>1 DEF Copy, Revision
    <3>2. QED  BY <1>7, <3>1
  <2>3. at \in [Paths -> Inode \cup {0}]
    BY <1>7, <1>9
  <2>4. QED  BY <1>8, <2>1, <2>2, <2>3 DEF DiskTypes, Active
<1>12. Apart
  <2>1. \A p, q \in Paths : at[p] # 0 /\ at[p] = at[q] => p = q
    BY <1>3, <1>9
  <2>2. QED  BY <1>8, <2>1 DEF Apart, Idle
<1>13. ASSUME NEW k \in DOMAIN Bundle PROVE Kept(k)
  <2>1. Last(k) \in Parts(k) /\ Parts(k) \subseteq Paths
    BY PartsOf
  <2>2. at[Last(k)] # 0 => \A p \in Parts(k) : at[p] # 0
    BY <1>6, <1>9, <2>1
  <2>3. \A p \in Parts(k) : at[p] # 0 => inode[at[p]].whole /\ inode[at[p]].rev = Rev[1]
    BY <1>10, <2>1
  <2>4. Agrees(k)
    BY <2>1, <2>2, <2>3 DEF Agrees
  <2>5. \A f \in Fetcher : ~Active(f)
    BY <1>8 DEF Active, Idle
  <2>6. QED  BY <2>2, <2>3, <2>4, <2>5 DEF Kept
<1>14. \A f \in Fetcher : ~Active(f)
  BY <1>8 DEF Active, Idle
<1>15. QED  BY <1>2, <1>11, <1>12, <1>13, <1>14 DEF UpdateInv, DiskInv

LEMMA UpdateStep ==
    ASSUME UpdateAssumption, ~LosesUnsynced, UpdateInv, [Next]_vars
    PROVE  UpdateInv'
<1>1. ProgramInv /\ DiskInv /\ DiskTypes
  BY DEF UpdateInv, DiskInv
<1>2. CASE Next
  <2>1. ProgramInv' /\ From \in 0..Builds /\ From' \in 0..Builds /\ From <= From'
    BY <1>1, <1>2, ProgramStep
  <2>2. CASE \E f \in Fetcher : Fetches(f)
    <3>1. ASSUME NEW f \in Fetcher, Fetches(f) PROVE DiskInv'
      BY <1>1, <2>1, <3>1, QuietStep, DownloadStep, OpenStep, WriteStep, RenameStep DEF Fetches
    <3>2. QED  BY <2>1, <2>2, <3>1 DEF UpdateInv
  <2>3. CASE ~\E f \in Fetcher : Fetches(f)
    <3>1. DiskInv'
      BY <1>1, <1>2, <2>1, <2>3, QuietStep DEF Next
    <3>2. QED  BY <2>1, <3>1 DEF UpdateInv
  <2>4. QED  BY <2>2, <2>3
<1>3. CASE UNCHANGED vars
  <2>1. ProgramInv' = ProgramInv
    BY <1>3 DEF vars, ProgramInv
  <2>2. DiskTypes' = DiskTypes
    BY <1>3 DEF vars, DiskTypes, Active
  <2>3. Apart' = Apart
    BY <1>3 DEF vars, Apart, Parts
  <2>4. \A k : Kept(k)' = Kept(k)
    BY <1>3 DEF vars, Kept, Active, Agrees, Unawaited, From, Last, Parts
  <2>5. \A f : Done(f)' = Done(f) /\ Active(f)' = Active(f)
    BY <1>3 DEF vars, Done, Active, Path, Unawaited, From, Last
  <2>6. DiskInv'
    BY <1>1, <1>3, <2>2, <2>3, <2>4, <2>5 DEF vars, DiskInv
  <2>7. QED  BY <1>1, <2>1, <2>6 DEF UpdateInv
<1>4. QED  BY <1>2, <1>3

LEMMA UpdatePromises ==
    ASSUME UpdateAssumption, UpdateInv
    PROVE  AlwaysStarts /\ UsableIsWhole
<1>1. AlwaysStarts
  BY DEF UpdateInv, ProgramInv, AlwaysStarts
<1>2. ASSUME NEW k \in DOMAIN Bundle \ mixed, running >= 0, Available(k), NEW i \in 1..Len(Bundle[k].files)
      PROVE  LET n == at[Bundle[k].files[i]]
             IN  n # 0 /\ inode[n].whole /\ (Bundle[k].marked => inode[n].rev = Rev[running])
  <2>1. Kept(k) /\ Bundle[k].files[i] \in Parts(k) /\ Last(k) \in Parts(k)
    BY <1>2, PartsOf DEF UpdateInv, DiskInv
  <2>2. at[Last(k)] # 0
    BY <1>2 DEF UpdateAssumption, Available
  <2>3. at[Bundle[k].files[i]] # 0 /\ inode[at[Bundle[k].files[i]]].whole
    BY <2>1, <2>2 DEF Kept
  <2>4. ASSUME Bundle[k].marked PROVE inode[at[Bundle[k].files[i]]].rev = Rev[running]
    <3>1. inode[at[Last(k)]].rev = Rev[running]
      BY <1>2, <2>4 DEF Available
    <3>2. running \in From..Builds
      BY <1>2 DEF From, UpdateInv, ProgramInv
    <3>3. Agrees(k)
      BY <2>1, <2>4, <3>1, <3>2 DEF Kept, Unawaited
    <3>4. QED  BY <2>1, <2>2, <3>1, <3>3 DEF Agrees
  <2>5. QED  BY <2>3, <2>4
<1>3. QED  BY <1>1, <1>2 DEF UsableIsWhole

(* Whatever fails and wherever the process dies, the program on the disk   *)
(* starts, and what counts as installed is whole (runUpdate, fetchSidecar, *)
(* fetchTarBundle).                                                        *)
THEOREM UpdateHolds ==
    ASSUME UpdateAssumption, ~LosesUnsynced
    PROVE  Spec => [](AlwaysStarts /\ UsableIsWhole)
<1>1. Init => UpdateInv
  BY UpdateInitial
<1>2. UpdateInv /\ [Next]_vars => UpdateInv'
  BY UpdateStep
<1>3. UpdateInv => AlwaysStarts /\ UsableIsWhole
  BY UpdatePromises
<1>4. QED  BY <1>1, <1>2, <1>3, PTL DEF Spec
=============================================================================
