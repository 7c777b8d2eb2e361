------------------------------ MODULE Settings ------------------------------
(***************************************************************************)
(* The settings file (main.go: saveNow, saveConfig, loadConfig, readIni):  *)
(* the new generation is written beside the old one and renamed into its   *)
(* place, the old one is kept as .bak.  Savers are goroutines: the UI      *)
(* loop's timer and menu, the web commands, the updater before it executes *)
(* the new program.  A file is None or how much of which generation it     *)
(* holds; its first key is "host".                                         *)
(***************************************************************************)
EXTENDS Naturals, FiniteSets

CONSTANTS
    Savers,
    Whole,      \* keys of a whole file
    MaxGen      \* bound: the generations of the settings

VARIABLES
    path, bak, tmp,   \* the files
    mem,              \* the settings in memory: a generation
    pc,               \* where in saveConfig each saver is
    writes,           \* the generation each saver writes
    lock,             \* the saver that holds saveMu
    dirty,            \* files whose data is not on the card yet
    saved,            \* history: the generation put in place last
    kept,             \* history: the generation in place and on the card last
    cut               \* history: "yes" after the card was full, or a file that is not
                      \* whole replaced the backup; "risk" while the only copy on the
                      \* card was replaced by one that is not there yet

None == [gen |-> 0, keys |-> 0]
File == [gen : 0..MaxGen, keys : 0..Whole]

files  == <<path, bak, tmp, dirty>>
savers == <<pc, writes, lock>>
marks  == <<saved, kept, cut>>
vars   == <<files, mem, savers, marks>>

\* What loadConfig returns; a missing file reads as an empty one.
Loaded == IF path.keys = 0 /\ bak.keys > path.keys THEN bak ELSE path

Idle == [s \in Savers |-> "idle"]

\* The program has started: with its own file, or with none (the defaults,
\* or the file of before the app's renaming).
Init ==
    /\ path \in {None, [gen |-> 1, keys |-> Whole]}
    /\ bak = None /\ tmp = None /\ dirty = {}
    /\ mem = 1 /\ saved = path.gen /\ kept = path.gen /\ cut = "no"
    /\ pc = Idle /\ writes = [s \in Savers |-> 0] /\ lock = {}

\* A setting is changed, by whoever changes it.
Change ==
    /\ mem < MaxGen /\ mem' = mem + 1
    /\ UNCHANGED <<files, savers, marks>>

Unlock(s) ==
    /\ pc' = [pc EXCEPT ![s] = "idle"] /\ lock' = lock \ {s}
    /\ writes' = [writes EXCEPT ![s] = 0]

\* saveMu.Lock, the snapshot of the settings, os.Create.  (If it fails,
\* saveConfig returns and nothing has happened.)
Open(s) ==
    /\ pc[s] = "idle"
    /\ pc' = [pc EXCEPT ![s] = "write"] /\ lock' = lock \cup {s}
    /\ writes' = [writes EXCEPT ![s] = mem]
    /\ tmp' = [gen |-> mem, keys |-> 0] /\ dirty' = dirty \cup {"tmp"}
    /\ UNCHANGED <<path, bak, mem, marks>>

\* Bug form: two goroutines save at once.
BeginAnyway(s) == Open(s)

Begin(s) == lock = {} /\ Open(s)

WriteKey(s) ==
    /\ pc[s] = "write" /\ tmp.keys < Whole
    /\ tmp' = [gen |-> writes[s], keys |-> tmp.keys + 1]
    /\ UNCHANGED <<path, bak, dirty, mem, savers, marks>>

\* The card is full: the errors of Fprintf are not looked at.
DiskFull(s) ==
    /\ pc[s] = "write" /\ tmp.keys < Whole
    /\ pc' = [pc EXCEPT ![s] = "close"] /\ cut' = "yes"
    /\ UNCHANGED <<files, mem, writes, lock, saved, kept>>

Close(s) ==
    /\ pc[s] = "write" /\ tmp.keys = Whole
    /\ pc' = [pc EXCEPT ![s] = "close"]
    /\ UNCHANGED <<files, mem, writes, lock, marks>>

CloseFails(s) ==
    /\ pc[s] = "write" /\ Unlock(s)
    /\ UNCHANGED <<files, mem, marks>>

Moved(from, to) == (dirty \ {from, to}) \cup (IF from \in dirty THEN {to} ELSE {})

\* path -> .bak; the error of a path that is not there is not looked at.
KeepOld(s) ==
    /\ pc[s] = "close" /\ pc' = [pc EXCEPT ![s] = "swap"]
    /\ IF path = None THEN UNCHANGED files
       ELSE bak' = path /\ path' = None /\ dirty' = Moved("path", "bak") /\ UNCHANGED tmp
    /\ cut' = IF path # None /\ path.keys < Whole THEN "yes"
              ELSE IF path # None /\ "path" \in dirty /\ cut = "no" THEN "risk"
              ELSE cut
    /\ UNCHANGED <<mem, writes, lock, saved, kept>>

Swap(s) ==
    /\ pc[s] = "swap" /\ tmp # None /\ Unlock(s)
    /\ path' = tmp /\ tmp' = None /\ dirty' = Moved("tmp", "path")
    /\ saved' = tmp.gen
    /\ UNCHANGED <<bak, mem, kept, cut>>

SwapFails(s) ==
    /\ pc[s] = "swap" /\ Unlock(s)
    /\ path' = (IF bak # None THEN bak ELSE path)
    /\ bak' = None /\ dirty' = Moved("bak", "path")
    /\ UNCHANGED <<tmp, mem, marks>>

-----------------------------------------------------------------------------

\* The kernel writes the data out, some time after.
Flush ==
    /\ dirty # {} /\ dirty' = {}
    /\ kept' = saved
    /\ cut' = IF cut = "risk" THEN "no" ELSE cut
    /\ UNCHANGED <<path, bak, tmp, mem, savers, saved>>

\* The process ends, at any point (the updater's Exec, a fatal error, the
\* exit combination, the power), and is started again.
Boot == mem' = Loaded'.gen /\ pc' = Idle /\ lock' = {} /\ writes' = [s \in Savers |-> 0]

Restart == UNCHANGED <<files, marks>> /\ Boot

Left(name, file) == IF name \in dirty THEN [file EXCEPT !.keys = 0] ELSE file

PowerLoss ==
    /\ path' = Left("path", path) /\ bak' = Left("bak", bak) /\ tmp' = Left("tmp", tmp)
    /\ dirty' = {}
    /\ cut' = IF cut = "risk" THEN "yes" ELSE cut
    /\ saved' = kept
    /\ Boot /\ UNCHANGED kept

Save(s) ==
    \/ Begin(s) \/ WriteKey(s) \/ DiskFull(s) \/ Close(s) \/ CloseFails(s)
    \/ KeepOld(s) \/ Swap(s) \/ SwapFails(s)

Next == Change \/ (\E s \in Savers : Save(s)) \/ Flush \/ Restart \/ PowerLoss

Spec == Init /\ [][Next]_vars

-----------------------------------------------------------------------------

TypeOK ==
    /\ {path, bak, tmp} \subseteq File /\ dirty \subseteq {"path", "bak", "tmp"}
    /\ mem \in 0..MaxGen /\ {saved, kept} \subseteq 0..MaxGen
    /\ pc \in [Savers -> {"idle", "write", "close", "swap"}]
    /\ writes \in [Savers -> 0..MaxGen]
    /\ lock = {s \in Savers : pc[s] # "idle"} /\ cut \in {"no", "risk", "yes"}

(* Whenever the program ends and is started again, it comes up with whole  *)
(* settings, and not with older ones than it saved last; after a power     *)
(* loss, not older than what was in place and on the card ("a crash or     *)
(* concurrent writer can never leave a half-written ini", saveConfig).     *)
SettingsSurvive ==
    saved > 0 /\ cut # "yes" => Loaded.keys = Whole /\ Loaded.gen >= saved
=============================================================================
