-------------------------------- MODULE Menu --------------------------------
(***************************************************************************)
(* The screens of the console (main.go: activateItem, handlePress and the  *)
(* event loop's MENU key): the menu's pages, the lists of servers and      *)
(* bookmarks, the keyboard that edits their entries, and the cursors that  *)
(* index all of these.  START never gets to handlePress: the event loop    *)
(* takes it for the hold-to-exit.                                          *)
(***************************************************************************)
EXTENDS Naturals, Integers, Sequences

CONSTANTS
    Lists,      \* the lists of the behaviour
    KbRow,      \* the lengths of kbRows
    MaxLen      \* bound: entries of a list

VARIABLES
    ui,         \* uiMode
    page, sel,  \* menuPage, menuSel
    len,        \* of each list: its entries
    cur,        \* the cursor of the list that is open
    live,       \* of each list: a server of it is in use
    target,     \* kbTarget: <<a list>>, or <<page, row>> of a setting
    editIdx,    \* hostEditIdx
    kbR, kbC,   \* the keyboard's cursor
    chosen      \* history: the entry the user asked to edit, -1 for a new one

menu  == <<page, sel>>
lists == <<len, cur, live>>
kb    == <<target, editIdx, kbR, kbC, chosen>>
vars  == <<ui, menu, lists, kb>>

Pages == <<"rx", "audio", "disp", "adsb", "gps", "aprs", "ft8", "station", "sys">>
Rows  == [root |-> 11, rx |-> 11, audio |-> 7, disp |-> 3, adsb |-> 11, gps |-> 13,
          aprs |-> 19, ft8 |-> 15, station |-> 5, sys |-> 7, ft8sub |-> 8]

\* The rows that open a screen; the others change a setting in place.
Opens == [root    |-> {<<8, "bm">>},
          rx      |-> {<<0, "host">>, <<2, "freq">>},
          adsb    |-> {<<0, "radar">>, <<6, "beast">>, <<7, "ais">>, <<9, "aislog">>}
                          \cup {1, 2, 5} \X {"kb"},
          aprs    |-> {<<11, "radar">>, <<12, "aprslog">>} \cup {1, 2, 5, 6, 8, 16, 17} \X {"kb"},
          ft8     |-> {<<2, "rtty">>, <<13, "sstv">>},
          station |-> (0..3) \X {"kb"},
          sys     |-> {<<3, "sysmon">>, <<4, "logs">>},
          ft8sub  |-> {<<2, "bands">>, <<3, "map">>}]

\* The page and row a screen closes to; the row of a page that does not
\* have the item is 0.
ClosesTo == [bm |-> <<"root", 8>>, beast |-> <<"adsb", 6>>, ais |-> <<"adsb", 7>>,
             radar |-> <<"adsb", 0>>, aislog |-> <<"adsb", 9>>, aprslog |-> <<"aprs", 12>>,
             rtty |-> <<"station", 0>>, sstv |-> <<"ft8", 13>>, map |-> <<"station", 0>>,
             sysmon |-> <<"sys", 2>>, logs |-> <<"sys", 3>>, bands |-> <<"ft8sub", 2>>]

Lead(l)  == CASE l = "host" -> 2 [] l = "bm" -> 0 [] OTHER -> 1
Count(l) == Lead(l) + len[l] + 1
OnEntry  == ui \in Lists /\ cur >= Lead(ui) /\ cur < Count(ui) - 1
OnLast   == ui \in Lists /\ cur = Count(ui) - 1

Init ==
    /\ ui = "main" /\ page = "root" /\ sel = 0
    /\ len \in [Lists -> 0..1] /\ (\A l \in Lists \ {"bm"} : len[l] = 1)
    /\ cur = 0 /\ live \in [Lists -> BOOLEAN]
    /\ target = <<"none">> /\ editIdx = -1 /\ kbR = 0 /\ kbC = 0 /\ chosen = -1

To(screen) == ui' = screen

\* What opening a list or the keyboard sets, and nobody reads before.
Done == cur' = 0 /\ target' = <<"none">> /\ kbR' = 0 /\ kbC' = 0 /\ chosen' = -1

-----------------------------------------------------------------------------
(* The menu *)

MenuTap ==
    /\ To(IF ui \in {"freq", "menu", "ft8log", "kb", "host", "sysmon", "logs", "bm", "map"}
          THEN "main" ELSE "menu")
    /\ Done /\ UNCHANGED <<menu, len, live, editIdx>>

MenuMove ==
    /\ ui = "menu"
    /\ \E d \in {1, Rows[page] - 1} : sel' = (sel + d) % Rows[page]
    /\ UNCHANGED <<ui, page, lists, kb>>

OpenPageAt(p, row) == page' = p /\ sel' = row /\ UNCHANGED <<ui, lists, kb>>

OpenPage(p) == OpenPageAt(p, 0)

MenuOpen ==
    /\ ui = "menu"
    /\ \/ page = "root" /\ sel < 8 /\ OpenPage(Pages[sel + 1])
       \/ page = "root" /\ sel = 9 /\ OpenPage("sys")
       \/ page = "ft8" /\ sel = 0 /\ OpenPage("ft8sub")

MenuBack ==
    /\ ui = "menu"
    /\ \/ page = "ft8sub" /\ OpenPageAt("ft8", 0)
       \/ page \notin {"ft8sub", "root"} /\ OpenPageAt("root", 0)
       \/ page = "root" /\ To("main") /\ UNCHANGED <<menu, lists, kb>>

\* A screen other than the keyboard; the cursor of a list starts at its top.
OpenScreen ==
    /\ ui = "menu" /\ page \in DOMAIN Opens
    /\ \E s \in (DOMAIN ClosesTo \cup {"host", "freq"}) \cap (Lists \cup
               {"freq", "radar", "aislog", "aprslog", "rtty", "sstv", "map", "sysmon", "logs", "bands"}) :
           /\ <<sel, s>> \in Opens[page] /\ To(s) /\ cur' = 0
    /\ UNCHANGED <<menu, len, live, kb>>

\* B, or what else closes a screen; the list of hosts, the dial and the
\* band's choice leave the menu's row as it is or go to the main screen.
Close ==
    /\ ui \in DOMAIN ClosesTo
    /\ To("menu") /\ page' = ClosesTo[ui][1] /\ sel' = ClosesTo[ui][2]
    /\ Done /\ UNCHANGED <<len, live, editIdx>>

Leave ==
    /\ \/ ui \in {"host", "freq"} /\ To("menu")
       \/ ui \in {"ft8log", "cwlog", "bands"} /\ To("main")
    /\ Done /\ UNCHANGED <<menu, len, live, editIdx>>

\* SELECT on the main screen, and from the CW log on to the FT8 log.
Logs ==
    /\ \/ ui = "main" /\ \E s \in {"cwlog", "ft8log", "aislog"} : To(s)
       \/ ui = "cwlog" /\ To("ft8log")
    /\ UNCHANGED <<menu, lists, kb>>

-----------------------------------------------------------------------------
(* The lists: leading rows that switch off or choose the dongle, the       *)
(* entries, and a last row that adds one.                                  *)

ListMove ==
    /\ ui \in Lists
    /\ \E d \in {1, Count(ui) - 1} : cur' = (cur + d) % Count(ui)
    /\ UNCHANGED <<ui, menu, len, live, kb>>

\* A on a leading row or an entry
Choose ==
    /\ ui \in Lists /\ ~OnLast
    /\ live' = [live EXCEPT ![ui] = ui # "bm" /\ cur > 0]
    /\ CASE ui = "bm"   -> To("main") /\ UNCHANGED menu
         [] ui = "host" -> To("menu") /\ UNCHANGED menu
         [] OTHER -> To("menu") /\ page' = ClosesTo[ui][1] /\ sel' = ClosesTo[ui][2]
    /\ Done /\ UNCHANGED <<len, editIdx>>

AddBookmark ==
    /\ ui = "bm" /\ OnLast /\ len[ui] < MaxLen
    /\ len' = [len EXCEPT ![ui] = @ + 1] /\ cur' = len[ui]
    /\ UNCHANGED <<ui, menu, live, kb>>

OpenKb(t, idx) ==
    /\ To("kb") /\ target' = t /\ kbR' = 0 /\ kbC' = 0 /\ editIdx' = idx
    /\ UNCHANGED <<menu, lists>>

\* Bug form: the index of the last edit stays.
AddKeeping ==
    /\ OnLast /\ ui # "bm" /\ len[ui] < MaxLen
    /\ OpenKb(<<ui>>, editIdx) /\ chosen' = -1

Add ==
    /\ OnLast /\ ui # "bm" /\ len[ui] < MaxLen
    /\ OpenKb(<<ui>>, -1) /\ chosen' = -1

\* X; a bookmark is edited where the cursor is.
Edit ==
    /\ OnEntry /\ chosen' = cur - Lead(ui)
    /\ OpenKb(<<ui>>, IF ui = "bm" THEN editIdx ELSE cur - Lead(ui))

EditSetting ==
    /\ ui = "menu" /\ page \in DOMAIN Opens /\ <<sel, "kb">> \in Opens[page]
    /\ OpenKb(<<page, sel>>, editIdx) /\ chosen' = -1

\* Y; a list of servers keeps the one in use.
Delete ==
    /\ OnEntry
    /\ LET left == IF len[ui] = 1 /\ ui # "bm" /\ live[ui] THEN 1 ELSE len[ui] - 1
           rows == Lead(ui) + left
       IN  /\ len' = [len EXCEPT ![ui] = left]
           /\ cur' = IF cur > rows THEN rows ELSE cur
    /\ UNCHANGED <<ui, menu, live, kb>>

-----------------------------------------------------------------------------
(* The keyboard *)

KbMove ==
    /\ ui = "kb"
    /\ \/ /\ \E d \in {1, 3} : kbR' = (kbR + d) % 4
          /\ kbC' = IF kbC >= KbRow[kbR' + 1] THEN KbRow[kbR' + 1] - 1 ELSE kbC
       \/ /\ \E d \in {1, KbRow[kbR + 1] - 1} : kbC' = (kbC + d) % KbRow[kbR + 1]
          /\ UNCHANGED kbR
    /\ UNCHANGED <<ui, menu, lists, target, editIdx, chosen>>

\* Saves the text, or finds it empty.
SaveEntry(text) ==
    /\ ui = "kb" /\ target[1] \in Lists \ {"bm"}
    /\ LET l   == target[1]
           new == text /\ editIdx \notin 0..(len[l] - 1)
           at  == IF new THEN len[l] ELSE editIdx
       IN  /\ len' = [len EXCEPT ![l] = IF new THEN @ + 1 ELSE @]
           /\ cur' = IF text THEN at ELSE cur
           /\ live' = [live EXCEPT ![l] = text \/ @]
           /\ To(l)
    /\ editIdx' = -1 /\ target' = <<"none">> /\ kbR' = 0 /\ kbC' = 0 /\ chosen' = -1
    /\ UNCHANGED menu

SaveOther ==
    /\ ui = "kb" /\ target[1] \notin Lists \ {"bm"}
    /\ IF target = <<"bm">> THEN To("bm") /\ UNCHANGED menu
       ELSE To("menu") /\ page' = target[1] /\ sel' = target[2]
    /\ target' = <<"none">> /\ kbR' = 0 /\ kbC' = 0 /\ chosen' = -1
    /\ UNCHANGED <<lists, editIdx>>

Next ==
    \/ MenuTap \/ MenuMove \/ MenuOpen \/ MenuBack
    \/ OpenScreen \/ Close \/ Leave \/ Logs
    \/ ListMove \/ Choose \/ AddBookmark \/ Add \/ Edit \/ EditSetting \/ Delete
    \/ KbMove \/ SaveOther \/ \E text \in BOOLEAN : SaveEntry(text)

Spec == Init /\ [][Next]_vars

-----------------------------------------------------------------------------

TypeOK ==
    /\ page \in DOMAIN Rows /\ sel \in Nat
    /\ len \in [Lists -> 0..MaxLen] /\ cur \in Nat /\ live \in [Lists -> BOOLEAN]
    /\ {editIdx, chosen} \subseteq -1..(MaxLen - 1)
    /\ ui \in {"main", "menu", "freq", "kb", "ft8log", "cwlog", "host"} \cup DOMAIN ClosesTo

(* No press indexes past the end of what it acts on: the page's rows, a    *)
(* list that was added to, deleted from and edited meanwhile, the          *)
(* keyboard (handlePress).                                                 *)
RowsInRange ==
    /\ sel < Rows[page]
    /\ ui \in Lists => cur < Count(ui)
    /\ kbR < 4 /\ kbC < KbRow[kbR + 1]

(* The keyboard writes to the entry the user opened it on, or adds one if  *)
(* that was asked, whatever edits were abandoned before (hostEditIdx: "-1  *)
(* = new").                                                                *)
EditsItsEntry ==
    ui = "kb" /\ target[1] \in Lists =>
        chosen = IF target = <<"bm">> THEN cur ELSE editIdx

-----------------------------------------------------------------------------
(* Two statements that do not hold.                                        *)

(* A screen closes to the row that opened it ("Hardcoded row numbers       *)
(* drifted every time a row was inserted", menuRow).                       *)
ClosesWhereOpened ==
    [][Close /\ ui \notin Lists => menu' = menu]_vars

(* After an entry was edited the list's cursor is on it.                   *)
CursorOnEdited ==
    [][SaveEntry(TRUE) => LET l == target[1] IN
           cur' = Lead(l) + (IF chosen = -1 THEN len[l] ELSE chosen)]_vars
=============================================================================
