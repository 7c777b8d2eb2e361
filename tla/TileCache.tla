------------------------------ MODULE TileCache ------------------------------
(***************************************************************************)
(* The map under the radar (osm/osm.go, and the radar's screen in          *)
(* main.go): tiles in memory and on disk, the mosaic that is made of them, *)
(* and the web server that hands them on (web/server.go).                  *)
(*                                                                         *)
(* A view is a layer at a range.  The UI's loop starts a goroutine for the *)
(* view that is shown when its mosaic is missing or was made elsewhere; it *)
(* fetches tile by tile, writes each to disk, and stores mosaic, centre    *)
(* and flag one after the other, without a lock.                           *)
(***************************************************************************)
EXTENDS Naturals, FiniteSets

CONSTANTS
    Views,       \* layers x ranges
    Spots,       \* where the view can be panned to; 0 is the receiver
    Cover,       \* the tiles of a mosaic around a spot
    WebTiles,    \* the tiles the web's map asks for
    MaxKeys,     \* bound: key presses
    MaxFails,    \* bound: requests that fail
    MaxDeaths    \* bound: ends of the process

Tile == Views \X UNION {Cover[s] : s \in Spots}

VARIABLES
    view, pan,       \* adsbLayerIdx and adsbRangeIdx; panX, panY
    mosaic, ctr,     \* by view: the spot and tiles of the image, or Nothing; its centre
    fetch,           \* by view: the goroutine, or Nothing while adsbFetching is off
    page,            \* the web's request for a tile, or Nothing
    mem, disk,       \* by tile: in memory; "none", "part", "whole"
    shown,           \* the last frame: the mosaic, and the centre it was placed by
    served,          \* what the web was given last
    keys, fails, deaths

vars == <<view, pan, mosaic, ctr, fetch, page, mem, disk, shown, served, keys, fails, deaths>>

Nothing == [at |-> "none"]
UIVars  == <<view, pan, mosaic, ctr, shown, keys>>
WebVars == <<page, served>>

-----------------------------------------------------------------------------

Fresh ==
    /\ mosaic' = [k \in Views |-> Nothing] /\ ctr' = [k \in Views |-> 0]
    /\ fetch' = [k \in Views |-> Nothing] /\ page' = Nothing /\ shown' = <<Nothing, 0>> /\ served' = "none"
    /\ mem' = [t \in Tile |-> FALSE]

Init ==
    /\ view \in Views /\ pan = 0
    /\ mosaic = [k \in Views |-> Nothing] /\ ctr = [k \in Views |-> 0]
    /\ fetch = [k \in Views |-> Nothing] /\ page = Nothing /\ shown = <<Nothing, 0>> /\ served = "none"
    /\ mem = [t \in Tile |-> FALSE] /\ disk = [t \in Tile |-> "none"]
    /\ keys = 0 /\ fails = 0 /\ deaths = 0

Key == keys < MaxKeys /\ keys' = keys + 1 /\ UNCHANGED <<fetch, page, served, disk, fails, deaths>>

\* The d-pad, and START.
Pan ==
    /\ Key /\ \E s \in Spots \ {pan} : pan' = s
    /\ UNCHANGED <<view, mosaic, ctr, mem, shown>>

\* L1, R1, L2, R2: another view of the same place; adsbFreeMosaics.
Switch ==
    /\ Key /\ \E v \in Views \ {view} : view' = v
    /\ mosaic' = [k \in Views |-> Nothing] /\ UNCHANGED <<pan, ctr, mem, shown>>

\* The menu's row clears the memory, then the directory, then the mosaics.
Clear ==
    /\ keys < MaxKeys /\ keys' = keys + 1
    /\ mem' = [t \in Tile |-> FALSE] /\ disk' = [t \in Tile |-> "none"]
    /\ mosaic' = [k \in Views |-> Nothing]
    /\ UNCHANGED <<view, pan, ctr, fetch, page, shown, served, fails, deaths>>

Begin == [at |-> "next", spot |-> pan, tile |-> "none", todo |-> Cover[pan], got |-> {}]

FrameOnce ==    \* bug: only a missing mosaic is fetched
    /\ fetch' = IF mosaic[view] = Nothing /\ fetch[view] = Nothing
                THEN [fetch EXCEPT ![view] = Begin] ELSE fetch
    /\ shown' = <<mosaic[view], ctr[view]>>
    /\ UNCHANGED <<view, pan, mosaic, ctr, page, mem, disk, served, keys, fails, deaths>>
\* A frame of the radar: the mosaic is placed by the centre that was read
\* before, and one is fetched when it is missing or the view has drifted off.
Frame ==
    /\ fetch' = IF (mosaic[view] = Nothing \/ ctr[view] # pan) /\ fetch[view] = Nothing
                THEN [fetch EXCEPT ![view] = Begin] ELSE fetch
    /\ shown' = <<mosaic[view], ctr[view]>>
    /\ UNCHANGED <<view, pan, mosaic, ctr, page, mem, disk, served, keys, fails, deaths>>

-----------------------------------------------------------------------------

At(k, a) == fetch[k].at = a
To(k, a, t) == fetch' = [fetch EXCEPT ![k].at = a, ![k].tile = t]
Goroutine == UNCHANGED <<view, pan, shown, page, served, keys, deaths>>

\* tile: memory, then disk if it decodes, then the network.
Drawn(k, t) ==
    fetch' = [fetch EXCEPT ![k].at = "next", ![k].todo = @ \ {t}, ![k].got = @ \cup {t}]
FromCache(k, t) ==
    /\ mem[<<k, t>>] \/ disk[<<k, t>>] = "whole"
    /\ mem' = [mem EXCEPT ![<<k, t>>] = TRUE] /\ Drawn(k, t)
    /\ UNCHANGED <<mosaic, ctr, disk, fails>>

\* No answer, another status, or what does not decode leaves a gap.
Failed(k, t) ==
    /\ ~mem[<<k, t>>] /\ disk[<<k, t>>] # "whole"
    /\ fails < MaxFails /\ fails' = fails + 1
    /\ fetch' = [fetch EXCEPT ![k].todo = @ \ {t}] /\ UNCHANGED <<mosaic, ctr, mem, disk>>

Fetched(k, t) ==
    /\ ~mem[<<k, t>>] /\ disk[<<k, t>>] # "whole"
    /\ mem' = [mem EXCEPT ![<<k, t>>] = TRUE]
    /\ To(k, "write", t) /\ UNCHANGED <<mosaic, ctr, disk, fails>>

\* os.WriteFile cuts the file, then writes it; the cache may be cleared before
\* (there is no directory) or in between (the file is written unseen).
Writes(k, t) ==
    /\ \/ At(k, "write") /\ disk' = [disk EXCEPT ![<<k, t>>] = "part"] /\ To(k, "wrote", t)
       \/ At(k, "write") /\ UNCHANGED disk /\ Drawn(k, t)
       \/ /\ At(k, "wrote") /\ Drawn(k, t)
          /\ disk' = [disk EXCEPT ![<<k, t>>] = IF @ = "none" THEN @ ELSE "whole"]
    /\ UNCHANGED <<mosaic, ctr, mem, fails>>

\* The end of the goroutine: the mosaic, then its centre and the flag (a frame
\* between these two finds nothing to do that it does not find after them).
Lands(k) ==
    /\ \/ /\ At(k, "next") /\ fetch[k].todo = {} /\ To(k, "landed", "none")
          /\ mosaic' = [mosaic EXCEPT ![k] = [at |-> "made", spot |-> fetch[k].spot, got |-> fetch[k].got]]
          /\ UNCHANGED ctr
       \/ /\ At(k, "landed") /\ ctr' = [ctr EXCEPT ![k] = fetch[k].spot]
          /\ fetch' = [fetch EXCEPT ![k] = Nothing] /\ UNCHANGED mosaic
    /\ UNCHANGED <<mem, disk, fails>>

\* Mosaic asks for the tiles one by one, in an order that does not matter.
Fetching(k) ==
    /\ Goroutine
    /\ \/ Lands(k)
       \/ At(k, "next") /\ \E t \in fetch[k].todo : FromCache(k, t) \/ Failed(k, t) \/ Fetched(k, t)
       \/ fetch[k].at \in {"write", "wrote"} /\ Writes(k, fetch[k].tile)

-----------------------------------------------------------------------------

Web == UNCHANGED <<view, pan, mosaic, ctr, fetch, shown, keys, deaths>>

\* TileBytes hands out what is on disk as it is, and remembers it if it decodes.
Serve(t) ==
    /\ page = Nothing /\ disk[t] # "none" /\ served' = disk[t]
    /\ mem' = IF mem[t] THEN mem ELSE [mem EXCEPT ![t] = disk[t] = "whole"]
    /\ UNCHANGED <<page, disk, fails>>

\* From upstream: what does not decode is handed on, and not kept.
Ask(t) ==
    /\ page = Nothing /\ disk[t] = "none"
    /\ \/ page' = [at |-> "write", tile |-> t] /\ mem' = [mem EXCEPT ![t] = TRUE]
          /\ UNCHANGED <<served, fails>>
       \/ /\ fails < MaxFails /\ fails' = fails + 1 /\ served' \in {"none", "other"}
          /\ UNCHANGED <<page, mem>>
    /\ UNCHANGED disk

Keep ==
    /\ \/ page.at = "write" /\ disk' = [disk EXCEPT ![page.tile] = "part"]
          /\ page' = [page EXCEPT !.at = "wrote"] /\ UNCHANGED served
       \/ /\ page.at = "write" /\ UNCHANGED disk /\ page' = Nothing /\ served' = "whole"
       \/ /\ page.at = "wrote" /\ page' = Nothing /\ served' = "whole"
          /\ disk' = [disk EXCEPT ![page.tile] = IF @ = "none" THEN @ ELSE "whole"]
    /\ UNCHANGED <<mem, fails>>

Serving == Web /\ (Keep \/ \E t \in WebTiles : Serve(t) \/ Ask(t))

\* The process ends, wherever it is, and starts: the disk is what remains.
Restart ==
    /\ deaths < MaxDeaths /\ deaths' = deaths + 1 /\ Fresh /\ pan' = 0
    /\ UNCHANGED <<view, disk, keys, fails>>

Next ==
    \/ Pan \/ Switch \/ Clear \/ Frame \/ Serving \/ Restart
    \/ \E k \in Views : Fetching(k)

Spec == Init /\ [][Next]_vars

\* The UI draws on, and a fetch is bounded by the client's timeout (15 s).
Fairness == WF_vars(Frame) /\ \A k \in Views : WF_vars(Fetching(k))

FairSpec == Spec /\ Fairness

-----------------------------------------------------------------------------

TypeOK ==
    /\ view \in Views /\ pan \in Spots
    /\ disk \in [Tile -> {"none", "part", "whole"}] /\ mem \in [Tile -> BOOLEAN]
    /\ \A k \in Views :
         /\ fetch[k] # Nothing => fetch[k].spot \in Spots /\ fetch[k].todo \subseteq Cover[fetch[k].spot]
         /\ mosaic[k] # Nothing => mosaic[k].got \subseteq Cover[mosaic[k].spot]

(* However the view is panned and switched while tiles are on their way,   *)
(* the map that is shown is in the end the one of the place that is looked *)
(* at.                                                                     *)
MapFollows ==
    <>[](shown[1] # Nothing /\ shown[1].spot = pan /\ shown[2] = pan)

\* Refuted: the page is given what a write has not finished, and keeps it a day.
ServesWhole == served # "part"

\* Refuted: the mosaic lands before its centre.
PlacedRight == shown[1] # Nothing => shown[1].spot = shown[2]

\* Refuted (main.go:1138: all but the one in flight are freed): a view that was
\* left lands when it is no longer shown, and stays.
OneMosaic == \A k \in Views \ {view} : mosaic[k] = Nothing

\* Refuted: a gap stays as long as the view does.
GapsFill == <>[](shown[1] # Nothing => shown[1].got = Cover[pan])
==============================================================================
