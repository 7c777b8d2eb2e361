------------------------------- MODULE MCLive --------------------------------
(***************************************************************************)
(* The connections, and what must go on: the receive session, the feed of  *)
(* the radar, the map's tiles, the queue of a decoder's process, and the   *)
(* web server.  They share no state in the model; a behaviour runs one of  *)
(* them (see MCPanel), under the fairness of its own goroutines.           *)
(***************************************************************************)
EXTENDS RadioSession

CONSTANTS
    Browsers,                                      \* connections of browsers
    FeedHosts, FeedOff,                            \* FeedClient
    MapViews, MapCover, PageViews, PageCover, PageTiles,    \* TileCache, twice
    Ports, MaxStarts, TaskCap, Highest, MaxTurns, ChanCap, MaxBlocks, LogCap, MaxLines, \* WebServer
    QueueCap, PipeCap, MsgCap, MaxChunks, ChunkLens, MaxIn                          \* EngineQueue

ASSUME LiveAssumption ==
    /\ "nobody" \notin Browsers /\ {TaskCap, LogCap} \subseteq Nat \ {0}
    /\ {MaxStarts, Highest, MaxTurns, ChanCap, MaxBlocks, MaxLines} \subseteq Nat
    /\ {QueueCap, PipeCap, MsgCap, MaxChunks, MaxIn} \subseteq Nat /\ ChunkLens \subseteq Nat

VARIABLES
    part,
    feedHost, server, phase, at, connected, wait, cancelled, choices, turned,
    view, pan, mosaic, ctr, fetch, page, mem, disk, shown, served, keys, fails, deaths,
    fed, queue, pipe, writer, proc, dead, quit, reads, msgs, dropped, len, pos, came, outs,
    enabled, port, inst, srv, stopping, sock, samplers, unlucky,
    range, tasks, cmdMu, req, asked, excused, panel, wished, writers, turns,
    ear, pushed, prev, rate, joins, log, lines

session == vars
feed    == <<feedHost, server, phase, at, connected, wait, cancelled, choices, turned>>
tiles   == <<view, pan, mosaic, ctr, fetch, page, mem, disk, shown, served, keys, fails, deaths>>
engine  == <<fed, queue, pipe, writer, proc, dead, quit, reads, msgs, dropped, len, pos, came, outs>>
content == <<range, tasks, cmdMu, req, asked, excused, panel, wished, writers, turns,
             ear, pushed, prev, rate, joins, log, lines>>
web     == <<enabled, port, inst, srv, stopping, sock, samplers, unlucky, content>>

\* The Beast feed, whose reads have a deadline.
Feed == INSTANCE FeedClient WITH
    Host <- FeedHosts, Off <- FeedOff, HasDeadline <- TRUE, MaxChoices <- 2, MaxTurns <- 2,
    host <- feedHost, backoff <- wait, turns <- turned

\* The map alone, panned and switched.
Tiles == INSTANCE TileCache WITH
    Views <- MapViews, Spots <- {0, 1}, Cover <- MapCover, WebTiles <- {},
    MaxKeys <- 2, MaxFails <- 1, MaxDeaths <- 0
\* The map beside a browser that asks for tiles, and restarts.
Page == INSTANCE TileCache WITH
    Views <- PageViews, Spots <- {0, 1}, Cover <- PageCover, WebTiles <- PageTiles,
    MaxKeys <- 1, MaxFails <- 1, MaxDeaths <- 1

\* For the run: one tile each way the view is panned; one and two tiles.
OneTile  == [s \in {0, 1} |-> {"a"}]
TwoTiles == [s \in {0, 1} |-> IF s = 0 THEN {"a"} ELSE {"a", "b"}]
WebTile  == {<<"v", "a">>}

Engine == INSTANCE EngineQueue

Web == INSTANCE WebServer WITH Conn <- Browsers, QueueCap <- TaskCap, Top <- Highest, conn <- sock

SessionRest == Init /\ host = Off
FeedRest == Feed!Init /\ feedHost = FeedOff /\ \A h \in FeedHosts : server[h] = "serves"

AllInit ==
    /\ part \in {"session", "feed", "tiles", "page", "engine", "chunks",
                 "listener", "commands", "audio", "log"}
    /\ (IF part = "session" THEN Init ELSE SessionRest)
    /\ (IF part = "feed" THEN Feed!Init ELSE FeedRest)
    /\ (IF part = "tiles" THEN Tiles!Init ELSE Page!Init)
    /\ Engine!Init /\ (part # "engine" => reads)
    /\ Web!Init /\ (part # "listener" => port = CHOOSE p \in Ports : TRUE) /\ (part # "audio" => rate = 8)

InSession(Action) == part = "session" /\ Action /\ UNCHANGED <<part, feed, tiles, engine, web>>
InFeed(Action)    == part = "feed" /\ Action /\ UNCHANGED <<part, session, tiles, engine, web>>
InTiles(Action)   == part = "tiles" /\ Action /\ UNCHANGED <<part, session, feed, engine, web>>
InPage(Action)    == part = "page" /\ Action /\ UNCHANGED <<part, session, feed, engine, web>>
InEngine(Action)  == part = "engine" /\ Action /\ UNCHANGED <<part, session, feed, tiles, web>>
InChunks(Action)  == part = "chunks" /\ Action /\ UNCHANGED <<part, session, feed, tiles, web>>
InWeb(p, Action)  == part = p /\ Action /\ UNCHANGED <<part, session, feed, tiles, engine>>

AllVars == <<part, session, feed, tiles, engine, web>>

\* All but the session may come to the end of their bounds.
Rest == part # "session" /\ UNCHANGED AllVars

AllNext ==
    \/ Rest
    \/ InSession(Next) \/ InFeed(Feed!Next) \/ InTiles(Tiles!Next) \/ InPage(Page!Next)
    \/ InEngine(Engine!Running) \/ InChunks(Engine!Resampling)
    \/ InWeb("listener", Web!Listening) \/ InWeb("commands", Web!Commanding)
    \/ InWeb("audio", Web!Streaming) \/ InWeb("log", Web!Logging)


\* The fairness of each component, for the behaviours it runs in.
AllSpec ==
    /\ AllInit /\ [][AllNext]_AllVars
    /\ WF_AllVars(InSession(\/ Idle \/ Begin \/ ReadHost \/ EnsureUsb \/ DialFails \/ Register
                            \/ SetupOK \/ SetupFails \/ Failed \/ Waited
                            \/ run = "stream" /\ ~Open(cur) /\ StreamEnds)
                  \/ InFeed(Feed!Run) \/ InTiles(Tiles!Frame) \/ InPage(Page!Frame)
                  \/ InEngine(Engine!Writer)
                  \/ InWeb("listener", Web!EndStop /\ UNCHANGED content))
    /\ \A k \in MapViews \cup PageViews :
         WF_AllVars(\/ InTiles(k \in MapViews /\ Tiles!Fetching(k))
                    \/ InPage(k \in PageViews /\ Page!Fetching(k)))
    /\ SF_AllVars(InSession(EnsureUsb /\ run' = "dial"))
    /\ SF_AllVars(InSession(\E c \in ConnId : DialOK(c))) /\ SF_AllVars(InSession(SetupOK))
    /\ WF_AllVars(InSession(ReleaseUsb \/ CloseOld))

-----------------------------------------------------------------------------

(* Every part stays within its types and bounds.                           *)
LiveTypeOK ==
    /\ part = "session" => TypeOK
    /\ part = "feed" => Feed!TypeOK
    /\ part = "tiles" => Tiles!TypeOK
    /\ part = "page" => Page!TypeOK
    /\ part \in {"engine", "chunks"} => Engine!TypeOK /\ Engine!EveryFiveHalves
    /\ Web!TypeOK

(* A host that stays chosen is streamed from, once the outages are over    *)
(* (RadioSession).                                                         *)
SessionReconnects == part = "session" => Reconnects

(* What was broken off comes back: the radar's feed after its server's     *)
(* outages (FeedClient), and the map after panning, switching and failed   *)
(* tiles (TileCache).                                                      *)
FeedAndMapComeBack ==
    /\ part = "feed" => Feed!FeedComesBack
    /\ part = "tiles" => Tiles!MapFollows
    /\ part = "page" => Page!MapFollows

(* What is told to end ends: a decoder's writer, in the middle of a write  *)
(* (EngineQueue), and the web server, with requests that wait for the lock *)
(* it holds (WebServer).                                                   *)
EndsWhenTold ==
    /\ part = "engine" => Engine!WriterEnds
    /\ part = "listener" => Web!StopReturns

(* The page's changes end as they were made, its audio keeps up, its log   *)
(* holds the newest lines, and it is served where it was told to be        *)
(* (WebServer).                                                            *)
PageFollows ==
    /\ part = "listener" => Web!ServedWhereChosen
    /\ part = "commands" => Web!EdgesKept
    /\ part = "audio" => Web!KeepsUp
    /\ part = "log" => Web!NewestKept
==============================================================================
