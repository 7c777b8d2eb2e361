# Verification of SDR RG35xx Plus

TLA+ specifications of the SDR receiver in this repository (a Go program for a
handheld console: an rtl_tcp client, a demodulator chain, a screen, a web page
and a dozen decoders), the TLC runs that check them on small instances, and
theorems about them that TLAPS checks for every value of the constants.

    tlc -config IQServer.cfg IQServer          # a run; PROJECT.json lists them all
    tlapm IQServerProofs.tla                   # the proofs of a module

Paths below are relative to `src/`; "radio.go" is `internal/radio/radio.go`.

1. Inventory · 2. Plan · 3. Modules · 4. Runs, bounds, fairness · 5. Proofs ·
6. What the code does not do · 7. What is not modelled

## 1. Inventory

The program is one process. Its threads, and what they share:

| Thread | Code | Shares |
|---|---|---|
| UI loop | `main.go`, `internal/ui` | calls every setter of `Radio`, reads `Snapshot` |
| radio `Run` goroutine | radio.go | owns the rtl_tcp session and the DSP chain's input, broadcasts IQ, feeds the audio |
| HTTP goroutines | `internal/web/server.go` | `handleCmd`, one at a time under `cmdMu`, calls the same setters |
| the rate watchdog of a session | radio.go:630–770 | the DSP's rate, the chain |
| `beaconLoop` | radio.go:1990 | the speaker, the resampler |
| writers and readers of the sidecar processes | `internal/nr`, `deepcw`, `ft8ts` | bounded queues, a process that may die |
| the speaker's healer and the player's waiter | `internal/audio/audio.go` | the player process, which may die |
| network receivers | `aprs/is.go`, `adsb/beast.go`, `ais/ais.go`, `gps` | the stores the UI draws |
| the IQ server's goroutines | `internal/rtltcp/server.go` | the queue of each client |
| reporter, updater, downloads | `internal/pskreporter`, `main.go` | queues and files |

`Radio` is the hub: one struct and one mutex `r.mu`. Its methods take the mutex
for the fields, copy a pointer to the chain or an engine, let go of it, and
finish the work outside. Most of what can go wrong in this program goes wrong
between those two halves, which is why most modules below are about them.

Components, in the order of what a fault in them costs.

**IQ server** (`internal/rtltcp/server.go`).
State: the set of clients, the closed flag, a queue of eight blocks per client,
one goroutine per client. Operations: accept/add, `Broadcast` (from the radio's
read loop), `run` (handshake, drain, coalesce up to 48 KiB, write with a
deadline, flush), `Close`. Hard: a queue that fills up, a write that fails while
`Broadcast` offers the next block, a connection accepted while `Close` runs, a
`sync.Once` whose body another goroutine is in. Correct when a client gets an
unbroken piece of the stream or is dropped, and when no client ever holds up
the reception.

**Tuner** (radio.go: `SetFreq`, `syncAPRSOffset`, `SetAPRSEnabled`,
`SetAPRSFreq`, `SetDirectSamplingMode`, the tuning half of `session`, and what
`SetMode`, `SetBandwidth`, `SetCaptureRate` and the rate watchdog do to it).
State: the dial, the local oscillator, the passband offset of the chain, the
offset of the APRS branch, the direct-sampling mode, what the server was last
told, and the rate and bandwidth that say how far dial and channel may sit from
the LO. Hard: the set-up of a session sends what it read before it let go of
`r.mu`, the setters finish outside the lock and call each other, the chain is
rebuilt under a caller that holds the old one. Correct when LO plus offset is
the dial, at the server and in the chain.

**Session** (radio.go: `Run`, `session`, `SetHost`; `usb.go`; `rtltcp.go`).
State: the host, the connection, the back-off, the local server process for a
dongle. Hard: the host changes at any moment, every step may fail, an rtl_tcp
server takes one client at a time. Correct when the chosen host is the one that
is streamed from, nothing is left open, and the receiver comes back after an
outage.

**Audio output** (`internal/audio/audio.go`).
State: the player process, `closed`/`userClosed`, `healing`, the delay. Hard:
the player dies while it is being healed, closed or written to. Correct when an
output that is open has a player or is about to have one, and `Close` returns.

**Modes and decoders** (radio.go: `SetMode`, `SetFT8Enabled`, `SetAISRFEnabled`,
`SetAPRSRFEnabled`, `SetBandwidth`, `applyAudioFx`, …).
State: the mode, a flag per decoder, what is attached to the live chain. Hard:
four places rebuild the chain and list by hand what to attach again; the
attachment is made outside the lock. Correct when what is reported on is
attached and the mode locks hold.

**Capture rate** (radio.go: `SetCaptureRate`, `SetADSBRFEnabled`, the watchdog;
`dsp.SetIQRate`). State: four copies of one rate, among them a package variable.
Correct when the chain is dimensioned for what is streamed.

**Sidecars** (`internal/deepcw`, `internal/ft8ts`, `internal/nr`). State: an
engine, its process, a queue, the tap on the chain. Correct when no process is
orphaned and none is fed after its end.

**Beacon playback** (radio.go: `PlayBeacon`, `beaconLoop`, the receive loop's
ducking). State: the queued tones, the flag, the resampler's rate. Correct when
the receiver's audio stops for the beacon, comes back, at its own rate.

**Network services**: the ADS-B client (`adsb/beast.go`, framing of a byte
stream), the aircraft store (`adsb/decode.go`, pairing of position frames), the
reporter (`pskreporter`, batches over UDP). Correct when every frame comes out
however the stream is cut, an aircraft is where it is, and a spot is reported
once at most.

**Settings file** (`main.go`: `saveNow`, `saveConfig`, `loadConfig`). State:
three files (the settings, the backup, the one being written), the settings in
memory, a mutex. Hard: savers are goroutines, the process ends at any point, a
rename may reach the card before the data does. Correct when the program comes
up with whole settings, and not with older ones than it saved.

**APRS traffic** (`main.go`: the hook of the store, the scheduler in the render
loop, `sendAPRSNow`; `aprs/store.go`). State: the gate's ages and counters, the
time of the last beacon. Hard: the menu, the web page and the scheduler all send
beacons. Correct when the gate keeps to its budget and the scheduler to its
interval.

**Console screens** (`main.go`: `activateItem`, `handlePress`, the MENU key).
State: the screen, the page and its row, a cursor per list, the keyboard's
target and `hostEditIdx`. Hard: every screen can be left in several ways, each
with its own list of what to reset. Correct when no press indexes past the end
and an edit goes to the entry it was opened on.

**Settings** (`main.go`: the rows of every page, the on-screen keyboard, the
radar's keys, the web page's commands, `refill`, `saveConfig`, the start).
State: some forty settings, each four times: the value in the program, the text
in the map `cfg`, the line in the file, and what a start makes of that line.
Hard: nothing but habit keeps the four in step. Correct when what is set is
there after a restart.

**Update and bundles** (`main.go`: `runUpdate`, `fetchSidecar`, `fetchTarBundle`;
`ft8ts.Available`). State: the program's file, the bundles' files, temporary
files, a marker of the bundle's revision, two fetches at once. Hard: the server
is published to meanwhile, a transfer fails or comes out wrong, the power goes
between two steps. Correct when the program on the disk always starts and what
counts as installed is whole.

**Web panel** (`internal/web/server.go`, `audio.go`, the hooks in `main.go`).
State: the listener and its port, the requests in it, the lock of the commands,
what they post to the UI's goroutine, a queue per listening browser, the logs.
Hard: the listener is stopped with requests in it, a command reads what the UI
changes. Correct when it is served where it was told to be, stopping returns,
and a command's change is not lost.

**GPS receiver** (`internal/gps`; the clock in `main.go`). State: the port, the
fix made of two sentences, the offset of the clock. Correct when the clock is
set right.

**Map tiles** (`internal/osm/osm.go`; the radar's screen and the web's map).
State: tiles in memory and on disk, a mosaic, its centre and a flag per view.
Hard: goroutines store the three one after the other while the user pans.
Correct when the map that is shown ends up the one that is looked at.

**Keys and panel** (`internal/input`, `internal/backlight`; the event loop).
State: which key is held since when, what MENU is combined with, the panel's
level. Hard: the channel drops what does not fit, the loop is late. Correct
when the loop knows what is held and whether the panel is lit.

**Decoders**: Morse (`dsp/cw.go`, and the spots made of its text in `main.go`),
FT8 (`dsp/ft8.go`, `ft8_wf.go`, and the log, grids and map in `main.go`), APRS
and AIS frames (`aprs/afsk.go`, `ais/gmsk.go`), the ship table (`ais/ais.go`),
charts (`dsp/wefax.go`), pictures (`dsp/sstv.go`), and who feeds them
(`dsp/dsp.go`). State: where in a transmission they are, and what they keep of
it. Hard: noise before and in a transmission, the next one beginning before the
last is done with, a reader that looks at any time. Correct when what is sent
whole comes out, once.

**Queues and feeds**: the decoders' processes (`ft8ts.go`, `deepcw.go`: a queue
that drops, a writer that may be stuck) and the clients of network feeds
(`adsb/beast.go`, `ais/ais.go`). Correct when a writer ends when it is told to,
and a feed that was lost comes back.

**Not modelled** (section 7): signal processing, drawing, devices, tables.

Every hazard, with its line and the property that is about it, is in
`PROJECT.json` under "hazards".

## 2. Plan

Built first, because everything else stands on it:

1. `IQServer`, `IQServerProofs` — the only part where clients of the program meet its read loop.
2. `Tuner`, `TunerProofs` — what a receiver is for.
3. `RadioSession` — failure and recovery.
4. `RadioModes`, `CaptureRate`, `Sidecar`, `NoiseReducer` — the setters that leave the lock.
5. `AudioOutput`, `Beacon` — the speaker.
6. `BeastDecoder`, `CprStore`, `PskReporter` — the first network services.
7. `Settings`, `AprsTraffic`, `Menu` — what `main.go` keeps of its own.
8. `BlockStream` — what the IQ server promises, which `IQServer` implements.
9. `Preferences`, `Update`, `Gps`, `PadKeys`, `Backlight` — what surrounds the receiver.
10. `WebServer`, `TileCache`, `EngineQueue`, `FeedClient` — what must go on or come to an end.
11. `CwKeying`, `CwSpots`, `Ft8Ring`, `Ft8Traffic`, `AfskHdlc`, `AisHdlc`, `AisStore`, `Wefax`, `Sstv`, `Monitors` — the decoders, each with its sender.

They join the union runs (section 3), so the number of runs stays small.

Then the proofs, each beside the union whose properties it states:
`ServicesProofs`, `ModesProofs` and `ControlProofs`, `UpdateProofs`, `LiveProofs`
and those at the end of `MCSound`, after the two above (section 5, which also
says what is left to TLC).

Left of the model: RTTY's shift state (`dsp/rtty.go`), the unpacking of FT8
messages (`dsp/ft8_msg.go`) and AX.25 (`aprs/ax25.go`) as operators over bounded
input, the frequency editor and the radar's selector in `main.go`.

## 3. Modules

`PROJECT.json` "map" gives for every definition the lines it stands for.
In all of them an action is a stretch of code between two points where another
thread can see or change something: a critical section is one action, what
follows the unlock is another. A thread's position is a variable named for the
thread (`pc`, `bc`, `run`, `healer`, `loop`) or the steps it still has to take
(`todo`).

| Module | Code | State and its abstraction |
|---|---|---|
| `IQServer` | `internal/rtltcp/server.go` | A block is its number in the stream. `ch`/`chClosed` is a client's channel, `buf` what `run` holds for its next write, `got` what the peer was sent, `first` the block it joined before. A send on a closed channel sets `panicked`. |
| `Tuner` | radio.go:250–300, 430–620, 720–960, 1010–1050, 1900–1965, 2240–2330 | Frequencies, rates and bandwidths are numbers in kHz. `OffsetLimit` and `IF2Window` are computed from `rate` and `bw` as in the code, at each look. `srvFreq`, `srvDs` what the server was last told, `th` each caller's position and locals; the setters call each other, so `depth` counts the `syncAPRSOffset` calls still owed. Of chains only the live one is kept, its offset in `chainOff`; `held` are the callers whose pointer still is the live one, `sess.own` the same of the set-up, and what is written to a chain that is gone is lost. History: `raced`, in this session a caller met another or the set-up; `crossed`, since the APRS branch was placed a caller met another or the watchdog; `dsSwitched`, the preference changed in this session. |
| `RadioSession` | radio.go:410–660, 1160–1185; `usb.go`; `rtltcp.go` | `conn` the host each connection goes to, `client` the one `SetHost` would close, `late` a history flag: the host was changed after the session had read it and before it registered its client. |
| `AudioOutput` | `internal/audio/audio.go` | A process is alive or exited, with or without an error; `healing`, `delay`, `closed`, `userClosed` as in the code. |
| `RadioModes` | radio.go: setters and rebuilds | `want` the flags, `has` what the live chain carries, `stale` the threads that remember a chain that is gone, `raced` a history set: features two callers switched at once. |
| `CaptureRate` | radio.go:250–300, 520–540, 600–770, 1370–1430 | `iqRate`, `dspRate` (the package variable), `chain` (what the live chain was built for), `server`. The watchdog's verdict is any known rate within its tolerance of the stream. |
| `Sidecar` | radio.go:1640–1720; `deepcw`, `ft8ts` | `eng` the engine `Radio` holds, `proc` every process, `tap` whether the chain feeds the engine, `stale` the threads that remember a chain that is gone. |
| `NoiseReducer` | `internal/nr/nr.go`; radio.go:1575–1610, 2380–2457 | `mu` who holds `r.mu`, `rx` the audio path, which holds the engine's lock in "ask". |
| `Beacon` | radio.go:660–720, 1000–1065, 1965–2040 | Tones are numbered as queued; rates are in kHz; `fade` the resume ramp. |
| `BeastDecoder` | `internal/adsb/beast.go` | Bytes are those the framer tells apart: the sync byte, the types, one other. One `Scan` is one turn of `Feed`'s loop. |
| `CprStore` | `internal/adsb/decode.go:150–300` | A position is right, or wrong because of a given frame: distance is abstracted to "far". Time is ticks. |
| `PskReporter` | `internal/pskreporter` | A spot is its number; `flight` the datagram under way, `known` the layout whose descriptor the server holds: both have one template id, so the last one to arrive replaces the other, and a packet in the other layout cannot be read. History: `gap`, the last packet that arrived was not read; `changed`, the layout was changed since the descriptor. |
| `Settings` | `main.go`: 1620–1642, 5488–5710 | A file is how many keys of which generation it holds; one action per system call of `saveConfig`. `dirty` the files whose data is not on the card, which a loss of power empties. History: `saved`, `kept`, `cut`. |
| `AprsTraffic` | `main.go`: 773–803, 1801–1845, 1868–1900, 2594, 3913–3953; radio.go: `PlayBeacon` | Times are ages in ticks of ten seconds. Two halves that share only the clock, `Gating` and `Beaconing`. History: `gates`, what was gated in the last minute; `apart`, the distance of the loop's beacon from the one before; `raced`. |
| `Menu` | `main.go`: 715–752, 2639–2992, 3047–3812, 4024 | `ui`, `page`, `sel`, a length and a cursor per list. `chosen` is history: the entry the user asked to edit. A cursor that nobody reads before it is set again is reset. |
| `BlockStream` | `internal/rtltcp/server.go:87`, README.md:52 | The abstract stream: how many blocks went by, who listens since when, what he heard. No queue, lock, socket or thread. |
| `Preferences` | `main.go`: 900–1540, 2340–2640, 3740–3760, 5520–5680 | A setting is its value, its text, its line; `keys` says which setting (or which two, where one changes the other) the behaviour is about, and what a start takes. Values are integers in steps of the row. |
| `Update` | `main.go`: 67–525, 2779–2796; `ft8ts.go` | Paths name inodes, an inode holds a build or a part of one. One action per step between which the process may die. `synced` says whether the program's data is on the card. |
| `WebServer` | `web/server.go`, `web/audio.go`; `main.go`: 1655–1668, 1916–1934, 2517–2541 | Four machines that share no state: the listener (a server is an instance that may still be listening), the commands with the waterfall's range, the audio's queues, the logs. |
| `Gps` | `internal/gps`; `main.go`: 3902–3973 | Time in seconds of a short day; a fix is its time of day, its date and when it was put together. |
| `TileCache` | `internal/osm/osm.go`; `main.go`: 2945, 3298–3352, 5309–5346; `web/server.go`: 1151 | A mosaic is the spot it was made for and the tiles it has; a file is absent, partly written or whole. |
| `PadKeys` | `internal/input/input.go`; `main.go`: 4013–4207 | Ticks of the loop's shortest delay. `down`/`since` the keys, `held`/`downAt` what the loop believes. |
| `Backlight` | `internal/backlight`; `main.go` | Four levels and off; `chosen` is history, the level last asked for. |
| `CwKeying` | `dsp/cw.go`: 60–348 | The envelope is above or below the threshold, sample by sample; the sender keys whole characters. |
| `CwSpots` | `main.go`: 5717–5791; `cw.go`; `deepcw.go` | A word is one character; the text keeps its last `Cap`. |
| `EngineQueue` | `ft8ts.go`, `deepcw.go` | A chunk is its number; the process may be stuck, or die. DeepCW's resampling is a machine of its own. |
| `Ft8Ring` | `dsp/ft8.go`, `ft8_wf.go`; radio.go: 2117–2175 | A block says which symbol of which transmission it holds. A scan is three steps: find, read one, finish. |
| `Ft8Traffic` | `main.go`: 1745–1800, 4263–4385, 5010–5141 | A message is whom, from whom, whether DX, and its last word. |
| `AfskHdlc` | `aprs/afsk.go` | Bits. A bit that arrives damaged is remembered (`bodyHurt`), so that the properties can say what was whole. |
| `AisHdlc` | `ais/gmsk.go` | as above, with the training of one decoder. Octets go out the lowest bit first, and `CannotBeValid` reads type and MMSI in that order, as the code does: what it reads is not what was meant, and `Misread` says which frames that loses. |
| `AisStore` | `ais/ais.go` | A message is its number; a ship's record says which message each part is from. |
| `FeedClient` | `adsb/beast.go`, `ais/ais.go`; `main.go`: 3527 | A server serves, is silent, or is down. `HasDeadline` tells the two clients apart. |
| `Wefax` | `dsp/wefax.go`; `main.go`: 5372 | A line is what it shows; windows of the tone detector. |
| `Sstv` | `dsp/sstv.go` | Ticks of 10 ms; a row is the line that was on the air in the middle of what was collected. |
| `Monitors` | `dsp/dsp.go`; radio.go | How often each detector got the last block. |

`MCSound`, `MCServices`, `MCLive` and `MCPanel` are
**unions**: a variable `part`, chosen in `Init`, says which component the
behaviour runs; the others stay in their initial state. The state space is the
sum of the components', and each property is about its own part; where a
property joins those of several components, its definition names each. The
components are unioned only where they share no state in the model. `MCPanel`
has one set of variables `v1`, `v2`, ... for the components that it adds, each
an INSTANCE that takes the first so many of them.

What connects the modules: `Tuner`, `RadioSession` and `CaptureRate` each take
their own view of the same `session` function (its tuning, its life cycle, its
rate); `RadioModes` takes its rebuild of the chain. `Beacon`'s resampler feeds
what `AudioOutput` writes.

## 4. Runs, bounds, fairness

| Run | Shows | Bounds, and why they are enough |
|---|---|---|
| `iqserver` | `StreamIntact`, `NothingMissed`, `CloseEnds`, `Implements` | Two connections (a fast and a slow one, a registered and a late one), a queue of one block (so it is full at once), two blocks per write (so coalescing stops both at an empty queue and at its limit), two blocks (fill, overflow); the theorems cover longer streams. |
| `iqserver_panic` | refutes `ReceptionSurvives` | as above |
| `live`, session | `HostObeyedUnlessLate`, `NothingLeftOpen`, `SessionReconnects` | Two servers, the dongle and "off"; three connections, since at most one is being closed by `SetHost`, one opened and one left. |
| `live`, feed and map | `FeedAndMapComeBack` | Two hosts and "off", two choices, two outages. Two views over two spots, two keys, one failing request; and one view with a tile of the web's map, whose process may die in a write. |
| `live`, queue | `EndsWhenTold`; `EveryFiveHalves` in `LiveTypeOK` | A queue of two chunks and a pipe of one: full queue, full pipe, a writer stuck in a write. The resampling over chunks of 1, 2 and 5 samples, 20 in all: every phase, with every cut. |
| `live`, web panel | `EndsWhenTold`, `PageFollows` | Two browsers, two ports, three starts; three turns of the range; queues of two; four blocks and lines. |
| `sound` | `OpenHasPlayer`, `HandsBack`, `PlayerKept`, `SpeakerComesBack` | Two process identifiers, reused once a process is reaped: one dying while the next lives. Three beacons: one playing, one queued, one more. Two rates of the modes; one where the mode is left alone. |
| `services`, tuner | `TunedRight`, `AprsOnChannel` | One caller and the Run goroutine. Two frequencies on either side of the direct-sampling edge, 2.048 and 0.256 Msps, bandwidths of 10 and 25 kHz, automatic or direct sampling: the two share a receive window at the full rate, and at the lowest one with the narrower bandwidth only; the APRS channel, which is one of them, is in the other's IF2 window at the full rate only. One session, which a caller finds, loses or makes fail at every point; the theorems cover any number of sessions and callers. A nested call deeper than two is not told apart. |
| `services`, network | `FramesComeOut`, `PositionRight`, `ReportsArrive` | Two types of one and two payload bytes, one header byte: all the places a sync byte can stand in; three frames and reads of up to three bytes: every cut of a frame and its neighbours. Two corrupted frames. A buffer of three spots, two per packet, seven spots and five packets: overflow, and packets beyond the three that carry descriptors. Both layouts, changed at any time. |
| `services`, settings | `SettingsSurvive` | Two savers, the UI loop and the web page; a file of two keys (so it can be cut in the middle); two generations and their mixtures. |
| `services`, APRS | `AirSpared` | Our station and three others, so that a budget of two can be exceeded by others than the first; 30 s and a minute as three and six ticks. Ages above eight are not told apart, so that only the two shortest intervals come due: what the interval is, is a table. The clock stands still while a beacon is modulated. |
| `services`, screens | `ScreensKeepPlace` | One list of each kind (servers with two leading rows, with one, bookmarks with none) of up to two entries, every page and screen. The keyboard keeps its four rows, narrower. |
| `panel`, receiver | `DecodersHold`, `RatesHold`, `NeverFeedsClosed`, `EnginesAccounted` | Two callers where the property holds with two, one caller where it holds with one only (section 6). Three processes: an old one, and one for each of two callers. The code's own table of rates. |
| `modes_session`, `rate_snap`| refute `EffectsSurviveRebuilds`, `ChainFitsStream` | as above |
| `tuner_switch`, `tuner_gap` | refute `TunedAfterSwitch`, `CallsReturn` | the tuner of `services` alone, in `tuner_switch` with a server that does not keep its direct-sampling mode |
| `panel`, settings | `Remembered` | Every setting of the program with its own range and steps, three changes, saves and starts in any order: a change, its save, and what the next start makes of it. |
| `panel`, update | `UpdateSound` | Two builds and a development build, each with its bundle revision; a marked bundle of two files, the second the marker, and a single program, either of them on the card at first or not; an update beside a fetch of the bundle, or beside one of what it fetches itself; one death anywhere, which a start follows. One attempt of each fetch and one press: the theorem has any number. |
| `panel`, GPS | `ClockSetRight` | A day of four seconds, so that midnight falls between two sentences; sentences with and without a time, a date, a position; every clock error up to three; two rates. |
| `panel`, keys, light | `LoopKnows` | Five keys (MENU, START, a combination, a repeating key, SELECT); a channel of two, so that it overflows; a hold of two ticks; three changes. Five key presses, posts and starts. |
| `panel`, Morse | `SentIsHeard` | A dot of six samples, three speeds learned before, three characters of one to two elements. A text of four words, five heard: it rolls. |
| `panel`, FT8 | `SentIsHeard` | Two stations, a ring of five blocks for transmissions of three, a budget of one, six symbols. Two messages (a "CQ DX" with a grid, an RR73), each decoded for a while; the duplicate list holds three. |
| `panel`, APRS, AIS | `FramesWhole` | Octets that need stuffing and that look like the flag; one damaged bit and one bit of noise anywhere; two frames, since the first may spoil the second. First octets of AIS types 1, 5, 16 and 18, which are read as a type that may be as long, a shorter one, none, and one that is not limited; MMSI and lengths are scaled down. One ship, two sequence ids, three voyage messages, one lost sentence. |
| `panel`, images | `ImagesComeOut` | Two charts, one line hurt; the tones' windows as in the code. A picture of six rows, in a mode with one row at a time and in one with two; a second that follows at once or after a pause; an abort; the switch, of the charts' decoder as well. All detectors, modes and bandwidth classes, four changes. |
| `nr_hang`, `beast_hang` | refute `CallsReturn`, `FeedReturns` | one caller; the framer of `services` |

Deadlock is checked in `iqserver`, and in `live` and `panel` for the session and
for what is switched from several goroutines (the other parts may rest when
their bounds are reached, which their unions' next-state relations say). It is
not where the system may really stop: `sound` (the speaker was closed for good),
`services` (the sessions, frames, spots or packets of the bound are used up, the
framer hangs, see `beast_hang`, or the scheduler has panicked, see
`AprsTraffic!SchedulerRuns` in section 6).

Environment: peers of the IQ server read as slowly as they like and fail at any
point; a dial, a set-up command or a stream fails at any point; processes die at
any point, with an error or without; datagrams are lost; frames are corrupted;
a producer restarts in mid-frame; bits are damaged and sentences lost; a
feed's server falls silent; the process, or its power, ends between two steps of
an update. In `live` a set-up command fails only
because the connection broke (`Stalls = FALSE`), in `sound` a player that lives
reads its pipe in the end (`MayHang = FALSE`), for the tuner the server keeps its
direct-sampling mode for the next client. Section 6 says what happens otherwise.
In `Settings` the renames of a process are on the card in their order, the data
of a file at any time after; without power, a file whose data is not there is empty.

Fairness, where liveness is checked:

- `iqserver`: weak fairness of the broadcaster, the closer, `conn.Close`, `add`, of the way out of a failed write, and of `run` once its socket is closed (a write to a closed socket returns). **None** for a peer: a `run` whose socket is open may be stuck for ever, so `BroadcastReturns` does not rest on a peer reading, nor on the write deadline.
- `live`, where one condition stands for the loops of all parts, since a behaviour runs one of them: weak fairness of the Run goroutine's own steps and of the menu's; strong fairness of the dial and the set-up ("a server that is free again and again answers in the end"). `SessionReconnects` is conditional: the host stays chosen and the outages end. Weak fairness of the feed's loop (a read returns, if only by its deadline), of the radar's frame and of a mosaic's goroutine (a request ends, with or without the tile), of a decoder's writer (a write returns once the process is dead), and of the handlers that `Shutdown` waits for. None for a browser, a key or a server.
- `sound`: weak fairness of a write and of a failed re-opening, strong fairness of what waits for the output's mutex (Go's mutex hands over to a waiter that starved for 1 ms) and of a successful re-opening ("the device is free in the end", the code's retry is pointless otherwise). `SpeakerComesBack`: weak fairness of `beaconLoop`.
- `nr_hang`: weak fairness of the process's answer, if it has not hung, and strong fairness of the waiters of the two mutexes. `beast_hang`: weak fairness of the scanning loop. `tuner_gap`: weak fairness of a caller that is inside a setter; every step of a setter is a computation, a lock held for a moment or a write with a deadline, and none waits for another thread.

Properties worth a word:

- `NothingMissed` is what makes `StreamIntact` hold: a registered client whose writer lives has, in socket, buffer and queue together, every block since it joined. A block skipped for a full queue, with the client kept, breaks it at once and the other only later.
- `TunedRight` is about the receiver at rest in a session in which no caller met another or the set-up (`raced`, which a new connection clears) and the preference was not switched (`dsSwitched`): it covers every sequence of set-ups, retunes, moves within the passband, APRS switches, rebuilds for another mode, bandwidth or rate, the watchdog's, and lost sessions, and section 6 shows that both exceptions are needed. That the dial stays inside the receive window is not among it: the window depends on rate, mode and bandwidth, and the code retunes nothing when it narrows (`OffsetInWindow` in section 6).
- `AprsOnChannel` excepts only what happened since the branch was last placed (`crossed`): the next undisturbed retune puts it right.
- `AttachedUnlessRaced` (in `DecodersHold`) is checked across the rebuilds with two callers that switch FT8 and APRS, and excepts those that both switched at the same time. AIS, the noise reduction, RTTY and the charts are switched by one caller only in that run, and `SetBandwidth` forgets AIS even then; section 6 has what does not hold.
- `PositionRight` is an action property: an intact frame of each parity, in a row, in time and in one zone, puts the aircraft where it now is, unless a corrupted frame has placed it wrong; without corrupted frames it is never a zone off.
- `Readable` (in `ReportsArrive`) is an action property too: a packet that arrives is read, but for those after the first three when none of these arrived, or when the layout was changed since the last of these that did. The layout is looked at when the packet is built, the count of packets before, and both layouts share one template.
- `IntactDelivered` (in `FramesWhole`) is an equivalence: the frames of AIS that arrive whole come out once, and those that `Misread` names, and no others, not at all.
- `SettingsSurvive` makes three exceptions (`cut`), all of them the code's: a full card, since `Fprintf`'s errors are not looked at; a loss of power after two saves in a row of which neither is on the card (the second replaced the only copy that was); and the first save after a recovery, which makes the incomplete file the backup.
- `GateHolds` (in `AirSpared`) says two budgets in a minute that begins anywhere, because the code's minutes begin with a frame: one budget is spent at the end of a minute, the next right after.
- `BeaconsApart` (in `AirSpared`) excepts a beacon from the web page between the scheduler's look at the clock and its `PlayBeacon` (`raced`): both are sent.
- `Implements` is the refinement: the abstract stream has no queue, lock or goroutine, and every step of the server is a delivery, a join, a refusal, a block, or nothing to be seen.
- `Remembered` is one formula over every setting; what is excepted (`Forgotten`, `behind`) is listed in `Preferences` with the line that forgets it.
- `UsableIsWhole` (in `UpdateSound`) rests on the marker being the last file of the archive. It excepts what two fetches wrote at once (`Rivals`), and a copy that waits for a build to come and is fetched over with one further ahead (`Crosses`): TLC refutes it without either. The second was found when the invariant could not be proved: it takes three revisions and a copy on the card at the start.
- `ReadsWhole` (in `SentIsHeard`) is about a scan no symbol interrupts; section 6 has what a late one reads.
- `DecodesRight` (in `SentIsHeard`) is about a sender with a steady dot within the range that the decoder has learned, with drops and a gate that shuts in a gap.

Each property has a mutant in `PROJECT.json`: a plausible bug in a definition
the property is about, under which TLC finds the property violated. The mutated
forms stand in the modules beside the definitions they replace.

## 5. Proofs

TLC checks the instances above; the theorems hold for every set of connections,
every queue capacity, any number of blocks, every set of frequencies and so on.

**`IQServerProofs`**, from `IQServerAssumption` (the capacity and the coalescing
limit are positive, `NoConn` is no connection). `TypeCorrect`:
`Spec => []TypeOK`. `Inductive`: `Spec => []IInv`. `StreamIntactHolds` and
`NothingMissedHolds` follow. `StreamIntact` alone is not inductive: that what
was sent is an unbroken run does not say what the queue holds. `IInv` adds
`Streams` (sent, being written and queued together are one run, also for a
client no longer registered), `NothingMissed` (and they reach up to the last
block), `Membership` (who may be in which set, and that a registered client's
closed queue belongs to a writer that is past its loop) and `Phases` (the lock,
the two work sets and `Broadcast`'s position). The proof has one lemma per
thread's steps, over a few lemmas on runs of consecutive numbers.
`StreamImplemented`: `Spec => Implements`, that is `IQServer` implements
`BlockStream` with `PeerState` for the state of a listener. `IInv` does not say
that a block that is held went by; `NothingAhead` adds it, and is inductive by
itself (`AheadStep`). Every step of a client's goroutine is a delivery, of
nothing in most (`RunDelivers`), `add` is a join or a refusal (`AddJoins`), and
of the rest only the start of `Broadcast` is seen.

**`TunerProofs`**, from `TunerAssumption` (frequencies are integers, rates and
bandwidths naturals, and each rate has an IF2 rate), for any callers and any
number of sessions. `TypeCorrect` first. `TunedRight` rests on `Inductive`, whose
`IInv` says, of sessions in which nothing has overlapped: `LinkInv` (which
session owns the client and the connection in each of its positions),
`AloneInv` (one caller at a time, and none during the set-up), `SetupInv` (what
the set-up read is still so, its chain is the live one, and what it has done to
it), `CallInv` (at rest server and chain agree with the dial; inside `SetFreq`,
what is still owed is what the call holds, and the chain it holds is the live
one or has been replaced by one on the LO; inside `SetCaptureRate`, the chain may
be off the dial, and then the call is about to close the connection).
`AprsOnChannelHolds` has an invariant of its own, since its exception lasts over
sessions: `CrossInv` (one caller at a time since the branch was placed) and
`AprsInv`: a call that has moved the LO, or is about to, still owes the APRS
branch its offset (`Owed`, position by position, over the nested calls of
`SetFreq` and `syncAPRSOffset`).

**`LiveProofs`**, from `RadioSessionAssumption` (the dongle and "off" are no
network hosts) and `LiveAssumption` (bounds are naturals, queues and logs hold
something, "nobody" is no browser). One invariant per part, and `LiveInv` puts
them together; the parts share no state, so each holds whichever part moves.
- `SessionInv` (`RadioSession`): the session has a connection in its positions from the dial on, and one that is open goes to the host it read (`Owned`); from the registration on, `SetHost` knows the client and is about to close it if the host has changed meanwhile (`Bound`). `HostObeyedHolds` follows. `NothingLeftOpenHolds` is proved where `~Stalls`: the only open connection is then the session's own (`OneOpen`). With `Stalls` it is false, as section 6 shows. These three are theorems of `RadioSession`'s own `Spec`.
- `ListenInv` (`WebServer`): every server but the one in `s.srv` has been shut down, whatever its goroutine has done of it, and that one is shut down exactly while `s.mu` is held for it. What was shut down does not come to serve, so once all is quiet only the chosen port is served.
- `CommandInv`: what was asked for is there, or owed by the queue to the UI. Of the range at most one change is owed, with both edges as they were asked for (`RangeOwed`); of the screen, the last that counts (`PanelOwed`). A request that has read the range is the only one, and what it read is still so (`ReadsRange`). Four lemmas say what posting and running a task do to what is owed.
- `StreamInv`: what a browser got and what waits for it are one run of blocks up to the last. `LogInv`: line by line, the log is the end of what was logged. `PageFollowsHolds` follows from these four, for any number of browsers, ports, blocks and lines.
- `FeedInv`, `QueueInv`, `SamplesInv` and `MapInv` serve `TypeCorrect`: that a feed reads only from a host, that queues and messages stay within their bounds, that the resampler takes every five halves of a sample, and that a goroutine fetches and draws only tiles around the spot it was started for, though the map may be panned, switched or cleared under it.

**`MCSound`**, from `SoundAssumption` (the bound is a natural, rates are
positive). `AudioInv` is the types with `OpenHasPlayer`, which is inductive
beside them. `BeaconInv` adds `Claimed` (from the claim to the end the loop holds
a beacon that was queued, and the rate of a mode) and `Remembers` (a beacon that
ended is remembered by the arm of the ramp until a block is read, by the ramp
after that); `OneRateInv` is the same where the modes share one rate, and there
the resampler's rate has nowhere else to go. From them `OpenHasPlayerHolds`,
`HandsBackHolds` and `TypeCorrect`, for any number of players and any rates.

**`ServicesProofs`**, from `ServicesAssumption` (bounds are naturals; two guards
make a minute and the ages are told apart beyond it; the lists are those of the
program). One invariant per part (`PartsInv`), kept by every step of the union:
- `FilesInv` (`Settings`): one saver holds the lock; between its two renames no file is in place but a whole backup is; what it is about to put in place is whole and no older than what is there (`SaverReady`); and what a start would find after a loss of power is on the card (`OnCard`). From it `SettingsSurviveHolds`, for any number of savers, keys and saves.
- `PairInv` (`CprStore`): the frame that came last is kept; intact frames alone place nothing wrong. `DecodedIs` and `FixIs` say what a pair decodes to and what becomes of a frame; from them `PositionRightHolds`, an action property.
- `ReportsInv` (`PskReporter`): what is read, what is under way and what waits follow one another in order (`InOrder`), over a few lemmas on increasing sequences; a packet among the first carries a descriptor; and the server's descriptor is that of the layout unless it was changed. From it `ReportsArriveHolds`, both halves.
- `TrafficInv` (`AprsTraffic`): the gate's counter counts the frames of the minute that runs, and the minute before it had no more than a budget (`GateInv`); the loop's stamp is no older than the beacon it announces (`BeaconInv`). `GateBound` turns this into the two budgets of any minute: `AirSparedHolds`.
- `ScreensInv` (`Menu`): the keyboard is open for a row of a page or for an entry that the list still has (`KbOpen`), for lists of any length and keyboards of any width: `ScreensKeepPlaceHolds`.
- `TypeCorrect` is `ServicesTypeOK`, the bounds on queues and packets with it.

**`ModesProofs`** and **`ControlProofs`**, from `ControlAssumption` (the one
caller is one, "none" is no process). Two callers stand for any number of them: `Pair` is any set.
`ControlInv` has one invariant for each part that goroutines switch, and each
says what an unfinished call still owes:
- `ModesTwoInv`: a call that is about to attach or detach a decoder on the live chain does what the flag says; where no call is, and no reconnect either, the chain has what the flag says. It holds for the decoders that two calls never turned at once. That the chain made by every rebuild has what is on is `ChainsTwo`.
- `ModesOneInv`: with AIS RF on, the mode is NFM or the call is about to set it, and then FT8 is off, so that `SetMode` does not refuse.
- `RateTwoInv`: what the watchdog found is what the chain is built for, or a call is about to close the session. `RateOneInv`: the rate is ADS-B's only while ADS-B is on, or while the call that gives it back is under way.
- `SideTwoInv`: whoever holds an engine is about to keep it or close it, alone, and the radio does not hold that one. `SideOneInv`: each process that runs is the radio's or in the call's hands, and the tap is right or the call is still to set it. `NoiseInv`, the same of the noise reduction.

A call is a sequence of steps, so the proofs begin with the plans a call may
have left (`Plans`, `RatePlans`, `TwoPlans`, `OnePlans`) and what each leaves
after its first step. From `Inductive` follow `NeverFeedsClosedHolds`,
`EnginesAccountedHolds`, `RatesHoldHolds` and `DecodersHoldHolds`.

**`UpdateProofs`**, from `UpdateAssumption` (at least one build and one attempt;
the bundles are finitely many, no file belongs to two of them or twice to one,
the last file is one of those that make a bundle available, and what the update
fetches is not marked), for any builds, revisions, bundles, fetchers, attempts,
deaths and presses. `UpdateHolds` says of `Update`'s own behaviours what
`UpdateSound` says of the union's, where `~LosesUnsynced`: a loss of power may take what
was not synced, and then `AlwaysStarts` is false (section 6). `UpdateInv` is
- `ProgramInv`: what is on the disk is whole and no older than what runs; what was verified is the package of the stamp that was read, and newer than what runs.
- `Apart`: no two paths name one inode, and an open file is under no path of another bundle, so that a write spoils nothing else. `FreeInode` is a lemma on cardinalities: there are more inodes than paths, temporary paths and open files, so `Open` finds one.
- `Kept`, for a name that is not excepted: one fetch at a time is past its download; each installed file is whole; none is missing when the last is there; and all are of the last one's revision, unless no build that can come next expects that (`Unawaited`). This is why the marker protects: between the first and the last rename the files disagree, and the old marker is then one that nobody takes for his own.
- `Done`: what the fetch under way has renamed so far is of its revision.

`UpdateSoundHolds` and `ClockSetRightHolds` are in `ControlProofs`. The first carries
`UpdateInv` to the union: `SameUpdate` shows action by action that `MCPanel`'s
instance of `Update` is that of `UpdateProofs`. The second rests on `GpsInv`: a
fix whose last sentence with time and date is the one it was updated by has the
day and the second of that, and a fix is valid only while a device is read;
`DayAndSecond` puts day and second together again.

TLC has checked each of these invariants on the instance of its run.

Left to TLC, and why:
- the liveness properties and everything with ENABLED in it, which this prover does not do;
- what a recursively defined function or a fold computes for every input, since the installed provers cannot instantiate an induction theorem: `FramesComeOut` (the framer's pass over the bytes; of the framer only its bounds are proved), `FramesWhole` and `SentIsHeard` (destuffing, keying, the scan of a ring), `ImagesComeOut` (runs of lines in the detectors' windows), `LoopKnows` (what the queue of keys amounts to), and `PanelTypeOK`, which states the types of all those parts together;
- `Remembered`: one formula over some forty settings, each with its own way to the file and back, where the run goes through every one of them and a proof would do the same.

## 6. What the code does not do

Seven statements of the code's own comments are refuted by runs
(`PROJECT.json` "findings" quotes them):

| Run | Code | What happens |
|---|---|---|
| `iqserver_panic` | `rtltcp/server.go:170`, `:100` | A writer whose write fails closes its queue and stays registered; the next `Broadcast` sends to the closed queue and the process panics. |
| `tuner_switch` | radio.go:2262 | A change of the direct-sampling preference tunes the server to the dial while the chain keeps the offset from the LO. |
| `modes_session` | radio.go:496 | A new session applies the audio effects to the chain it is about to drop. |
| `rate_snap` | radio.go:746 | The watchdog takes the first known rate within 15 %, and neighbours are closer: 2.048 M becomes 1.792 M. |
| `nr_hang` | `nr/nr.go:151` | `Close` waits for the lock `Process` holds while it waits for the process: one that hangs is never killed, and `r.mu` stays locked. |
| `tuner_gap` | radio.go:1961 | With the APRS channel outside the IF2 window and within reach of the passband offset, `SetFreq` and `syncAPRSOffset` call each other without end. |
| `beast_hang` | `adsb/beast.go:94` | With only the sync byte and the type in the buffer, `Feed` scans the same two bytes for ever. |

The following definitions stand in the modules for a reader to check; TLC
refutes each under the constants named, and no run lists them. They delimit what
the properties above promise.

| Definition | Constants | Code | What happens |
|---|---|---|---|
| `Tuner!TunedDespiteOverlap` | two callers | radio.go:566 | The set-up sends an LO a `SetFreq` has replaced meanwhile. |
| `Tuner!HfAppliedIsServers` | `ServerKeeps`, two sessions | radio.go:561 | A set-up with mode 0 sends nothing, and the server may still be in direct sampling. |
| `Tuner!OffsetInWindow`, `Tuner!AprsInWindow` | as the tuner in `services` | radio.go:909, :1948 | The windows of the dial and of the APRS channel narrow with the rate, and the dial's with a wider mode; neither `SetCaptureRate`, `SetMode`, `SetBandwidth` nor the watchdog retunes. |
| `RadioSession!HostObeyed` | as `live` | radio.go:1177 | A host chosen while the session dials is not connected to until the old one fails. |
| `RadioSession!DongleReleased` | as `live` | `usb.go:88` | The local server is spawned after the menu left the dongle. |
| `RadioSession!ServerLeftAccepting` | `Stalls` | radio.go:587 | A set-up command that times out leaves the connection open. |
| `AudioOutput!ReplacedWhenever` | as `sound` | `audio.go:166` | A player that dies before the healer has left is not replaced. |
| `AudioOutput!BackoffPersists` | as `sound` | `audio.go:182` | The back-off starts afresh with every death. |
| `AudioOutput!ClosedIsSilent` | as `sound` | `audio.go:236` | A re-opening that was under way outlives `Close`. |
| `AudioOutput!CloseReturns` | `MayHang` | `audio.go:279` | A player that hangs holds the writer, and the writer the lock `Close` needs. |
| `RadioModes!AttachedAsReported` | any | radio.go:1302, :2317, :940 | Two callers leave flag and attachment different; `SetBandwidth` forgets AIS; RTTY is never detached by `applyAudioFx`. |
| `RadioModes!AisLocksNfm` | two callers | radio.go:1328 | FT8 is turned on between the test and the flag. |
| `RadioModes!Ft8LocksUsb` | any | radio.go:1311 | FT8 turned on while AIS is does not get USB. |
| `RadioModes!RedimensionKeepsMode` | two callers | radio.go:764 | The watchdog puts back a mode the user has just left. |
| `RadioModes!CallsReturn` | `ZeroBandwidth` | radio.go:2308 | An early return keeps `r.mu`. |
| `CaptureRate!AdsbRestoresRate` | two callers | radio.go:1423 | On and off at once leave 2.4 M. |
| `CaptureRate!ServerAsChosen` | any | radio.go:529 | The default rate is never asked for, and the server remembers another. |
| `CaptureRate!AdsbAtItsRate` | any | radio.go:1416 | ADS-B looks at the rate the watchdog set. |
| `Sidecar!NoOrphan`, `Sidecar!TapFollows` | two callers | radio.go:1677, :1701 | Two engines are started and one is forgotten; an old reading of the flag is applied last. |
| `NoiseReducer!NoOrphan` | two callers | radio.go:1590 | as above |
| `Beacon!ResamplerFits`, `Beacon!BeaconAtItsRate` | two rates | radio.go:2017, :1059 | A mode change during a beacon is undone, or hits the tones. |
| `Beacon!NeverMix`, `Beacon!BlockMeetsItsRate` | any | radio.go:677, :1059 | A block read before the flag, or the rate, is played after. |
| `Beacon!BeaconIsPlayed` | any | radio.go:2021 | The end of a beacon drops the one queued meanwhile. |
| `NoiseReducer!AudioGoesOn` | `MayHang` | `nr/nr.go` | The audio waits for a hung process. |
| `PskReporter!AllReadable` | any | `pskreporter.go:123`, `:157`, `:167` | The three packets with descriptors may be the lost ones; and antenna and rig, first set or both cleared after them, change the record's layout under the same template id. |
| `AprsTraffic!SchedulerRuns` | as `services` | main.go:3917 | SmartBeaconing is the seventh mode and the table of intervals has six entries: with a position known the process panics, and again at each start. |
| `Menu!ClosesWhereOpened` | any | main.go:3182 | The system monitor and the logs close to the row above the one that opened them, the map and RTTY to the station page ("back to the FT8 page"), the radar to the ADS-B page from the APRS page. |
| `Menu!CursorOnEdited` | any | main.go:3805 | After a server is saved the cursor is above it; on the first one it is on the row that switches the service off. |
| `CprStore!CleanPairWins` | any | `adsb/decode.go` | A first pair with a corrupted frame holds the aircraft wrong until it is plausible again. |
| `Preferences!AllRemembered`, `!BackupRemembered` | any | main.go:1616 | Some settings are not in the file, and the rate to give back after ADS-B is not either. |
| `Preferences!LeftUndoesRight` | any | main.go:2356 | LEFT on the row of the mode takes four steps forward, "one back in a 5-cycle", and there are six modes (`internal/dsp/dsp.go:137`). |
| `Update!UsableIsWholeAlways` | as `panel` | main.go:500 | Two fetches share a temporary file; after a death in between, what is installed is cut, and counts as installed. |
| `Update!AlwaysStarts` | `LosesUnsynced` | main.go:244 | The program is renamed into place before its data is on the card. |
| `Gps!ClockRight` | as `panel` | `gps.go:183` | In the first second of a day the fix has the new time with the old date. |
| `Gps!FollowsFreshPosition`, `!LooksWithFix`, `!StaysOpen` | as `panel` | `gps.go:169`, main.go:1321, `serial_linux.go:72` | RMC keeps an old position fresh; the first look at the clock is before there is a fix; a port is given up while it speaks. |
| `TileCache!ServesWhole`, `!PlacedRight`, `!OneMosaic`, `!GapsFill` | as `live` | `osm.go:165`, main.go:5327, :1138 | A tile is served while it is written; a mosaic is shown at the centre of the one before; one lands in a view that was left; a gap stays. |
| `PadKeys!HeldAgrees`, `!SelectHeard` | as `panel` | `input.go:262`, `:229` | A full channel loses a release; a release of SELECT is taken for the echo of MENU. |
| `Backlight!RoundRestores` | as `panel` | `backlight.go:60` | A round of the power key ends at the healing level. |
| `CwSpots!SplitStillPairs`, `!FullStillRead`, `!NoneMadeUp` | as `panel` | main.go:5743, :5731 | A look between DE and the call gives the DE up; a text that is full is not read; a DE from before a clearing pairs. |
| `EngineQueue!DrainedOnClose` | as `live` | `deepcw.go:129` | The process is killed before what is queued reaches it. |
| `Ft8Ring!ReadsWhatItFound`, `!AllAreHeard` | as `panel` | `ft8.go:187`, radio.go:2158 | The ring moves under a scan; at one scan in 13 s a transmission passes unread. |
| `Ft8Traffic!AlwaysLoggedOnce`, `!SpottedWhereSent`, `!CacheNamesOwner`, `!MapShowsRecent`, `!PanelKeepsStation`, `!SamePlaceOnBothMaps` | as `panel`, a shorter list | main.go:4282, :4358, :1753, :5043, :5116, :1768 | More than forty texts in six seconds; the dial of the moment; "CQ DX" names DX; yesterday's entry; the selection slides; RR73 is a grid on the web's map. |
| `AisHdlc!EveryIntactDelivered` | as `panel` | `gmsk.go:172`–`:179` | Type and MMSI are read in the order the bits are sent, before the octets are put right: types 5 and 21 read as the shorter type 10 and are given up after 96 bits, type 16 and a repeat indicator of 1 or 3 read as no type, and some MMSIs as too large. |
| `AisHdlc!DeliveredAfterNoise` | as `panel` | `gmsk.go:106` | A false start in the noise eats the frame's flag. |
| `AisStore!VoyageIsOneAlways`, `!ShownRecent`, `!VesselStays` | as `panel` | `ais.go:193`, `:49`, `:315` | Halves of two messages are joined; a ship without new positions stays; a message of type 6 makes a station of it. |
| `FeedClient!FeedComesBack` | `HasDeadline = FALSE` (AIS) | `ais.go:405` | A feed lost without a word is never left. |
| `FeedClient!OffDisconnects` | any | main.go:3527 | A feed that brings something is not left when it is disabled. |
| `Wefax!AllChartsKept`, `!EndsAtLastLine` | as `panel`, `MaxSwitches = 2` | main.go:5375, `wefax.go:283` | Charts finished with the screen off are saved under one name; lines of the stop tone stay. |
| `Sstv!RowsFollow`, `!ListedModesKept`, `!GreyKept`, `!RowsOfOnePicture`, `!LastServed` | as `panel` | `sstv.go:369`, `:72`, `:377`, `server.go:998` | The second line of a picture is skipped; PD240's code has eight bits of which seven are read; a grey of the leader's tone ends a picture; a picture goes on in the next; a finished one is not served. |
| `Monitors!SstvFed` | as `panel` | `dsp.go:718`, radio.go:1037 | On narrow sideband SSTV gets nothing, and a change of mode loses it. |
| `WebServer!SpecAdapts` | any | `server.go:984` | The spectrum's size is the same at every rate. |

## 7. What is not modelled

Floating-point signal processing (filters, demodulators, correlation, error
correction, pixels): its state is samples, out of TLC's reach, and its
correctness is numeric; the decoders' modules begin where it has decided on a
bit, a tone or a symbol. RTTY, the contents of FT8 and AX.25 messages, the
digits of the frequency editor and the radar's selector are in the plan. Maps
that are shared without a lock (`cfg`, the cache of grids, the downloads'
status) are modelled as if each access were atomic; Go ends the process if it
notices two at once, which is a matter of the runtime's checks. Drawing, fonts,
translations, geographic tables, device files, the developers' tools under
`cmd/`: tables, or pure input and output. The third-party sidecars are external
programs; `Sidecar`, `EngineQueue` and `NoiseReducer` model how the program uses
them, marked external in the map. `PROJECT.json` "components" says of each part
how much of it is there.
