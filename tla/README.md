# danser-ee: a verification project

danser-ee replays osu! scores on screen and records them to video. It is two
programs in one repository: the *gameplay process*, which plays or records a
replay, and the *launcher*, a graphical front end that keeps a catalog of
beatmaps and starts gameplay processes. This directory holds TLA+ models of the
parts of both in which several goroutines, processes or devices act at once,
or in which the order of things decides the outcome, the TLC configurations that
check them, and proofs checked by TLAPS.

    tlc -config VideoStdin.cfg MCVideo        check one run
    tlapm VideoPipelineProofs.tla             check the proofs

`PROJECT.json` lists the components, the runs and what each checks, the source
lines behind every definition, for every property a mutation of the model that
breaks it, the hazards of the code, and the theorems.

Contents: [inventory](#1-inventory), [modules](#2-modules),
[runs](#3-runs-and-what-they-show), [bounds](#4-bounds),
[fairness](#5-fairness), [proofs](#6-proofs),
[divergences](#7-known-divergences), [limits](#8-what-is-not-modelled),
[plan](#9-plan).


## 1. Inventory

### 1.1 The recorder (`app/ffmpeg`, `mainLoopRecord` of `app/app.go`)

| Component | State | Operations | Hard behaviours |
|---|---|---|---|
| Video pipeline, `video.go` | pool of pixel buffers, queue of read-backs with GPU fences, channel to the writer goroutine, sticky error, pipe, FFmpeg process | `makeFrame`, `checkData`, the writer goroutine, `stopVideo` | four parties interleave; the error may be set between any two steps; stop after any failure |
| Audio pipeline, `audio.go` | pool of sample buffers, channel, sticky error, pipe, FFmpeg process | `pushAudioFrames`, `pushAudioBytes`, the writer goroutine, `stopAudio` | block size against interval size; waiting for a buffer the writer must return |
| Timeline, `timeline.go` | next update, next source sample, end | `NewRecordingTimeline`, `Next` | rounding of four rates on one integer clock |
| Session, `ffmpeg.go`, `publish_*.go` | session directory, staged output, final path | `StartPreparedRecording`, `StopFFmpeg`, mux, publish, cleanup | processes under one output name, kills at any step, one encoder failing |
| Configuration, `config.go`, `weights.go` | none | validation, blend weights | none |

`mainLoopRecord` walks the timeline; for each step it updates the game, mixes
audio into `pushAudioFrames`, renders and calls `makeFrame`. Video and audio do
not share state: both report to the session when stopped.

What makes them correct: no buffer is leaked, shared or overwritten while it is
being written; frames and blocks reach the encoder in order and completely, or
an error is reported; stopping always returns; video and audio have the same
length; a file reported as good is at the final path and whole; nothing already
there is replaced; a recording once complete on disk is never lost.

### 1.2 The launcher (`launcher`)

| Component | State | Operations | Hard behaviours |
|---|---|---|---|
| Event queue and frame loop, `runtime.go` | bounded channel, `runtimeDone` | `postEvent`, `postEventContext`, `drainEvents`, `applyEvent`, `shutdown` | the only consumer stops consuming at shutdown |
| Process supervisor, `process_supervisor.go` | active run, its context, child, output scanner, hand-off timer | `start`, `execute`, `scanProcessOutput`, `cancel`, `close`, delayed starts | late events of an earlier run; timers that fire while being stopped; a full queue and a full pipe |
| Cancel flow, `cancel_flow.go`, `popupdialog.go` | the confirmation and its run, `closeAfterDanser` | request, confirm, dismiss | the child ends while the dialog is open |
| Catalog coordinator, `catalog_coordinator.go` | pending request, active operation, generation | `request`, `run`, `publish*`, `close` | requests supersede a running pass; its results are stale when applied |
| Directory watcher, `beatmapdirwatcher.go` | fsnotify goroutine, coalescing flag | `run`, `close` | a burst during a refresh |
| Song-select workers, `songselect_catalog.go`, `songselect_thumbnail.go` | newest request and newest result of each, views, the popup's copy, native pixmaps | `request`, `publishLatest`, `pollLatest`, `beginCatalogUpdate`, `newSongSelectPopup`, `close` | replacing a value another goroutine takes; results of an older catalog; native memory with one owner at a time |
| Interface, the other files | widgets | immediate-mode drawing | none across goroutines |

### 1.3 The catalog database (`app/database`)

`manager.go` keeps one row per beatmap file in SQLite. A reconciliation unpacks
archives, seeds rows from osu!'s own database, scans the Songs directory
(`scanner.go`), compares fingerprints, removes left-over rows, imports changed
files with two workers, and remembers broken files as tombstones; a second pass
recalculates star ratings. The directory changes while all this happens.
Correct means: the rows agree with the directory once the changes stop, and a
row is removed only when its file is gone.

### 1.4 The game (`app/states`, `app/rulesets/osu`, `app/dance`, `app/storyboard`)

| Component | State | Operations | Hard behaviours |
|---|---|---|---|
| Ruleset and hit objects, `app/rulesets/osu` | the queue and the active objects all participants share; per participant and object what was judged; the counters of the scores | `UpdateClickFor`, `UpdateNormalFor`, `UpdatePostFor`, `Update`, `SendResult` | note lock, late heads, several points between two frames, participants under different rules on one list |
| Controllers, `app/dance/rcontroller.go`, `controller.go`, `pcontroller.go` | replay position, seeking | `Update`, `processStable`, `processLazer`, `Seek` | which calls a participant gets in which millisecond; replays that end early |
| Generated cursors, `app/dance/schedulers`, `input`, `utils` | the queue of each cursor, the mover's curve, the two keys | `InitCursors`, `Init`, `Update`, `Seek` | overlapping objects, frames that skip several objects, two keys for dense notes |
| Threads, `app/app.go`, `app/states/player.go`, `storyboard.go`, `framework/goroutines`, `framework/bass/executor.go` | main loop and its call queue, update worker, storyboard worker, audio thread, who disposes | `RunMain`, `CallMain`, `runOnAudioThread`, `stopExecutor`, `StartThread`, `Dispose`, `closeHandler` | any thread may panic and runs the crash handler itself, while the others go on |

What makes them correct: every object is judged once for every participant, as
if that participant played alone; a play without a mistake has the full combo; a
generated cursor presses every note and holds every slider; whatever is freed at
the end is no longer in use, and the process ends.

### 1.5 Shared services

| Component | State | Hard behaviours |
|---|---|---|
| Update service, `app/update/service.go` | snapshot, request in flight, persisted file | one request at a time behind a flag |
| Frame limiter, `framework/frame/limiter.go` | wait debts | timing only |
| Settings, `app/settings` | current configuration, file watcher | reload racing a save |
| osu! API client, Discord | tokens, connection | network failures |
| Parsing, difficulty, graphics, skin, utilities | data | none that a model checker reaches |


## 2. Modules

| Module | Models | Uses |
|---|---|---|
| `EncoderFeed` | what the recorder expects of one encoder input (abstract) | |
| `VideoPipeline` | `video.go` | refines `EncoderFeed` |
| `AudioPipeline` | `audio.go` | refines `EncoderFeed` |
| `RecordingTimeline` | `timeline.go` and the loop of `mainLoopRecord` | |
| `RecordingSession` | `ffmpeg.go`, `publish_other.go`, `publish_windows.go`, the returns of `mainLoopRecord` | takes the verdicts of the two pipelines as given |
| `LauncherProcess` | supervisor, cancel flow, process events of the queue | |
| `CatalogRefresh` | coordinator, watcher, catalog events of the queue, reconciliation | |
| `HitObjects` | circles, sliders and spinners of the ruleset, note lock and score counters, as operators on one participant's play | |
| `OsuRuleSet` | the ruleset under its controllers | `HitObjects` |
| `CatalogDisplay` | what the song-select window promises about its list (abstract) | |
| `SongSelect` | the song-select window and its two workers | refines `CatalogDisplay` |
| `DanceQueue` | how hit objects become the queues of generated cursors, as operators | |
| `CursorDance` | schedulers, movers' consumption of the queue, keys, seeking | `DanceQueue` |
| `GameThreads` | the threads of a game in a window, crashes, and the end of the process | |
| `VideoPipelineProofs` | theorems about `VideoPipeline` | |
| `AudioPipelineProofs` | theorems about `AudioPipeline` | |
| `RecordingTimelineProofs` | theorems about `RecordingTimeline` | |
| `RecordingSessionProofs` | theorems about `RecordingSession` | |
| `LauncherProcessProofs` | theorems about `LauncherProcess` | |
| `CatalogRefreshProofs` | theorems about `CatalogRefresh` | |
| `SongSelectProofs` | theorems about `SongSelect` | |
| `GameplayProofs` | theorems about `GameThreads`, and one about the spinners of `HitObjects` | |
| `MCVideo`, `MCAudio`, `MCTimeline`, `MCSession`, `MCRuleset`, `MCDance` | small instances for TLC | |

In every module an action that ends in a name of the code stands for that
handler as a whole. Definitions marked `Mutant` are not part of the model: they
are the mutations named in `PROJECT.json`.

### 2.1 Video pipeline

`rec` is the position of the recorder: `makeFrame` is `BeginFrame`, a call of
`checkData` ("first"), `TakeBuffer`, and a second call of `checkData`
("second"); `stopVideo` is a draining `checkData` ("drain"), `CloseQueue`,
`JoinWriter` and `WaitEncoder`. `checkData` is split where other parties can
act: `CheckTake` waits for the fence of the oldest read-back and reads the
sticky error, `CheckSend` hands the buffer to the writer's channel or back to
the pool, `CheckReturn` leaves. The GPU signals fences in order (`ready` counts
them). The writer goroutine receives, writes and gives back.

What matters about the data is which frame a buffer holds (`data`), so a frame
is its number. A frame is larger than a pipe, so a write ends only when the
encoder reads it. Writing to a dead encoder's standard input fails; writing to
the FIFO this process itself holds open for reading (`namedpipe_others.go:43`)
does not, it blocks. `stopVideo` may run on a goroutine without the GL context,
where what a fence wait does is undefined: `OffContext` lists the outcomes.

### 2.2 Audio pipeline

The same shape without the GPU. An interval of the timeline is a number of
sample frames and is cut into blocks of `BlockFrames`, the last one shorter
(`SubmitBlock`); a block fits the pipe, so a write ends as soon as there is
room. The block records how long it is, so losing the tail of an interval shows.

### 2.3 Abstract encoder feed

`EncoderFeed` has four variables: what was submitted, what the encoder read,
whether a write failed and what stopping returned. Its steps say: blocks are
read in order and once each, nothing is read after a failed write, and stopping
says "ok" only if everything was read and nothing failed. `FeedSpec` in both
pipelines is this specification under a refinement mapping
(`sent <- frames, got <- input, broken <- failed, verdict <- result`, and the
same for audio blocks).

### 2.4 Timeline

One action, `Step`, is `RecordingTimeline.Next` followed by the body of the loop
that consumes it. All arithmetic is that of the code (`ceilMulDiv`,
`roundedMulDiv`), over ticks of which there are `Second` to a second instead of
10^9. `math.MaxInt64` as "no such boundary" is `Never`.

### 2.5 Recording session

Each process walks the steps of `StartPreparedRecording` and `StopFFmpeg`
(`at`); `files` is its session directory, `final` the output path all of them
share. Streams are "whole", "cut", "empty" or "absent". `platform` selects
`PublishLink` and `RemoveStaged` (`publish_other.go`) or `PublishLook` and
`PublishRename` (`publish_windows.go`). `Kill` stops a process anywhere,
`ForeignFile` is another program.

### 2.6 Launcher and child

The frame loop is the main thread; its steps come in any order. Per child there
are the goroutine of `start` (`supervisor`), the operating-system process
(`child`), the pipe the copier fills, the output scanner, and the hand-off
timer; per delayed start there is a timer. Only lines the scanner reacts to are
modelled, and the child may print them, stall, or die at any time. `dialog`
keeps the run it was opened for and whether it also exits the launcher, and
`exitWanted` records what the user asked for last.

### 2.7 Catalog refresh

`at` walks `catalogCoordinator.run`: take the pending request, arm the
cancellation, open the database, publish the cached rows, seed, unpack, scan,
import file by file, write tombstones, report, rate. Each is one action where
the code commits or reads shared state once; `Abort` is the cancellation noticed
at the next safe boundary, with what was committed kept. An event that waits for
room in the queue is in `event`, with the context that ends the wait: that of
the operation for updates of the pass, that of the coordinator for errors and
cached snapshots. `catalogGeneration` and `snapshotGeneration` are the atomic
counters; `applyEvent` drops what is older. A file is its version, which is also
its fingerprint: every write makes a new one. Rows are "complete", "stable"
(seeded), "invalid" (tombstone) or absent.

Every read and write of a refresh may fail once, at the price of one of the
bounded actions (`Failure`, `Costs`): the start of the database; the read of the
first snapshot, which posts an error and lets the pass go on (`PublishCached`);
the fresh read for a large change that is already committed, which is reported
to nobody (`Announce`); osu!.db or the database while seeding, which counts as a
miss (`Seed`); the queries of the scan, a directory, and the removal of rows
(`Scan`); a file that cannot be opened, inspected or hashed, or whose row cannot
be written (`SkipMap`); a read that breaks off inside the parser, which rejects a
valid file (`RejectMap`); the write of tombstones (`Tombstone`) and the load and
the report of the ratings (`LoadRatings`, `WriteRatings`), where a rating that is
not calculated or written changes nothing the properties see. `UnpackMaps` leaves
any archives it likes, all of them where `General.UnpackOszFiles` is off
(`manager.go:598`).

History variables state the exceptions of the properties precisely: `unread`
(directories the last scan could not read), `skipped` (maps whose file or row the
last pass could not read or write), `misread` (valid files rejected since they
were last written), `packed` (maps whose archive the last pass left), `untold`
(maps whose last report was lost with a failed read of the catalog) and `unsaid`
(those of the last full pass), `silent` (changes inside a set directory, which
the watcher of the root does not see), `gone` (files missing at some time since
the pass began to compare), `ghosts` (rows removed by `removeGhostCatalogEntry`),
`served` (the newest request had its full pass) and `startupRan`.

### 2.8 Ruleset

`HitObjects` is the code of `circle.go`, `slider.go`, `spinner.go` and of
`ruleset.go` that judges one participant: each function takes the participant's
play (per object what was judged, and the score) and returns the next one. A
hit is a hit or a miss; the windows of 300, 100 and 50 within it are one
(`W50`). Positions are what the judgement asks of them: which heads the cursor
is over, and whether it is near or on the ball of a slider.

`OsuRuleSet` is the clock. In a millisecond each participant has its turn, with
the calls its controller makes (`StableFrame`, `StableBetween`, `StableOver`,
`LazerFrame`, `LazerBetween`, `Played`, `NoInput`), then `Update` refreshes the
active objects. The inputs are all presses, positions, spins and frame
distances that can make a difference. Next to the game of all participants the
model runs one game per participant with the same input, for `Isolation`.

### 2.9 Song select

Both workers have the same slots and the same steps, written once for
`k \in Workers`; `main` is the position of the main thread inside a request, a
poll or a shutdown. `BuildView` may be cancelled, `DecodeImage` makes a pixmap.
`pixmaps` says of every pixmap whether it lives, was disposed, or twice.

### 2.10 Generated cursors

`DanceQueue` follows a map through `InitCursors`: sliders become points
(`Expand`), overlapping sliders are replaced and spinners cut (`Solve2B`), the
objects are shared out (`ShareOf`), stacked circles become a double click and
what shares a moment is spread (`Prepared`). `CursorDance` then plays: a frame
walks the queue (`Walk`), the mover takes its window (`SetObjects`), the input
processor presses and releases (`Pressed`). A place stands for a position and
its surroundings; curves have only ends.

### 2.11 Threads of a game

`at` is where each thread is. The main thread goes through `executeMainLoop`:
condition, queued calls, events, frame; `run` waits for it; the update worker
and the storyboard's worker loop; `commands` is the audio thread's channel with
the submissions under way, and a thread in it waits. `closeHandler` is a path
any thread may take, after the loop or after a panic: `Close`, `Dispose` with
its joins, `ShutdownBass`, `Exit`. What a frame draws or an update computes is
left out but for the locks and calls it makes.


## 3. Runs and what they show

**VideoStdin** (`MCVideo`; three buffers, four frames, an encoder on standard
input that may die). `OneOwner`: every buffer is in exactly one place.
`NoOverwriteWhileWriting`: no read-back into a buffer being written. `FeedSpec`:
the pipeline implements the encoder feed. `StopReturns` and
`EncoderFailureSurfaces`: stopping returns, and a dead encoder ends the
recording with an error.

**VideoFifoLive** (expected violation). The same promise where the encoder reads
a FIFO: the write after its death blocks for ever, because `NewNamedPipe` opens
the FIFO `O_RDWR` and this process is its own reader. The recording neither ends
nor reports.

**AudioStdin** (`MCAudio`; three buffers, blocks of two, intervals of one, two,
three and five sample frames). `OneOwner`, `FeedSpec` and
`EncoderFailureSurfaces` as above; `SuccessIsComplete`: no error means the
encoder read every sample.

**Timeline** (`MCTimeline`). `StreamsMatch`: frames 0, 1, 2, ... without gap or
repetition, exactly as many as cover the content (`FrameCount`), and as much
audio, to the sample (`AudioMatchesVideo`). `CenteredShutter`: the blended
samples lie evenly around the middle of the frame. `RenderedInSync`: a picture
is taken when audio and simulation are exactly there.

**Session** (`MCSession`; two recordings of one name, a foreign program, kills,
both platforms). `SuccessIsPublished`, `NoReplace` (the linking publication),
and `NothingLost`: once both streams are whole the recording exists in full at
every later moment.

**Launcher** (`LauncherProcess`; two starts, a queue of one event, a pipe of one
line; about 170,000 states). `RunsApart`: the interface, the supervisor, a
living child and an open confirmation agree on the run (`ActiveRunShown`), and
no late event of one run is applied to the next (`OwnEvents`). `CleanExit`: the
launcher exits only on a request that was not taken back, and over no living
child. `GracePeriodKept`: a start taken back never launches the next one early.
`CancelEnds`: cancellation and shutdown complete however full the queue and the
pipe are.

**Catalog** (`CatalogRefresh`; about 1.35 million states). `ShowsDatabase`: at
rest the screen shows the database, whatever was superseded on the way, but for
maps whose last report was lost with a failed read of the catalog.
`MatchesDirectory`: at rest after a full pass the database agrees with the
directory, wherever a visible change fell, but for maps whose own file or row
could not be read or written: a failure costs the map it is about and no other.
`RemovedOnlyIfGone`: no row is removed for an unreadable directory or file, a
broken edit or a skipped pass. `ContinuationSeesImport`: the continuation of a
dropped archive runs after the archive was unpacked or left, and finds its map
if the pass could read, write and report it. `ComesToRest`: refreshes do not feed
themselves, and shutdown joins the coordinator. How long the exceptions last is
part of the properties: the next pass, or the next report of the map, ends them,
but for `misread`, which lasts until the file changes or is read well (section 7).

**CatalogStartupLost** (expected violation of `StartupContinues`,
launcher.go:435). A request that supersedes the *running* pass inherits only the
callbacks of the *pending* request: the startup selection, which belongs to the
first pass, never runs, and a replay given on the command line is not opened.

**Ruleset** (`MCRuleset`; one or two participants, five maps of two objects).
`Accounted`: every object is judged as a parent exactly once and the counters
that index the difficulty attributes never run past the map (`JudgedOnce`), and
the combo a play could have had is one the map has (`PotentialCombo`).
`NoteOrder`: a head is hit only when what comes before it has been judged.
`FullCombo`: hitting everything, however late and in whichever frame, makes the
whole combo. `Isolation`: who else plays makes no difference to a participant, on
maps whose objects start one after another (section 7).
`EndsInTime`: the map ends, whoever stopped playing when.

**SongSelect** (`SongSelect`; two images, five user or catalog actions).
`ViewSpec`: the list implements `CatalogDisplay`, that is, a list is shown only
if it is the wanted one and the wanted one is shown in the end. `BuildingIsTrue`:
the window says it is preparing a list exactly while one is under way.
`PixmapsOwned`: a pixmap is disposed once, and by shutdown all of them are.
`ThumbnailShown`: the image of the map under the mouse arrives.

**Dance** (`MCDance`; every playable map of three objects over five start times
and of four over three, nine settings, two seeks; 1.4 million states).
`Untangled`: nothing overlaps in a prepared queue. `Timely`: what is left to
play depends on the time alone, not on how frames divided it or where playback
began. `EveryNoteTapped`: each note gets a press of its own, in time and in its
place. `HeldThrough`: at a slider's points and through a spinner a key is down.

**Gameplay** (`GameThreads`; two storyboard workers, two panics; 175,000
states). `QuietAfterDispose`: once `Dispose` frees samples, atlas and track no
worker runs and none of their audio commands is under way, whichever thread
crashed. `CommandsAnswered`: the audio thread is never stopped under a waiting
caller. `ExitCompletes`: once the window closes or a thread has crashed the
process ends, with the exception of section 7 (`Stranded`).

TLC also checks every passing run for deadlock; each may stop only in a state
whose action says it is over (`Terminated`, `AllOver`, `Done`, `AtRest`,
`Over`). In SongSelect this is what shows that shutdown, which joins the workers
on the thread that reads their results (`runtime.go:76`), does not hang.


## 4. Bounds

| Bound | Value | Why it is enough |
|---|---|---|
| `PBOs`, `MaxFrames` | 3, 4 | more frames than buffers, so every buffer is reused; one buffer each may be read back, queued and written at once |
| `Buffers`, `MaxSamples`, `Intervals` | 3, 7, {1,2,3,5} | intervals below, at and above the block, not multiples; more blocks than buffers |
| `PipeBlocks` | 1 | the writer waits for the encoder as often as possible |
| `Second`, `Durations`, rates, `Blurs` | 12; 0..26; four output and four sample rates; six shutters | more than two seconds; rates that divide each other and do not; shutters narrower and wider than a frame, odd and even sums |
| `Recorders` | 2 | a third recording acts on the others only through the final path, as the second does |
| `MaxStarts` | 2 | what one run leaves behind meets the next |
| `QueueCapacity` (256 in the code) | 1 | a full queue is the hard case and is reached at once; every producer blocks on it |
| `PipeCapacity` | 1 | likewise |
| `Maps`, `MaxActs` | 1, 2 | the rows of different sets are handled independently, except that any unreadable directory stops all removals, which the property exempts; two changes, selections, archives or failures (of one read or write each, section 2.7) suffice to supersede a pass, change a file after its scan, lose a report, and supersede again |
| `Paths`, `MaxActs` (song select) | 2, 5 | a request superseded while the result of another waits, and the image of another map after that |
| `Preempt`, `HittableRange`, `W50`, `Leniency` | 4, 3, 2, 1 ms | windows that overlap the next object, a slider shorter than its window, all in a few milliseconds; a hit window with a miss window around it |
| maps and `Gaps` (ruleset) | two objects; frames 1 or 3 ms apart | stacked circles, repeats, overlapping sliders, a slider before a circle, a spinner; note lock and sharing relate two objects at a time; three milliseconds skip a slider point |
| `MergeGap`, `SpinnerGap`, `TailLead`, `Hold`, `SingleTap`, `HitWindow` | 2, 2, 2, 5, 9, 3 ms for 3, 30, 36, 50, 140 ms and the difficulty's window | the order of the constants is that of the code, and start times fall below, at and above each; three stacked notes and a note inside a slider and a spinner occur |
| `Stories`, `MaxPanics` | 2, 2 | a crashed storyboard is restarted once; two threads run the crash handler at a time |

The proofs of section 6 need none of the bounds of their modules: the constants
are any values that satisfy the named assumption of the module.


## 5. Fairness

Weak fairness, but for one case below, and only of what runs unconditionally:
goroutines the Go scheduler runs, the frame loop that drains the queue each
frame, timers that were armed, the GPU, which completes submitted commands, and
an encoder that is alive, which keeps reading and ends at end of input. Nothing
is assumed of the user, of other programs, or that an encoder or a child stays
alive. The child being killed is assumed to die (`exec.CommandContext` sends a
kill it cannot ignore). In the catalog the loop refreshes once a change is due: that is
`AutoRefreshDB`, or a user who accepts the prompt; a user who declines has no
refresh and no promise.

In song select the two workers are fair; each frame of the open popup polls the
views and the images, as the drawing code does, and the main thread ends what it
began. In `GameThreads` every goroutine is fair, and taking the storyboard's
lock strongly so (`MainDraw`, `JoinStory`): its mutex hands itself to a waiter
that starves (Go's `sync.Mutex`), and no party holds it for ever. A user who is
shown the error dialog dismisses it.

Weak fairness of one party's disjunction is enough elsewhere: every party is
sequential and at each position has one enabled step, or waits for another
party. The ruleset and the generated cursors have bounded clocks and promise by
when (`EndsInTime`) instead of eventually.


## 6. Proofs

### 6.1 The video pipeline

`VideoPipelineProofs` proves, for every set of buffers, every number of frames,
either kind of input and every outcome of a fence wait without context:

| Theorem | States |
|---|---|
| `TypeCorrect` | `Spec => []TypeOK` |
| `BuffersOwned` | `Spec => []OneOwner` |
| `FramesUnbroken` | `Spec => []InFlight` |
| `GoodIsComplete` | `Spec => []SuccessIsComplete` |
| `WrittenBufferStable` | `Spec => NoOverwriteWhileWriting` |
| `ImplementsFeed` | `Spec => FeedSpec` |
| `ClosedPipeUntouched` | the writer never writes to a closed pipe |
| `SendNeverBlocks` | a channel with a place per buffer never blocks the GL thread |
| `Invariance` | `Spec => []Inv`, on which all of these rest |

The assumptions are those of `VideoPipeline`: the buffers are a finite non-empty
set without `None`, and the parameters have their types.

`Inv` is `TypeOK /\ OneOwner /\ InFlight /\ Control`. Neither `OneOwner` nor
`InFlight` is inductive by itself. `InFlight` says nothing once a write failed,
so one has to know that the encoder is not running then; that the queue is
drained when the writer ends; that the local flag of the writer agrees with the
sticky error; and that a stop without an error passed through an empty read
queue. These are the three parts of `Control`, which relate the positions of
recorder, writer and encoder. The proof has one lemma per action that moves
buffers (`CheckTakeInv`, `CheckSendInv`, `TakeBufferInv`, `WriterReceiveInv`,
`WriteFrameInv`, `WriterGiveInv`) and one for all the actions that leave the
buffers alone. `QueueAppend`, `QueueRemove` and `QueueRoom` say what `Append` and
`Tail` do to a sequence without repetitions and to the set of its elements.

`SendNeverBlocks` needs a count: the elements of the writer's channel and the
buffer in hand are distinct buffers (`OneOwner`), so the channel holds fewer
than there are.

### 6.2 The audio pipeline

`AudioPipelineProofs`, for every pool, block size, set of intervals and length,
and either kind of input: `Spec => []OneOwner` (`BuffersOwned`),
`Spec => []SuccessIsComplete` (`GoodIsComplete`) and `Spec => FeedSpec`
(`ImplementsFeed`). The assumptions are those of `AudioPipeline`: a finite,
non-empty pool, and parameters of their types.

Ownership, control and numbering are as in the video pipeline. What is new is
that blocks differ in length, so `SuccessIsComplete` compares two sums over all
blocks. `Accounted` avoids the sum: some function `total` from block numbers to
sample frames agrees with what was heard at the encoder's position and with what
was asked for, less the rest of the interval, at the last submitted block, and
every block on the way, in the pipe, in the writer's hand or in the queue, is as
long as `total` grows at its number. A submission extends `total` by one value.

### 6.3 The timeline

`RecordingTimelineProofs`, for every duration, output rate, sample rate, shutter
and length of a second: `Spec => []StreamsMatch` (`StreamsAgree`),
`Spec => CenteredShutter` (`ShutterCentered`) and `Spec => RenderedInSync`
(`PicturesInSync`). The assumption is `TimelineAssumption`, what
`NewRecordingTimeline` validates: rates are positive.

The first part is arithmetic: what `ceilMulDiv` and `roundedMulDiv` return
(`RoundedUp`, `Rounded`) and that a position does not decrease with its index
(`RoundedGrows`). From it `NewRecordingTimeline` gets its numbers right: the
frames cover the content, the audio covers the frames, and the clock's end
covers both (`FramesCover`, `AudioCovers`, `ClockEnds`). `TimelineInvariant`
then says where the loop is: `Numbered`, frame `n` is the next to be emitted and
its source sample has not been passed; `Behind`, simulation and sound are not
ahead of the clock; `Complete`, what is known once the loop has finished.
`StreamsMatch` alone is not inductive: it speaks of the last step only.

### 6.4 The session

`RecordingSessionProofs`, for every set of processes that record under one name,
killed anywhere, among other programs, on either platform:
`Spec => []SuccessIsPublished` (`ReportedIsPublished`), `Spec => NoReplace`
(`NothingReplaced`) and `Spec => NothingLost` (`WholeStaysWhole`). The assumption
is that the model values for other programs and for nobody are not recorders.

`Inv` says for each recorder what its session directory holds at each step of
`StartPreparedRecording` and `StopFFmpeg` (`OnDisk`), and what it may have at the
final path (`AtFinalPath`): who has published is at the steps after it, both its
encoders ended well, and the file holds what its streams did. Processes interact
only through `final`, so a step of one leaves the other's part alone unless it
publishes (`OthersKept`).

### 6.5 The launcher and its child

`LauncherProcessProofs`, for every number of runs and delayed starts and every
capacity of the event queue and the pipes: `Spec => []RunsApart`
(`RunsKeptApart`), `Spec => []CleanExit` (`ExitIsClean`) and
`Spec => GracePeriodKept` (`GraceKept`). The assumption is that the counts are
positive.

Of some events the interface compares the run, of others it does not (`encode`,
`finish`), and `RunsApart` says that none of these is taken for the
next run's. The reason is an order: the goroutine of a run posts "finished" after the
scanner has ended, so behind a "finished" in the queue there is no event of any
run, and every run event queued is of the active run (`Posted`, `FinishedLast`).
The one exception is the hand-off timeout, which may come late and carries its
run. `Leaving` is the same for the exit: whatever makes the launcher leave its loop was
confirmed, and a dialog that would confirm an exit cannot outlive the wish for it.
`GracePeriodKept` rests on a task in the queue having a timer that has run out.

### 6.6 The catalog

`CatalogRefreshProofs`, for every set of maps, every number of changes,
requests, selections and cancellations while passes run, and every capacity of
the queue, and for every failure of section 2.7, as many as `MaxActs` allows:
`Spec => []ShowsDatabase` (`ScreenIsTrue`), `Spec =>
[]MatchesDirectory` (`DirectoryIsTrue`), `Spec => RemovedOnlyIfGone`
(`RowsRemovedOnlyIfGone`) and `Spec => ContinuationSeesImport`
(`ContinuationsSeeImports`). The assumptions: the set of maps is finite and the
queue has room for an event.

The first two speak of a system at rest, the last of the moment a continuation
runs, and all have to be followed through a pass, map by map.

- For the screen, `Listing`: once the latest request was told of the rows it
  started from, the last word on every map is true (`TrueWord`): what the queue
  last says of the map (`LastWord`), or else the screen, is what the database
  has; or the row was removed because its file is missing, and older reports
  still show it; or the last report of the map was lost (`untold`), and a later
  report of the map, or of all, makes its word true again. This needs that no report of an older generation can follow a
  newer request (`Requested`, `NotYet`, `GenerationTypes`), and that a cancelled
  operation reports nothing after a write it did not report (`Cancelled`,
  `Progress`). Its lemmas, one per step that can disturb it, are `CacheTells`,
  `WriteTells` and `QuietStepTells`.
- For the directory, `Directory`: once a pass of the latest generation has
  compared, a map stands (`Stands`): its row agrees with its file, or the file
  waits to be imported or to be declared broken, and what is to be rated is what
  was imported. It stands if no change in the directory was noticed or missed;
  and if its own file was there, was read and has not changed since (`Calm`), it stands whatever happened to other maps. A map that was skipped or misread
  (`Excused`) only has its work done. This needs that a fingerprint stands for
  one content (`Fingerprints`), that of a rejected file for no good one unless
  that was misread (`Spent`), and that a file is not both broken and good
  (`Work`). Its lemmas: `ScanSettles`, `ImportSettles`, `TombstoneSettles`,
  `RatingsSettle`, `ChangeSettles`.
- For the continuations, three more. `Answered`: a current report carries
  continuations only once its pass has served the latest request, and says
  nothing of rows itself; until it is posted, what was lost when it was made is
  all that is lost. `Unpacked`: no archive is left once a pass of the latest
  request has unpacked, but for those the pass had to leave. `Heard`: before such
  a report in the queue, the last word on a map that is imported and calm, and
  was neither skipped, misread nor untold, is what the database has. Star
  ratings may still be written after that report was queued, so the last word in
  the whole queue does not give this: what saves it is that the ratings write
  what the visible row says already (`RatingsWriteTheSame`).

### 6.7 Song select

`SongSelectProofs`, for every set of paths and every number of user and catalog
actions: `Spec => []PixmapsOwned` (`PixmapsOwnedOnce`), `Spec =>
[]BuildingIsTrue` (`ListIsTrue`), and that each step of the window and its two
workers is a step of `CatalogDisplay` or a stutter (`ListSteps`), which is the
safety half of `ViewSpec`. The assumption: `None` is no path, job or window, and
`MaxActs` is a natural number.

A job passes through five places of a worker: what the main thread is about to
send, the request slot, the worker's hand, the result slot, and what the main
thread has just polled. `InTurn` says that a job further on its way is an older
one and that none is newer than the counter, so that what a full slot drops is
never the newest, and so that no two places hold the same image. It needs
`Standing`: in which positions a worker has something in hand, that `stop` is
given only by a shutdown, and that a build is cancelled only once a newer one
has been asked for.

`BuildingIsTrue` speaks of the newest request only. `Listed` adds that whatever
carries the newest number is the newest request itself and that, with none on
its way, the list is the current one; `WindowTrue` relates the window's copy to
the launcher's also between the two calls that change them. `PixmapsOwned`
speaks of images that have been decoded. `PixmapsHeld` adds that no job
still to be decoded has a pixmap already, which is why a decoded one is new, and
`Tooltip` which of the two threads has let go at each step of the shutdown.

### 6.8 Threads of a game

`GameplayProofs` proves, for every number of storyboard workers and every
bound on panics, `Spec => []CommandsAnswered` (`CallersAnswered`) and
`Spec => []QuietAfterDispose` (`QuietWhenFreed`), from `Invariance`. The
assumption is that of `GameThreads`: the names of the threads are distinct.

`QuietAfterDispose` is not inductive: a storyboard worker that has ended may be
started again by the update worker, and the update worker, once joined, could
run again if a call it had queued were answered later. `Inv` adds why neither
happens. `CallsAwaited`: a call in the queue of the main thread that somebody
waits for belongs to an update worker that waits right now. `WorkerFirst`,
`ThenRequest` and `ThenStory`: what the three waits of `Dispose` have
established stands from then on, in this order, for each rests on the one
before. `PlayedByStories`: a sample is played from inside an update, which waits
for it, so no such command outlives its worker. `StoppedInTurn`: the audio
thread refuses before it waits, which is also all that `CommandsAnswered` needs.

### 6.9 Spinners

`GameplayProofs` also proves `EverySpinIsEarned`: under `SpinSpec`, reports of any
rotation to either side, however large, in any sequence, `4 * spins <= path` in
quarters of a turn. The code credits a spin whenever the largest rotation of the
current spin reaches a whole turn, as often as one report allows, and a reversal
reduces the rotation but not that maximum (`reportLazerRotationDelta`). So the
bound is not inductive: `SpinInv` adds that the maximum is below a whole turn,
that the current rotation is within it, and that the path also pays for it.

### 6.10 Only model-checked

- All liveness, which TLAPS does not prove under fairness: `StopReturns`,
  `EncoderFailureSurfaces`, `CancelEnds`, `ComesToRest`, `ThumbnailShown`, the
  liveness half of `ViewSpec`, and `ExitCompletes`.
- The ruleset (`OsuRuleSet`) and the generated cursors (`CursorDance`): their
  steps fold over the objects of a map, and what a fold returns is an induction
  over data. `Isolation` is not true of every map (section 7), so it would also
  need an assumption on the maps.

## 7. Known divergences

Two are shown by runs of their own, VideoFifoLive and CatalogStartupLost. The
others were met while modelling. Each is a place where the code and what is
written about it disagree, or where a property had to be given an exception.

**Recording that fails half way** (`app.go:873`). When the loop fails while both
encoders are healthy, the deferred `StopFFmpeg` muxes and publishes the shortened
recording and removes the session directory before the error is returned;
CHANGELOG.md:575 says failed recordings retain their session directory.

**Publication on Windows** (`publish_windows.go:18`). The comment relies on
`os.Rename` not replacing the destination, which Go's implementation on Windows
does: a file that appears after the look is replaced (CHANGELOG.md:572).
`NoReplace` is therefore about the linking publication.

**A read that breaks off while a map is parsed** (`manager.go:1005`).
`importBeatmap` returns corrupt=true for every error of
`ParseBeatMapFileWithError`, those of reading the file among them (`file.Stat`,
`Seek`, `scanner.Err()`, `parser.go:298`), although manager.go:915 says that
"unreadable files report corrupt=false so the next scan retries them". A valid
new file is then marked as no beatmap under its own fingerprint, and is not read
again before it changes. The model does so in `RejectMap`; `misread` exempts the
map from `MatchesDirectory` and `ContinuationSeesImport`.

**A late "Stop and exit"** (`cancel_flow.go:61`). A child that ends just before
the click drops the exit, although the comment at line 39 promises it.

**Classic sliders with a late head** (`slider.go:454`, `:493`). `UpdatePostFor`
sends the summary of a slider shorter than its head's window while the head may
still be hit: a slider that is then hit in full has already been judged a miss
and has reset the combo. `FullCombo` leaves Classic out.

**2B maps under generated cursors.** (a) Of two overlapping spinners the second
may stay uncut: sorting after the first was cut can move it to the index just
passed (`solver.go:90`). (b) `Spread` replaces a double click by a plain circle
(`generic.go:119`): with a third object at that moment one of two stacked notes
gets no press. (c) When a slider's head was merged into a double click, a note
that starts with a point or the end of that slider, or a millisecond after, gets
no fresh press (`input.go:92`). `Playable` in `MCDance` leaves these maps out;
slider points due at two places at once, which no cursor can serve, are excused
in `HeldThrough`. The tails of lazer sliders merged with another tail are played
up to three milliseconds early.

**2B maps in knockout** (`ruleset.go:715`, `:739`). The note lock looks at the
active object before the clicked one, and which objects are active depends on
everyone. (a) Lazer: of two circles at one moment the second was hit, the first
not. While somebody still has to hit the second it stays active and unlocks the
next note; alone, the participant would be locked by the first. (b) Stable: the
same when a stacked circle, a short slider over it and a circle within
`Tolerance2B` follow each other and the slider is over first. TLC violates
`Isolation` on `<<Circle(4, FALSE), Circle(4, FALSE), Circle(5, FALSE)>>` for two
lazer replays and on `<<Circle(4, TRUE), Slider(4, <<5>>), Circle(4, FALSE)>>` for
two stable ones, so `MCRuleset` gives several participants only maps on which no
two objects start together.

**Exit while the update worker calls the main thread** (`pcontroller.go:201`).
`setRawStatus` uses `CallMain`, which returns when the main thread has run the
call. If the main loop ends after the call was queued, nobody runs it, the
worker waits for ever, and `Player.Dispose` waits for the worker. `Stranded`
names this state and `ExitCompletes` excepts it. It needs play mode with the
high-precision mouse and the pointer crossing the window's border in the frame
the window closes.

**`RunMain` returns early** (`mainthread.go:33`). Its comment says it returns
when `run` finishes *and* the loop's condition is false; it returns as soon as
the loop ends. A render error, which `run` raises after the loop, races the main
thread's normal close and may be lost: the process ends with exit code 0.

**`closeHandler` on two threads** (`app.go:1284`). `player` is read for the test
and again for the call; another thread may set it to nil between the two, and
the call of a nil interface is a second panic. The process still ends.


## 8. What is not modelled

- Pixel data, sample data, FFmpeg options, progress and log texts, layout.
- Creating buffers and starting encoders (`createPBO`, `startVideo`): the
  pipelines start where both succeeded; the session module covers failed starts.
- A fence wait without context that returns at once for ever: under that
  reading of undefined behaviour `checkData` spins, and no property could hold.
- An output line longer than the scanner's buffer of 1 MiB
  (`process_supervisor.go:350`): the pipe would no longer be read, and shutdown
  would wait for the child.
- Overflow in `timeline.go`: `ceilMulDiv` checks, and refuses, what would
  overflow before `roundedMulDiv`, which does not check, is reached.
- In the catalog: a changed Songs directory setting, a panic of the coordinator,
  archives that cannot be moved into the directory or are unpacked but not
  removed, and the drop of an archive while the watcher goroutine waits for a
  full queue (`closeWatcher` would wait for the main thread's own queue).
- The capacity of an audio buffer: `audio.go:201` restores a buffer that a short
  block was cut to; `AudioPipeline` knows the length of what a buffer holds, not
  how much it could.
- Row removal by `removeGhostCatalogEntry` against a result already queued: the
  row may be shown again until the next refresh; `ghosts` exempts it.
- An aborted recording's `StopFFmpeg` on a goroutine without a GL context
  (`app.go:873`) but for the outcomes of `OffContext`.
- Ruleset: the windows of 300, 100 and 50 within a hit and everything computed
  from them (accuracy, score values, geki and katu, ScoreV2's `ModifyResult`),
  health, Relax, Autopilot and Spun Out, the rotation speed of stable spinners
  (only its verdict `cleared`), the speed factor of rotation, sounds and
  animation, several frames within one millisecond, `processSliderEndsAhead`.
  `Isolation` is about maps whose objects are active before they can be hit
  (`Preempt` no less than `HittableRange`) and whose objects do not start
  together (section 7), and compares judgement and score, not animation.
- Song select: searching, layout, the audio preview. A pixmap left in the result
  slot when the popup closes stays there until it is reopened or the launcher
  shuts down.
- Generated cursors: the shapes of curves and spinners, `WaitForPreempt`, which
  sliders are pathological (a slider without points stands for one), fractions
  of milliseconds, negative times, the dance cursors of the replay controller.
- Threads: everything before the main loop starts, the settings watcher, the
  memory profiler, texture uploads through `callMain`, and the calls of the main
  thread that exist only while recording.
- The update service (`update/service.go`): its flag admits one request at a time
  and what it does in between is network and archive I/O.
- Floating-point code (difficulty, performance, trajectories), graphics, layout,
  parsing, settings serialization, BASS and network clients: no control state a
  model checker would explore.

The source has 84,630 lines of implementation, most of them of this last kind:
user interface, OpenGL and imgui drawing, bindings, parsers, difficulty and
performance formulas, animation. The modules here map less than a tenth of it,
the part whose behaviour depends on order, timing, sharing and failure.


## 9. Plan

Done, in this order: the video pipeline and its feed; audio; the timeline; the
session; the launcher's child; the catalog; the proofs about the video pipeline;
the ruleset and its spinner proof; song select; generated cursors; the threads
of a game and its end, with their proofs; the proofs about audio, the timeline,
the session, the launcher, the catalog and song select.

Every safety property of a module that does not fold over the objects of a map is
now a theorem. The rest is in 6.10: liveness, and the folds of the ruleset and of
the generated cursors.

Next modules:

1. `UpdateService` (`app/update/service.go`): manual and automatic checks,
   cancellation, and the state file saved outside the lock.
2. Knockout: who is out, and when, under `Isolation`, with the failure gates of
   `app/states/components/overlays`.
3. The settings watcher (`app/settings/manager.go`): a save racing a reload.
