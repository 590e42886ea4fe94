---------------------------- MODULE CatalogRefresh ----------------------------
(* The launcher's beatmap catalog: the coordinator goroutine that refreshes  *)
(* the database from the Songs directory (launcher/catalog_coordinator.go,   *)
(* app/database/manager.go), the main thread that shows it (runtime.go,      *)
(* launcher.go), the directory watcher (beatmapdirwatcher.go) and the        *)
(* programs that change the directory.                                       *)
(*                                                                           *)
(* Every map has a set directory of its own.  Its file has a version, 0 when *)
(* it is not there; a write gives it a new one, which is its fingerprint of  *)
(* time and size.  Some versions are no valid beatmap.  Rows are committed   *)
(* one by one, not by thousands.  The database belongs to this Songs         *)
(* directory.  Any change may count as a large one.  A Failure is one file,  *)
(* directory, query or write that fails once.                                *)
EXTENDS Naturals, Sequences, FiniteSets, FiniteSetsExt

CONSTANTS
    Maps,           \* the maps that may ever be in the Songs directory
    MaxActs,        \* bound: changes by other programs, selections,
                    \* archives and failures; the shutdown comes before
    QueueCapacity   \* launcherEventQueueCapacity

ASSUME CatalogAssumption ==
    /\ IsFiniteSet(Maps)
    /\ MaxActs \in Nat /\ QueueCapacity \in Nat \ {0}

VARIABLES
    disk, archives,     \* the Songs directory: set directories, .osz files
    fsEvents,           \* the watcher has events of it to read
    watch,              \* its goroutine and event: "none", "posting", "queued"
    acts,               \* how often the bounded actions have happened
    stableMaps,         \* the maps osu!.db lists
    skipMapUpdate,      \* launcherConfig.SkipMapUpdate
    catalogGeneration, snapshotGeneration, catalog, beatmapDirUpdated,
    runtimeEvents,      \* the main thread's queue
    pending, wake, activeCancel, canceled, closed,    \* catalogCoordinator
    at, request,        \* its goroutine, and the request it took
    databaseReady, db,  \* the database
    mapsInDB, mustCheck, toImport, corruptNew, rated, \* of a pass
    event,              \* the event being posted, and its context
    startupRan,         \* history: the startup selection ran
    unread, silent, gone, ghosts, served,   \* history, see the properties
    skipped, misread,   \* history: maps the last pass could not read or write,
                        \* good files that were read as broken ones
    packed,             \* history: maps whose archive the last pass left
    untold, unsaid      \* history: maps of which a report was lost, because the
                        \* catalog could not be read; those of the last pass

settings == <<stableMaps, skipMapUpdate>>
directory == <<disk, archives, fsEvents, watch, settings>>
world == <<directory, acts>>
screen == <<catalogGeneration, snapshotGeneration, catalog, beatmapDirUpdated>>
control == <<pending, wake, activeCancel, canceled, closed>>
pass == <<mapsInDB, mustCheck, toImport, corruptNew, rated>>
reading == <<skipped, misread, packed>>
telling == <<untold, unsaid>>
history == <<startupRan, unread, silent, gone, ghosts, served, reading, telling>>
vars == <<world, screen, runtimeEvents, control, at, request, databaseReady, db,
          pass, event, history>>

-----------------------------------------------------------------------------
(* The n-th write makes one of two versions; the parser rejects the first.   *)
New(n) == 2 * n .. 2 * n + 1
Corrupt == {2 * n : n \in 1..MaxActs}
MaxVersion == 2 * MaxActs + 1
Versions == 0..MaxVersion
NoRow == [state |-> "none", version |-> 0]
Row(s, v) == [state |-> s, version |-> v]
Rows == {NoRow} \cup {Row(s, v) : s \in {"complete", "invalid"}, v \in 1..MaxVersion}
        \cup {Row("stable", 0)}

(* Catalog reads hide the rows of rejected files.                            *)
Visible(row) == IF row.state = "invalid" THEN NoRow ELSE row
Shown(rows) == [m \in Maps |-> Visible(rows[m])]
Listed(rows) == {m \in Maps : Visible(rows[m]) # NoRow}
Present == {m \in Maps : disk[m] # 0}

Startup == "startup"
Callbacks == Maps \cup {Startup}

NoRequest == [generation |-> 0, callbacks |-> {}]
NoEvent == [kind |-> "none"]
Nothing == [m \in {} |-> NoRow]

(* What the coordinator reports: every row, or the rows that are new or gone. *)
Report(kind, rows, calls) == [kind |-> kind, generation |-> request.generation,
                              rows |-> rows, callbacks |-> calls]
EarlyContinuations == request.callbacks  \* MUTANT: the cache carries the continuations
ContinuationsOfSnapshot == {}
Snapshot(rows) == Report("snapshot", Shown(rows), ContinuationsOfSnapshot)
Delta(change) == Report("delta", change, {})
CatalogError == [kind |-> "error", generation |-> request.generation]

Applied(change) == [m \in Maps |-> IF m \in DOMAIN change THEN change[m] ELSE catalog[m]]
With(rows, change) == [m \in Maps |-> IF m \in DOMAIN change THEN change[m] ELSE rows[m]]
Every(ms, row) == [m \in ms |-> row]
Without(ms) == With(db, Every(ms, NoRow))

(* The startup request is made before the first frame (reloadMaps in         *)
(* StartLauncher); the database holds what an earlier run left.              *)
Init ==
    /\ disk \in [Maps -> {0, 1}] /\ archives = Every(Maps, 0)
    /\ fsEvents = FALSE
    /\ watch = "none" /\ acts = 0
    /\ stableMaps \in SUBSET Maps /\ skipMapUpdate \in BOOLEAN
    /\ catalogGeneration = 1 /\ snapshotGeneration = 0
    /\ catalog = [m \in Maps |-> NoRow] /\ beatmapDirUpdated = FALSE
    /\ runtimeEvents = <<>>
    /\ pending = [generation |-> 1, callbacks |-> {Startup}] /\ wake = TRUE
    /\ activeCancel = FALSE /\ canceled = FALSE /\ closed = FALSE
    /\ at = "idle" /\ request = NoRequest
    /\ databaseReady = FALSE /\ db \in [Maps -> {NoRow, Row("complete", 1)}]
    /\ mapsInDB = [m \in Maps |-> NoRow] /\ mustCheck = {} /\ toImport = Nothing
    /\ corruptNew = Nothing /\ rated = Nothing
    /\ event = NoEvent
    /\ startupRan = FALSE /\ unread = {} /\ silent = {} /\ gone = {} /\ ghosts = {}
    /\ served = FALSE /\ skipped = {} /\ misread = {} /\ packed = {}
    /\ untold = {} /\ unsaid = {}

-----------------------------------------------------------------------------
(* The Songs directory and its watcher.                                      *)

(* Another program writes, replaces or deletes a set.  The watcher sees only *)
(* the root: a new version inside a set directory raises no event.           *)
ChangeFile(m, v) ==
    /\ acts < MaxActs /\ ~closed /\ v # disk[m]
    /\ acts' = acts + 1 /\ v \in New(acts') \cup {0}
    /\ disk' = [disk EXCEPT ![m] = v]
    /\ fsEvents' = (fsEvents \/ disk[m] = 0 \/ v = 0)
    /\ silent' = IF disk[m] # 0 /\ v # 0 THEN silent \cup {m} ELSE silent
    /\ gone' = IF v = 0 THEN gone \cup {m} ELSE gone
    /\ misread' = misread \ {m}
    /\ UNCHANGED <<archives, watch, settings, screen, runtimeEvents,
                   control, at, request, databaseReady, db, pass, event, startupRan, unread,
                   ghosts, served, skipped, packed, telling>>

(* postBeatmapChangedEvent: one event stands for a burst.                    *)
WatcherWakes ==
    /\ fsEvents /\ watch # "posting" /\ ~closed
    /\ fsEvents' = FALSE
    /\ watch' = IF watch = "none" THEN "posting" ELSE watch
    /\ UNCHANGED <<disk, archives, acts, settings, screen, runtimeEvents,
                   control, at, request, databaseReady, db, pass, event, history>>

HasRoom == Len(runtimeEvents) < QueueCapacity

WatcherPosts ==
    /\ watch = "posting"
    /\ \/ /\ HasRoom /\ watch' = "queued"
          /\ runtimeEvents' = Append(runtimeEvents, [kind |-> "changed"])
       \/ closed /\ watch' = "none" /\ UNCHANGED runtimeEvents
    /\ UNCHANGED <<disk, archives, fsEvents, acts, settings, screen,
                   control, at, request, databaseReady, db, pass, event, history>>

-----------------------------------------------------------------------------
(* The main thread.                                                          *)

OnMain == ~closed

Merged(calls) == IF pending = NoRequest THEN calls ELSE pending.callbacks \cup calls

(* catalogCoordinator.request                                                *)
Request(calls) ==
    /\ catalogGeneration' = catalogGeneration + 1
    /\ pending' = [generation |-> catalogGeneration', callbacks |-> Merged(calls)]
    /\ canceled' = (canceled \/ activeCancel)
    /\ wake' = TRUE
    /\ served' = FALSE

NoRequestMade == UNCHANGED <<catalogGeneration, pending, canceled, wake, served>>

(* applyEvent: results of a superseded generation are dropped.               *)
Current(e) == e.generation >= catalogGeneration

DrainEvent ==
    /\ OnMain /\ runtimeEvents # <<>>
    /\ runtimeEvents' = Tail(runtimeEvents)
    /\ LET e == Head(runtimeEvents) IN
          \/ /\ e.kind \in {"snapshot", "delta"} /\ Current(e)
             /\ catalog' = IF e.kind = "snapshot" THEN e.rows ELSE Applied(e.rows)
             /\ snapshotGeneration' = IF e.kind = "snapshot" THEN e.generation
                                      ELSE snapshotGeneration
             /\ startupRan' = (startupRan \/ Startup \in e.callbacks)
             /\ UNCHANGED <<beatmapDirUpdated, watch>>
          \/ /\ e.kind \in {"snapshot", "delta"} => ~Current(e)
             /\ e.kind # "changed"
             /\ UNCHANGED <<snapshotGeneration, catalog, beatmapDirUpdated, startupRan, watch>>
          \/ /\ e.kind = "changed"
             /\ watch' = "none" /\ beatmapDirUpdated' = TRUE
             /\ UNCHANGED <<snapshotGeneration, catalog, startupRan>>
    /\ UNCHANGED <<disk, archives, fsEvents, acts, settings,
                   catalogGeneration, control, at, request, databaseReady, db, pass,
                   event, unread, silent, gone, ghosts, served, reading, telling>>

(* The refresh some seconds after a change: with AutoRefreshDB on, or after  *)
(* the user accepted it.                                                     *)
AutoRefresh ==
    /\ OnMain /\ beatmapDirUpdated
    /\ beatmapDirUpdated' = FALSE
    /\ Request({})
    /\ UNCHANGED <<world, snapshotGeneration, catalog, runtimeEvents, activeCancel, closed,
                   at, request, databaseReady, db, pass, event, startupRan, unread, silent, gone,
                   ghosts, reading, telling>>

(* materializeCatalogEntry: the row of a missing file is removed at once; a  *)
(* file that differs from its row, or a removal that fails, asks for a       *)
(* refresh.                                                                  *)
SelectMap(m) ==
    /\ OnMain /\ catalog[m] # NoRow /\ acts < MaxActs
    /\ acts' = acts + 1
    /\ \/ /\ disk[m] = 0
          /\ db' = Without({m})
          /\ catalog' = [catalog EXCEPT ![m] = NoRow]
          /\ ghosts' = ghosts \cup {m}
          /\ NoRequestMade
       \/ /\ disk[m] = 0 \/ disk[m] # catalog[m].version
          /\ Request({})
          /\ UNCHANGED <<db, catalog, ghosts>>
    /\ UNCHANGED <<disk, archives, fsEvents, watch, settings,
                   snapshotGeneration, beatmapDirUpdated, runtimeEvents, activeCancel,
                   closed, at, request, databaseReady, pass, event, startupRan, unread, silent, gone,
                   reading, telling>>

(* loadOSZs: archives are moved into the directory while the watcher is off. *)
(* closeWatcher waits for its goroutine; a drop is assumed to come when that *)
(* one is not waiting for room in the queue.                                 *)
DropArchive(m, v) ==
    /\ OnMain /\ acts < MaxActs /\ archives[m] = 0 /\ watch # "posting"
    /\ acts' = acts + 1 /\ v \in New(acts')
    /\ archives' = [archives EXCEPT ![m] = v] /\ packed' = packed \ {m}
    /\ fsEvents' = FALSE /\ beatmapDirUpdated' = FALSE
    /\ Request({m})
    /\ UNCHANGED <<disk, watch, settings, snapshotGeneration, catalog,
                   runtimeEvents, activeCancel, closed, at, request, databaseReady, db,
                   pass, event, startupRan, unread, silent, gone, ghosts, skipped, misread,
                   telling>>

(* launcher.shutdown; no event is drained any more.                          *)
Close ==
    /\ OnMain /\ acts < MaxActs
    /\ closed' = TRUE /\ canceled' = TRUE
    /\ UNCHANGED <<world, screen, runtimeEvents, pending, wake, activeCancel, at, request,
                   databaseReady, db, pass, event, history>>

-----------------------------------------------------------------------------
(* The coordinator's goroutine.                                              *)

GoTo(step) == at' = step
Ready(step) == at = step /\ event = NoEvent

(* Posting waits for room, or for the context: that of the operation for the *)
(* updates of a pass, that of the coordinator for the rest.                  *)
ContextDone == IF event.operation THEN canceled ELSE closed

PostEvent ==
    /\ event # NoEvent /\ event' = NoEvent
    /\ \/ HasRoom /\ runtimeEvents' = Append(runtimeEvents, event.e)
       \/ ContextDone /\ UNCHANGED runtimeEvents
    /\ UNCHANGED <<world, screen, control, at, request, databaseReady, db, pass, history>>

Publish(e) == event' = [e |-> e, operation |-> TRUE]
PublishAlways(e) == event' = [e |-> e, operation |-> FALSE]

Idle ==
    /\ Ready("idle")
    /\ \/ wake /\ wake' = FALSE /\ GoTo("take")
       \/ closed /\ UNCHANGED wake /\ GoTo("done")
    /\ UNCHANGED <<world, screen, runtimeEvents, pending, activeCancel, canceled, closed,
                   request, databaseReady, db, pass, event, history>>

NotReset == pending  \* MUTANT: takePending leaves the request
PendingAfter == NoRequest

TakePending ==
    /\ Ready("take")
    /\ \/ pending = NoRequest /\ GoTo("idle") /\ UNCHANGED <<pending, request>>
       \/ pending # NoRequest /\ GoTo("arm") /\ request' = pending /\ pending' = PendingAfter
    /\ UNCHANGED <<world, screen, runtimeEvents, wake, activeCancel, canceled, closed,
                   databaseReady, db, pass, event, history>>

Failure == acts < MaxActs /\ acts' = acts + 1
Costs(failed) == IF failed THEN Failure ELSE UNCHANGED acts

(* database.Init, once.                                                      *)
InitDatabase ==
    \/ databaseReady' = TRUE /\ GoTo("cache") /\ UNCHANGED <<acts, event>>
    \/ /\ ~databaseReady /\ Failure
       /\ UNCHANGED databaseReady /\ GoTo("finish")
       /\ PublishAlways(CatalogError)

SetActiveCancel ==
    /\ Ready("arm")
    /\ activeCancel' = TRUE /\ canceled' = closed
    /\ InitDatabase
    /\ UNCHANGED <<directory, screen, runtimeEvents, pending, wake, closed, request, db, pass,
                   history>>

(* publishCachedCatalog, unless this generation has its snapshot.            *)
FirstSnapshotOnly == snapshotGeneration = 0  \* MUTANT: a superseded snapshot counts
SnapshotWanted == snapshotGeneration < request.generation

PublishCached ==
    /\ Ready("cache") /\ GoTo("seed")
    /\ \E failed \in BOOLEAN :
          /\ Costs(failed)
          /\ \/ /\ SnapshotWanted /\ failed
                /\ PublishAlways(CatalogError)
                /\ untold' = Maps /\ UNCHANGED ghosts
             \/ /\ SnapshotWanted /\ ~failed
                /\ PublishAlways(Snapshot(db))
                /\ untold' = {} /\ ghosts' = {}
             \/ /\ ~SnapshotWanted /\ ~failed
                /\ UNCHANGED <<event, untold, ghosts>>
    /\ UNCHANGED <<directory, screen, runtimeEvents, control, request, databaseReady, db, pass,
                   startupRan, unread, silent, gone, served, reading, unsaid>>

(* A pass that notices its cancellation ends; what it has committed stays.   *)
Abort(step) ==
    /\ Ready(step) /\ canceled /\ GoTo("finish")
    /\ UNCHANGED <<world, screen, runtimeEvents, control, request, databaseReady, db, pass,
                   event, history>>

Going(step) == Ready(step) /\ ~canceled

(* A committed change is reported, a large one with a fresh read of the      *)
(* catalog; when that fails the change is reported to nobody.                *)
Announce(rows, change, lost) ==
    /\ db' = rows
    /\ \/ DOMAIN change = {} /\ ~lost /\ UNCHANGED <<event, untold>>
       \/ /\ DOMAIN change # {} /\ ~lost /\ Publish(Delta(change))
          /\ untold' = untold \ DOMAIN change
       \/ DOMAIN change # {} /\ ~lost /\ Publish(Snapshot(rows)) /\ untold' = {}
       \/ /\ DOMAIN change # {} /\ lost /\ UNCHANGED event
          /\ untold' = untold \cup DOMAIN change

(* SeedCatalogFromStableDatabaseContext: a database or an osu!.db that fails *)
(* is a miss.                                                                *)
Seeds == IF Listed(db) = {} THEN Every(stableMaps, Row("stable", 0)) ELSE Nothing

Seed ==
    \E seeds \in {Seeds, Nothing}, lost \in BOOLEAN :
        /\ Costs(seeds # Seeds \/ lost)
        /\ Announce(With(db, seeds), seeds, lost)

SeedFromStable ==
    /\ Going("seed") /\ GoTo("unpack")
    /\ Seed
    /\ UNCHANGED <<directory, screen, runtimeEvents, control, request, databaseReady, pass,
                   startupRan, unread, silent, gone, ghosts, served, reading, unsaid>>

(* unpackMaps: an archive replaces the file of its set and is removed,       *)
(* unless UnpackOszFiles is off or it cannot be unpacked.  Then the pass     *)
(* seeds once more.                                                          *)
Archived == {m \in Maps : archives[m] # 0}

UnpackMaps ==
    /\ Going("unpack") /\ GoTo("scan")
    /\ packed' \in SUBSET Archived /\ mustCheck' = Archived \ packed'
    /\ disk' = [m \in Maps |-> IF m \in mustCheck' THEN archives[m] ELSE disk[m]]
    /\ archives' = [m \in Maps |-> IF m \in mustCheck' THEN 0 ELSE archives[m]]
    /\ fsEvents' = (fsEvents \/ mustCheck' # {})
    /\ misread' = misread \ mustCheck'
    /\ Seed
    /\ UNCHANGED <<watch, settings, screen, runtimeEvents, control, request,
                   databaseReady, mapsInDB, toImport, corruptNew, rated, startupRan, unread,
                   silent, gone, ghosts, served, skipped, unsaid>>

(* The fingerprints of the rows, the scan of the directories, and what it    *)
(* finds against the rows.  A scan that skips known directories, or could    *)
(* not read one, removes nothing.                                            *)
Known == {m \in Maps : db[m] # NoRow}
TrustsStable(m) ==  \* MUTANT: seeded rows are not parsed
    db[m] \in {Row("stable", 0), Row("complete", disk[m]), Row("invalid", disk[m])}
Unchanged(m) == db[m] \in {Row("complete", disk[m]), Row("invalid", disk[m])}
Candidates(unreadable) ==
    {m \in Present \ unreadable : skipMapUpdate => m \notin Known \/ m \in mustCheck}
Leftover(unreadable) ==
    IF skipMapUpdate \/ unreadable # {} THEN {} ELSE Known \ (Present \ unreadable)

Scan ==
    /\ Going("scan")
    /\ \/ \E unreadable \in SUBSET Present, lost \in BOOLEAN :
          \E removed \in {Leftover(unreadable), {}} :
             /\ Costs(unreadable # {} \/ removed # Leftover(unreadable) \/ lost)
             /\ toImport' = [m \in {c \in Candidates(unreadable) : ~Unchanged(c)} |-> disk[m]]
             /\ Announce(Without(removed), Every(removed, NoRow), lost)
             /\ mapsInDB' = db
             /\ unread' = unreadable /\ gone' = Maps \ Present /\ silent' = {}
             /\ skipped' = Leftover(unreadable) \ removed
             /\ GoTo(IF DOMAIN toImport' = {} THEN "report" ELSE "import")
       \/ /\ Failure /\ GoTo("finish") /\ PublishAlways(CatalogError)
          /\ UNCHANGED <<toImport, mapsInDB, unread, gone, silent, db, skipped, untold>>
    /\ UNCHANGED <<directory, screen, runtimeEvents, control, request, databaseReady,
                   mustCheck, corruptNew, rated, startupRan, ghosts, served, misread, packed,
                   unsaid>>

(* importBeatmap reads the file as it is now.  A rejected file is remembered *)
(* with the fingerprint of the scan, unless it has a good row to keep.       *)
NeverKeeps(m) == FALSE  \* MUTANT: a broken edit hides the last good row
KeepsRow(m) == mapsInDB[m] # NoRow

InsertMap(m) ==
    /\ disk[m] \notin Corrupt \cup {0}
    /\ LET change == Every({m}, Row("complete", disk[m]))
       IN \E lost \in BOOLEAN : Costs(lost) /\ Announce(With(db, change), change, lost)
    /\ misread' = misread \ {m}
    /\ UNCHANGED <<corruptNew, skipped>>

(* A read that breaks off in the parser rejects a good file as well, against *)
(* the comment at manager.go:915.                                            *)
RejectMap(m) ==
    /\ disk[m] # 0
    /\ Costs(disk[m] \notin Corrupt)
    /\ misread' = IF disk[m] \in Corrupt THEN misread \ {m} ELSE misread \cup {m}
    /\ corruptNew' = IF KeepsRow(m) THEN corruptNew
                     ELSE [n \in DOMAIN corruptNew \cup {m} |->
                             IF n = m THEN toImport[m] ELSE corruptNew[n]]
    /\ UNCHANGED <<db, event, untold, skipped>>

(* The file is not there; or it cannot be opened, inspected or hashed, or    *)
(* its row cannot be written.                                                *)
SkipMap(m) ==
    /\ Costs(disk[m] # 0)
    /\ skipped' = skipped \cup {m}
    /\ UNCHANGED <<corruptNew, db, event, untold, misread>>

Import(m) ==
    /\ Going("import") /\ m \in DOMAIN toImport
    /\ toImport' = [n \in DOMAIN toImport \ {m} |-> toImport[n]]
    /\ InsertMap(m) \/ RejectMap(m) \/ SkipMap(m)
    /\ UNCHANGED <<directory, screen, runtimeEvents, control, at, request, databaseReady,
                   mapsInDB, mustCheck, rated, startupRan, unread, silent, gone, ghosts, served,
                   packed, unsaid>>

(* importBeatmapsContext: the workers take the files in any order.           *)
ImportBeatmaps == \E m \in Maps : Import(m)

(* tombstoneCorruptCatalogEntries                                            *)
Tombstone ==
    /\ Going("import") /\ DOMAIN toImport = {} /\ GoTo("report")
    /\ \E written \in {corruptNew, Nothing} :
          /\ Costs(written # corruptNew)
          /\ db' = With(db, [m \in DOMAIN written |-> Row("invalid", written[m])])
          /\ skipped' = skipped \cup (DOMAIN corruptNew \ DOMAIN written)
    /\ corruptNew' = Nothing
    /\ UNCHANGED <<directory, screen, runtimeEvents, control, request, databaseReady, mapsInDB,
                   mustCheck, toImport, rated, event, startupRan, unread, silent, gone, ghosts,
                   served, misread, packed, telling>>

(* The empty update after a full pass carries the continuations.             *)
ReportDone ==
    /\ Ready("report")
    /\ Publish(Report("delta", Nothing, request.callbacks))
    /\ served' = (request.generation = catalogGeneration)
    /\ unsaid' = untold
    /\ GoTo(IF skipMapUpdate THEN "finish" ELSE "rate")
    /\ UNCHANGED <<world, screen, runtimeEvents, control, request, databaseReady, db, pass,
                   startupRan, unread, silent, gone, ghosts, reading, untold>>

(* UpdateCatalogStarRatingContext reads the files of the rows whose rating   *)
(* is out of date, and writes those rows whole when all are calculated.      *)
Loads(m) == disk[m] \notin Corrupt \cup {0}
Calculated(ms) == [m \in ms |-> Row("complete", disk[m])]

LoadRatings ==
    /\ Going("rate")
    /\ \E stale \in SUBSET {m \in Listed(db) : db[m].state = "complete"} :
          rated' = Calculated({m \in stale : Loads(m)})
    /\ GoTo(IF DOMAIN rated' = {} THEN "finish" ELSE "rating")
    /\ UNCHANGED <<world, screen, runtimeEvents, control, request, databaseReady, db,
                   mapsInDB, mustCheck, toImport, corruptNew, event, history>>

WriteRatings ==
    /\ Going("rating") /\ GoTo("finish")
    /\ \E lost \in BOOLEAN : Costs(lost) /\ Announce(With(db, rated), rated, lost)
    /\ rated' = Nothing
    /\ UNCHANGED <<directory, screen, runtimeEvents, control, request, databaseReady, mapsInDB,
                   mustCheck, toImport, corruptNew, startupRan, unread, silent, gone, ghosts,
                   served, reading, unsaid>>

Finish ==
    /\ Ready("finish") /\ GoTo("take")
    /\ activeCancel' = FALSE /\ canceled' = closed /\ request' = NoRequest
    /\ mapsInDB' = [m \in Maps |-> NoRow] /\ mustCheck' = {} /\ toImport' = Nothing
    /\ corruptNew' = Nothing /\ rated' = Nothing
    /\ UNCHANGED <<world, screen, runtimeEvents, pending, wake, closed, databaseReady, db,
                   event, history>>

-----------------------------------------------------------------------------
User == AutoRefresh \/ Close \/ \E m \in Maps : SelectMap(m) \/ \E v \in Versions : DropArchive(m, v)

Refresh ==
    \/ PostEvent \/ Idle \/ TakePending \/ SetActiveCancel \/ PublishCached
    \/ SeedFromStable \/ UnpackMaps \/ Scan \/ ImportBeatmaps \/ Tombstone
    \/ ReportDone \/ LoadRatings \/ WriteRatings \/ Finish
    \/ \E step \in {"seed", "unpack", "scan", "import", "rate", "rating"} : Abort(step)

(* Nothing is left to do.                                                    *)
Quiet ==
    /\ at = "idle" /\ ~wake /\ event = NoEvent /\ ~closed
    /\ runtimeEvents = <<>> /\ watch = "none" /\ ~fsEvents /\ ~beatmapDirUpdated

AtRest == (Quiet \/ at = "done") /\ UNCHANGED vars

Next ==
    \/ \E m \in Maps, v \in Versions : ChangeFile(m, v)
    \/ WatcherWakes \/ WatcherPosts \/ DrainEvent \/ User \/ Refresh \/ AtRest

Spec == Init /\ [][Next]_vars

(* The goroutines and the frame loop make progress; the loop refreshes when  *)
(* a change is due.                                                          *)
FairSpec == /\ Spec /\ WF_vars(Refresh) /\ WF_vars(DrainEvent) /\ WF_vars(AutoRefresh)
            /\ WF_vars(WatcherWakes) /\ WF_vars(WatcherPosts)

-----------------------------------------------------------------------------
(* Properties.                                                               *)

TypeOK ==
    /\ disk \in [Maps -> Versions] /\ archives \in [Maps -> Versions]
    /\ watch \in {"none", "posting", "queued"}
    /\ catalog \in [Maps -> Rows] /\ db \in [Maps -> Rows]
    /\ \A m \in Maps : Visible(catalog[m]) = catalog[m]
    /\ snapshotGeneration \in 0..catalogGeneration
    /\ Len(runtimeEvents) <= QueueCapacity
    /\ pending.generation \in {0, catalogGeneration}
    /\ request.generation \in 0..catalogGeneration
    /\ request.callbacks \cup pending.callbacks \subseteq Callbacks
    /\ activeCancel = (at \notin {"idle", "take", "arm", "done"})
    /\ DOMAIN toImport \subseteq Maps
    /\ DOMAIN rated \subseteq Maps /\ DOMAIN corruptNew \subseteq Maps
    /\ skipped \cup misread \cup packed \cup untold \cup unsaid \subseteq Maps

(* Types; and at rest the launcher shows the database, whatever was          *)
(* cancelled, dropped as stale or published piecemeal on the way             *)
(* (publishCachedCatalog, applyEvent).  Two exceptions: a row removed for    *)
(* its missing file during a refresh, which an older result may show again;  *)
(* a map whose last report was lost because the catalog could not be read.   *)
ShowsDatabase ==
    /\ TypeOK
    /\ Quiet /\ databaseReady =>
           \A m \in Maps \ (ghosts \cup untold) : catalog[m] = Visible(db[m])

(* At rest after a full pass the database agrees with the Songs directory:   *)
(* no change the watcher sees is lost, however it falls into a running,      *)
(* cancelled or superseded pass (importMapsContext, postBeatmapChangedEvent).*)
(* Edits inside a set after the scan wait for the next refresh, and so do    *)
(* files that cannot be read or whose row cannot be written.                 *)
Agrees(m) ==
    IF disk[m] = 0 THEN db[m] = NoRow
    ELSE IF disk[m] \in Corrupt THEN db[m] # NoRow
    ELSE db[m] = Row("complete", disk[m])

MatchesDirectory ==
    Quiet /\ served /\ unread = {} =>
        \A m \in Maps \ (silent \cup skipped \cup misread) :
            IF skipMapUpdate THEN disk[m] # 0 => db[m] # NoRow ELSE Agrees(m)

(* A row disappears only when its file was gone at some time since the pass  *)
(* began to compare: never for a directory that could not be read, a file    *)
(* that was replaced by a broken one, or a pass that skips known directories *)
(* (scan.complete, hadPrevious, effectiveSkipDatabaseCheck).                 *)
RemovedOnlyIfGone ==
    [][\A m \in Listed(db) : Visible(db'[m]) = NoRow => m \in gone \/ disk[m] = 0]_vars

(* "request callbacks run only after the full pass succeeds"                 *)
(* (catalog_coordinator.go:240): the continuation of a dropped archive finds *)
(* the archive unpacked, unless the pass had to leave it, and its map in the *)
(* catalog, if the pass could read the map and report it.                    *)
Continues(m) == /\ runtimeEvents # <<>> /\ runtimeEvents' = Tail(runtimeEvents)
                /\ Head(runtimeEvents).kind \in {"snapshot", "delta"} /\ Current(Head(runtimeEvents))
                /\ m \in Head(runtimeEvents).callbacks

ContinuationSeesImport ==
    [][\A m \in Maps : Continues(m) =>
         /\ archives[m] = 0 \/ m \in packed
         /\ disk[m] \notin Corrupt \cup {0}
            /\ m \notin unread \cup silent \cup gone \cup skipped \cup misread \cup unsaid
              => IF skipMapUpdate THEN catalog[m] # NoRow \/ db[m].state = "invalid"
                 ELSE catalog[m] = Row("complete", disk[m])]_vars

(* Everything comes to rest, or the coordinator is joined by the shutdown,   *)
(* with the queue full or not (close, postEventContext).                     *)
ComesToRest == <>[](Quiet \/ at = "done")

(* "retaining all continuations that belong to the latest refresh trigger"   *)
(* (catalog_coordinator.go:71): at rest after a full pass the startup        *)
(* selection has run.                                                        *)
StartupContinues == Quiet /\ served => startupRan
=============================================================================
